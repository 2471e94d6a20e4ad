\* Pulses may come while the bytes of their counter are written.
SPECIFICATION PulseFairSpec
CONSTANTS
  Channels = 2
  FirstPolled = 0
  Quarters = 2
  Base = 3
  Place <- Powers
  CountsDuringStore = TRUE
  MaxPulses = 3
  MaxResets = 0
  MaxOutages = 0
PROPERTY StoredInTheEnd
CHECK_DEADLOCK FALSE
