\* Seven parts of the device, one at a time.
SPECIFICATION DeviceSpec
CONSTANTS
  \* EepromBus
  Task = {"COMM", "STORE_EEP", "NET"}
  Priority <- MCPriority
  Writes <- MCWrites
  Cells = 3
  NoCall = NoCall
  WriteCycle = "short"
  MaxCalls = 3
  \* PulseStore
  Channels = 2
  FirstPolled = 0
  Quarters = 2
  Base = 3
  Place <- Powers
  CountsDuringStore = FALSE
  MaxPulses = 3
  MaxResets = 1
  MaxOutages = 1
  \* Settings
  Serial = {"s", "t"}
  IpAddress = {"a", "b"}
  ZeroByte = {}
  DefaultAddress = "d"
  Modes = {"static"}
  Polls = 2
  FactoryResetAlone = TRUE
  MaxRequests = 4
  MaxFailures = 1
  \* TcpModbus
  Client = {"a", "b"}
  Nobody = "nobody"
  Conns = 3
  Units = {"us", "other"}
  Lengths = {1, 2}
  MaxAsked = 2
  MaxConnects = 2
  MaxFaults = 1
  \* Outputs
  Analog = {"ao0"}
  Digital = {"do0"}
  Half = 3
  Full = 6
  Commands = {2, 5}
  MaxCommands = 1
  MaxMoves = 1
  MaxTears = 1
  MaxCrashes = 1
  \* AnalogInputs
  Levels = {0, 4095}
  Weights = {0, 5, 15}
  DefaultFilter = 5
  MaxSignals = 1
  MaxSettings = 2
  \* Ranges
  Calibration = 0
  Garbage = {0, 500}
INVARIANTS
  DeviceTypeOK
  NeverCountsExtra
  SerialWhole StoredIsLive AddressWhole
  OwnReply WholeReply
  CommandKept StoredCommand
  NoExtraPulses
PROPERTIES
  StoresOnlyCalls LandsWhenAlone
  StoredInTheEnd
  AddressTakesEffect
  Served
  OutputsFollow
  FilterBetween FilterSettles
  OneWay
CHECK_DEADLOCK FALSE
