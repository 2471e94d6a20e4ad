----------------------------- MODULE PulseStore -----------------------------
(***************************************************************************)
(* Pulse counters, counted by the INPUTS task and in interrupts, stored    *)
(* byte by byte by the STORE_EEP task, cleared by the master, read at      *)
(* start-up.  A byte is stored in one step, whole (EepromBus says when).   *)
(***************************************************************************)
EXTENDS Integers

CONSTANTS
  Channels,             \* MAX_AI_CHANNEL, 22
  FirstPolled,          \* those below are counted in interrupts; 11
  Quarters, Base,       \* a counter is 4 bytes of 256 values
  Place,                \* the weight of each byte, and at last their number of values
  CountsDuringStore,    \* may a counter change while its bytes are written?
  MaxPulses, MaxResets, MaxOutages     \* bounds

Channel == 0 .. Channels - 1

ASSUME PulseAssumption ==
  /\ Channels \in Nat \ {0} /\ FirstPolled \in Nat
  /\ Quarters \in Nat \ {0} /\ Base \in Nat \ {0, 1}
  /\ Place \in [0 .. Quarters -> Nat] /\ Place[0] = 1
  /\ \A i \in 0 .. Quarters - 1 : Place[i + 1] = Base * Place[i]
  /\ CountsDuringStore \in BOOLEAN
  /\ MaxPulses \in Nat /\ MaxResets \in Nat /\ MaxOutages \in Nat
  /\ MaxPulses < Place[Quarters] - 1

VARIABLES
  word,                 \* the counters, modbus.pulse
  data_change,
  stored,               \* their bytes in EEPROM, the least significant first: a number
  loop, storing, quarter,       \* STORE_EEP: the channel; is it stored, which byte
  clearing,             \* COMM: the channel it clears and the byte, or none
  counted,              \* history: the pulses there were since it was cleared
  resets, outages

pulseVars == <<word, data_change, stored, loop, storing, quarter, clearing, counted, resets, outages>>

Powers == [i \in 0 .. Quarters |-> Base ^ i]    \* what Place is

ByteOf(w, i) == (w \div Place[i]) % Base
WithByte(w, i, b) == w + (b - ByteOf(w, i)) * Place[i]
ErasedCounter == Place[Quarters] - 1   \* all bytes are

NoChannel == [channel |-> Channels, quarter |-> 0]

PulseInit ==            \* a new EEPROM, and start-up that clears what is erased
  /\ stored = [c \in Channel |-> 0] /\ word = [c \in Channel |-> 0]
  /\ data_change = [c \in Channel |-> FALSE]
  /\ loop = 0 /\ storing = FALSE /\ quarter = 0
  /\ clearing = NoChannel
  /\ counted = [c \in Channel |-> 0] /\ resets = 0 /\ outages = 0

BeingStored(c) == storing /\ loop = c
BeingCleared(c) == clearing.channel = c

Pulse(c) ==             \* inputs_scan; in an interrupt, data_change is not set
  /\ CountsDuringStore \/ ~(BeingStored(c) \/ BeingCleared(c))
  /\ counted[c] < MaxPulses
  /\ word' = [word EXCEPT ![c] = (@ + 1) % Place[Quarters]]
  /\ data_change' = [data_change EXCEPT ![c] = @ \/ c >= FirstPolled]
  /\ counted' = [counted EXCEPT ![c] = @ + 1]
  /\ UNCHANGED <<stored, loop, storing, quarter, clearing, resets, outages>>

(* vSTORE_EEPTask *)
Look ==
  /\ loop < Channels /\ ~storing
  /\ IF data_change[loop] THEN storing' = TRUE /\ UNCHANGED loop
                          ELSE loop' = loop + 1 /\ UNCHANGED storing
  /\ UNCHANGED <<word, data_change, stored, quarter, clearing, counted, resets, outages>>

\* Deviant: the most significant byte first.
StoreQuarterHighFirst ==
  /\ storing /\ quarter < Quarters
  /\ LET i == Quarters - 1 - quarter
     IN stored' = [stored EXCEPT ![loop] = WithByte(@, i, ByteOf(word[loop], i))]
  /\ quarter' = quarter + 1
  /\ UNCHANGED <<word, data_change, loop, storing, clearing, counted, resets, outages>>

StoreQuarter ==
  /\ storing /\ quarter < Quarters
  /\ stored' = [stored EXCEPT ![loop] = WithByte(@, quarter, ByteOf(word[loop], quarter))]
  /\ quarter' = quarter + 1
  /\ UNCHANGED <<word, data_change, loop, storing, clearing, counted, resets, outages>>

\* Deviant: the flags of all channels are cleared.
ClearAllChanges ==
  /\ storing /\ quarter = Quarters
  /\ data_change' = [c \in Channel |-> FALSE]
  /\ loop' = loop + 1 /\ storing' = FALSE /\ quarter' = 0
  /\ UNCHANGED <<word, stored, clearing, counted, resets, outages>>

ClearChange ==
  /\ storing /\ quarter = Quarters
  /\ data_change' = [data_change EXCEPT ![loop] = FALSE]
  /\ loop' = loop + 1 /\ storing' = FALSE /\ quarter' = 0
  /\ UNCHANGED <<word, stored, clearing, counted, resets, outages>>

Sleep ==                \* delay_ms(3000)
  /\ loop = Channels /\ loop' = 0
  /\ UNCHANGED <<word, data_change, stored, storing, quarter, clearing, counted, resets, outages>>

StoreTask == Look \/ StoreQuarter \/ ClearChange \/ Sleep

(* write_register_modbus: a write to the input of a counter *)
ClearCounter(c) ==
  /\ clearing = NoChannel /\ resets < MaxResets
  /\ CountsDuringStore \/ ~BeingStored(c)
  /\ word' = [word EXCEPT ![c] = 0]
  /\ clearing' = [channel |-> c, quarter |-> 0] /\ resets' = resets + 1
  /\ UNCHANGED <<data_change, stored, loop, storing, quarter, counted, outages>>

ClearQuarter ==
  LET c == clearing.channel  i == clearing.quarter
  IN /\ clearing # NoChannel
     /\ stored' = [stored EXCEPT ![c] = WithByte(@, i, ByteOf(word[c], i))]
     /\ IF i + 1 < Quarters
        THEN clearing' = [clearing EXCEPT !.quarter = i + 1] /\ UNCHANGED counted
        ELSE clearing' = NoChannel /\ counted' = [counted EXCEPT ![c] = word[c]]
     /\ UNCHANGED <<word, data_change, loop, storing, quarter, resets, outages>>

Outage ==         \* and EEP_Dat_Init, which reads the counters again
  /\ outages < MaxOutages /\ outages' = outages + 1
  /\ stored' = [c \in Channel |-> IF stored[c] = ErasedCounter THEN 0 ELSE stored[c]]
  /\ word' = stored'
  /\ data_change' = [c \in Channel |-> FALSE]
  /\ loop' = 0 /\ storing' = FALSE /\ quarter' = 0 /\ clearing' = NoChannel
  /\ UNCHANGED <<counted, resets>>

PulseNext ==
  \/ \E c \in Channel : Pulse(c) \/ ClearCounter(c)
  \/ StoreTask \/ ClearQuarter \/ Outage

PulseSpec == PulseInit /\ [][PulseNext]_pulseVars
PulseFair == WF_pulseVars(StoreTask) /\ WF_pulseVars(ClearQuarter)
PulseFairSpec == PulseSpec /\ PulseFair

-----------------------------------------------------------------------------
(* Type invariant of the counters. *)
PulseTypeOK ==
  /\ word \in [Channel -> 0 .. ErasedCounter] /\ stored \in [Channel -> 0 .. ErasedCounter]
  /\ data_change \in [Channel -> BOOLEAN]
  /\ loop \in 0 .. Channels /\ quarter \in 0 .. Quarters /\ storing \in BOOLEAN
  /\ clearing.channel \in Channel \cup {Channels} /\ clearing.quarter \in 0 .. Quarters - 1

(* However the store, a reset and a power failure meet, a counter never shows
   more pulses than there were since it was last cleared. *)
NeverCountsExtra == \A c \in Channel : word[c] <= counted[c]

(* In the end what is stored is what was counted. *)
StoredInTheEnd == \A c \in Channel : []<>(stored[c] = word[c])
=============================================================================
