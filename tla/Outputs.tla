------------------------------ MODULE Outputs ------------------------------
(***************************************************************************)
(* The outputs of the T3-8AI8AO6DO and their hand-off-auto switches: the   *)
(* KEY task scans the switches (KEY/key.c), the OUTPUTS task drives the    *)
(* timers (OUTPUT/output.c), both of one priority and sliced by the tick;  *)
(* the COMM task sets the values and stores them (USER/modbus_regOp.c),    *)
(* and start-up reads them again (USER/main.c).                            *)
(***************************************************************************)
EXTENDS Naturals, FiniteSets

CONSTANTS
  Analog, Digital,      \* channels, MAX_AO and MAX_DO
  Half,                 \* an analog value is two bytes, of Half values; 256
  Full,                 \* and at most 1000
  Commands,             \* what a master writes to an analog output
  MaxCommands, MaxMoves, MaxCrashes, MaxTears   \* bounds

Output == Analog \cup Digital

ASSUME OutputsAssumption ==
  /\ IsFiniteSet(Output) /\ Analog \cap Digital = {} /\ "none" \notin Output
  /\ Half \in Nat \ {0, 1} /\ Full \in Nat \ {0} /\ Full < Half * Half - 1
  /\ Commands \subseteq 0 .. Half * Half - 1
  /\ MaxCommands \in Nat /\ MaxMoves \in Nat /\ MaxCrashes \in Nat
  /\ MaxTears \in Nat

VARIABLES
  position,             \* of each switch
  switch_state_buf, switch_gourp,       \* as scanned; as the OUTPUTS task reads them
  key,                  \* the next statement of KEY_Status_Scan
  refresh,              \* the outputs this pass has still to drive
  driving,              \* the one it is at, with its switch as it was read
  output,               \* modbus.analog_output, modbus.digit_output
  duty,                 \* what the timers put out, 0 .. Full
  lo, hi,               \* the bytes in EEPROM; a digital output has lo only
  store,                \* what COMM is storing
  command,              \* history: the last value asked for; in AUTO ever since?
  undisturbed,
  tears,                \* how often OUTPUTS read a switch amid its update
  cut,                  \* history: a crash amid a store
  commands, moves, crashes

outputsVars == <<position, switch_state_buf, switch_gourp, key, refresh, driving, output,
                 duty, lo, hi, store, command, undisturbed, tears, cut, commands, moves, crashes>>
keyVars == <<switch_state_buf, switch_gourp, key>>
driven == <<refresh, driving, output, duty, tears>>
memory == <<lo, hi, store, command, cut, commands>>

Switch == {"off", "hand", "auto"}
Undriven == [output |-> "none", oneswitch_buf |-> "off"]
Nowhere == [output |-> "none", value |-> 0, bytes |-> 0]
Unasked == Half * Half
Clear == Half - 1       \* an erased byte

OutputsInit ==          \* a module left with its outputs off, after EEP_Dat_Init
  /\ position \in [Output -> {"auto"}]
  /\ switch_state_buf = [c \in Output |-> "off"] /\ switch_gourp = [c \in Output |-> "off"]
  /\ key = "scan" /\ refresh = Output /\ driving = Undriven /\ duty = [c \in Output |-> 0]
  /\ output = [c \in Output |-> 0]
  /\ lo = [c \in Output |-> 0] /\ hi = [c \in Output |-> 0] /\ store = Nowhere
  /\ command = [c \in Output |-> Unasked] /\ undisturbed = [c \in Output |-> FALSE]
  /\ tears = 0 /\ cut = FALSE /\ commands = 0 /\ moves = 0 /\ crashes = 0

Move(c, p) ==
  /\ position[c] # p /\ moves < MaxMoves /\ moves' = moves + 1
  /\ position' = [position EXCEPT ![c] = p]
  /\ undisturbed' = [undisturbed EXCEPT ![c] = FALSE]
  /\ UNCHANGED <<keyVars, driven, memory, crashes>>

-----------------------------------------------------------------------------
(* The KEY task, statement by statement.                                   *)
KeyStep(from, to) ==
  /\ key = from /\ key' = to
  /\ UNCHANGED <<position, driven, memory, undisturbed, moves, crashes>>

key_analyse ==
  /\ KeyStep("scan", "clear 0")
  /\ switch_state_buf' = position /\ UNCHANGED switch_gourp

Group(group, values) ==
  /\ switch_gourp' = [c \in Output |-> IF c \in group THEN values[c] ELSE switch_gourp[c]]
  /\ UNCHANGED switch_state_buf

AllOff == [c \in Output |-> "off"]

KEY_Status_Scan ==
  \/ key_analyse
  \/ KeyStep("clear 0", "clear 1") /\ Group(Digital, AllOff)
  \/ KeyStep("clear 1", "shift") /\ Group(Analog, AllOff)
  \/ \E values \in [Digital -> Switch] :      \* of other switches
       KeyStep("shift", "group 0") /\ Group(Digital, values)
  \/ KeyStep("group 0", "group 1") /\ Group(Digital, switch_state_buf)
  \/ KeyStep("group 1", "scan") /\ Group(Analog, switch_state_buf)

-----------------------------------------------------------------------------
(* The OUTPUTS task: output_refresh, then update_digit_output, an output   *)
(* at a time; then it sleeps.  It copies a switch and acts on the copy: in *)
(* between KEY may scan, and COMM may set the output.  No task reads what  *)
(* a timer is given, so that it is given in the step that writes back.     *)
ReadSwitch(c) ==
  /\ driving = Undriven /\ c \in refresh /\ (c \in Digital => refresh \cap Analog = {})
  /\ driving' = [output |-> c, oneswitch_buf |-> switch_gourp[c]]
  /\ IF switch_gourp[c] = switch_state_buf[c] THEN UNCHANGED <<undisturbed, tears>>
     ELSE /\ tears < MaxTears /\ tears' = tears + 1
          /\ undisturbed' = [undisturbed EXCEPT ![c] = FALSE]
  /\ UNCHANGED <<position, keyVars, refresh, output, duty, memory, moves, crashes>>

\* digit_output is asked twice: is it 1?  If not, is it 0?
AskedForOne == driving.output \in Digital /\ driving.oneswitch_buf = "auto"
NotOne ==
  /\ AskedForOne /\ output[driving.output] # 1
  /\ driving' = [driving EXCEPT !.oneswitch_buf = "not one"]
  /\ UNCHANGED <<position, keyVars, refresh, output, duty, tears, memory, undisturbed, moves, crashes>>

\* Deviant: what is not in hand is off.
AnalogNowNoAuto(c) == IF driving.oneswitch_buf = "hand" THEN Full ELSE 0

AnalogNow(c) ==
  CASE driving.oneswitch_buf = "off" -> 0 [] driving.oneswitch_buf = "hand" -> Full
    [] OTHER -> output[c]

\* Deviant: a digital output in auto is never switched off.
DigitalDutyOn(c) ==
  CASE driving.oneswitch_buf = "off" -> 0 [] driving.oneswitch_buf = "not one" -> duty[c]
    [] OTHER -> Full

DigitalDuty(c) ==
  CASE driving.oneswitch_buf = "off" -> 0
    [] driving.oneswitch_buf = "not one" -> IF output[c] = 0 THEN 0 ELSE duty[c]
    [] OTHER -> Full

Drive(c) ==             \* set_output, and the value that output_refresh writes back
  /\ driving.output = c /\ refresh' = refresh \ {c} /\ driving' = Undriven
  /\ AskedForOne => output[c] = 1
  /\ IF c \in Analog
     THEN /\ output' = [output EXCEPT ![c] = AnalogNow(c)]
          /\ duty' = [duty EXCEPT ![c] = AnalogNow(c)]
     ELSE duty' = [duty EXCEPT ![c] = DigitalDuty(c)] /\ UNCHANGED output
  /\ UNCHANGED <<position, keyVars, tears, memory, undisturbed, moves, crashes>>

WakeOutputs ==          \* delay_ms(100)
  /\ refresh = {} /\ refresh' = Output
  /\ UNCHANGED <<position, keyVars, driving, output, duty, tears, memory, undisturbed, moves, crashes>>

OutputsTask == (\E c \in Output : ReadSwitch(c) \/ Drive(c)) \/ NotOne \/ WakeOutputs

-----------------------------------------------------------------------------
(* The COMM task: write_register_modbus, and its bytes one by one.         *)
Limited(v) == IF v > Full THEN Full ELSE v

\* What the switch is, and is known to be to KEY, to all, and to OUTPUTS.
KnownAuto(c) ==
  /\ position[c] = "auto" /\ switch_state_buf[c] = "auto" /\ switch_gourp[c] = "auto"
  /\ driving.output = c => driving.oneswitch_buf = "auto"

SetOutput(c, v) ==      \* the frame stays as it is until the value is stored
  LET value == IF c \in Analog THEN Limited(v) ELSE IF v > 1 THEN 1 ELSE v
  IN /\ store = Nowhere /\ commands < MaxCommands /\ commands' = commands + 1
     /\ output' = [output EXCEPT ![c] = value]
     /\ store' = [output |-> c, value |-> IF c \in Analog THEN v ELSE value,
                  bytes |-> IF c \in Analog THEN 2 ELSE 1]
     /\ command' = [command EXCEPT ![c] = value]
     /\ undisturbed' = [undisturbed EXCEPT ![c] = c \in Analog /\ KnownAuto(c)]
     /\ UNCHANGED <<position, keyVars, refresh, driving, duty, tears, lo, hi, cut, moves, crashes>>

\* Deviant: the high byte is taken for 0.
StoreOutputLow ==
  LET c == store.output  first == store.bytes = (IF c \in Analog THEN 2 ELSE 1)
  IN /\ store # Nowhere
     /\ IF first THEN lo' = [lo EXCEPT ![c] = store.value % Half] /\ UNCHANGED hi
                 ELSE hi' = [hi EXCEPT ![c] = 0] /\ UNCHANGED lo
     /\ store' = IF store.bytes = 1 THEN Nowhere ELSE [store EXCEPT !.bytes = 1]
     /\ UNCHANGED <<position, keyVars, driven, command, undisturbed, cut, commands, moves, crashes>>

StoreOutput ==          \* the value as it was written, unlimited
  LET c == store.output  first == store.bytes = (IF c \in Analog THEN 2 ELSE 1)
  IN /\ store # Nowhere
     /\ IF first THEN lo' = [lo EXCEPT ![c] = store.value % Half] /\ UNCHANGED hi
                 ELSE hi' = [hi EXCEPT ![c] = store.value \div Half] /\ UNCHANGED lo
     /\ store' = IF store.bytes = 1 THEN Nowhere ELSE [store EXCEPT !.bytes = 1]
     /\ UNCHANGED <<position, keyVars, driven, command, undisturbed, cut, commands, moves, crashes>>

\* What EEP_Dat_Init makes of the bytes of an output.
BytesErased(c) == c \in Analog /\ lo[c] = Clear /\ hi[c] = Clear
AtStart(c) ==
  IF c \in Analog THEN IF BytesErased(c) THEN 0 ELSE hi[c] * Half + lo[c]
                  ELSE IF lo[c] > 1 THEN 1 ELSE lo[c]

Crash ==                \* and start-up; nothing is in the groups yet
  /\ crashes < MaxCrashes /\ crashes' = crashes + 1
  /\ output' = [c \in Output |-> AtStart(c)] /\ duty' = [c \in Output |-> 0]
  /\ switch_gourp' = AllOff /\ switch_state_buf' = AllOff /\ key' = "scan"
  /\ refresh' = Output /\ driving' = Undriven
  /\ lo' = [c \in Output |-> IF BytesErased(c) THEN 0 ELSE lo[c]]   \* a digital one is 0 or 1
  /\ hi' = [c \in Output |-> IF BytesErased(c) THEN 0 ELSE hi[c]]
  /\ cut' = (cut \/ store # Nowhere) /\ store' = Nowhere
  /\ undisturbed' = [c \in Output |-> FALSE]
  /\ UNCHANGED <<position, tears, command, commands, moves>>

OutputsNext ==
  \/ \E c \in Output, p \in Switch : Move(c, p)
  \/ KEY_Status_Scan \/ OutputsTask
  \/ \E c \in Output : \E v \in IF c \in Analog THEN Commands ELSE {0, 1} : SetOutput(c, v)
  \/ StoreOutput \/ Crash

OutputsSpec == OutputsInit /\ [][OutputsNext]_outputsVars
OutputsFair ==
  /\ WF_outputsVars(KEY_Status_Scan) /\ SF_outputsVars(OutputsTask) /\ WF_outputsVars(StoreOutput)

-----------------------------------------------------------------------------
(* Type invariant of the outputs.  An analog one may exceed Full: start-up
   reads what was stored, unlimited or of two commands. *)
OutputsTypeOK ==
  /\ position \in [Output -> Switch] /\ switch_gourp \in [Output -> Switch]
  /\ refresh \subseteq Output /\ (driving = Undriven \/ driving.output \in refresh)
  /\ \A c \in Output : LET most == IF c \in Analog THEN Half * Half - 1 ELSE 1
                        IN  output[c] \in 0 .. most /\ duty[c] \in {0, Full} \cup 0 .. most
  /\ lo \in [Output -> 0 .. Half - 1] /\ hi \in [Output -> 0 .. Half - 1]

(* An analog output that is asked for a value while its switch is in AUTO,
   and known to be, and that is left there, keeps the value, unless OUTPUTS
   then reads the switch while KEY renews it: the groups pass through zero,
   which is OFF, and OFF overwrites the value.  Nor is it kept if OUTPUTS
   still holds an older reading of the switch as the value comes. *)
CommandKept == \A c \in Analog : undisturbed[c] => output[c] = command[c]

(* Between stores, start-up would read the last value asked for of every
   output, wherever its switch is and whatever a hand position made of the
   value in use; unless the module stopped amid a store. *)
StoredCommand ==
  cut \/ store # Nowhere \/ \A c \in Output : command[c] # Unasked => AtStart(c) = command[c]

(* However their reads and updates are torn, the outputs again and again
   agree with the switches: a wrong reading lasts for one pass. *)
OutputsFollow == \A c \in Output : []<>(
  duty[c] = CASE position[c] = "off" -> 0 [] position[c] = "hand" -> Full
              [] OTHER -> IF c \in Analog THEN output[c] ELSE IF output[c] = 1 THEN Full ELSE 0)
=============================================================================
