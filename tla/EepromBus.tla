----------------------------- MODULE EepromBus -----------------------------
(***************************************************************************)
(* Three tasks write bytes to one serial EEPROM, bit by bit over two pins  *)
(* and with no lock: AT24CXX_WriteOneByte (HARDWARE/24CXX/24cxx.c).  A     *)
(* task runs while none of higher priority is ready; a byte on the bus is  *)
(* one step, the chip is external.                                         *)
(***************************************************************************)
EXTENDS Integers

CONSTANTS
  Task,
  Priority,             \* of each: COMM 3, STORE_EEP 2, NET 1
  Writes,               \* what each may be asked to write: sets of calls
  Cells,                \* addresses are 0 .. Cells - 1; 256
  NoCall,
  WriteCycle,           \* of the chip: "none", "short", over when its writer goes on, or "long"
  MaxCalls              \* bound on the calls made

Address == 0 .. Cells - 1

ASSUME BusAssumption ==
  /\ Priority \in [Task -> Nat]
  /\ \A t, u \in Task : Priority[t] = Priority[u] => t = u
  /\ Cells \in Nat \ {0} /\ MaxCalls \in Nat /\ WriteCycle \in {"none", "short", "long"}
  /\ \A t \in Task : \A c \in Writes[t] :
       c = [addr |-> c.addr, data |-> c.data] /\ c.addr \in Address /\ c # NoCall

VARIABLES
  cells,                \* the memory of the chip
  chip,                 \* its side of the transaction
  busy,                 \* it is writing what it was sent
  wp,                   \* the write protection pin
  at,                   \* where each task is in AT24CXX_WriteOneByte
  call,                 \* the arguments
  alone,                \* history: no other call was made since this one began
  made

busVars == <<cells, chip, busy, wp, at, call, alone, made>>

Device == 160
Erased == 255
Byte == {Device, Erased} \cup Address \cup {c.data : c \in UNION {Writes[t] : t \in Task}}

NoPage == [a \in {} |-> Erased]
Over(f, g) == [x \in DOMAIN f \cup DOMAIN g |-> IF x \in DOMAIN f THEN f[x] ELSE g[x]]

Asleep == {"idle", "released", "written"}
Runs(t) == \A u \in Task : Priority[u] > Priority[t] => at[u] \in Asleep

BusInit ==
  /\ cells = [a \in Address |-> Erased]
  /\ chip = [expect |-> "start", addr |-> 0, page |-> NoPage]
  /\ busy = FALSE /\ wp = 1
  /\ at = [t \in Task |-> "idle"] /\ call = [t \in Task |-> NoCall]
  /\ alone = [t \in Task |-> FALSE] /\ made = 0

Goto(t, from, to) == at[t] = from /\ at' = [at EXCEPT ![t] = to]

\* Deviant: the write protection is not released.
WriteOneByteProtected(t, c) ==
  /\ Runs(t) /\ made < MaxCalls /\ made' = made + 1
  /\ Goto(t, "idle", "released")
  /\ call' = [call EXCEPT ![t] = c]
  /\ alone' = [u \in Task |-> u = t /\ \A v \in Task \ {t} : at[v] = "idle"]
  /\ UNCHANGED <<cells, chip, busy, wp>>

WriteOneByte(t, c) ==   \* IIC_WP = 0; delay_ms(1)
  /\ Runs(t) /\ made < MaxCalls /\ made' = made + 1
  /\ Goto(t, "idle", "released")
  /\ wp' = 0 /\ call' = [call EXCEPT ![t] = c]
  /\ alone' = [u \in Task |-> u = t /\ \A v \in Task \ {t} : at[v] = "idle"]
  /\ UNCHANGED <<cells, chip, busy>>

Wake(t) ==
  /\ Goto(t, "released", "start")
  /\ UNCHANGED <<cells, chip, busy, wp, call, alone, made>>

(* External: the chip.  It writes its page at a stop; a start makes it     *)
(* listen again, dropping the page.                                        *)
Listening == [chip EXCEPT !.expect = "device", !.page = NoPage]
Released  == [chip EXCEPT !.expect = "start", !.page = NoPage]

Takes(b) ==
  CASE chip.expect = "device"  -> [chip EXCEPT !.expect = "address"]
    [] chip.expect = "address" -> [chip EXCEPT !.expect = "data", !.addr = b % Cells]
    [] chip.expect = "data"    -> [chip EXCEPT !.addr = (@ + 1) % Cells,
                                               !.page = Over([a \in {chip.addr} |-> b], @)]
    [] OTHER                   -> chip

Written == IF wp = 0 THEN Over(chip.page, cells) ELSE cells

\* Deviant: no start condition on a bus another task left in mid-transaction.
NoStart(t) ==
  /\ Runs(t) /\ Goto(t, "start", "device")
  /\ chip' = IF chip.expect = "start" THEN Listening ELSE chip
  /\ UNCHANGED <<cells, busy, wp, call, alone, made>>

\* In the middle of the stop of another task, SDA rises first: that is the stop.
IIC_Start(t) ==
  /\ Runs(t) /\ Goto(t, "start", "device")
  /\ \/ /\ chip' = IF busy THEN chip ELSE Listening
        /\ UNCHANGED <<cells, busy>>
     \/ /\ chip.page # NoPage /\ wp = 0
        /\ cells' = Written /\ busy' = (WriteCycle # "none") /\ chip' = Released
  /\ UNCHANGED <<wp, call, alone, made>>

\* Nobody looks at the acknowledge.
IIC_Send_Byte(t, from, b, to) ==
  /\ Runs(t) /\ Goto(t, from, to)
  /\ chip' = Takes(b)
  /\ UNCHANGED <<cells, busy, wp, call, alone, made>>

IIC_Stop(t) ==
  /\ Runs(t) /\ Goto(t, "stop", "protect")
  /\ cells' = Written
  /\ busy' = (busy \/ (wp = 0 /\ chip.page # NoPage /\ WriteCycle # "none"))
  /\ chip' = Released
  /\ UNCHANGED <<wp, call, alone, made>>

Protect(t) ==           \* IIC_WP = 1; delay_ms(2)
  /\ Runs(t) /\ Goto(t, "protect", "written")
  /\ wp' = 1
  /\ UNCHANGED <<cells, chip, busy, call, alone, made>>

Return(t) ==
  /\ WriteCycle = "short" => ~busy
  /\ Goto(t, "written", "idle")
  /\ call' = [call EXCEPT ![t] = NoCall]
  /\ UNCHANGED <<cells, chip, busy, wp, alone, made>>

ChipReady ==            \* after milliseconds; a transaction takes a fraction of one
  /\ busy /\ busy' = FALSE /\ \A t \in Task : at[t] \in Asleep
  /\ UNCHANGED <<cells, chip, wp, at, call, alone, made>>

BusStep(t) ==
  \/ \E c \in Writes[t] : WriteOneByte(t, c)
  \/ Wake(t) \/ IIC_Start(t)
  \/ IIC_Send_Byte(t, "device", Device, "address")
  \/ at[t] = "address" /\ IIC_Send_Byte(t, "address", call[t].addr, "data")
  \/ at[t] = "data" /\ IIC_Send_Byte(t, "data", call[t].data, "stop")
  \/ IIC_Stop(t) \/ Protect(t) \/ Return(t)

BusNext == ChipReady \/ \E t \in Task : BusStep(t)

BusSpec == BusInit /\ [][BusNext]_busVars

-----------------------------------------------------------------------------
(* Type invariant of the bus. *)
BusTypeOK ==
  /\ cells \in [Address -> Byte]
  /\ chip.expect \in {"start", "device", "address", "data"} /\ chip.addr \in Address
  /\ \A a \in DOMAIN chip.page : a \in Address /\ chip.page[a] \in Byte
  /\ wp \in {0, 1} /\ busy \in BOOLEAN
  /\ \A t \in Task : call[t] = NoCall <=> at[t] = "idle"

(* Whoever preempts whom in the middle of a byte, the memory changes only to
   the byte of a call that is running, at its address: writes may be lost
   but never go elsewhere, because each begins with a start condition. *)
Promise == INSTANCE ByteStore
StoresOnlyCalls == Promise!Spec

(* A write that no other overlaps is in the memory when the call returns. *)
LandsWhenAlone ==
  [][\A t \in Task : at[t] = "written" /\ alone[t] /\ at'[t] = "idle" =>
       cells[call[t].addr] = call[t].data]_busVars

(* Every write is in the memory when the call returns. *)
WritesLand ==
  [][\A t \in Task : at[t] = "written" /\ at'[t] = "idle" =>
       cells[call[t].addr] = call[t].data]_busVars
=============================================================================
