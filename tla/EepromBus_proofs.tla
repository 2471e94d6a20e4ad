-------------------------- MODULE EepromBus_proofs --------------------------
(***************************************************************************)
(* Proofs about EepromBus: for any number of tasks of distinct priorities, *)
(* any calls they make and any size of the memory, writes that preempt one *)
(* another in mid-byte may be lost but store nothing that is not asked     *)
(* for; and a write that meets no other is in the memory at the return.    *)
(***************************************************************************)
EXTENDS EepromBus, TLAPS

-----------------------------------------------------------------------------
(* The inductive invariant.                                                *)

Sending == {"device", "address", "data", "stop"}
Stage   == Asleep \cup Sending \cup {"start", "protect"}
Page    == UNION {[S -> Byte] : S \in SUBSET Address}
Chip    == [expect : {"start", "device", "address", "data"},
            addr : Address, page : Page]

BusTypes ==
  /\ cells \in [Address -> Byte] /\ chip \in Chip
  /\ busy \in BOOLEAN /\ wp \in {0, 1}
  /\ at \in [Task -> Stage] /\ alone \in [Task -> BOOLEAN]
  /\ DOMAIN call = Task /\ call = [t \in Task |-> call[t]]
  /\ \A t \in Task : call[t] \in IF at[t] = "idle" THEN {NoCall} ELSE Writes[t]

(* A task is the sender when none above it has sent a start since.         *)
Sender(t) ==
  /\ at[t] \in Sending
  /\ \A u \in Task : Priority[u] > Priority[t] => at[u] \in Asleep \cup {"start"}

One(c) == [a \in {c.addr} |-> c.data]

(* The chip is as far in its transaction as t in sending its call.         *)
InStep(t) ==
  /\ at[t] = "device" => chip.expect = "device"
  /\ at[t] = "address" => chip.expect = "address"
  /\ at[t] \in {"data", "stop"} => chip.expect = "data"
  /\ at[t] = "data" => chip.addr = call[t].addr
  /\ chip.page = IF at[t] = "stop" THEN One(call[t]) ELSE NoPage

(* Amid a transaction, the chip is in step with the sender; else it holds  *)
(* no page.  A chip that writes hears nothing.                             *)
ChipInv ==
  /\ chip.expect # "start" => \E t \in Task : Sender(t) /\ InStep(t)
  /\ chip.expect = "start" => chip.page = NoPage
  /\ busy => chip.expect = "start"

IInv == BusTypes /\ ChipInv

-----------------------------------------------------------------------------
(* What the actions say of calls and pages.                                *)
LEMMA CallShape ==
  ASSUME NEW t \in Task, NEW c \in Writes[t]
  PROVE  /\ c.addr \in Address /\ c.data \in Byte /\ c # NoCall
         /\ c \in [addr : Address, data : Byte]
         /\ One(c) \in Page
<1>1. c = [addr |-> c.addr, data |-> c.data] /\ c.addr \in Address /\ c # NoCall
  BY BusAssumption
<1>2. c.data \in Byte
  BY DEF Byte
<1>3. One(c) \in [{c.addr} -> Byte] /\ {c.addr} \in SUBSET Address
  BY <1>1, <1>2 DEF One
<1> QED
  BY <1>1, <1>2, <1>3 DEF Page

LEMMA EmptyPage == NoPage \in Page
<1>1. NoPage \in [{} -> Byte] /\ {} \in SUBSET Address
  BY DEF NoPage, Byte
<1> QED
  BY <1>1 DEF Page

(* Writing the page that one call has filled stores its byte.              *)
LEMMA OverOne ==
  ASSUME NEW f \in [Address -> Byte], NEW c, c.addr \in Address, c.data \in Byte
  PROVE  Over(One(c), f) = [f EXCEPT ![c.addr] = c.data]
BY DEF Over, One

LEMMA OverNone ==
  ASSUME NEW V, NEW f \in [Address -> V]
  PROVE  Over(NoPage, f) = f
BY DEF Over, NoPage

(* An empty page that takes a byte holds that byte.                        *)
LEMMA FirstByte ==
  ASSUME NEW a, NEW v
  PROVE  Over([x \in {a} |-> v], NoPage) = [x \in {a} |-> v]
BY DEF Over, NoPage

(* The addresses of the chip do not wrap within the memory.                *)
LEMMA AddressKept ==
  ASSUME NEW a \in Address
  PROVE  a % Cells = a /\ (a + 1) % Cells \in Address
BY BusAssumption DEF Address

LEMMA NotAbove ==
  ASSUME NEW t \in Task, NEW u \in Task, Priority[u] > Priority[t]
  PROVE  u # t
BY BusAssumption

(* A task that runs while it sends is the sender.                          *)
LEMMA OnlySender ==
  ASSUME BusTypes, NEW t \in Task, Runs(t), at[t] \in Sending,
         NEW o \in Task, Sender(o)
  PROVE  o = t
<1>1. Priority[t] \in Nat /\ Priority[o] \in Nat
      /\ (Priority[t] = Priority[o] => t = o)
  BY BusAssumption
<1>2. ~(Priority[o] > Priority[t])
  BY DEF Runs, Sender, Sending, Asleep
<1>3. ~(Priority[t] > Priority[o])
  BY DEF Sender, Sending, Asleep
<1> QED
  BY <1>1, <1>2, <1>3
-----------------------------------------------------------------------------
(* The invariant holds.                                                    *)
LEMMA InvInit == BusInit => IInv
<1> SUFFICES ASSUME BusInit PROVE IInv
  OBVIOUS
<1>1. BusTypes
  <2>1. 0 \in Address /\ Cells \in Nat \ {0}
    BY BusAssumption DEF Address
  <2>2. chip \in Chip
    BY <2>1, EmptyPage DEF BusInit, Chip
  <2> QED
    BY <2>2 DEF BusInit, BusTypes, Stage, Asleep, Byte
<1>2. ChipInv
  BY DEF BusInit, ChipInv
<1> QED
  BY <1>1, <1>2 DEF IInv

LEMMA Begins ==
  ASSUME IInv, NEW t \in Task, NEW c \in Writes[t], WriteOneByte(t, c)
  PROVE  IInv'
<1>1. BusTypes'
  BY DEF IInv, BusTypes, WriteOneByte, Goto, Stage, Asleep, Sending
<1>2. ASSUME NEW o \in Task, Sender(o), InStep(o)
      PROVE  Sender(o)' /\ InStep(o)'
  BY <1>2 DEF IInv, BusTypes, WriteOneByte, Goto, Sender, InStep, Asleep, Sending
<1>3. ChipInv'
  BY <1>2 DEF IInv, ChipInv, WriteOneByte
<1> QED
  BY <1>1, <1>3 DEF IInv

LEMMA Wakes ==
  ASSUME IInv, NEW t \in Task, Wake(t)
  PROVE  IInv'
<1>1. BusTypes'
  BY DEF IInv, BusTypes, Wake, Goto, Stage, Asleep, Sending
<1>2. ASSUME NEW o \in Task, Sender(o), InStep(o)
      PROVE  Sender(o)' /\ InStep(o)'
  BY <1>2 DEF IInv, BusTypes, Wake, Goto, Sender, InStep, Asleep, Sending
<1>3. ChipInv'
  BY <1>2 DEF IInv, ChipInv, Wake
<1> QED
  BY <1>1, <1>3 DEF IInv

(* What the chip writes leaves a memory of bytes.                          *)
LEMMA WrittenType == ASSUME BusTypes PROVE Written \in [Address -> Byte]
<1>1. chip.page \in Page /\ cells \in [Address -> Byte]
  BY DEF BusTypes, Chip
<1>2. PICK S \in SUBSET Address : chip.page \in [S -> Byte]
  BY <1>1 DEF Page
<1> QED
  BY <1>1, <1>2 DEF Written, Over

LEMMA Starts ==
  ASSUME IInv, NEW t \in Task, IIC_Start(t)
  PROVE  IInv'
<1>1. NoPage \in Page
  BY EmptyPage
<1>2. Written \in [Address -> Byte]
  BY WrittenType DEF IInv
<1>3. BusTypes'
  <2>1. chip' \in Chip
    BY <1>1 DEF IInv, BusTypes, IIC_Start, Chip, Listening, Released
  <2>2. at' \in [Task -> Stage]
    BY DEF IInv, BusTypes, IIC_Start, Goto, Stage, Sending
  <2>3. \A u \in Task : at'[u] = "idle" <=> at[u] = "idle"
    BY DEF IInv, BusTypes, IIC_Start, Goto
  <2> QED
    BY <1>2, <2>1, <2>2, <2>3 DEF IInv, BusTypes, IIC_Start
<1>4. ChipInv'
  <2>1. CASE chip' = Released
    BY <2>1 DEF IInv, BusTypes, Chip, ChipInv, Released
  <2>2. CASE chip' = chip /\ busy /\ UNCHANGED busy
    BY <2>2 DEF IInv, ChipInv
  <2>3. CASE chip' = Listening /\ ~busy /\ UNCHANGED busy
    <3>1. Sender(t)'
      BY NotAbove DEF IInv, BusTypes, IIC_Start, Goto, Runs, Sender, Sending
    <3>2. InStep(t)'
      BY <2>3 DEF IInv, BusTypes, Chip, IIC_Start, Goto, InStep, Listening
    <3> QED
      BY <2>3, <3>1, <3>2 DEF IInv, BusTypes, Chip, ChipInv, Listening
  <2> QED
    BY <2>1, <2>2, <2>3 DEF IIC_Start
<1> QED
  BY <1>3, <1>4 DEF IInv

(* A byte on the bus: the chip takes it from the sender, in step.          *)
LEMMA Sends ==
  ASSUME IInv, NEW t \in Task, NEW b \in Byte, NEW from, NEW to,
         IIC_Send_Byte(t, from, b, to),
         \/ from = "device" /\ to = "address"
         \/ from = "address" /\ b = call[t].addr /\ to = "data"
         \/ from = "data" /\ b = call[t].data /\ to = "stop"
  PROVE  IInv'
<1>1. /\ Runs(t) /\ at[t] = from /\ at' = [at EXCEPT ![t] = to]
      /\ from \in Sending /\ to \in Sending
  BY DEF IIC_Send_Byte, Goto, Sending
<1>2. call[t] \in Writes[t]
  BY <1>1 DEF IInv, BusTypes, Sending
<1>3. One(call[t]) \in Page /\ NoPage \in Page /\ chip \in Chip
  BY <1>2, CallShape, EmptyPage DEF IInv, BusTypes
<1>4. ASSUME chip' \in Chip
      PROVE  BusTypes'
  BY <1>1, <1>4 DEF IInv, BusTypes, IIC_Send_Byte, Stage, Sending, Asleep
<1>5. CASE chip.expect = "start"
  <2>1. UNCHANGED chip
    BY <1>5 DEF IIC_Send_Byte, Takes
  <2> QED
    BY <1>4, <1>5, <2>1 DEF IInv, ChipInv, BusTypes, IIC_Send_Byte
<1>6. CASE chip.expect # "start"
  <2>1. Sender(t) /\ InStep(t) /\ ~busy
    BY <1>1, <1>6, OnlySender DEF IInv, ChipInv
  <2>2. Sender(t)'
    BY <1>1, <2>1, NotAbove DEF Sender, IInv, BusTypes
  <2>3. at'[t] = to /\ call' = call
    BY <1>1 DEF IInv, BusTypes, IIC_Send_Byte
  <2>4. chip' \in Chip /\ InStep(t)' /\ chip'.expect # "start"
    <3>1. CASE from = "device"
      BY <1>1, <1>3, <2>1, <2>3, <3>1 DEF InStep, IIC_Send_Byte, Takes, Chip
    <3>2. CASE from = "address"
      <4>1. b % Cells = b /\ b \in Address
        BY <1>2, <3>2, CallShape, AddressKept
      <4> QED
        BY <1>1, <1>3, <2>1, <2>3, <3>2, <4>1 DEF InStep, IIC_Send_Byte, Takes, Chip
    <3>3. CASE from = "data"
      <4>1. call[t].addr \in Address /\ (call[t].addr + 1) % Cells \in Address
        BY <1>2, CallShape, AddressKept
      <4>2. Over([a \in {chip.addr} |-> b], chip.page) = One(call[t])
        <5>1. chip.page = NoPage /\ [a \in {chip.addr} |-> b] = One(call[t])
          BY <1>1, <2>1, <3>3 DEF InStep, One
        <5>2. Over(One(call[t]), NoPage) = One(call[t])
          BY FirstByte DEF One
        <5> QED
          BY <5>1, <5>2
      <4> QED
        BY <1>1, <1>3, <2>1, <2>3, <3>3, <4>1, <4>2 DEF InStep, IIC_Send_Byte, Takes, Chip
    <3> QED
      BY <3>1, <3>2, <3>3
  <2> QED
    BY <1>4, <2>1, <2>2, <2>4 DEF IInv, ChipInv, IIC_Send_Byte
<1> QED
  BY <1>5, <1>6

(* At a stop the chip has written what it was sent, or nothing.            *)
LEMMA Stops ==
  ASSUME IInv, NEW t \in Task, IIC_Stop(t)
  PROVE  IInv'
<1>1. Written \in [Address -> Byte]
  BY WrittenType DEF IInv
<1>2. Released \in Chip
  BY EmptyPage DEF IInv, BusTypes, Chip, Released
<1>3. BusTypes'
  BY <1>1, <1>2 DEF IInv, BusTypes, IIC_Stop, Goto, Stage, Sending
<1>4. ChipInv'
  BY DEF IInv, BusTypes, Chip, ChipInv, IIC_Stop, Released
<1> QED
  BY <1>3, <1>4 DEF IInv

LEMMA Ends ==
  ASSUME IInv, NEW t \in Task, Protect(t) \/ Return(t)
  PROVE  IInv'
<1>1. BusTypes'
  BY DEF IInv, BusTypes, Protect, Return, Goto, Stage, Asleep
<1>2. ASSUME NEW o \in Task, Sender(o), InStep(o)
      PROVE  Sender(o)' /\ InStep(o)'
  BY <1>2 DEF IInv, BusTypes, Protect, Return, Goto, Sender, InStep, Asleep, Sending
<1>3. ChipInv'
  BY <1>2 DEF IInv, ChipInv, Protect, Return
<1> QED
  BY <1>1, <1>3 DEF IInv

LEMMA InvStep == IInv /\ [BusNext]_busVars => IInv'
<1> SUFFICES ASSUME IInv, [BusNext]_busVars PROVE IInv'
  OBVIOUS
<1>1. CASE UNCHANGED busVars
  BY <1>1 DEF busVars, IInv, BusTypes, ChipInv, Sender, InStep
<1>2. CASE ChipReady
  BY <1>2 DEF ChipReady, IInv, BusTypes, ChipInv, Sender, InStep
<1>3. ASSUME NEW t \in Task, BusStep(t)
      PROVE  IInv'
  <2>1. CASE at[t] # "idle"
    <3>1. Device \in Byte /\ call[t].addr \in Byte /\ call[t].data \in Byte
      BY <2>1, CallShape DEF IInv, BusTypes, Byte
    <3> QED
      BY <1>3, <2>1, <3>1, Wakes, Starts, Sends, Stops, Ends
      DEF BusStep, WriteOneByte, Goto
  <2>2. CASE at[t] = "idle"
    BY <1>3, <2>2, Begins
    DEF BusStep, Wake, IIC_Start, IIC_Send_Byte, IIC_Stop, Protect, Return, Goto
  <2> QED
    BY <2>1, <2>2
<1> QED
  BY <1>1, <1>2, <1>3 DEF BusNext

LEMMA Invariance == BusSpec => []IInv
<1> QED
  BY InvInit, InvStep, PTL DEF BusSpec

(* The types of the bus, and a call is held exactly while it runs.         *)
THEOREM BusTypesHold == BusSpec => []BusTypeOK
<1>1. ASSUME IInv PROVE BusTypeOK
  <2>1. \A a \in DOMAIN chip.page : a \in Address /\ chip.page[a] \in Byte
    BY <1>1 DEF IInv, BusTypes, Chip, Page
  <2>2. \A t \in Task : call[t] = NoCall <=> at[t] = "idle"
    BY <1>1, CallShape DEF IInv, BusTypes
  <2> QED
    BY <1>1, <2>1, <2>2 DEF IInv, BusTypes, Chip, BusTypeOK
<1> QED
  BY <1>1, Invariance, PTL

-----------------------------------------------------------------------------
(* Refinement: what the chip stores is the byte of a call that runs.       *)
LEMMA StoresPage ==
  ASSUME IInv, chip.page # NoPage, wp = 0, cells' = Written, UNCHANGED call
  PROVE  \E t \in Task : Promise!Store(t)
<1>1. PICK t \in Task : at[t] = "stop" /\ chip.page = One(call[t])
  BY DEF IInv, ChipInv, InStep
<1>2. call[t] \in Writes[t]
  BY <1>1 DEF IInv, BusTypes
<1>3. call[t] # NoCall /\ call[t].addr \in Address /\ call[t].data \in Byte
  BY <1>2, CallShape
<1>4. Over(One(call[t]), cells) = [cells EXCEPT ![call[t].addr] = call[t].data]
  BY <1>3, OverOne DEF IInv, BusTypes
<1> QED
  BY <1>1, <1>3, <1>4 DEF Written, Promise!Store

LEMMA StepRefines ==
  IInv /\ [BusNext]_busVars => [Promise!Next]_<<cells, call>>
<1> SUFFICES ASSUME IInv, BusNext
             PROVE  Promise!Next \/ UNCHANGED <<cells, call>>
  BY DEF busVars
<1>1. CASE ChipReady
  BY <1>1 DEF ChipReady
<1>2. ASSUME NEW t \in Task, NEW c \in Writes[t], WriteOneByte(t, c)
      PROVE  Promise!Next
  <2>1. Promise!Begin(t, c)
    BY <1>2 DEF WriteOneByte, Goto, Promise!Begin, IInv, BusTypes
  <2>2. c \in Promise!Calls
    BY CallShape DEF Promise!Calls
  <2> QED
    BY <2>1, <2>2 DEF Promise!Next
<1>3. ASSUME NEW t \in Task, IIC_Start(t)
      PROVE  Promise!Next \/ UNCHANGED <<cells, call>>
  BY <1>3, StoresPage DEF IIC_Start, Promise!Next
<1>4. ASSUME NEW t \in Task, IIC_Stop(t)
      PROVE  Promise!Next \/ UNCHANGED <<cells, call>>
  <2>1. CASE wp = 0 /\ chip.page # NoPage
    BY <1>4, <2>1, StoresPage DEF IIC_Stop, Promise!Next
  <2>2. CASE ~(wp = 0 /\ chip.page # NoPage)
    <3>1. Over(NoPage, cells) = cells
      BY OverNone DEF IInv, BusTypes
    <3> QED
      BY <1>4, <2>2, <3>1 DEF IIC_Stop, Written
  <2> QED
    BY <2>1, <2>2
<1>5. ASSUME NEW t \in Task, Return(t)
      PROVE  Promise!Next
  BY <1>5 DEF Return, Promise!Return, Promise!Next
<1>6. ASSUME NEW t \in Task,
             \/ Wake(t) \/ Protect(t)
             \/ \E from, b, to : IIC_Send_Byte(t, from, b, to)
      PROVE  UNCHANGED <<cells, call>>
  BY <1>6 DEF Wake, Protect, IIC_Send_Byte
<1> QED
  BY <1>1, <1>2, <1>3, <1>4, <1>5, <1>6 DEF BusNext, BusStep

(* However the tasks preempt one another in mid-byte, the bus implements   *)
(* ByteStore: the memory changes only to the byte of a call that is        *)
(* running, at its address.                                                *)
THEOREM Implements == BusSpec => StoresOnlyCalls
<1>1. BusInit => Promise!Init
  BY DEF BusInit, Promise!Init, Byte
<1> QED
  BY <1>1, StepRefines, Invariance, PTL DEF BusSpec, StoresOnlyCalls, Promise!Spec

-----------------------------------------------------------------------------
(* A write alone.  The chip must be done with a byte by the time its       *)
(* writer goes on, which the code takes for granted: nobody polls it.      *)

BusyInv ==
  /\ WriteCycle = "none" => ~busy
  /\ busy => \E t \in Task : at[t] # "idle"

(* While a call is alone all others are at rest and the chip is ready, is  *)
(* in step from its start on, and holds the byte from its stop on.         *)
Alone(t) ==
  /\ \A u \in Task \ {t} : at[u] = "idle"
  /\ at[t] \in Sending \cup {"released", "start"} => wp = 0 /\ ~busy
  /\ at[t] \in Sending => chip.expect # "start"
  /\ at[t] \in {"protect", "written"} => cells[call[t].addr] = call[t].data

AloneInv == \A t \in Task : alone[t] /\ at[t] # "idle" => Alone(t)

LInv == IInv /\ BusyInv /\ AloneInv

LEMMA BusyStep ==
  ASSUME WriteCycle # "long", BusTypes, BusyInv, [BusNext]_busVars
  PROVE  BusyInv'
<1>1. CASE UNCHANGED busVars
  BY <1>1 DEF busVars, BusyInv
<1>2. CASE ChipReady
  BY <1>2 DEF ChipReady, BusyInv
<1>3. ASSUME NEW t \in Task, BusStep(t), ~Return(t)
      PROVE  BusyInv'
  <2>1. at'[t] # "idle"
    BY <1>3 DEF BusStep, WriteOneByte, Wake, IIC_Start, IIC_Send_Byte, IIC_Stop,
       Protect, Goto, BusTypes
  <2>2. WriteCycle = "none" => ~busy'
    BY <1>3 DEF BusyInv, BusStep, WriteOneByte, Wake, IIC_Start, IIC_Send_Byte,
       IIC_Stop, Protect
  <2> QED
    BY <2>1, <2>2 DEF BusyInv
<1>4. ASSUME NEW t \in Task, Return(t)
      PROVE  BusyInv'
  <2>1. WriteCycle = "none" \/ WriteCycle = "short"
    BY BusAssumption
  <2> QED
    BY <1>4, <2>1 DEF Return, BusyInv
<1> QED
  BY <1>1, <1>2, <1>3, <1>4 DEF BusNext

(* A call alone meets the step of another task only at its end.            *)
LEMMA AloneStep ==
  ASSUME LInv, BusNext, WriteCycle # "long"
  PROVE  AloneInv'
<1> USE DEF LInv
<1>1. CASE ChipReady
  BY <1>1 DEF ChipReady, AloneInv, Alone
<1>2. ASSUME NEW t \in Task, NEW c \in Writes[t], WriteOneByte(t, c)
      PROVE  AloneInv'
  <2>1. ASSUME NEW u \in Task, alone'[u]
        PROVE  u = t /\ \A v \in Task \ {t} : at[v] = "idle" /\ at'[v] = "idle"
    BY <1>2, <2>1 DEF WriteOneByte, Goto, IInv, BusTypes
  <2>2. at[t] = "idle" /\ at'[t] = "released" /\ wp' = 0 /\ UNCHANGED busy
    BY <1>2 DEF WriteOneByte, Goto, IInv, BusTypes
  <2>3. ASSUME alone'[t] PROVE ~busy'
    BY <2>1, <2>2, <2>3 DEF BusyInv
  <2> QED
    BY <2>1, <2>2, <2>3 DEF AloneInv, Alone, Sending
<1>3. ASSUME NEW t \in Task, BusStep(t), at[t] # "idle"
      PROVE  AloneInv'
  <2>1. /\ UNCHANGED alone /\ at' \in [Task -> Stage]
        /\ \A u \in Task \ {t} : at'[u] = at[u] /\ call'[u] = call[u]
    BY <1>3 DEF BusStep, WriteOneByte, Wake, IIC_Start, IIC_Send_Byte, IIC_Stop,
       Protect, Return, Goto, IInv, BusTypes, Stage, Sending, Asleep
  <2>2. ASSUME NEW u \in Task \ {t}, alone'[u], at'[u] # "idle"
        PROVE  FALSE
    BY <1>3, <2>1, <2>2 DEF AloneInv, Alone
  <2>3. ASSUME alone[t], at'[t] # "idle"
        PROVE  Alone(t)'
    <3>1. Alone(t) /\ \A u \in Task \ {t} : at'[u] = "idle"
      BY <1>3, <2>1, <2>3 DEF AloneInv, Alone
    <3>2. call[t] \in Writes[t] /\ Runs(t)
      BY <1>3, <3>1, NotAbove DEF IInv, BusTypes, Runs, Alone, Asleep
    <3>3. at[t] \in Sending => InStep(t)
      BY <3>1, <3>2, OnlySender DEF IInv, ChipInv, Alone
    <3>4. CASE Wake(t)
      BY <3>1, <3>4 DEF Alone, Wake, Goto, IInv, BusTypes, Sending
    <3>5. CASE IIC_Start(t)
      <4>1. at[t] = "start" /\ at'[t] = "device" /\ UNCHANGED wp
        BY <3>5 DEF IIC_Start, Goto, IInv, BusTypes
      <4>2. chip.page = NoPage
        BY <3>1, <4>1 DEF IInv, ChipInv, Alone, Sender, Sending
      <4>3. chip' = Listening /\ UNCHANGED <<cells, busy>>
        BY <3>1, <3>5, <4>1, <4>2 DEF IIC_Start, Alone
      <4>4. chip'.expect = "device"
        BY <4>3 DEF Listening, IInv, BusTypes, Chip
      <4> QED
        BY <3>1, <4>1, <4>3, <4>4 DEF Alone, Sending
    <3>6. ASSUME NEW from, NEW b, NEW to, IIC_Send_Byte(t, from, b, to),
                 from \in Sending, to \in Sending
          PROVE  Alone(t)'
      <4>1. at[t] = from /\ at'[t] = to /\ UNCHANGED <<cells, busy, wp, call>>
        BY <3>6 DEF IIC_Send_Byte, Goto, IInv, BusTypes
      <4>2. chip'.expect # "start"
        BY <3>1, <3>6, <4>1 DEF IIC_Send_Byte, Takes, IInv, BusTypes, Chip, Alone
      <4> QED
        BY <3>1, <3>6, <4>1, <4>2 DEF Alone, Sending
    <3>7. CASE IIC_Stop(t)
      <4>1. at[t] = "stop" /\ at'[t] = "protect" /\ UNCHANGED call
        BY <3>7 DEF IIC_Stop, Goto, IInv, BusTypes
      <4>2. cells' = Over(One(call[t]), cells)
        BY <3>1, <3>3, <3>7, <4>1 DEF IIC_Stop, Written, InStep, Alone, Sending
      <4>3. cells' = [cells EXCEPT ![call[t].addr] = call[t].data]
        BY <3>2, <4>2, CallShape, OverOne DEF IInv, BusTypes
      <4>4. cells'[call[t].addr] = call[t].data
        BY <3>2, <4>3, CallShape DEF IInv, BusTypes
      <4> QED
        BY <3>1, <4>1, <4>4 DEF Alone, Sending
    <3>8. CASE Protect(t)
      BY <3>1, <3>8 DEF Alone, Protect, Goto, IInv, BusTypes, Sending
    <3>9. CASE Return(t)
      BY <2>3, <3>9 DEF Return, Goto, IInv, BusTypes
    <3> QED
      BY <1>3, <3>4, <3>5, <3>6, <3>7, <3>8, <3>9 DEF BusStep, WriteOneByte, Goto,
         Sending
  <2> QED
    BY <2>1, <2>2, <2>3 DEF AloneInv
<1> QED
  BY <1>1, <1>2, <1>3 DEF BusNext, BusStep, WriteOneByte, Wake, IIC_Start, Goto,
     IIC_Send_Byte, IIC_Stop, Protect, Return

(* A write that no other overlaps is in the memory when the call returns,  *)
(* provided the chip is done with a byte by the time its writer goes on.   *)
THEOREM AloneLands ==
  ASSUME WriteCycle # "long" PROVE BusSpec => LandsWhenAlone
<1>1. BusInit => LInv
  BY InvInit DEF LInv, BusInit, BusyInv, AloneInv
<1>2. LInv /\ [BusNext]_busVars => LInv'
  <2> SUFFICES ASSUME LInv, [BusNext]_busVars PROVE LInv'
    OBVIOUS
  <2>1. CASE UNCHANGED busVars
    BY <2>1, InvStep DEF busVars, LInv, BusyInv, AloneInv, Alone
  <2> QED
    BY <2>1, AloneStep, InvStep, BusyStep DEF LInv, IInv
<1>3. LInv => \A t \in Task : at[t] = "written" /\ alone[t] =>
                cells[call[t].addr] = call[t].data
  BY DEF LInv, AloneInv, Alone
<1>4. LInv => [\A t \in Task : at[t] = "written" /\ alone[t] /\ at'[t] = "idle" =>
                cells[call[t].addr] = call[t].data]_busVars
  BY <1>3
<1> QED
  BY <1>1, <1>2, <1>4, PTL DEF BusSpec, LandsWhenAlone
=============================================================================
