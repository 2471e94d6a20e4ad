---------------------------- MODULE ModbusSerial ----------------------------
(***************************************************************************)
(* The Modbus RTU slave of the T3 firmware on its RS-485 port, after       *)
(* MODBUS/modbus.c, the write handler of USER/modbus_regOp.c and the COMM  *)
(* task of USER/main.c.  Three actors share the state, with no lock:       *)
(*                                                                         *)
(*   - the USART1 interrupt collects the bytes of a request, decides where *)
(*     the frame ends and later clocks the reply out, byte by byte;        *)
(*   - the COMM task wakes every 5 ms, picks a complete frame up, checks   *)
(*     it, starts the reply, stores what was written, and counts the       *)
(*     inter-byte timeout down;                                            *)
(*   - the master at the other end of the wire, which may lose bytes.      *)
(*                                                                         *)
(* The interrupt preempts the task, so an interrupt is one step and the    *)
(* task is cut wherever an interrupt can change what it reads.             *)
(***************************************************************************)
EXTENDS Naturals, Sequences

CONSTANTS
  Frames,                  \* the frames the master may put on the wire
  MaxFrames,               \* bound: how many frames it sends in a behaviour
  MaxLost,                 \* bound: how many bytes noise destroys
  RxLimit,                 \* bytes the receiver accepts in a row (250)
  Timeout,                 \* SERIAL_RECEIVE_TIMEOUT, in ticks of the task (3)
  OwnAddress,              \* modbus.address
  IsrPreemptsTick,         \* may an interrupt hit serial_receive_timeout_count--
  MasterOutwaitsStore      \* is the line silent while the task stores a write

READ_VARIABLES  == 3
WRITE_VARIABLES == 6
MULTIPLE_WRITE  == 16
CHECKONLINE     == 25

SERIALNUMBER_LOWORD == 0          \* write-once register
PLUG_N_PLAY         == 9          \* MODBUS_ADDRESS_PLUG_N_PLAY
ScanRegister        == 10         \* the 0x0a the interrupt compares with
BAUDRATE            == 15         \* MODBUS_BAUDRATE
AI_OFFSET0          == 250        \* an ordinary register kept in EEPROM

DATABUFLEN_SCAN == 12
ByteMod         == 256            \* the counters of the interrupt are u8
Byte            == 0 .. ByteMod - 1

(* A frame as the master means it: the bytes that steer the receiver, its  *)
(* length on the wire, and whether it left the master with a valid CRC.    *)
FrameType ==
  [addr : Byte, fn : Byte, reg : Byte, count : Byte, data : Byte,
   len : Nat, crc : BOOLEAN]

ASSUME SerialAssumption ==
  /\ Frames \subseteq FrameType
  /\ MaxFrames \in Nat /\ MaxLost \in Nat
  /\ RxLimit \in DATABUFLEN_SCAN .. ByteMod - 1
  /\ Timeout \in Byte \ {0}
  /\ OwnAddress \in Byte
  /\ IsrPreemptsTick \in BOOLEAN
  /\ MasterOutwaitsStore \in BOOLEAN

VARIABLES
  \* the wire towards the slave
  req,             \* the frames the master has begun, in order
  pos,             \* offset of the next byte of the last of them
  lost,            \* bytes destroyed so far
  \* shared by the interrupt and the task
  USART_RX_BUF, revce_count, rece_size, serial_receive_timeout_count,
  dealwithTag, TXEN,
  \* the transmitter
  txie,            \* is the TXE interrupt enabled
  send_count, sendbyte_num,
  pipe,            \* bytes in the data and shift registers of the USART
  wire,            \* bytes of the reply that left with the driver enabled
  \* the COMM task
  pc,
  tmp,             \* the register that holds a counter being decremented
  cur,             \* the request last accepted, by its place in req
  answered,        \* the requests a reply was started for
  \* what a write changes
  ram, ee,         \* the two bytes of AI_OFFSET0 in RAM and in EEPROM
  serial_Num,      \* the low word of the serial number in RAM
  SNWriteflag      \* has the low word been written

lineVars  == <<req, pos, lost>>
rxVars    == <<USART_RX_BUF, revce_count, rece_size,
               serial_receive_timeout_count, dealwithTag>>
txVars    == <<txie, send_count, sendbyte_num, pipe, wire>>
taskVars  == <<pc, tmp, cur, answered>>
storeVars == <<ram, ee, serial_Num, SNWriteflag>>
vars      == <<lineVars, rxVars, TXEN, txVars, taskVars, storeVars>>

(* Every byte in the buffer is known by the frame and the offset it comes  *)
(* from, <<frame, offset>>; NoByte is what the buffer holds at reset.      *)
NoByte  == <<0, 0>>
RxIndex == 0 .. RxLimit - 1

(* The value of byte k of frame f.  A byte that steers nothing has f.data. *)
FrameByte(f, k) ==
  CASE k = 0 -> f.addr
    [] k = 1 -> f.fn
    [] k = 2 -> 0
    [] k = 3 -> f.reg
    [] k = 6 /\ f.fn = MULTIPLE_WRITE -> f.count
    [] OTHER -> f.data

Val(b) == IF b = NoByte THEN 0 ELSE FrameByte(req[b[1]], b[2])

Storing == {"sendmode", "reply", "store", "store_lo", "sn_hi", "sn_ram",
            "sn_end", "baud"}

TaskPc == Storing \cup {"loop", "tagstore", "check",
                        "tick", "tickload", "tickstore", "tickzero"}

Init ==
  /\ req = << >> /\ pos = 0 /\ lost = 0
  /\ USART_RX_BUF = [i \in RxIndex |-> NoByte]
  /\ revce_count = 0 /\ rece_size = 0 /\ dealwithTag = 0
  /\ serial_receive_timeout_count = Timeout
  /\ TXEN = "RECEIVE"
  /\ txie = FALSE /\ send_count = 0 /\ sendbyte_num = 0 /\ pipe = 0 /\ wire = 0
  /\ pc = "loop" /\ tmp = 0 /\ cur = 0 /\ answered = {}
  /\ ram = <<NoByte, NoByte>> /\ ee = <<NoByte, NoByte>>
  /\ serial_Num = <<NoByte, NoByte>> /\ SNWriteflag = FALSE

(* serial_restart(): back to listening, whatever was received is dropped.  *)
serial_restart == TXEN' = "RECEIVE" /\ revce_count' = 0 /\ dealwithTag' = 0

-----------------------------------------------------------------------------
(* The master.                                                             *)

LineIdle == req # << >> => pos = req[Len(req)].len

MasterMaySend == MasterOutwaitsStore => pc \notin Storing

MasterStart(f) ==
  /\ LineIdle /\ MasterMaySend
  /\ Len(req) < MaxFrames
  /\ req' = Append(req, f) /\ pos' = 0
  /\ UNCHANGED <<lost, rxVars, TXEN, txVars, taskVars, storeVars>>

(* A byte is destroyed by noise, or it falls while the slave drives the    *)
(* line: the receiver hears nothing of it.                                 *)
LoseByte ==
  /\ ~LineIdle
  /\ \/ TXEN = "SEND" /\ UNCHANGED lost
     \/ TXEN = "RECEIVE" /\ lost < MaxLost /\ lost' = lost + 1
  /\ pos' = pos + 1
  /\ UNCHANGED <<req, rxVars, TXEN, txVars, taskVars, storeVars>>

-----------------------------------------------------------------------------
(* USART1_IRQHandler.                                                      *)

IsrMayRun == IsrPreemptsTick \/ pc \notin {"tickload", "tickstore", "tickzero"}

(* What the receive branch makes of the frame length, the timeout and the  *)
(* tag once revce_count is c and the buffer is buf.  The order of the      *)
(* cases is that of the code's else-if chain.                              *)
Function(buf) == Val(buf[1])
Register(buf) == 256 * Val(buf[2]) + Val(buf[3])
IsScan(buf)   == Function(buf) = WRITE_VARIABLES /\ Register(buf) = ScanRegister

SizeAfter(c, buf) ==
  CASE c = 1 -> RxLimit
    [] c = 3 /\ Function(buf) = CHECKONLINE -> 6
    [] c = 4 /\ IsScan(buf) -> DATABUFLEN_SCAN
    [] c = 7 -> CASE Function(buf) \in {READ_VARIABLES, WRITE_VARIABLES} -> 8
                  [] Function(buf) = MULTIPLE_WRITE -> (Val(buf[6]) + 9) % ByteMod
                  [] OTHER -> RxLimit
    [] OTHER -> rece_size

FrameEnds(c) == c \notin {1, 3, 4, 7} /\ c = rece_size

\* Deviant: the timeout is not stopped when the frame is complete.
TimeoutAfterNotStopped(c, buf) ==
  CASE c = 1 -> Timeout
    [] c = 4 /\ IsScan(buf) -> Timeout
    [] c = 7 /\ Function(buf) = MULTIPLE_WRITE -> (Val(buf[6]) + 8) % ByteMod
    [] OTHER -> serial_receive_timeout_count

\* Deviant: the first byte of a frame does not start the timeout.
TimeoutAfterNotStarted(c, buf) ==
  CASE c = 4 /\ IsScan(buf) -> Timeout
    [] c = 7 /\ Function(buf) = MULTIPLE_WRITE -> (Val(buf[6]) + 8) % ByteMod
    [] FrameEnds(c) -> 0
    [] OTHER -> serial_receive_timeout_count

TimeoutAfter(c, buf) ==
  CASE c = 1 -> Timeout
    [] c = 4 /\ IsScan(buf) -> Timeout
    [] c = 7 /\ Function(buf) = MULTIPLE_WRITE -> (Val(buf[6]) + 8) % ByteMod
    [] FrameEnds(c) -> 0
    [] OTHER -> serial_receive_timeout_count

(* Timing assumptions.  The task needs 2 ms at most from taking the tag to *)
(* switching to SEND, and microseconds from the load to the store of       *)
(* dealwithTag--; a byte takes 87 us at the fastest rate.  So 250 bytes do *)
(* not arrive in the former, nor a whole frame in the latter, and once a   *)
(* byte has arrived the last byte of a reply has left the shift register.  *)
DecisionIsQuick ==
  /\ pc \in {"tagstore", "check", "sendmode"} => revce_count + 1 < RxLimit
  /\ pc = "tagstore" /\ tmp = 1 => ~FrameEnds(revce_count + 1)

(* RXNE: a byte of the master arrives while the driver is off.             *)
ByteArrives ==
  /\ ~LineIdle /\ MasterMaySend
  /\ TXEN = "RECEIVE" /\ pipe = 0
  /\ IsrMayRun /\ DecisionIsQuick

Received(c, buf) ==
  /\ revce_count' = c
  /\ rece_size' = SizeAfter(c, buf)
  /\ serial_receive_timeout_count' = TimeoutAfter(c, buf)

\* Deviant: no limit on the bytes received in a row.
RxIsrNoLimit ==
  /\ ByteArrives
  /\ pos' = pos + 1
  /\ USART_RX_BUF' = [USART_RX_BUF EXCEPT ![revce_count] = <<Len(req), pos>>]
  /\ Received(revce_count + 1, USART_RX_BUF')
  /\ dealwithTag' = IF FrameEnds(revce_count + 1) THEN 2 ELSE dealwithTag
  /\ UNCHANGED <<req, lost, TXEN, txVars, taskVars, storeVars>>

RxIsr ==
  /\ ByteArrives /\ revce_count < RxLimit
  /\ pos' = pos + 1
  /\ USART_RX_BUF' = [USART_RX_BUF EXCEPT ![revce_count] = <<Len(req), pos>>]
  /\ Received(revce_count + 1, USART_RX_BUF')
  /\ dealwithTag' = IF FrameEnds(revce_count + 1) THEN 2 ELSE dealwithTag
  /\ UNCHANGED <<req, lost, TXEN, txVars, taskVars, storeVars>>

(* The buffer is at its limit: serial_restart(), and the byte stays in the *)
(* USART, so that the interrupt comes again and finds an empty buffer.     *)
RxIsrFull ==
  /\ ByteArrives /\ revce_count >= RxLimit
  /\ Received(0, USART_RX_BUF)
  /\ dealwithTag' = IF FrameEnds(0) THEN 2 ELSE 0
  /\ UNCHANGED <<lineVars, USART_RX_BUF, TXEN, txVars, taskVars, storeVars>>

(* TXE: one more byte into the data register, or, one byte after the last, *)
(* switch the interrupt off and go back to listening.                      *)
\* Deviant: the end is seen one interrupt early.
SendDoneEarly == send_count >= sendbyte_num

SendDone == send_count > sendbyte_num

TxIsrByte ==
  /\ txie /\ pipe < 2 /\ IsrMayRun /\ ~SendDone
  /\ send_count' = send_count + 1
  /\ pipe' = pipe + 1
  /\ UNCHANGED <<lineVars, rxVars, TXEN, txie, sendbyte_num, wire, taskVars,
                 storeVars>>

\* Deviant: send_count keeps its value.
TxIsrEndNotRewound ==
  /\ txie /\ pipe < 2 /\ IsrMayRun /\ SendDone
  /\ txie' = FALSE
  /\ serial_restart
  /\ UNCHANGED <<lineVars, USART_RX_BUF, rece_size, send_count,
                 serial_receive_timeout_count, sendbyte_num, pipe, wire,
                 taskVars, storeVars>>

\* Deviant: the driver stays on.
TxIsrEndHolding ==
  /\ txie /\ pipe < 2 /\ IsrMayRun /\ SendDone
  /\ txie' = FALSE /\ send_count' = 0
  /\ UNCHANGED <<lineVars, rxVars, TXEN, sendbyte_num, pipe, wire, taskVars,
                 storeVars>>

TxIsrEnd ==
  /\ txie /\ pipe < 2 /\ IsrMayRun /\ SendDone
  /\ txie' = FALSE /\ send_count' = 0
  /\ serial_restart
  /\ UNCHANGED <<lineVars, USART_RX_BUF, rece_size,
                 serial_receive_timeout_count, sendbyte_num, pipe, wire,
                 taskVars, storeVars>>

(* The USART shifts a byte out; it reaches the wire if the driver is on.   *)
ShiftOut ==
  /\ pipe > 0
  /\ pipe' = pipe - 1
  /\ wire' = IF TXEN = "SEND" THEN wire + 1 ELSE wire
  /\ UNCHANGED <<lineVars, rxVars, TXEN, txie, send_count, sendbyte_num,
                 taskVars, storeVars>>

-----------------------------------------------------------------------------
(* vCOMMTask: if (dealwithTag) { dealwithTag--; if (== 1) dealwithData }.  *)

Goto(l) == pc' = l

TagLoad ==
  /\ pc = "loop"
  /\ tmp' = dealwithTag
  /\ Goto(IF dealwithTag = 0 THEN "tick" ELSE "tagstore")
  /\ UNCHANGED <<lineVars, rxVars, TXEN, txVars, cur, answered, storeVars>>

\* Deviant: the frame is dealt with as long as there is a tag.
TagStoreTwice ==
  /\ pc = "tagstore"
  /\ dealwithTag' = tmp - 1
  /\ Goto("check")
  /\ UNCHANGED <<lineVars, USART_RX_BUF, revce_count, rece_size,
                 serial_receive_timeout_count, TXEN, txVars, tmp, cur,
                 answered, storeVars>>

TagStore ==
  /\ pc = "tagstore"
  /\ dealwithTag' = tmp - 1
  /\ Goto(IF tmp - 1 = 1 THEN "check" ELSE "tick")
  /\ UNCHANGED <<lineVars, USART_RX_BUF, revce_count, rece_size,
                 serial_receive_timeout_count, TXEN, txVars, tmp, cur,
                 answered, storeVars>>

(* checkData().  The CRC is taken to be exact: it matches only if the      *)
(* buffer holds the bytes of one frame, all of them, in order.             *)
HoldsFrame(n) ==
  /\ req[n].len = rece_size /\ req[n].crc
  /\ \A i \in 0 .. rece_size - 1 : USART_RX_BUF[i] = <<n, i>>

AddressedHere == Val(USART_RX_BUF[0]) \in {255, OwnAddress, 0}

InScanRange ==
  LET a == Val(USART_RX_BUF[2])
      b == Val(USART_RX_BUF[3])
  IN (a <= OwnAddress /\ OwnAddress <= b) \/ (b <= OwnAddress /\ OwnAddress <= a)

\* Deviant: SNWriteflag is not consulted.
SerialNeverLocked == FALSE

SerialLocked ==
  /\ Function(USART_RX_BUF) = WRITE_VARIABLES
  /\ Register(USART_RX_BUF) <= SERIALNUMBER_LOWORD + 1
  /\ SNWriteflag

(* The plug-and-play register is answered by a roll of dice, and a write   *)
(* to it only if it carries the serial number: lucky stands for both.      *)
Accepts(n, lucky) ==
  /\ revce_count = rece_size
  /\ AddressedHere
  /\ \/ /\ Function(USART_RX_BUF) = CHECKONLINE
        /\ InScanRange
     \/ /\ Function(USART_RX_BUF) \in
              {READ_VARIABLES, WRITE_VARIABLES, MULTIPLE_WRITE}
        /\ (Register(USART_RX_BUF) = PLUG_N_PLAY => lucky)
        /\ ~SerialLocked
  /\ HoldsFrame(n)

\* Deviant: the buffer is given back as soon as the frame is accepted.
CheckAcceptRestarting(n) ==
  /\ pc = "check"
  /\ \E lucky \in BOOLEAN : Accepts(n, lucky)
  /\ cur' = n
  /\ serial_restart
  /\ Goto("sendmode")
  /\ UNCHANGED <<lineVars, USART_RX_BUF, rece_size,
                 serial_receive_timeout_count, txVars, tmp, answered, storeVars>>

CheckAccept(n) ==
  /\ pc = "check"
  /\ \E lucky \in BOOLEAN : Accepts(n, lucky)
  /\ cur' = n
  /\ Goto("sendmode")
  /\ UNCHANGED <<lineVars, rxVars, TXEN, txVars, tmp, answered, storeVars>>

CheckReject ==
  /\ pc = "check"
  /\ \E lucky \in BOOLEAN : \A n \in 1 .. Len(req) : ~Accepts(n, lucky)
  /\ serial_restart
  /\ Goto("tick")
  /\ UNCHANGED <<lineVars, USART_RX_BUF, rece_size,
                 serial_receive_timeout_count, txVars, tmp, cur, answered,
                 storeVars>>

\* Deviant: the driver is not switched on.
SendModeForgotten ==
  /\ pc = "sendmode"
  /\ Goto("reply")
  /\ UNCHANGED <<lineVars, rxVars, TXEN, txVars, tmp, cur, answered, storeVars>>

SendMode ==
  /\ pc = "sendmode"
  /\ TXEN' = "SEND"
  /\ Goto("reply")
  /\ UNCHANGED <<lineVars, rxVars, txVars, tmp, cur, answered, storeVars>>

(* responseCmd(0, USART_RX_BUF): build the reply and enable TXE.           *)
ReplyLength ==
  CASE Function(USART_RX_BUF) = WRITE_VARIABLES -> rece_size
    [] Function(USART_RX_BUF) = MULTIPLE_WRITE  -> 8
    [] Function(USART_RX_BUF) = READ_VARIABLES  -> 5 + 2 * Val(USART_RX_BUF[5])
    [] Function(USART_RX_BUF) = CHECKONLINE     -> 9
    [] OTHER                                    -> 0

Reply ==
  /\ pc = "reply"
  /\ IF ReplyLength > 0
     THEN /\ sendbyte_num' = ReplyLength
          /\ txie' = TRUE
          /\ wire' = 0
          /\ answered' = answered \cup {cur}
     ELSE UNCHANGED <<sendbyte_num, txie, wire, answered>>
  /\ Goto("store")
  /\ UNCHANGED <<lineVars, rxVars, TXEN, send_count, pipe, tmp, cur, storeVars>>

(* internalDeal(0, USART_RX_BUF): decode the request again and store it.   *)
(* Every EEPROM byte takes about 3 ms, during which the task sleeps.       *)
Pair == <<USART_RX_BUF[4], USART_RX_BUF[5]>>

WriteTo(r) ==
  Function(USART_RX_BUF) = WRITE_VARIABLES /\ Register(USART_RX_BUF) = r

StoreOffset ==                      \* RAM, then the high byte to EEPROM
  /\ pc = "store" /\ WriteTo(AI_OFFSET0)
  /\ ram' = Pair
  /\ ee' = [ee EXCEPT ![1] = USART_RX_BUF[4]]
  /\ Goto("store_lo")
  /\ UNCHANGED <<lineVars, rxVars, TXEN, txVars, tmp, cur, answered,
                 serial_Num, SNWriteflag>>

\* Deviant: the high byte is stored twice.
StoreOffsetHighAgain ==
  /\ pc = "store_lo"
  /\ ee' = [ee EXCEPT ![2] = USART_RX_BUF[4]]
  /\ Goto("tick")
  /\ UNCHANGED <<lineVars, rxVars, TXEN, txVars, tmp, cur, answered, ram,
                 serial_Num, SNWriteflag>>

StoreOffsetLow ==
  /\ pc = "store_lo"
  /\ ee' = [ee EXCEPT ![2] = USART_RX_BUF[5]]
  /\ Goto("tick")
  /\ UNCHANGED <<lineVars, rxVars, TXEN, txVars, tmp, cur, answered, ram,
                 serial_Num, SNWriteflag>>

StoreSerial ==          \* two EEPROM bytes, RAM and flag, two EEPROM bytes
  /\ \/ /\ pc = "store" /\ WriteTo(SERIALNUMBER_LOWORD)
        /\ Goto("sn_hi")
        /\ UNCHANGED <<serial_Num, SNWriteflag>>
     \/ /\ pc = "sn_hi"
        /\ Goto("sn_ram")
        /\ UNCHANGED <<serial_Num, SNWriteflag>>
     \/ /\ pc = "sn_ram"
        /\ serial_Num' = Pair /\ SNWriteflag' = TRUE
        /\ Goto("sn_end")
     \/ /\ pc = "sn_end"
        /\ Goto("tick")
        /\ UNCHANGED <<serial_Num, SNWriteflag>>
  /\ UNCHANGED <<lineVars, rxVars, TXEN, txVars, tmp, cur, answered, ram, ee>>

(* A new baud rate: uart1_init() resets the USART and raises PA8, an       *)
(* EEPROM byte is written, then modbus_init() restarts the receiver.       *)
StoreBaud ==
  /\ pc = "store" /\ WriteTo(BAUDRATE)
  /\ Goto("baud")
  /\ IF Val(USART_RX_BUF[5]) <= 4
     THEN txie' = FALSE /\ pipe' = 0 /\ TXEN' = "SEND"
     ELSE UNCHANGED <<txie, pipe, TXEN>>
  /\ UNCHANGED <<lineVars, rxVars, send_count, sendbyte_num, wire, tmp, cur,
                 answered, storeVars>>

modbus_init ==
  /\ pc = "baud"
  /\ serial_restart
  /\ serial_receive_timeout_count' = Timeout
  /\ Goto("tick")
  /\ UNCHANGED <<lineVars, USART_RX_BUF, rece_size, txVars, tmp, cur,
                 answered, storeVars>>

StoreNothing ==
  /\ pc = "store"
  /\ \A r \in {AI_OFFSET0, SERIALNUMBER_LOWORD, BAUDRATE} : ~WriteTo(r)
  /\ Goto("tick")
  /\ UNCHANGED <<lineVars, rxVars, TXEN, txVars, tmp, cur, answered, storeVars>>

-----------------------------------------------------------------------------
(* vCOMMTask, second half: if (count > 0) { count--; if (count == 0)       *)
(* serial_restart(); }.  The counter is volatile: each use reads it again. *)

TickTest ==
  /\ pc = "tick"
  /\ Goto(IF serial_receive_timeout_count > 0 THEN "tickload" ELSE "loop")
  /\ UNCHANGED <<lineVars, rxVars, TXEN, txVars, tmp, cur, answered, storeVars>>

TickLoad ==
  /\ pc = "tickload"
  /\ tmp' = serial_receive_timeout_count
  /\ Goto("tickstore")
  /\ UNCHANGED <<lineVars, rxVars, TXEN, txVars, cur, answered, storeVars>>

TickStore ==
  /\ pc = "tickstore"
  /\ serial_receive_timeout_count' = (tmp + ByteMod - 1) % ByteMod
  /\ Goto("tickzero")
  /\ UNCHANGED <<lineVars, USART_RX_BUF, revce_count, rece_size, dealwithTag,
                 TXEN, txVars, tmp, cur, answered, storeVars>>

TickZero ==
  /\ pc = "tickzero"
  /\ IF serial_receive_timeout_count = 0
     THEN serial_restart
     ELSE UNCHANGED <<TXEN, revce_count, dealwithTag>>
  /\ Goto("loop")
  /\ UNCHANGED <<lineVars, USART_RX_BUF, rece_size,
                 serial_receive_timeout_count, txVars, tmp, cur, answered,
                 storeVars>>

-----------------------------------------------------------------------------
Master == LoseByte \/ \E f \in Frames : MasterStart(f)

TxIsr == TxIsrByte \/ TxIsrEnd

Task ==
  \/ TagLoad \/ TagStore
  \/ (\E n \in 1 .. Len(req) : CheckAccept(n)) \/ CheckReject
  \/ SendMode \/ Reply
  \/ StoreOffset \/ StoreOffsetLow \/ StoreSerial \/ StoreBaud \/ modbus_init
  \/ StoreNothing
  \/ TickTest \/ TickLoad \/ TickStore \/ TickZero

Next == Master \/ RxIsr \/ RxIsrFull \/ TxIsr \/ ShiftOut \/ Task

Spec == Init /\ [][Next]_vars

(* The scheduler keeps running the COMM task, a pending TXE interrupt is   *)
(* served, and the shift register runs by itself.  The master owes nothing.*)
FairSpec == Spec /\ WF_vars(Task) /\ WF_vars(TxIsr) /\ WF_vars(ShiftOut)

-----------------------------------------------------------------------------
(* Properties.                                                             *)

(* The shape of the state.                                                 *)
ByteAt == {NoByte} \cup ((1 .. Len(req)) \X Nat)

TypeOK ==
  /\ req \in Seq(Frames) /\ pos \in Nat /\ lost \in Nat
  /\ USART_RX_BUF \in [RxIndex -> ByteAt]
  /\ revce_count \in 0 .. RxLimit
  /\ rece_size \in Byte
  /\ serial_receive_timeout_count \in Byte
  /\ dealwithTag \in 0 .. 2
  /\ TXEN \in {"SEND", "RECEIVE"}
  /\ txie \in BOOLEAN
  /\ send_count \in Nat /\ sendbyte_num \in Nat
  /\ pipe \in 0 .. 2 /\ wire \in Nat
  /\ pc \in TaskPc /\ tmp \in Byte
  /\ cur \in 0 .. Len(req) /\ answered \subseteq Nat
  /\ ram \in ByteAt \X ByteAt /\ ee \in ByteAt \X ByteAt
  /\ serial_Num \in ByteAt \X ByteAt /\ SNWriteflag \in BOOLEAN

(* A frame that was received completely is not thrown away by the          *)
(* inter-byte timeout: the interrupt stops it, and it stays stopped until  *)
(* the task has picked the frame up and started the reply.                 *)
FramePending == dealwithTag = 2 \/ pc \in {"check", "sendmode", "reply"}

PendingFrameKept == FramePending => serial_receive_timeout_count = 0

(* A reply is computed from the request that was checked: the buffer still *)
(* holds that frame, and a write is echoed at its own length, although the *)
(* interrupt may have written to the buffer and to rece_size since.        *)
ReplyFromCheckedFrame ==
  pc \in {"sendmode", "reply"} =>
    /\ \A i \in 0 .. req[cur].len - 1 : USART_RX_BUF[i] = <<cur, i>>
    /\ req[cur].fn = WRITE_VARIABLES => rece_size = req[cur].len

(* The transmitter is at rest when a reply starts, so the reply leaves     *)
(* from its first byte.                                                    *)
ReplyFromFirstByte == pc = "reply" => ~txie /\ send_count = 0 /\ pipe = 0

(* The driver is not switched off before the last byte of the reply has    *)
(* left the shift register.                                                *)
ReplyNotCut ==
  [][TXEN = "SEND" /\ TXEN' = "RECEIVE" => wire >= sendbyte_num]_vars

(* However the tag, the counters and the bytes left in the buffer interact, *)
(* a request is answered at most once and in its order, and no reply is    *)
(* begun while another is being clocked out.                               *)
Promise == INSTANCE RequestReply WITH Requests <- 1 .. MaxFrames, sending <- txie

AnswersInOrder == Promise!Spec

(* What a write leaves in RAM and in EEPROM is the same value, and it is   *)
(* that of one request that was answered.                                  *)
StoredAsAnswered ==
  pc # "store_lo" =>
    /\ ee = ram
    /\ ram # <<NoByte, NoByte>> =>
         \E n \in answered : ram = <<<<n, 4>>, <<n, 5>>>>

(* The serial number is written once, over any sequence of requests.       *)
SerialWrittenOnce == [][SNWriteflag => UNCHANGED serial_Num]_vars

(* The line is never held for good: the driver goes off again.             *)
BusReleased == TXEN = "SEND" ~> TXEN = "RECEIVE"

(* A partial or refused frame does not clog the receiver: whatever is in   *)
(* the buffer, the next reception eventually starts from the beginning.    *)
ReceiverRecovers == revce_count > 0 ~> revce_count = 0

(* A request that passed the checks is answered in full.                   *)
RequestServed ==
  pc = "sendmode" ~> (TXEN = "RECEIVE" /\ cur \in answered /\ wire >= sendbyte_num)

=============================================================================
