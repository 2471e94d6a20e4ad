------------------------ MODULE ModbusSerial_proofs ------------------------
(***************************************************************************)
(* Proofs about ModbusSerial, for every set of frames, every bound and     *)
(* every buffer size that SerialAssumption and QuietLine allow.            *)
(***************************************************************************)
EXTENDS ModbusSerial, TLAPS

(* What the theorems assume beyond SerialAssumption: no interrupt hits the *)
(* decrement of the timeout counter, no frame writes the baud rate, and no *)
(* byte has the value 247, which as the byte count of a multiple write     *)
(* would make rece_size wrap to 0.                                         *)
QuietLine ==
  /\ ~IsrPreemptsTick
  /\ \A f \in Frames :
       /\ ~(f.fn = WRITE_VARIABLES /\ f.reg = BAUDRATE)
       /\ 247 \notin {f.addr, f.fn, f.reg, f.count, f.data}

-----------------------------------------------------------------------------
(* The inductive invariant.                                                *)

(* The byte b, <<frame, offset>>, has been on the wire.                    *)
Sent(b) == b[1] < Len(req) \/ (b[1] = Len(req) /\ b[2] < pos)

LineInv ==
  /\ Len(req) <= MaxFrames
  /\ req # << >> => pos <= req[Len(req)].len
  /\ \A i \in RxIndex : USART_RX_BUF[i] # NoByte => Sent(USART_RX_BUF[i])

SizeInv ==
  /\ revce_count \in {1, 2} => rece_size = RxLimit
  /\ revce_count \in 3 .. 6 =>
       /\ rece_size \in {RxLimit, 6, DATABUFLEN_SCAN}
       /\ rece_size = 6 => Function(USART_RX_BUF) = CHECKONLINE
  /\ revce_count > 0 => rece_size # 0

Deciding == pc \in {"check", "sendmode", "reply"}
Taking   == pc = "tagstore" /\ tmp = 2
Pending  == dealwithTag = 2 \/ Taking \/ Deciding

PendingInv ==
  Pending =>
    /\ serial_receive_timeout_count = 0
    /\ revce_count >= 6
    /\ revce_count = 6 => Function(USART_RX_BUF) = CHECKONLINE
    /\ revce_count >= rece_size \/ rece_size = RxLimit
    /\ ~txie /\ pipe = 0

TagInv == pc = "tagstore" => tmp \in 1 .. 2

TaskInv ==
  /\ TagInv
  /\ Taking => dealwithTag = 2
  /\ Deciding => dealwithTag = 1
  /\ dealwithTag = 2 => TXEN = "RECEIVE" \/ pc = "baud"
  /\ pc \in {"check", "sendmode"} => TXEN = "RECEIVE"
  /\ pc = "reply" => TXEN = "SEND"
  /\ pc = "baud" => ~txie
  /\ pc \in {"tickload", "tickstore", "tickzero"} =>
       TXEN = "RECEIVE" /\ dealwithTag # 2
  /\ pc \in {"tickload", "tickstore"} => serial_receive_timeout_count > 0
  /\ pc = "tickstore" => tmp = serial_receive_timeout_count

TxInv ==
  /\ TXEN = "RECEIVE" => ~txie
  /\ ~txie => send_count = 0
  /\ TXEN = "SEND" /\ pc # "baud" => serial_receive_timeout_count = 0
  /\ TXEN = "SEND" => txie \/ pc \in {"reply", "baud"}
  /\ TXEN = "RECEIVE" \/ pc = "baud" => wire >= sendbyte_num
  /\ txie => wire + pipe >= send_count

HoldInv ==
  pc \in {"sendmode", "reply"} \/ (pc = "store" /\ txie) =>
    /\ cur \in 1 .. Len(req)
    /\ req[cur].len \in 6 .. revce_count
    /\ req[cur].fn \in {READ_VARIABLES, WRITE_VARIABLES, MULTIPLE_WRITE,
                        CHECKONLINE}
    /\ \A i \in 0 .. req[cur].len - 1 : USART_RX_BUF[i] = <<cur, i>>
    /\ Deciding /\ req[cur].fn = WRITE_VARIABLES => rece_size = req[cur].len

AnswerInv ==
  /\ \A n \in answered :
       n < Len(req) \/ (n = Len(req) /\ n > 0 /\ pos >= req[n].len)
  /\ pc \in {"sendmode", "reply"} => \A n \in answered : n < cur
  /\ TXEN = "RECEIVE" /\ revce_count > 0 =>
       USART_RX_BUF[0] # NoByte /\ \A n \in answered : n < USART_RX_BUF[0][1]

IInv == TypeOK /\ LineInv /\ SizeInv /\ PendingInv /\ TaskInv /\ TxInv
          /\ HoldInv /\ AnswerInv

-----------------------------------------------------------------------------
(* What a byte of the buffer is worth.                                     *)
LEMMA ByteValue ==
  ASSUME TypeOK, NEW b \in ByteAt
  PROVE  /\ Val(b) \in Byte
         /\ QuietLine => Val(b) # 247
<1>1. CASE b = NoByte
  BY <1>1 DEF Val, Byte, ByteMod
<1>2. \A f \in Frames, k \in Nat :
        FrameByte(f, k) \in Byte /\ (QuietLine => FrameByte(f, k) # 247)
  <2> SUFFICES ASSUME NEW f \in Frames, NEW k \in Nat
               PROVE  FrameByte(f, k) \in Byte /\ (QuietLine => FrameByte(f, k) # 247)
    OBVIOUS
  <2>1. /\ FrameByte(f, k) \in {f.addr, f.fn, 0, f.reg, f.count, f.data}
    BY DEF FrameByte
  <2>2. {f.addr, f.fn, 0, f.reg, f.count, f.data} \subseteq Byte
    BY SerialAssumption DEF FrameType, Byte, ByteMod
  <2>3. QuietLine => 247 \notin {f.addr, f.fn, 0, f.reg, f.count, f.data}
    BY DEF QuietLine
  <2> QED
    BY <2>1, <2>2, <2>3
<1>3. CASE b # NoByte
  <2>1. req[b[1]] \in Frames /\ b[2] \in Nat
    BY <1>3 DEF TypeOK, ByteAt
  <2>2. Val(b) = FrameByte(req[b[1]], b[2])
    BY <1>3 DEF Val
  <2> QED
    BY <2>1, <2>2, <1>2
<1> QED
  BY <1>1, <1>3

(* The bytes of a frame that steer the slave, read back from the buffer.   *)
LEMMA OwnBytes ==
  ASSUME NEW n \in 1 .. Len(req)
  PROVE  /\ Val(<<n, 1>>) = req[n].fn
         /\ Val(<<n, 2>>) = 0
         /\ Val(<<n, 3>>) = req[n].reg
<1>1. n # 0
  OBVIOUS
<1>2. \A k : <<n, k>> # NoByte
  BY <1>1 DEF NoByte
<1>3. \A k : Val(<<n, k>>) = FrameByte(req[n], k)
  BY <1>2 DEF Val
<1> QED
  BY <1>3 DEF FrameByte

(* A frame being added leaves the bytes that are there as they were.       *)
LEMMA BytesKept ==
  ASSUME TypeOK, NEW f \in Frames, req' = Append(req, f)
  PROVE  \A b \in ByteAt : Val(b)' = Val(b) /\ b \in ByteAt'
<1> TAKE b \in ByteAt
<1>1. b # NoByte => b[1] \in 1 .. Len(req) /\ req'[b[1]] = req[b[1]]
  BY DEF TypeOK, ByteAt
<1>2. b \in ByteAt'
  BY DEF TypeOK, ByteAt
<1> QED
  BY <1>1, <1>2 DEF Val

-----------------------------------------------------------------------------
(* Type correctness.                                                       *)
(* The frame length and the timeout the receive interrupt computes.        *)
LEMMA SizeType ==
  ASSUME TypeOK, NEW buf \in [RxIndex -> ByteAt], NEW c \in 0 .. RxLimit
  PROVE  SizeAfter(c, buf) \in Byte /\ TimeoutAfter(c, buf) \in Byte
<1>1. Val(buf[6]) \in Byte
  BY SerialAssumption, ByteValue DEF RxIndex, DATABUFLEN_SCAN
<1>2. \A v \in Byte : (v + 9) % ByteMod \in Byte /\ (v + 8) % ByteMod \in Byte
  BY DEF Byte, ByteMod
<1>3. {0, 6, 8, DATABUFLEN_SCAN, RxLimit, Timeout} \subseteq Byte
  BY SerialAssumption DEF Byte, ByteMod, DATABUFLEN_SCAN
<1>4. SizeAfter(c, buf) \in Byte
  BY <1>1, <1>2, <1>3 DEF SizeAfter, TypeOK
<1>5. TimeoutAfter(c, buf) \in Byte
  BY <1>1, <1>2, <1>3 DEF TimeoutAfter, TypeOK
<1> QED
  BY <1>4, <1>5

(* Once the header is in, a byte changes the expected length no more, and   *)
(* only the last one stops the timeout.                                    *)
LEMMA HeaderIn ==
  ASSUME NEW c \in Nat, c > 7, NEW buf
  PROVE  /\ SizeAfter(c, buf) = rece_size
         /\ TimeoutAfter(c, buf) = IF FrameEnds(c) THEN 0
                                  ELSE serial_receive_timeout_count
<1>1. ~(c = 1) /\ ~(c = 3) /\ ~(c = 4) /\ ~(c = 7)
  OBVIOUS
<1>2. SizeAfter(c, buf) = rece_size
  BY <1>1 DEF SizeAfter
<1>3. TimeoutAfter(c, buf) = IF FrameEnds(c) THEN 0
                            ELSE serial_receive_timeout_count
  BY <1>1 DEF TimeoutAfter
<1> QED
  BY <1>2, <1>3

LEMMA ReplyLengthType == TypeOK => ReplyLength \in Nat
<1> SUFFICES ASSUME TypeOK PROVE ReplyLength \in Nat
  OBVIOUS
<1>1. Val(USART_RX_BUF[5]) \in Byte /\ rece_size \in Byte
  BY SerialAssumption, ByteValue DEF TypeOK, RxIndex, DATABUFLEN_SCAN
<1> QED
  BY <1>1 DEF ReplyLength, Byte, ByteMod

LEMMA TypeInit == Init => TypeOK /\ TagInv
<1> SUFFICES ASSUME Init PROVE TypeOK /\ TagInv
  OBVIOUS
<1>1. NoByte \in ByteAt /\ req \in Seq(Frames) /\ Len(req) = 0
  BY DEF Init, ByteAt
<1>2. USART_RX_BUF \in [RxIndex -> ByteAt]
  BY <1>1 DEF Init
<1>3. ram \in ByteAt \X ByteAt /\ ee \in ByteAt \X ByteAt
      /\ serial_Num \in ByteAt \X ByteAt
  BY <1>1 DEF Init
<1>4. /\ pos \in Nat /\ lost \in Nat /\ revce_count \in 0 .. RxLimit
      /\ rece_size \in Byte /\ serial_receive_timeout_count \in Byte
      /\ tmp \in Byte /\ cur \in 0 .. Len(req)
  BY <1>1, SerialAssumption DEF Init, Byte, ByteMod, DATABUFLEN_SCAN
<1>5. txie \in BOOLEAN /\ SNWriteflag \in BOOLEAN
  BY DEF Init
<1>6. /\ dealwithTag \in 0 .. 2 /\ TXEN \in {"SEND", "RECEIVE"}
      /\ send_count \in Nat /\ sendbyte_num \in Nat /\ pipe \in 0 .. 2
      /\ wire \in Nat /\ pc \in TaskPc /\ pc # "tagstore"
      /\ answered \subseteq Nat
  BY DEF Init, TaskPc
<1> QED
  BY <1>1, <1>2, <1>3, <1>4, <1>5, <1>6 DEF TypeOK, TagInv

LEMMA TypeStep == TypeOK /\ TagInv /\ [Next]_vars => (TypeOK /\ TagInv)'
<1> SUFFICES ASSUME TypeOK, TagInv, [Next]_vars PROVE (TypeOK /\ TagInv)'
  OBVIOUS
<1>a. \A buf \in [RxIndex -> ByteAt], c \in 0 .. RxLimit :
        SizeAfter(c, buf) \in Byte /\ TimeoutAfter(c, buf) \in Byte
  BY SizeType
<1>b. ReplyLength \in Nat
  BY ReplyLengthType
<1> USE SerialAssumption DEF TypeOK, TagInv, ByteMod, Byte, DATABUFLEN_SCAN
<1>0. req' = req => ByteAt' = ByteAt
  BY DEF ByteAt
<1>1. ASSUME NEW f \in Frames, MasterStart(f) PROVE (TypeOK /\ TagInv)'
  BY <1>1, BytesKept DEF MasterStart, rxVars, txVars, taskVars, storeVars
<1>2. CASE LoseByte
  BY <1>0, <1>2 DEF LoseByte, rxVars, txVars, taskVars, storeVars
<1>3. CASE RxIsr
  <2>1. /\ req' = req /\ pos < pos' /\ pos' \in Nat
        /\ revce_count + 1 \in 1 .. RxLimit
    BY <1>3 DEF RxIsr
  <2>2. USART_RX_BUF' \in [RxIndex -> ByteAt]
    <3>1. Len(req) \in 1 .. Len(req)
      BY <1>3 DEF RxIsr, ByteArrives, LineIdle
    <3>2. <<Len(req), pos>> \in ByteAt
      BY <3>1 DEF ByteAt
    <3> QED
      BY <3>2, <1>3 DEF RxIsr
  <2>3. /\ rece_size' \in Byte
        /\ serial_receive_timeout_count' \in Byte
    <3>1. /\ rece_size' = SizeAfter(revce_count + 1, USART_RX_BUF')
          /\ serial_receive_timeout_count' = TimeoutAfter(revce_count + 1, USART_RX_BUF')
      BY <1>3 DEF RxIsr, Received
    <3>2. revce_count + 1 \in 0 .. RxLimit
      BY <2>1
    <3>3. /\ SizeAfter(revce_count + 1, USART_RX_BUF') \in Byte
          /\ TimeoutAfter(revce_count + 1, USART_RX_BUF') \in Byte
      BY <3>2, <2>2, <1>a
    <3> QED
      BY <3>1, <3>3
  <2>4. /\ dealwithTag' = 2 \/ dealwithTag' = dealwithTag
        /\ revce_count' = revce_count + 1
        /\ UNCHANGED <<lost, TXEN, txVars, taskVars, storeVars>>
    BY <1>3 DEF RxIsr, Received
  <2> QED
    BY <1>0, <2>1, <2>2, <2>3, <2>4 DEF txVars, taskVars, storeVars
<1>4. CASE RxIsrFull
  <2>1. /\ rece_size' \in Byte
        /\ serial_receive_timeout_count' \in Byte
    <3>1. USART_RX_BUF \in [RxIndex -> ByteAt] /\ 0 \in 0 .. RxLimit
      OBVIOUS
    <3>2. SizeAfter(0, USART_RX_BUF) \in Byte /\ TimeoutAfter(0, USART_RX_BUF) \in Byte
      BY <3>1, <1>a
    <3>3. /\ rece_size' = SizeAfter(0, USART_RX_BUF)
          /\ serial_receive_timeout_count' = TimeoutAfter(0, USART_RX_BUF)
      BY <1>4 DEF RxIsrFull, Received
    <3> QED
      BY <3>2, <3>3
  <2> QED
    BY <1>0, <1>4, <2>1 DEF RxIsrFull, Received, lineVars, txVars, taskVars, storeVars
<1>5. CASE TxIsrByte
  BY <1>0, <1>5 DEF TxIsrByte, lineVars, rxVars, taskVars, storeVars
<1>6. CASE TxIsrEnd
  <2>1. txie' \in BOOLEAN
    BY <1>6 DEF TxIsrEnd
  <2> QED
    BY <1>0, <1>6, <2>1 DEF TxIsrEnd, serial_restart, lineVars, taskVars, storeVars
<1>7. CASE ShiftOut
  BY <1>0, <1>7 DEF ShiftOut, lineVars, rxVars, taskVars, storeVars
<1>8. CASE TagLoad
  BY <1>0, <1>8 DEF TagLoad, Goto, TaskPc, lineVars, rxVars, txVars, storeVars
<1>9. CASE TagStore
  BY <1>0, <1>9 DEF TagStore, Goto, TaskPc, lineVars, txVars, storeVars
<1>10. ASSUME NEW n \in 1 .. Len(req), CheckAccept(n) PROVE (TypeOK /\ TagInv)'
  BY <1>0, <1>10 DEF CheckAccept, Goto, TaskPc, Storing, lineVars, rxVars, txVars, storeVars
<1>11. CASE CheckReject
  BY <1>0, <1>11 DEF CheckReject, serial_restart, Goto, TaskPc, lineVars, txVars, storeVars
<1>12. CASE SendMode
  BY <1>0, <1>12 DEF SendMode, Goto, TaskPc, Storing, lineVars, rxVars, txVars, storeVars
<1>13. CASE Reply
  <2>1. sendbyte_num' \in Nat /\ wire' \in Nat /\ answered' \subseteq Nat
    <3>1. CASE ReplyLength > 0
      <4>1. /\ sendbyte_num' = ReplyLength /\ wire' = 0
            /\ answered' = answered \cup {cur}
        BY <1>13, <3>1 DEF Reply
      <4>2. cur \in Nat
        OBVIOUS
      <4> QED
        BY <4>1, <4>2, <1>b
    <3>2. CASE ~(ReplyLength > 0)
      <4>1. UNCHANGED <<sendbyte_num, txie, wire, answered>>
        BY <1>13, <3>2 DEF Reply
      <4> QED
        BY <4>1
    <3> QED
      BY <3>1, <3>2
  <2>2. txie' \in BOOLEAN
    BY <1>13 DEF Reply
  <2> QED
    BY <1>0, <1>13, <2>1, <2>2 DEF Reply, Goto, TaskPc, Storing, lineVars, rxVars, storeVars
<1>14. CASE StoreOffset
  <2>1. USART_RX_BUF[4] \in ByteAt /\ USART_RX_BUF[5] \in ByteAt
    BY DEF RxIndex
  <2>2. SNWriteflag' \in BOOLEAN
    BY <1>14 DEF StoreOffset, storeVars
  <2> QED
    BY <1>0, <1>14, <2>1, <2>2 DEF StoreOffset, Goto, TaskPc, Storing, Pair, lineVars,
       rxVars, txVars
<1>15. CASE StoreOffsetLow
  <2>1. USART_RX_BUF[4] \in ByteAt /\ USART_RX_BUF[5] \in ByteAt
    BY DEF RxIndex
  <2>2. SNWriteflag' \in BOOLEAN
    BY <1>15 DEF StoreOffsetLow, storeVars
  <2> QED
    BY <1>0, <1>15, <2>1, <2>2 DEF StoreOffsetLow, Goto, TaskPc, Pair, lineVars, rxVars, txVars
<1>16. CASE StoreSerial
  <2>1. USART_RX_BUF[4] \in ByteAt /\ USART_RX_BUF[5] \in ByteAt
    BY DEF RxIndex
  <2>2. SNWriteflag' \in BOOLEAN
    BY <1>16 DEF StoreSerial, storeVars
  <2> QED
    BY <1>0, <1>16, <2>1, <2>2 DEF StoreSerial, Goto, TaskPc, Storing, Pair, lineVars,
       rxVars, txVars
<1>17. CASE StoreBaud
  <2>1. txie' \in BOOLEAN
    BY <1>17 DEF StoreBaud
  <2> QED
    BY <1>0, <1>17, <2>1 DEF StoreBaud, Goto, TaskPc, Storing, lineVars, rxVars, storeVars
<1>18. CASE modbus_init
  BY <1>0, <1>18 DEF modbus_init, serial_restart, Goto, TaskPc, lineVars, txVars, storeVars
<1>19. CASE StoreNothing
  BY <1>0, <1>19 DEF StoreNothing, Goto, TaskPc, lineVars, rxVars, txVars, storeVars
<1>20. CASE TickTest
  BY <1>0, <1>20 DEF TickTest, Goto, TaskPc, lineVars, rxVars, txVars, storeVars
<1>21. CASE TickLoad
  BY <1>0, <1>21 DEF TickLoad, Goto, TaskPc, lineVars, rxVars, txVars, storeVars
<1>22. CASE TickStore
  BY <1>0, <1>22 DEF TickStore, Goto, TaskPc, lineVars, txVars, storeVars
<1>23. CASE TickZero
  BY <1>0, <1>23 DEF TickZero, serial_restart, Goto, TaskPc, lineVars, txVars, storeVars
<1>24. CASE UNCHANGED vars
  BY <1>0, <1>24 DEF vars, lineVars, rxVars, txVars, taskVars, storeVars
<1> QED
  BY <1>1, <1>2, <1>3, <1>4, <1>5, <1>6, <1>7, <1>8, <1>9, <1>10, <1>11, <1>12, <1>13,
     <1>14, <1>15, <1>16, <1>17, <1>18, <1>19, <1>20, <1>21, <1>22, <1>23, <1>24 DEF Next,
     Master, TxIsr, Task

(* The variables keep their types: no counter leaves its byte, no index    *)
(* the buffer, and the driver, the tag and the task stay in their states.  *)
THEOREM TypeCorrect == Spec => []TypeOK
<1> SUFFICES Spec => [](TypeOK /\ TagInv)
  BY PTL
<1> QED
  BY TypeInit, TypeStep, PTL DEF Spec

(* The inductive invariant holds initially and is kept by every step.      *)
LEMMA InvInit == Init => IInv
<1> SUFFICES ASSUME Init PROVE IInv
  OBVIOUS
<1>1. TypeOK /\ TagInv
  BY TypeInit
<1>2. LineInv
  BY SerialAssumption DEF Init, LineInv
<1>3. SizeInv /\ HoldInv /\ AnswerInv
  BY DEF Init, SizeInv, HoldInv, AnswerInv
<1>4. PendingInv /\ TaskInv /\ TxInv
  BY <1>1 DEF Init, PendingInv, Pending, Taking, Deciding, TaskInv, TxInv
<1> QED
  BY <1>1, <1>2, <1>3, <1>4 DEF IInv

LEMMA InvStep == QuietLine /\ IInv /\ [Next]_vars => IInv'
<1> SUFFICES ASSUME QuietLine, IInv, [Next]_vars PROVE IInv'
  OBVIOUS
<1>t. TypeOK /\ TagInv
  BY DEF IInv, TaskInv
<1>u. TypeOK' /\ TagInv'
  BY <1>t, TypeStep
<1>n. /\ Len(req) \in Nat /\ pos \in Nat /\ cur \in Nat
      /\ RxLimit \in Nat /\ RxLimit >= DATABUFLEN_SCAN
      /\ revce_count \in 0 .. RxLimit
      /\ rece_size \in Nat /\ serial_receive_timeout_count \in Nat
      /\ dealwithTag \in Nat /\ tmp \in Nat
      /\ send_count \in Nat /\ sendbyte_num \in Nat
      /\ pipe \in Nat /\ wire \in Nat
      /\ \A n \in answered : n \in Nat
      /\ TXEN \in {"SEND", "RECEIVE"}
  BY <1>t, SerialAssumption DEF TypeOK, Byte, ByteMod, DATABUFLEN_SCAN
<1>f. \A n \in 1 .. Len(req) :
        /\ req[n] \in Frames /\ req[n].len \in Nat
        /\ req[n].fn \in Byte /\ req[n].reg \in Byte
  BY <1>t, SerialAssumption DEF TypeOK, FrameType
<1>l. req # << >> => Len(req) \in 1 .. Len(req)
  BY <1>t DEF TypeOK
<1>b. /\ \A i \in RxIndex : USART_RX_BUF[i] \in ByteAt
      /\ \A b \in ByteAt :
           b = NoByte \/ (b[1] \in 1 .. Len(req) /\ b[2] \in Nat)
  BY <1>t DEF TypeOK, ByteAt
<1>1. ASSUME NEW f \in Frames, MasterStart(f) PROVE IInv'
  <2>1. /\ req' = Append(req, f) /\ Len(req') = Len(req) + 1
        /\ Len(req') <= MaxFrames
        /\ pos' = 0 /\ f.len \in Nat
        /\ \A n \in 1 .. Len(req) : req'[n] = req[n]
        /\ req'[Len(req')] = f
        /\ UNCHANGED <<rxVars, TXEN, txVars, taskVars>>
    BY <1>1, <1>t, SerialAssumption DEF MasterStart, TypeOK, FrameType
  <2>2. LineInv'
    <3>1. \A b \in ByteAt : b # NoByte => Sent(b)'
      BY <2>1, <1>n, <1>b DEF Sent
    <3>2. USART_RX_BUF' = USART_RX_BUF
      BY <2>1 DEF rxVars
    <3>3. pos' <= req'[Len(req')].len
      BY <2>1
    <3>4. \A i \in RxIndex :
            USART_RX_BUF'[i] # NoByte => Sent(USART_RX_BUF[i])'
      BY <3>1, <3>2, <1>b DEF Sent
    <3> QED
      BY <2>1, <3>2, <3>3, <3>4 DEF LineInv
  <2>3. Function(USART_RX_BUF)' = Function(USART_RX_BUF)
    BY <2>1, <1>t, BytesKept, SerialAssumption
    DEF Function, TypeOK, RxIndex, rxVars, DATABUFLEN_SCAN
  <2>4. SizeInv'
    BY <2>1, <2>3 DEF IInv, SizeInv, rxVars
  <2>5. PendingInv' /\ TaskInv' /\ TxInv'
    BY <2>1, <2>3, <1>t DEF IInv, TypeOK, PendingInv, Pending, Taking, Deciding,
       TaskInv, TagInv, TxInv, rxVars, txVars, taskVars
  <2>6. HoldInv'
    BY <2>1, <1>t DEF IInv, HoldInv, Deciding, TypeOK, rxVars, txVars, taskVars
  <2>7. AnswerInv'
    <3>0. \A n \in answered : n \in Nat /\ (n < Len(req) \/ n = Len(req))
      BY <1>n DEF IInv, AnswerInv
    <3>1. \A n \in answered : n < Len(req')
      BY <2>1, <1>n, <3>0
    <3> QED
      BY <2>1, <3>1 DEF IInv, AnswerInv, rxVars, txVars, taskVars
  <2> QED
    BY <1>u, <2>2, <2>4, <2>5, <2>6, <2>7 DEF IInv
<1>2. CASE RxIsr
  <2> DEFINE c   == revce_count + 1
             buf == USART_RX_BUF'
             fn  == Function(buf)
  <2>1. /\ Len(req) \in 1 .. Len(req)
        /\ pos < req[Len(req)].len /\ pos' = pos + 1
        /\ revce_count < RxLimit /\ revce_count' = c
        /\ TXEN = "RECEIVE" /\ ~txie /\ pipe = 0
        /\ UNCHANGED <<req, TXEN, txVars, taskVars>>
    BY <1>2, <1>n, <1>f, <1>l
    DEF RxIsr, ByteArrives, LineIdle, Received, IInv, LineInv, TxInv
  <2>2. /\ pc \notin {"tickload", "tickstore", "tickzero", "reply"}
        /\ pc \in {"check", "sendmode"} => c < RxLimit
    BY <1>2, <2>1
    DEF RxIsr, ByteArrives, IsrMayRun, DecisionIsQuick, QuietLine, IInv, TaskInv, TagInv
  <2>3. /\ rece_size' = SizeAfter(c, buf)
        /\ serial_receive_timeout_count' = TimeoutAfter(c, buf)
    BY <1>2 DEF RxIsr, Received
  <2>4. /\ FrameEnds(c) => dealwithTag' = 2
        /\ ~FrameEnds(c) => dealwithTag' = dealwithTag
    BY <1>2 DEF RxIsr
  <2>5. /\ revce_count \in RxIndex
        /\ buf[revce_count] = <<Len(req), pos>>
        /\ \A i \in RxIndex : i # revce_count => buf[i] = USART_RX_BUF[i]
    BY <1>2, <1>t, <1>n, <2>1 DEF RxIsr, TypeOK, RxIndex
  <2>6. /\ Function(USART_RX_BUF)' = fn
        /\ revce_count >= 2 => fn = Function(USART_RX_BUF)
    BY <2>1, <2>5, <1>n DEF Function, Val, RxIndex, DATABUFLEN_SCAN
  <2>7. FrameEnds(c) =>
          /\ c >= 6 /\ c = rece_size
          /\ c = 6 => Function(USART_RX_BUF) = CHECKONLINE
    <3>1. FrameEnds(c) => c = rece_size /\ c \notin {1, 3, 4}
      BY DEF FrameEnds
    <3>2. /\ revce_count \in {1, 2} => rece_size = RxLimit
          /\ revce_count \in 3 .. 6 =>
               /\ rece_size \in {RxLimit, 6, DATABUFLEN_SCAN}
               /\ rece_size = 6 => Function(USART_RX_BUF) = CHECKONLINE
      BY DEF IInv, SizeInv
    <3> QED
      BY <3>1, <3>2, <1>n DEF DATABUFLEN_SCAN
  <2>8. LineInv'
    <3>1. \A b \in ByteAt : b # NoByte /\ Sent(b) => Sent(b)'
      BY <2>1, <1>n, <1>b DEF Sent
    <3>2. \A i \in RxIndex : buf[i] # NoByte => Sent(USART_RX_BUF[i])'
      <4> TAKE i \in RxIndex
      <4>1. CASE i = revce_count
        BY <4>1, <2>1, <2>5, <1>n DEF Sent
      <4>2. CASE i # revce_count
        BY <4>2, <3>1, <2>5, <1>b DEF Sent, IInv, LineInv
      <4> QED
        BY <4>1, <4>2
    <3>3. pos' <= req[Len(req)].len
      BY <2>1, <1>n, <1>f
    <3> QED
      BY <2>1, <3>2, <3>3 DEF IInv, LineInv
  <2>9. SizeInv'
    <3>1. CASE c \in {1, 2}
      <4>1. c = 1 => rece_size' = RxLimit
        BY <2>3 DEF SizeAfter
      <4>2. c = 2 => rece_size' = rece_size /\ rece_size = RxLimit
        <5>1. c = 2 => rece_size' = rece_size
          BY <2>3 DEF SizeAfter
        <5>2. c = 2 => rece_size = RxLimit
          BY <1>n DEF IInv, SizeInv
        <5> QED
          BY <5>1, <5>2
      <4> QED
        BY <3>1, <4>1, <4>2, <2>1, <1>n DEF SizeInv, DATABUFLEN_SCAN
    <3>2. CASE c \in 3 .. 6
      <4>1. rece_size' = rece_size
            \/ rece_size' = DATABUFLEN_SCAN
            \/ (c = 3 /\ rece_size' = 6 /\ fn = CHECKONLINE)
        BY <3>2, <2>3 DEF SizeAfter
      <4>2. c = 3 => rece_size = RxLimit
        BY <1>n DEF IInv, SizeInv
      <4>3. c \in 4 .. 6 => rece_size \in {RxLimit, 6, DATABUFLEN_SCAN}
                            /\ (rece_size = 6 => fn = CHECKONLINE)
        BY <2>6, <1>n DEF IInv, SizeInv
      <4> QED
        BY <3>2, <4>1, <4>2, <4>3, <2>1, <2>6, <1>n DEF SizeInv, DATABUFLEN_SCAN
    <3>3. CASE c >= 7
      <4>1. Val(buf[6]) \in 0 .. 255 /\ Val(buf[6]) # 247
        <5>1. buf[6] \in ByteAt
          BY <1>u, <2>1, <1>n DEF TypeOK, ByteAt, RxIndex, DATABUFLEN_SCAN
        <5> QED
          BY <5>1, <1>t, ByteValue DEF Byte, ByteMod
      <4>2. (Val(buf[6]) + 9) % ByteMod # 0
        BY <4>1 DEF ByteMod
      <4>3. c = 7 => rece_size' # 0
        <5>1. c = 7 => \/ rece_size' = 8
                       \/ rece_size' = (Val(buf[6]) + 9) % ByteMod
                       \/ rece_size' = RxLimit
          BY <2>3 DEF SizeAfter
        <5> QED
          BY <5>1, <4>2, <1>n, SMTT(30) DEF DATABUFLEN_SCAN
      <4>4. c > 7 => rece_size' = rece_size /\ rece_size # 0
        <5>1. c > 7 => rece_size' = rece_size
          BY <2>3, <1>n, HeaderIn
        <5>2. c > 7 => rece_size # 0
          BY <1>n DEF IInv, SizeInv
        <5> QED
          BY <5>1, <5>2
      <4> QED
        BY <3>3, <4>3, <4>4, <2>1, <1>n DEF SizeInv
    <3> QED
      BY <3>1, <3>2, <3>3, <1>n
  <2>10. PendingInv'
    <3>1. CASE FrameEnds(c)
      <4>1. rece_size' = rece_size /\ serial_receive_timeout_count' = 0
        BY <3>1, <2>3, <2>7 DEF SizeAfter, TimeoutAfter, FrameEnds
      <4> QED
        BY <3>1, <4>1, <2>1, <2>6, <2>7, <1>n DEF PendingInv, txVars
    <3>2. CASE ~FrameEnds(c)
      <4> SUFFICES ASSUME Pending' PROVE PendingInv'
        BY DEF PendingInv
      <4>1. Pending
        BY <3>2, <2>1, <2>4 DEF Pending, Taking, Deciding, taskVars
      <4>2. /\ serial_receive_timeout_count = 0 /\ revce_count >= 6
            /\ revce_count = 6 => fn = CHECKONLINE
            /\ revce_count >= rece_size \/ rece_size = RxLimit
        BY <4>1, <2>6, <1>n DEF IInv, PendingInv
      <4>3. CASE revce_count = 6
        BY <4>2, <4>3, <2>1, <2>3, <3>2
        DEF SizeAfter, TimeoutAfter, PendingInv, READ_VARIABLES,
            WRITE_VARIABLES, MULTIPLE_WRITE, CHECKONLINE, txVars
      <4>4. CASE revce_count > 6
        <5>1. rece_size' = rece_size /\ serial_receive_timeout_count' = 0
          <6>1. c \in Nat /\ c > 7
            BY <4>4, <1>n
          <6> QED
            BY <6>1, <4>2, <2>3, HeaderIn
        <5> QED
          BY <4>2, <4>4, <5>1, <2>1, <1>n DEF PendingInv, txVars
      <4> QED
        BY <4>2, <4>3, <4>4, <1>n
    <3> QED
      BY <3>1, <3>2
  <2>11. pc \in {"check", "sendmode"} => ~FrameEnds(c)
    BY <2>2, <1>n DEF FrameEnds, IInv, PendingInv, Pending, Deciding
  <2>12. TaskInv'
    <3>1. UNCHANGED <<pc, tmp, TXEN, txie>>
      BY <2>1 DEF txVars, taskVars
    <3>2. Taking' => dealwithTag' = 2
      BY <3>1, <2>4 DEF IInv, TaskInv, Taking
    <3>3. Deciding' => dealwithTag' = 1
      BY <3>1, <2>2, <2>4, <2>11 DEF IInv, TaskInv, Deciding
    <3> QED
      BY <3>1, <3>2, <3>3, <2>1, <2>2 DEF IInv, TaskInv, TagInv
  <2>13. TxInv'
    BY <2>1 DEF IInv, TxInv, txVars, taskVars
  <2>14. HoldInv'
    <3> SUFFICES ASSUME pc = "sendmode"
                 PROVE  /\ cur \in 1 .. Len(req)
                        /\ req[cur].len \in 6 .. c
                        /\ req[cur].fn \in {READ_VARIABLES, WRITE_VARIABLES,
                                            MULTIPLE_WRITE, CHECKONLINE}
                        /\ \A i \in 0 .. req[cur].len - 1 : buf[i] = <<cur, i>>
                        /\ req[cur].fn = WRITE_VARIABLES =>
                             rece_size' = req[cur].len
      BY <2>1, <2>2 DEF HoldInv, txVars, taskVars
    <3>1. /\ cur \in 1 .. Len(req)
          /\ req[cur].len \in 6 .. revce_count
          /\ req[cur].fn \in {READ_VARIABLES, WRITE_VARIABLES, MULTIPLE_WRITE,
                              CHECKONLINE}
          /\ \A i \in 0 .. req[cur].len - 1 : USART_RX_BUF[i] = <<cur, i>>
          /\ req[cur].fn = WRITE_VARIABLES => rece_size = req[cur].len
      BY DEF IInv, HoldInv, Deciding
    <3>2. \A i \in 0 .. req[cur].len - 1 : buf[i] = <<cur, i>>
      <4>1. \A i \in 0 .. req[cur].len - 1 : i \in RxIndex /\ i # revce_count
        BY <3>1, <2>1, <1>n DEF RxIndex
      <4> QED
        BY <3>1, <4>1, <2>5
    <3>3. Function(USART_RX_BUF) = req[cur].fn
      <4>1. USART_RX_BUF[1] = <<cur, 1>>
        BY <3>1, <1>n
      <4> QED
        BY <3>1, <4>1, OwnBytes DEF Function
    <3>4. revce_count = 6 => Function(USART_RX_BUF) = CHECKONLINE
      BY DEF IInv, PendingInv, Pending, Deciding
    <3>5. req[cur].fn = WRITE_VARIABLES => rece_size' = rece_size
      <4>1. CASE revce_count = 6
        BY <4>1, <3>3, <3>4 DEF WRITE_VARIABLES, CHECKONLINE
      <4>2. CASE revce_count > 6
        <5>1. c \in Nat /\ c > 7
          BY <4>2, <1>n
        <5> QED
          BY <5>1, <2>3, HeaderIn
      <4> QED
        BY <3>1, <4>1, <4>2, <1>n
    <3> QED
      BY <3>1, <3>2, <3>5, <1>n
  <2>15. AnswerInv'
    <3>1. \A n \in answered : n < Len(req)
      BY <2>1, <1>n, <1>f DEF IInv, AnswerInv
    <3>2. buf[0] # NoByte /\ \A n \in answered : n < buf[0][1]
      <4>1. CASE revce_count = 0
        BY <4>1, <3>1, <2>1, <2>5 DEF NoByte
      <4>2. CASE revce_count # 0
        BY <4>2, <2>1, <2>5, <1>n DEF IInv, AnswerInv, RxIndex
      <4> QED
        BY <4>1, <4>2
    <3> QED
      BY <2>1, <2>2, <3>1, <3>2 DEF IInv, AnswerInv, taskVars
  <2> QED
    BY <1>u, <2>8, <2>9, <2>10, <2>12, <2>13, <2>14, <2>15 DEF IInv
<1>3. ASSUME NEW n \in 1 .. Len(req), CheckAccept(n) PROVE IInv'
  <2>1. /\ pc = "check" /\ pc' = "sendmode" /\ cur' = n /\ TXEN = "RECEIVE"
        /\ UNCHANGED <<lineVars, rxVars, TXEN, txVars, tmp, answered>>
    BY <1>3 DEF CheckAccept, Goto, IInv, TaskInv, TagInv
  <2>2. /\ revce_count = rece_size /\ req[n].len = rece_size
        /\ \A i \in 0 .. rece_size - 1 : USART_RX_BUF[i] = <<n, i>>
        /\ Function(USART_RX_BUF) \in
             {READ_VARIABLES, WRITE_VARIABLES, MULTIPLE_WRITE, CHECKONLINE}
    BY <1>3 DEF CheckAccept, Accepts, HoldsFrame
  <2>3. revce_count >= 6
    BY <2>1 DEF IInv, PendingInv, Pending, Deciding
  <2>4. /\ USART_RX_BUF[0] = <<n, 0>> /\ <<n, 0>> # NoByte
        /\ Function(USART_RX_BUF) = req[n].fn
    <3>1. USART_RX_BUF[0] = <<n, 0>> /\ USART_RX_BUF[1] = <<n, 1>>
      BY <2>2, <2>3, <1>n
    <3>2. <<n, 0>> # NoByte
      BY <1>n DEF NoByte
    <3> QED
      BY <3>1, <3>2, OwnBytes DEF Function
  <2>5. LineInv' /\ SizeInv'
    BY <2>1 DEF IInv, LineInv, Sent, SizeInv, Function, Val, lineVars, rxVars
  <2>6. AnswerInv'
    BY <2>1, <2>3, <2>4, <1>n DEF IInv, AnswerInv, lineVars, rxVars
  <2>7. PendingInv' /\ TaskInv' /\ TxInv'
    BY <2>1, <1>t DEF IInv, PendingInv, Pending, Taking, Deciding, TaskInv, TagInv, TxInv,
       Function, Val, lineVars, rxVars, txVars
  <2>8. HoldInv'
    BY <2>1, <2>2, <2>3, <2>4, <1>n DEF HoldInv, lineVars, rxVars
  <2> QED
    BY <1>u, <2>5, <2>6, <2>7, <2>8 DEF IInv
<1>4. CASE LoseByte
  <2>1. /\ Len(req) \in 1 .. Len(req)
        /\ pos < req[Len(req)].len /\ pos' = pos + 1
        /\ UNCHANGED <<req, rxVars, TXEN, txVars, taskVars>>
    BY <1>4, <1>n, <1>f, <1>l DEF LoseByte, LineIdle, IInv, LineInv
  <2>2. LineInv'
    <3>1. pos' <= req[Len(req)].len
      BY <2>1, <1>n, <1>f
    <3>2. \A b \in ByteAt : b # NoByte /\ Sent(b) => Sent(b)'
      BY <2>1, <1>n, <1>b DEF Sent
    <3>3. USART_RX_BUF' = USART_RX_BUF
      BY <2>1 DEF rxVars
    <3>4. \A i \in RxIndex :
            USART_RX_BUF'[i] # NoByte => Sent(USART_RX_BUF[i])'
      BY <3>2, <3>3, <1>b DEF IInv, LineInv, Sent
    <3> QED
      BY <2>1, <3>1, <3>3, <3>4 DEF IInv, LineInv
  <2>3. SizeInv'
    BY <2>1 DEF IInv, SizeInv, Function, Val, rxVars
  <2>4. AnswerInv'
    <3>1. \A n \in answered : n < Len(req)
      BY <2>1, <1>n, <1>f DEF IInv, AnswerInv
    <3> QED
      BY <2>1, <3>1 DEF IInv, AnswerInv, rxVars, txVars, taskVars
  <2>5. PendingInv' /\ TaskInv' /\ TxInv'
    BY <2>1, <1>t DEF IInv, TypeOK, PendingInv, Pending, Taking, Deciding,
       TaskInv, TagInv, TxInv, Function, Val, rxVars, txVars, taskVars
  <2>6. HoldInv'
    BY <2>1, <1>t DEF IInv, HoldInv, Deciding, rxVars, txVars, taskVars
  <2> QED
    BY <1>u, <2>2, <2>3, <2>4, <2>5, <2>6 DEF IInv
<1>5. CASE RxIsrFull
  <2>1. revce_count > 0 /\ rece_size # 0 /\ revce_count = RxLimit
    BY <1>5, <1>n DEF RxIsrFull, IInv, SizeInv, DATABUFLEN_SCAN
  <2>2. /\ revce_count' = 0 /\ dealwithTag' = 0
        /\ rece_size' = rece_size
        /\ serial_receive_timeout_count' = serial_receive_timeout_count
        /\ UNCHANGED <<lineVars, USART_RX_BUF, TXEN, txVars, taskVars>>
    BY <1>5, <2>1 DEF RxIsrFull, Received, SizeAfter, TimeoutAfter, FrameEnds
  <2>3. pc \notin {"tagstore", "check", "sendmode"} /\ TXEN = "RECEIVE"
    BY <1>5, <2>1, <1>n DEF RxIsrFull, ByteArrives, DecisionIsQuick
  <2>4. LineInv' /\ SizeInv' /\ AnswerInv'
    BY <2>2, <1>n DEF IInv, LineInv, Sent, SizeInv, AnswerInv, lineVars,
       taskVars
  <2>5. PendingInv' /\ TaskInv' /\ TxInv'
    BY <2>2, <2>3, <1>n DEF IInv, PendingInv, Pending, Taking, Deciding,
       TaskInv, TagInv, TxInv, txVars, taskVars
  <2>6. HoldInv'
    BY <2>2, <2>3 DEF IInv, HoldInv, Deciding, TaskInv, TagInv, TxInv, txVars, taskVars
  <2> QED
    BY <1>u, <2>4, <2>5, <2>6 DEF IInv
<1>6. CASE TxIsrByte
  <2>1. LineInv' /\ SizeInv' /\ AnswerInv'
    BY <1>6, <1>t DEF IInv, LineInv, Sent, SizeInv, AnswerInv, Function, Val,
       TxIsrByte, lineVars, rxVars, taskVars
  <2>2. PendingInv' /\ TaskInv' /\ TxInv'
    BY <1>6, <1>t, <1>u DEF IInv, TypeOK, PendingInv, Pending, Taking, Deciding,
       TaskInv, TxInv, Function, Val, TxIsrByte, lineVars, rxVars, taskVars
  <2>3. HoldInv'
    BY <1>6, <1>t DEF IInv, HoldInv, Deciding, TxIsrByte, lineVars, rxVars, taskVars
  <2> QED
    BY <1>u, <2>1, <2>2, <2>3 DEF IInv
<1>7. CASE TxIsrEnd
  <2>1. LineInv' /\ SizeInv' /\ AnswerInv'
    BY <1>7, <1>t DEF IInv, LineInv, Sent, SizeInv, AnswerInv, Function, Val,
       TxIsrEnd, serial_restart, lineVars, taskVars
  <2>2. PendingInv' /\ TaskInv' /\ TxInv'
    BY <1>7, <1>t DEF IInv, TypeOK, PendingInv, Pending, Taking, Deciding,
       TaskInv, TagInv, TxInv, TxIsrEnd, SendDone, serial_restart, taskVars
  <2>3. pc' \notin {"sendmode", "reply"} /\ ~txie'
    BY <1>7 DEF TxIsrEnd, IInv, PendingInv, Pending, Deciding, taskVars
  <2>4. HoldInv'
    BY <2>3 DEF HoldInv
  <2> QED
    BY <1>u, <2>1, <2>2, <2>4 DEF IInv
<1>8. CASE ShiftOut
  <2>1. LineInv' /\ SizeInv' /\ AnswerInv'
    BY <1>8, <1>t DEF IInv, LineInv, Sent, SizeInv, AnswerInv, Function, Val,
       ShiftOut, lineVars, rxVars, taskVars
  <2>2. PendingInv' /\ TaskInv' /\ TxInv'
    BY <1>8, <1>t, <1>u DEF IInv, TypeOK, PendingInv, Pending, Taking, Deciding,
       TaskInv, TxInv, Function, Val, ShiftOut, lineVars, rxVars, taskVars
  <2>3. HoldInv'
    BY <1>8, <1>t DEF IInv, HoldInv, Deciding, ShiftOut, lineVars, rxVars, taskVars
  <2> QED
    BY <1>u, <2>1, <2>2, <2>3 DEF IInv
<1>9. CASE TagLoad
  <2>1. LineInv' /\ SizeInv' /\ AnswerInv'
    BY <1>9, <1>t DEF IInv, LineInv, Sent, SizeInv, AnswerInv, Function, Val,
       TagLoad, Goto, lineVars, rxVars, txVars
  <2>2. PendingInv' /\ TaskInv' /\ TxInv'
    BY <1>9, <1>t, <1>u DEF IInv, TypeOK, PendingInv, Pending, Taking, Deciding,
       TaskInv, TxInv, Function, Val, TagLoad, Goto, lineVars, rxVars, txVars
  <2>3. HoldInv'
    BY <1>9, <1>t DEF IInv, HoldInv, Deciding, TagLoad, Goto, lineVars, rxVars, txVars
  <2> QED
    BY <1>u, <2>1, <2>2, <2>3 DEF IInv
<1>10. CASE TagStore
  <2>1. /\ pc = "tagstore" /\ tmp \in 1 .. 2 /\ tmp' = tmp
        /\ UNCHANGED <<lineVars, USART_RX_BUF, revce_count, rece_size,
                       serial_receive_timeout_count, TXEN, txVars, cur, answered>>
    BY <1>10, <1>t DEF TagStore, TagInv
  <2>2. \/ tmp = 2 /\ dealwithTag' = 1 /\ pc' = "check"
        \/ tmp = 1 /\ dealwithTag' = 0 /\ pc' = "tick"
    BY <1>10, <2>1 DEF TagStore, Goto
  <2>3. LineInv' /\ SizeInv' /\ AnswerInv'
    BY <2>1, <2>2 DEF IInv, LineInv, Sent, SizeInv, AnswerInv, Function, Val,
       lineVars
  <2>4. PendingInv'
    BY <2>1, <2>2 DEF IInv, PendingInv, Pending, Taking, Deciding, Function,
       Val, lineVars, txVars
  <2>5. TaskInv' /\ TxInv'
    BY <2>1, <2>2, <1>n DEF IInv, PendingInv, Pending, Taking, Deciding,
       TaskInv, TagInv, TxInv, txVars
  <2>6. HoldInv'
    BY <2>1, <2>2 DEF HoldInv
  <2> QED
    BY <1>u, <2>3, <2>4, <2>5, <2>6 DEF IInv
<1>11. CASE CheckReject
  <2>1. LineInv' /\ SizeInv' /\ AnswerInv'
    BY <1>11, <1>t DEF IInv, LineInv, Sent, SizeInv, AnswerInv, Function, Val,
       CheckReject, serial_restart, Goto, lineVars, txVars
  <2>2. PendingInv' /\ TaskInv' /\ TxInv'
    BY <1>11, <1>t, <1>u DEF IInv, TypeOK, PendingInv, Pending, Taking, Deciding,
       TaskInv, TxInv, Function, Val, CheckReject, serial_restart, Goto, lineVars, txVars
  <2>3. HoldInv'
    BY <1>11, <1>t DEF IInv, HoldInv, Deciding, CheckReject, serial_restart, Goto, lineVars, txVars
  <2> QED
    BY <1>u, <2>1, <2>2, <2>3 DEF IInv
<1>12. CASE SendMode
  <2>1. LineInv' /\ SizeInv' /\ AnswerInv'
    BY <1>12, <1>t DEF IInv, LineInv, Sent, SizeInv, AnswerInv, Function, Val,
       SendMode, Goto, lineVars, rxVars, txVars
  <2>2. PendingInv' /\ TaskInv' /\ TxInv'
    BY <1>12, <1>t, <1>u DEF IInv, TypeOK, PendingInv, Pending, Taking, Deciding,
       TaskInv, TxInv, Function, Val, SendMode, Goto, lineVars, rxVars, txVars
  <2>3. HoldInv'
    BY <1>12, <1>t DEF IInv, HoldInv, Deciding, SendMode, Goto, lineVars, rxVars, txVars
  <2> QED
    BY <1>u, <2>1, <2>2, <2>3 DEF IInv
<1>13. CASE Reply
  <2>1. /\ pc = "reply" /\ pc' = "store" /\ TXEN = "SEND"
        /\ ~txie /\ send_count = 0 /\ pipe = 0 /\ dealwithTag = 1
        /\ serial_receive_timeout_count = 0
        /\ UNCHANGED <<lineVars, rxVars, TXEN, send_count, pipe, tmp, cur>>
    BY <1>13 DEF Reply, Goto, IInv, PendingInv, Pending, Deciding, TaskInv, TagInv, TxInv
  <2>2. /\ cur \in 1 .. Len(req)
        /\ req[cur].len \in 6 .. revce_count
        /\ USART_RX_BUF[1] = <<cur, 1>>
        /\ USART_RX_BUF[req[cur].len - 1] = <<cur, req[cur].len - 1>>
        /\ req[cur].fn = WRITE_VARIABLES => rece_size >= 6
    <3>1. /\ cur \in 1 .. Len(req)
          /\ req[cur].len \in 6 .. revce_count
          /\ \A i \in 0 .. req[cur].len - 1 : USART_RX_BUF[i] = <<cur, i>>
          /\ req[cur].fn = WRITE_VARIABLES => rece_size = req[cur].len
      BY <2>1 DEF IInv, HoldInv, Deciding
    <3>2. {1, req[cur].len - 1} \subseteq 0 .. req[cur].len - 1
      BY <3>1, <1>n
    <3> QED
      BY <3>1, <3>2
  <2>3. ReplyLength > 0
    <3>1. Function(USART_RX_BUF) = req[cur].fn
      BY <2>2, OwnBytes DEF Function
    <3>2. Val(USART_RX_BUF[5]) \in Nat
      <4>1. USART_RX_BUF[5] \in ByteAt
        BY <1>b, <1>n DEF RxIndex, DATABUFLEN_SCAN
      <4> QED
        BY <4>1, <1>t, ByteValue DEF Byte, ByteMod
    <3>3. req[cur].fn \in {READ_VARIABLES, WRITE_VARIABLES, MULTIPLE_WRITE,
                           CHECKONLINE}
      BY <2>1 DEF IInv, HoldInv
    <3>4. CASE req[cur].fn = WRITE_VARIABLES
      <4>1. ReplyLength = rece_size
        BY <3>1, <3>4, SMTT(30)
        DEF ReplyLength, READ_VARIABLES, WRITE_VARIABLES, MULTIPLE_WRITE, CHECKONLINE
      <4> QED
        BY <2>2, <3>4, <4>1, <1>n
    <3>5. CASE req[cur].fn = READ_VARIABLES
      <4>1. ReplyLength = 5 + 2 * Val(USART_RX_BUF[5])
        BY <3>1, <3>5, SMTT(30)
        DEF ReplyLength, READ_VARIABLES, WRITE_VARIABLES, MULTIPLE_WRITE, CHECKONLINE
      <4> QED
        BY <3>2, <4>1
    <3>6. CASE req[cur].fn \in {MULTIPLE_WRITE, CHECKONLINE}
      <4>1. ReplyLength \in {8, 9}
        BY <3>1, <3>6, SMTT(30)
        DEF ReplyLength, READ_VARIABLES, WRITE_VARIABLES, MULTIPLE_WRITE, CHECKONLINE
      <4> QED
        BY <4>1
    <3> QED
      BY <3>3, <3>4, <3>5, <3>6
  <2>4. txie' /\ wire' = 0 /\ answered' = answered \cup {cur}
    BY <1>13, <2>3 DEF Reply
  <2>5. LineInv' /\ SizeInv'
    BY <2>1 DEF IInv, LineInv, Sent, SizeInv, Function, Val, lineVars, rxVars
  <2>6. AnswerInv'
    <3>1. cur < Len(req) \/ (cur = Len(req) /\ pos >= req[cur].len)
      <4>1. req[cur].len - 1 \in RxIndex
        BY <2>2, <1>n DEF RxIndex
      <4>2. <<cur, req[cur].len - 1>> # NoByte
        BY <2>2 DEF NoByte
      <4>3. Sent(<<cur, req[cur].len - 1>>)
        BY <4>1, <4>2, <2>2 DEF IInv, LineInv
      <4> QED
        BY <4>3, <2>2, <1>n DEF Sent
    <3> QED
      BY <2>1, <2>2, <2>4, <3>1 DEF IInv, AnswerInv, lineVars, rxVars
  <2>7. PendingInv' /\ TaskInv' /\ TxInv'
    BY <2>1, <2>4, <1>t DEF IInv, PendingInv, Pending, Taking, Deciding,
       TaskInv, TagInv, TxInv, rxVars
  <2>8. HoldInv'
    BY <2>1 DEF IInv, HoldInv, Deciding, lineVars, rxVars
  <2> QED
    BY <1>u, <2>5, <2>6, <2>7, <2>8 DEF IInv
<1>14. CASE StoreOffset
  <2>1. LineInv' /\ SizeInv' /\ AnswerInv'
    BY <1>14, <1>t DEF IInv, LineInv, Sent, SizeInv, AnswerInv, Function, Val,
       StoreOffset, Goto, lineVars, rxVars, txVars
  <2>2. PendingInv' /\ TaskInv' /\ TxInv'
    BY <1>14, <1>t, <1>u DEF IInv, TypeOK, PendingInv, Pending, Taking, Deciding,
       TaskInv, TxInv, Function, Val, StoreOffset, Goto, lineVars, rxVars, txVars
  <2>3. HoldInv'
    BY <1>14, <1>t DEF IInv, HoldInv, Deciding, StoreOffset, Goto, lineVars, rxVars, txVars
  <2> QED
    BY <1>u, <2>1, <2>2, <2>3 DEF IInv
<1>15. CASE StoreOffsetLow
  <2>1. LineInv' /\ SizeInv' /\ AnswerInv'
    BY <1>15, <1>t DEF IInv, LineInv, Sent, SizeInv, AnswerInv, Function, Val,
       StoreOffsetLow, Goto, lineVars, rxVars, txVars
  <2>2. PendingInv' /\ TaskInv' /\ TxInv'
    BY <1>15, <1>t, <1>u DEF IInv, TypeOK, PendingInv, Pending, Taking, Deciding,
       TaskInv, TxInv, Function, Val, StoreOffsetLow, Goto, lineVars, rxVars, txVars
  <2>3. HoldInv'
    BY <1>15, <1>t DEF IInv, HoldInv, Deciding, StoreOffsetLow, Goto, lineVars, rxVars, txVars
  <2> QED
    BY <1>u, <2>1, <2>2, <2>3 DEF IInv
<1>16. CASE StoreSerial
  <2>1. LineInv' /\ SizeInv' /\ AnswerInv'
    BY <1>16, <1>t DEF IInv, LineInv, Sent, SizeInv, AnswerInv, Function, Val,
       StoreSerial, Goto, lineVars, rxVars, txVars
  <2>2. PendingInv' /\ TaskInv' /\ TxInv'
    BY <1>16, <1>t, <1>u DEF IInv, TypeOK, PendingInv, Pending, Taking, Deciding,
       TaskInv, TxInv, Function, Val, StoreSerial, Goto, lineVars, rxVars, txVars
  <2>3. HoldInv'
    BY <1>16, <1>t DEF IInv, HoldInv, Deciding, StoreSerial, Goto, lineVars, rxVars, txVars
  <2> QED
    BY <1>u, <2>1, <2>2, <2>3 DEF IInv
<1>17. CASE StoreBaud
  <2>1. /\ pc = "store" /\ pc' = "baud"
        /\ UNCHANGED <<lineVars, rxVars, send_count, sendbyte_num, wire, tmp,
                       cur, answered>>
    BY <1>17 DEF StoreBaud, Goto
  <2>2. ~txie
    <3>1. SUFFICES ASSUME txie PROVE FALSE
      OBVIOUS
    <3>2. /\ cur \in 1 .. Len(req)
          /\ USART_RX_BUF[1] = <<cur, 1>> /\ USART_RX_BUF[2] = <<cur, 2>>
          /\ USART_RX_BUF[3] = <<cur, 3>>
      BY <2>1, <3>1, <1>n, <1>f DEF IInv, HoldInv
    <3>3. /\ Function(USART_RX_BUF) = req[cur].fn
          /\ Register(USART_RX_BUF) = 256 * 0 + req[cur].reg
      BY <3>2, OwnBytes DEF Function, Register
    <3>4. req[cur].reg \in Nat
      <4>1. req[cur].reg \in Byte
        BY <3>2, <1>f
      <4> QED
        BY <4>1 DEF Byte, ByteMod
    <3>5. req[cur].fn = WRITE_VARIABLES /\ req[cur].reg = BAUDRATE
      BY <1>17, <3>3, <3>4 DEF StoreBaud, WriteTo
    <3> QED
      BY <3>2, <3>5, <1>f DEF QuietLine
  <2>3. TXEN = "RECEIVE" /\ wire >= sendbyte_num /\ send_count = 0
    BY <2>1, <2>2, <1>n DEF IInv, TxInv
  <2>4. ~txie' /\ (pipe' = 0 \/ pipe' = pipe)
    BY <1>17, <2>2 DEF StoreBaud
  <2>5. LineInv' /\ SizeInv'
    BY <2>1 DEF IInv, LineInv, Sent, SizeInv, Function, Val, lineVars, rxVars
  <2>6. AnswerInv'
    BY <2>1, <2>3 DEF IInv, AnswerInv, lineVars, rxVars
  <2>7. PendingInv' /\ TaskInv'
    BY <2>1, <2>3, <2>4, <1>t DEF IInv, PendingInv, Pending, Taking, Deciding,
       TaskInv, TagInv, Function, Val, lineVars, rxVars
  <2>8. TxInv' /\ HoldInv'
    BY <2>1, <2>3, <2>4 DEF TxInv, HoldInv
  <2> QED
    BY <1>u, <2>5, <2>6, <2>7, <2>8 DEF IInv
<1>18. CASE modbus_init
  <2>1. LineInv' /\ SizeInv' /\ AnswerInv'
    BY <1>18, <1>t DEF IInv, LineInv, Sent, SizeInv, AnswerInv, Function, Val,
       modbus_init, serial_restart, Goto, lineVars, txVars
  <2>2. PendingInv' /\ TaskInv' /\ TxInv'
    BY <1>18, <1>t, <1>u DEF IInv, TypeOK, PendingInv, Pending, Taking, Deciding,
       TaskInv, TxInv, Function, Val, modbus_init, serial_restart, Goto, lineVars, txVars
  <2>3. HoldInv'
    BY <1>18, <1>t DEF IInv, HoldInv, Deciding, modbus_init, serial_restart, Goto, lineVars, txVars
  <2> QED
    BY <1>u, <2>1, <2>2, <2>3 DEF IInv
<1>19. CASE StoreNothing
  <2>1. LineInv' /\ SizeInv' /\ AnswerInv'
    BY <1>19, <1>t DEF IInv, LineInv, Sent, SizeInv, AnswerInv, Function, Val,
       StoreNothing, Goto, lineVars, rxVars, txVars
  <2>2. PendingInv' /\ TaskInv' /\ TxInv'
    BY <1>19, <1>t, <1>u DEF IInv, TypeOK, PendingInv, Pending, Taking, Deciding,
       TaskInv, TxInv, Function, Val, StoreNothing, Goto, lineVars, rxVars, txVars
  <2>3. HoldInv'
    BY <1>19, <1>t DEF IInv, HoldInv, Deciding, StoreNothing, Goto, lineVars, rxVars, txVars
  <2> QED
    BY <1>u, <2>1, <2>2, <2>3 DEF IInv
<1>20. CASE TickTest
  <2>1. LineInv' /\ SizeInv' /\ AnswerInv'
    BY <1>20, <1>t DEF IInv, LineInv, Sent, SizeInv, AnswerInv, Function, Val,
       TickTest, Goto, lineVars, rxVars, txVars
  <2>2. PendingInv' /\ TaskInv' /\ TxInv'
    BY <1>20, <1>t, <1>u DEF IInv, TypeOK, PendingInv, Pending, Taking, Deciding,
       TaskInv, TxInv, Function, Val, TickTest, Goto, lineVars, rxVars, txVars
  <2>3. HoldInv'
    BY <1>20, <1>t DEF IInv, HoldInv, Deciding, TickTest, Goto, lineVars, rxVars, txVars
  <2> QED
    BY <1>u, <2>1, <2>2, <2>3 DEF IInv
<1>21. CASE TickLoad
  <2>1. LineInv' /\ SizeInv' /\ AnswerInv'
    BY <1>21, <1>t DEF IInv, LineInv, Sent, SizeInv, AnswerInv, Function, Val,
       TickLoad, Goto, lineVars, rxVars, txVars
  <2>2. PendingInv' /\ TaskInv' /\ TxInv'
    BY <1>21, <1>t, <1>u DEF IInv, TypeOK, PendingInv, Pending, Taking, Deciding,
       TaskInv, TxInv, Function, Val, TickLoad, Goto, lineVars, rxVars, txVars
  <2>3. HoldInv'
    BY <1>21, <1>t DEF IInv, HoldInv, Deciding, TickLoad, Goto, lineVars, rxVars, txVars
  <2> QED
    BY <1>u, <2>1, <2>2, <2>3 DEF IInv
<1>22. CASE TickStore
  <2>1. LineInv' /\ SizeInv' /\ AnswerInv'
    BY <1>22, <1>t DEF IInv, LineInv, Sent, SizeInv, AnswerInv, Function, Val,
       TickStore, Goto, lineVars, txVars
  <2>2. PendingInv' /\ TaskInv' /\ TxInv'
    BY <1>22, <1>t, <1>u DEF IInv, TypeOK, PendingInv, Pending, Taking, Deciding,
       TaskInv, TxInv, Function, Val, TickStore, Goto, lineVars, txVars
  <2>3. HoldInv'
    BY <1>22, <1>t DEF IInv, HoldInv, Deciding, TickStore, Goto, lineVars, txVars
  <2> QED
    BY <1>u, <2>1, <2>2, <2>3 DEF IInv
<1>23. CASE TickZero
  <2>1. LineInv' /\ SizeInv' /\ AnswerInv'
    BY <1>23, <1>t DEF IInv, LineInv, Sent, SizeInv, AnswerInv, Function, Val,
       TickZero, serial_restart, Goto, lineVars, txVars
  <2>2. PendingInv' /\ TaskInv' /\ TxInv'
    BY <1>23, <1>t, <1>u DEF IInv, TypeOK, PendingInv, Pending, Taking, Deciding,
       TaskInv, TxInv, Function, Val, TickZero, serial_restart, Goto, lineVars, txVars
  <2>3. HoldInv'
    BY <1>23, <1>t DEF IInv, HoldInv, Deciding, TickZero, serial_restart, Goto, lineVars, txVars
  <2> QED
    BY <1>u, <2>1, <2>2, <2>3 DEF IInv
<1>24. CASE UNCHANGED vars
  <2>1. LineInv' /\ SizeInv' /\ AnswerInv'
    BY <1>24, <1>t DEF IInv, LineInv, Sent, SizeInv, AnswerInv, Function, Val,
       vars, lineVars, rxVars, txVars, taskVars
  <2>2. PendingInv' /\ TaskInv' /\ TxInv'
    BY <1>24, <1>t, <1>u DEF IInv, TypeOK, PendingInv, Pending, Taking, Deciding,
       TaskInv, TxInv, Function, Val, vars, lineVars, rxVars, txVars, taskVars
  <2>3. HoldInv'
    BY <1>24, <1>t DEF IInv, HoldInv, Deciding, vars, lineVars, rxVars, txVars,
       taskVars
  <2> QED
    BY <1>u, <2>1, <2>2, <2>3 DEF IInv
<1> QED
  BY <1>1, <1>2, <1>3, <1>4, <1>5, <1>6, <1>7, <1>8, <1>9, <1>10, <1>11, <1>12, <1>13,
     <1>14, <1>15, <1>16, <1>17, <1>18, <1>19, <1>20, <1>21, <1>22, <1>23, <1>24
  DEF Next, Master, TxIsr, Task

-----------------------------------------------------------------------------
(* The properties.                                                         *)
LEMMA Invariance == ASSUME QuietLine PROVE Spec => []IInv
<1>1. Init => IInv
  BY InvInit
<1>2. IInv /\ [Next]_vars => IInv'
  BY InvStep
<1> QED
  BY <1>1, <1>2, PTL DEF Spec

(* A complete frame is never dropped by the inter-byte timeout.            *)
THEOREM CompleteFrameKept == ASSUME QuietLine PROVE Spec => []PendingFrameKept
<1>1. IInv => PendingFrameKept
  BY DEF IInv, PendingInv, Pending, Deciding, PendingFrameKept, FramePending
<1> QED
  BY <1>1, Invariance, PTL

(* A reply is computed from the very frame that passed the checks.         *)
THEOREM CheckedFrameAnswered ==
  ASSUME QuietLine PROVE Spec => []ReplyFromCheckedFrame
<1>1. IInv => ReplyFromCheckedFrame
  BY DEF IInv, HoldInv, Deciding, ReplyFromCheckedFrame
<1> QED
  BY <1>1, Invariance, PTL

(* A reply starts on a transmitter at rest.                                *)
THEOREM TransmitterAtRest ==
  ASSUME QuietLine PROVE Spec => []ReplyFromFirstByte
<1>1. IInv => ReplyFromFirstByte
  BY DEF IInv, PendingInv, Pending, Deciding, TxInv, ReplyFromFirstByte
<1> QED
  BY <1>1, Invariance, PTL

(* The driver stays on until the whole reply has left.                     *)
THEOREM ReplyComplete == ASSUME QuietLine PROVE Spec => ReplyNotCut
<1>1. IInv /\ IInv' /\ [Next]_vars =>
        [TXEN = "SEND" /\ TXEN' = "RECEIVE" => wire >= sendbyte_num]_vars
  <2> SUFFICES ASSUME IInv, [Next]_vars, TXEN = "SEND", TXEN' = "RECEIVE"
               PROVE  wire >= sendbyte_num
    OBVIOUS
  <2>1. CASE TxIsrEnd
    <3>1. /\ wire \in Nat /\ pipe \in Nat /\ send_count \in Nat
          /\ sendbyte_num \in Nat
      BY DEF IInv, TypeOK
    <3>2. wire + pipe >= send_count /\ pipe < 2 /\ send_count > sendbyte_num
      BY <2>1 DEF TxIsrEnd, SendDone, IInv, TxInv
    <3> QED
      BY <3>1, <3>2
  <2>2. CASE modbus_init
    BY <2>2 DEF modbus_init, IInv, TxInv
  <2>3. ~CheckReject /\ ~TickZero
    BY DEF CheckReject, TickZero, IInv, TaskInv
  <2>4. CASE ~TxIsrEnd /\ ~modbus_init
    BY <2>3, <2>4 DEF Next, vars, Master, MasterStart, LoseByte, RxIsr, RxIsrFull,
       TxIsr, TxIsrByte, ShiftOut, Task, TagLoad, TagStore, CheckAccept, SendMode,
       Reply, StoreOffset, StoreOffsetLow, StoreSerial, StoreBaud, StoreNothing,
       TickTest, TickLoad, TickStore
  <2> QED
    BY <2>1, <2>2, <2>4
<1> QED
  BY <1>1, Invariance, PTL DEF Spec, ReplyNotCut

(* The slave implements the half-duplex request-reply promise: requests    *)
(* are answered once, in order, one at a time.                             *)
THEOREM Implements == ASSUME QuietLine PROVE Spec => AnswersInOrder
<1>1. Init => Promise!Init
  BY DEF Init, Promise!Init
<1>2. IInv /\ [Next]_vars => [Promise!Next]_(Promise!replyVars)
  <2> SUFFICES ASSUME IInv, [Next]_vars
               PROVE  [Promise!Next]_(Promise!replyVars)
    OBVIOUS
  <2>1. CASE Reply
    <3>1. pc = "reply" /\ cur \in 1 .. Len(req) /\ ~txie
          /\ \A m \in answered : m < cur
      BY <2>1 DEF Reply, IInv, HoldInv, AnswerInv, PendingInv, Pending, Deciding
    <3>2. cur \in 1 .. MaxFrames
      BY <3>1, SerialAssumption DEF IInv, LineInv, TypeOK
    <3>3. CASE ReplyLength > 0
      <4>1. Promise!Answer(cur)
        BY <2>1, <3>1, <3>3 DEF Reply, Promise!Answer
      <4> QED
        BY <4>1, <3>2 DEF Promise!Next
    <3>4. CASE ~(ReplyLength > 0)
      BY <2>1, <3>4 DEF Reply, Promise!replyVars
    <3> QED
      BY <3>3, <3>4
  <2>2. CASE TxIsrEnd
    BY <2>2 DEF TxIsrEnd, taskVars, Promise!Next, Promise!Complete
  <2>3. CASE StoreBaud
    <3>1. UNCHANGED answered /\ (txie' = FALSE \/ UNCHANGED txie)
      BY <2>3 DEF StoreBaud
    <3>2. CASE txie' = FALSE /\ txie
      BY <3>1, <3>2 DEF Promise!Next, Promise!Complete
    <3>3. CASE UNCHANGED txie \/ (txie' = FALSE /\ ~txie)
      <4>1. txie \in BOOLEAN
        BY DEF IInv, TypeOK
      <4>2. UNCHANGED txie
        BY <3>3, <4>1
      <4> QED
        BY <3>1, <4>2 DEF Promise!replyVars
    <3> QED
      BY <3>1, <3>2, <3>3
  <2>4. CASE ~Reply /\ ~TxIsrEnd /\ ~StoreBaud
    <3>1. UNCHANGED <<txie, answered>>
      BY <2>4 DEF Next, vars, Master, MasterStart, LoseByte, RxIsr, RxIsrFull,
         TxIsr, TxIsrByte, ShiftOut, Task, TagLoad, TagStore, CheckAccept,
         CheckReject, SendMode, StoreOffset, StoreOffsetLow, StoreSerial,
         modbus_init, StoreNothing, TickTest, TickLoad, TickStore, TickZero,
         txVars, taskVars
    <3> QED
      BY <3>1 DEF Promise!replyVars
  <2> QED
    BY <2>1, <2>2, <2>3, <2>4
<1> QED
  BY <1>1, <1>2, Invariance, PTL DEF Spec, AnswersInOrder, Promise!Spec
-----------------------------------------------------------------------------
(* What a write stores.  While the task stores, a master that waits for    *)
(* the end of it leaves the wire and the buffer as they are.               *)
LEMMA QuietWhileStoring ==
  ASSUME MasterOutwaitsStore, pc \in Storing, [Next]_vars
  PROVE  /\ UNCHANGED <<req, USART_RX_BUF, rece_size>>
         /\ revce_count' = revce_count \/ revce_count' = 0
<1>1. ~MasterMaySend
  BY DEF MasterMaySend
<1> QED
  BY <1>1 DEF Next, vars, Master, MasterStart, LoseByte, RxIsr, RxIsrFull, ByteArrives,
     TxIsr, TxIsrByte, TxIsrEnd, ShiftOut, Task, TagLoad, TagStore, CheckAccept,
     CheckReject, SendMode, Reply, StoreOffset, StoreOffsetLow, StoreSerial,
     StoreBaud, modbus_init, StoreNothing, TickTest, TickLoad, TickStore,
     TickZero, serial_restart, lineVars, rxVars

(* The serial number is open as long as a write to it is under way.        *)
SerialInv ==
  /\ pc \in {"sendmode", "reply", "store"} /\ WriteTo(SERIALNUMBER_LOWORD) =>
       ~SNWriteflag
  /\ pc \in {"sn_hi", "sn_ram"} => ~SNWriteflag

LEMMA SerialStep ==
  MasterOutwaitsStore /\ TypeOK /\ SerialInv /\ [Next]_vars => SerialInv'
<1> SUFFICES ASSUME MasterOutwaitsStore, TypeOK, SerialInv, [Next]_vars
             PROVE  SerialInv'
  OBVIOUS
<1>1. CASE pc \in Storing
  <2>1. WriteTo(SERIALNUMBER_LOWORD)' <=> WriteTo(SERIALNUMBER_LOWORD)
    BY <1>1, QuietWhileStoring DEF WriteTo, Function, Register, Val
  <2>2. \/ UNCHANGED <<pc, SNWriteflag>>
        \/ pc = "sendmode" /\ pc' = "reply" /\ UNCHANGED SNWriteflag
        \/ pc = "reply" /\ pc' = "store" /\ UNCHANGED SNWriteflag
        \/ /\ pc = "store" /\ pc' = "sn_hi" /\ WriteTo(SERIALNUMBER_LOWORD)
           /\ UNCHANGED SNWriteflag
        \/ pc = "sn_hi" /\ pc' = "sn_ram" /\ UNCHANGED SNWriteflag
        \/ pc' \in {"store_lo", "sn_end", "baud", "tick"}
    BY <1>1 DEF Storing, Next, vars, Master, MasterStart, LoseByte, RxIsr, RxIsrFull,
       TxIsr, TxIsrByte, TxIsrEnd, ShiftOut, Task, TagLoad, TagStore,
       CheckAccept, CheckReject, SendMode, Reply, StoreOffset, StoreOffsetLow,
       StoreSerial, StoreBaud, modbus_init, StoreNothing, TickTest, TickLoad,
       TickStore, TickZero, Goto, taskVars, storeVars
  <2> QED
    BY <2>1, <2>2 DEF SerialInv
<1>2. ASSUME NEW n \in 1 .. Len(req), CheckAccept(n) PROVE SerialInv'
  <2>1. /\ pc' = "sendmode"
        /\ UNCHANGED <<req, USART_RX_BUF, SNWriteflag>>
        /\ ~SerialLocked \/ Function(USART_RX_BUF) = CHECKONLINE
    BY <1>2 DEF CheckAccept, Accepts, Goto, lineVars, rxVars, storeVars
  <2>2. WriteTo(SERIALNUMBER_LOWORD)' <=> WriteTo(SERIALNUMBER_LOWORD)
    BY <2>1 DEF WriteTo, Function, Register, Val
  <2>3. WriteTo(SERIALNUMBER_LOWORD) => ~SNWriteflag
    BY <2>1 DEF WriteTo, SerialLocked, SERIALNUMBER_LOWORD, CHECKONLINE, WRITE_VARIABLES
  <2> QED
    BY <2>1, <2>2, <2>3 DEF SerialInv
<1>3. CASE pc \notin Storing /\ ~\E n \in 1 .. Len(req) : CheckAccept(n)
  <2>1. pc' \notin {"sendmode", "reply", "store", "sn_hi", "sn_ram"}
    BY <1>3 DEF Storing, Next, vars, Master, MasterStart, LoseByte, RxIsr, RxIsrFull,
       TxIsr, TxIsrByte, TxIsrEnd, ShiftOut, Task, TagLoad, TagStore,
       CheckReject, SendMode, Reply, StoreOffset, StoreOffsetLow,
       StoreSerial, StoreBaud, modbus_init, StoreNothing, TickTest, TickLoad,
       TickStore, TickZero, Goto, taskVars
  <2> QED
    BY <2>1 DEF SerialInv
<1> QED
  BY <1>1, <1>2, <1>3

(* Over any sequence of requests the serial number is written once, if the *)
(* master leaves the line alone while a write is stored.                   *)
THEOREM SerialIsFinal ==
  ASSUME MasterOutwaitsStore PROVE Spec => SerialWrittenOnce
<1>1. Init => TypeOK /\ TagInv /\ SerialInv
  BY TypeInit DEF Init, SerialInv
<1>2. TypeOK /\ TagInv /\ SerialInv /\ [Next]_vars => (TypeOK /\ TagInv /\ SerialInv)'
  BY TypeStep, SerialStep
<1>3. TypeOK /\ SerialInv /\ [Next]_vars => [SNWriteflag => UNCHANGED serial_Num]_vars
  <2> SUFFICES ASSUME SerialInv, [Next]_vars, SNWriteflag PROVE UNCHANGED serial_Num
    OBVIOUS
  <2>1. pc # "sn_ram"
    BY DEF SerialInv
  <2> QED
    BY <2>1 DEF Next, vars, Master, MasterStart, LoseByte, RxIsr, RxIsrFull,
       TxIsr, TxIsrByte, TxIsrEnd, ShiftOut, Task, TagLoad, TagStore,
       CheckAccept, CheckReject, SendMode, Reply, StoreOffset, StoreOffsetLow,
       StoreSerial, StoreBaud, modbus_init, StoreNothing, TickTest, TickLoad,
       TickStore, TickZero, storeVars
<1> QED
  BY <1>1, <1>2, <1>3, PTL DEF Spec, SerialWrittenOnce

(* Where RAM and EEPROM stand between the two EEPROM bytes of a write.     *)
(* That the buffer holds the two bytes of the frame checked rests on its    *)
(* length: a write is taken only when at least six bytes were expected.    *)
Written(n) == <<<<n, 4>>, <<n, 5>>>>

StoreInv ==
  /\ rece_size < 6 => Function(USART_RX_BUF) # WRITE_VARIABLES
  /\ revce_count = 1 => rece_size >= 6
  /\ pc \in {"sendmode", "reply", "store"} /\ WriteTo(AI_OFFSET0) =>
       Pair = Written(cur)
  /\ pc = "store" /\ WriteTo(AI_OFFSET0) => cur \in answered
  /\ pc = "store_lo" =>
       cur \in answered /\ Pair = Written(cur) /\ ram = Pair /\ ee[1] = Pair[1]
  /\ pc # "store_lo" => ee = ram
  /\ ram # <<NoByte, NoByte>> => \E n \in answered : ram = Written(n)

LEMMA StoreStep ==
  MasterOutwaitsStore /\ TypeOK /\ StoreInv /\ [Next]_vars => StoreInv'
<1> SUFFICES ASSUME MasterOutwaitsStore, TypeOK, StoreInv, [Next]_vars
             PROVE  StoreInv'
  OBVIOUS
<1>0. /\ RxLimit \in Nat /\ RxLimit >= 12 /\ RxIndex = 0 .. RxLimit - 1
      /\ revce_count \in 0 .. RxLimit /\ rece_size \in Nat
      /\ ee = <<ee[1], ee[2]>> /\ ee \in ByteAt \X ByteAt
      /\ USART_RX_BUF \in [RxIndex -> ByteAt]
  BY SerialAssumption DEF TypeOK, DATABUFLEN_SCAN, RxIndex, Byte, ByteMod
<1> DEFINE Stores == WriteTo(AI_OFFSET0)
<1>1. CASE pc \in Storing
  <2>1. /\ UNCHANGED <<req, USART_RX_BUF, rece_size>>
        /\ revce_count' = revce_count \/ revce_count' = 0
    BY <1>1, QuietWhileStoring
  <2>2. Stores' <=> Stores
    BY <2>1 DEF WriteTo, Function, Register, Val
  <2>3. Function(USART_RX_BUF)' = Function(USART_RX_BUF)
    BY <2>1 DEF Function, Val
  <2>4. Pair' = Pair
    BY <2>1 DEF Pair
  <2>5. CASE Reply
    <3>1. /\ pc = "reply" /\ pc' = "store" /\ UNCHANGED <<cur, ram, ee>>
          /\ answered \subseteq answered'
          /\ ReplyLength > 0 => cur \in answered'
      BY <2>5 DEF Reply, Goto, storeVars
    <3>2. Stores => ReplyLength = rece_size /\ rece_size > 0
      <4>1. Stores => Function(USART_RX_BUF) = WRITE_VARIABLES /\ ~(rece_size < 6)
        BY DEF WriteTo, StoreInv
      <4>2. Function(USART_RX_BUF) = WRITE_VARIABLES => ReplyLength = rece_size
        BY DEF ReplyLength, READ_VARIABLES, WRITE_VARIABLES, MULTIPLE_WRITE, CHECKONLINE
      <4> QED
        BY <4>1, <4>2, <1>0
    <3> QED
      BY <2>1, <2>2, <2>3, <2>4, <3>1, <3>2 DEF StoreInv, Written
  <2>6. CASE StoreOffset
    <3>1. /\ pc = "store" /\ Stores /\ pc' = "store_lo" /\ ram' = Pair
          /\ ee' = [ee EXCEPT ![1] = USART_RX_BUF[4]]
          /\ UNCHANGED <<cur, answered>>
      BY <2>6 DEF StoreOffset, Goto
    <3>2. ee'[1] = Pair[1]
      BY <3>1, <1>0 DEF Pair
    <3> QED
      BY <2>1, <2>3, <2>4, <3>1, <3>2 DEF StoreInv, Written
  <2>7. CASE StoreOffsetLow
    <3>1. /\ pc = "store_lo" /\ pc' = "tick" /\ ram' = ram
          /\ ee' = [ee EXCEPT ![2] = USART_RX_BUF[5]]
          /\ UNCHANGED answered
      BY <2>7 DEF StoreOffsetLow, Goto
    <3>2. ee' = <<ee[1], Pair[2]>>
      BY <3>1, <1>0 DEF Pair
    <3>3. Pair = <<Pair[1], Pair[2]>>
      BY DEF Pair
    <3> QED
      BY <2>1, <2>3, <3>1, <3>2, <3>3 DEF StoreInv
  <2>8. CASE ~Reply /\ ~StoreOffset /\ ~StoreOffsetLow
    <3>1. UNCHANGED <<cur, ram, ee, answered>>
      BY <1>1, <2>8 DEF Storing, Next, vars, Master, MasterStart, LoseByte, RxIsr,
         RxIsrFull, TxIsr, TxIsrByte, TxIsrEnd, ShiftOut, Task, TagLoad, TagStore,
         CheckAccept, CheckReject, SendMode, StoreSerial, StoreBaud, modbus_init,
         StoreNothing, TickTest, TickLoad, TickStore, TickZero, taskVars, storeVars
    <3>2. /\ pc' = "store_lo" <=> pc = "store_lo"
          /\ pc' = "store" => pc = "store"
          /\ pc' \in {"sendmode", "reply"} => pc \in {"sendmode", "reply"}
      BY <1>1, <2>8 DEF Storing, Next, vars, Master, MasterStart, LoseByte, RxIsr,
         RxIsrFull, TxIsr, TxIsrByte, TxIsrEnd, ShiftOut, Task, TagLoad, TagStore,
         CheckAccept, CheckReject, SendMode, StoreSerial, StoreBaud, modbus_init,
         StoreNothing, TickTest, TickLoad, TickStore, TickZero, Goto, taskVars
    <3> QED
      BY <2>1, <2>2, <2>3, <2>4, <3>1, <3>2 DEF StoreInv, Written
  <2> QED
    BY <2>5, <2>6, <2>7, <2>8
<1>2. ASSUME pc \notin Storing, NEW n \in 1 .. Len(req), CheckAccept(n)
      PROVE  StoreInv'
  <2>1. /\ pc' = "sendmode" /\ cur' = n
        /\ UNCHANGED <<req, USART_RX_BUF, revce_count, rece_size, answered, ram, ee>>
        /\ \A i \in 0 .. rece_size - 1 : USART_RX_BUF[i] = <<n, i>>
    BY <1>2 DEF CheckAccept, Accepts, HoldsFrame, Goto, lineVars, rxVars, storeVars
  <2>2. Stores' <=> Stores
    BY <2>1 DEF WriteTo, Function, Register, Val
  <2>3. Function(USART_RX_BUF)' = Function(USART_RX_BUF)
    BY <2>1 DEF Function, Val
  <2>4. Stores => ~(rece_size < 6)
    BY DEF WriteTo, StoreInv
  <2>5. Stores => 4 \in 0 .. rece_size - 1 /\ 5 \in 0 .. rece_size - 1
    BY <2>4, <1>0
  <2>6. Stores => Pair' = Written(n)
    BY <2>1, <2>5 DEF Pair, Written
  <2> QED
    BY <1>2, <2>1, <2>2, <2>3, <2>6 DEF StoreInv, Written, Storing
<1>3. CASE pc \notin Storing /\ ~\E n \in 1 .. Len(req) : CheckAccept(n)
  <2>1. pc' \notin {"sendmode", "reply", "store", "store_lo"}
    BY <1>3 DEF Storing, Next, vars, Master, MasterStart, LoseByte, RxIsr, RxIsrFull,
       TxIsr, TxIsrByte, TxIsrEnd, ShiftOut, Task, TagLoad, TagStore,
       CheckReject, SendMode, Reply, StoreOffset, StoreOffsetLow,
       StoreSerial, StoreBaud, modbus_init, StoreNothing, TickTest, TickLoad,
       TickStore, TickZero, Goto, taskVars
  <2>2. UNCHANGED <<ram, ee, answered>> /\ pc # "store_lo"
    BY <1>3 DEF Storing, Next, vars, Master, MasterStart, LoseByte, RxIsr, RxIsrFull,
       TxIsr, TxIsrByte, TxIsrEnd, ShiftOut, Task, TagLoad, TagStore,
       CheckReject, SendMode, Reply, StoreOffset, StoreOffsetLow,
       StoreSerial, StoreBaud, modbus_init, StoreNothing, TickTest, TickLoad,
       TickStore, TickZero, taskVars, storeVars
  <2>3. /\ rece_size' < 6 => Function(USART_RX_BUF)' # WRITE_VARIABLES
        /\ revce_count' = 1 => rece_size' >= 6
    <3>1. CASE RxIsr
      <4> DEFINE c   == revce_count + 1
                 buf == USART_RX_BUF'
      <4>1. /\ revce_count < RxLimit /\ revce_count' = c /\ req' = req
            /\ rece_size' = SizeAfter(c, buf)
            /\ \A i \in RxIndex : i # revce_count => buf[i] = USART_RX_BUF[i]
        BY <3>1, <1>0 DEF RxIsr, Received
      <4>2. Function(USART_RX_BUF)' = Function(buf)
        BY <4>1 DEF Function, Val
      <4>3. CASE c = 1
        BY <4>1, <4>3, <1>0 DEF SizeAfter
      <4>4. CASE c = 2
        <5>1. rece_size' = rece_size
          BY <4>1, <4>4 DEF SizeAfter
        <5> QED
          BY <4>1, <4>4, <5>1, <1>0 DEF StoreInv
      <4>5. CASE c > 2
        <5>1. 1 \in RxIndex /\ 1 # revce_count /\ c # 1
          BY <4>5, <1>0
        <5>2. Function(buf) = Function(USART_RX_BUF)
          BY <4>1, <5>1 DEF Function
        <5>3. \/ rece_size' = rece_size
              \/ rece_size' \in {6, DATABUFLEN_SCAN, 8, RxLimit}
              \/ Function(buf) = MULTIPLE_WRITE
          BY <4>1, <5>1 DEF SizeAfter
        <5>4. ~(6 < 6) /\ ~(12 < 6) /\ ~(8 < 6) /\ ~(RxLimit < 6)
          BY <1>0
        <5> QED
          BY <4>1, <4>2, <5>1, <5>2, <5>3, <5>4 DEF StoreInv, DATABUFLEN_SCAN,
             MULTIPLE_WRITE, WRITE_VARIABLES
      <4> QED
        BY <4>3, <4>4, <4>5, <1>0
    <3>2. ASSUME NEW f \in Frames, MasterStart(f)
          PROVE  /\ rece_size' < 6 => Function(USART_RX_BUF)' # WRITE_VARIABLES
                 /\ revce_count' = 1 => rece_size' >= 6
      <4>1. UNCHANGED <<USART_RX_BUF, revce_count, rece_size>> /\ req' = Append(req, f)
        BY <3>2 DEF MasterStart, rxVars
      <4>2. USART_RX_BUF[1] \in ByteAt
        BY <1>0
      <4>3. Function(USART_RX_BUF)' = Function(USART_RX_BUF)
        BY <4>1, <4>2, BytesKept DEF Function
      <4> QED
        BY <4>1, <4>3 DEF StoreInv
    <3>3. CASE ~RxIsr /\ ~\E f \in Frames : MasterStart(f)
      <4>1. UNCHANGED <<req, USART_RX_BUF, rece_size>>
            /\ (revce_count' = revce_count \/ revce_count' = 0)
        BY <1>3, <3>3 DEF Storing, Next, vars, Master, LoseByte, RxIsrFull, Received,
           SizeAfter, TxIsr, TxIsrByte, TxIsrEnd, ShiftOut, Task, TagLoad, TagStore,
           CheckReject, SendMode, Reply, StoreOffset, StoreOffsetLow,
           StoreSerial, StoreBaud, modbus_init, StoreNothing, TickTest, TickLoad,
           TickStore, TickZero, serial_restart, lineVars, rxVars
      <4>2. Function(USART_RX_BUF)' = Function(USART_RX_BUF)
        BY <4>1 DEF Function, Val
      <4> QED
        BY <4>1, <4>2 DEF StoreInv
    <3> QED
      BY <3>1, <3>2, <3>3
  <2> QED
    BY <2>1, <2>2, <2>3 DEF StoreInv, Written
<1> QED
  BY <1>1, <1>2, <1>3

(* What a write leaves in RAM and in EEPROM is one value, that of one      *)
(* request that was answered, if the master leaves the line alone while it *)
(* is stored.                                                              *)
THEOREM WritesAreWhole ==
  ASSUME MasterOutwaitsStore PROVE Spec => []StoredAsAnswered
<1>1. Init => TypeOK /\ TagInv /\ StoreInv
  <2>1. Init => Function(USART_RX_BUF) # WRITE_VARIABLES
    BY SerialAssumption DEF Init, Function, Val, RxIndex, DATABUFLEN_SCAN, WRITE_VARIABLES
  <2> QED
    BY <2>1, TypeInit DEF Init, StoreInv
<1>2. TypeOK /\ TagInv /\ StoreInv /\ [Next]_vars => (TypeOK /\ TagInv /\ StoreInv)'
  BY TypeStep, StoreStep
<1>3. StoreInv => StoredAsAnswered
  BY DEF StoreInv, StoredAsAnswered, Written
<1> QED
  BY <1>1, <1>2, <1>3, PTL DEF Spec
=============================================================================
