-------------------------------- MODULE Fifo --------------------------------
(***************************************************************************)
(* The byte FIFO between the USART interrupt and the MS/TP task            *)
(* (bac_lib/fifo.c).  There is no lock: the interrupt writes head, the     *)
(* task writes tail; both run free in an unsigned int and are reduced to   *)
(* an index at each use.  An interrupt is one step; a call of the task is  *)
(* cut wherever the interrupt can come between two accesses.               *)
(***************************************************************************)
EXTENDS Integers, Sequences

CONSTANTS
  Bytes,                \* the values of a byte
  Length,               \* buffer_len, 512 in rs485.c
  Word,                 \* the number of values of an unsigned int, 2^32
  MaxCall               \* bound on the bytes of one FIFO_Add or FIFO_Pull

\* "size must be power of two" (rs485.c): what is used of it is that the
\* index does not jump where the counters wrap.
ASSUME FifoAssumption ==
  /\ Length \in Nat \ {0} /\ MaxCall \in Nat \ {0}
  /\ Word \in Nat /\ Word > Length /\ Word % Length = 0

VARIABLES
  buffer, head, tail,   \* struct fifo_buffer_t
  adding,               \* what FIFO_Add has still to store
  pc, left, top, byte,  \* the call of the task: count, head, data_byte
  out,                  \* the last byte returned to the task
  stored                \* what the last FIFO_Put returned

ringVars == <<buffer, head, tail>>
putVars  == <<adding, stored>>
taskVars == <<pc, left, top, byte, out>>
vars     == <<ringVars, putVars, taskVars>>

Index   == 0 .. Length - 1
Counter == 0 .. Word - 1

Init ==                                 \* FIFO_Init, over any memory
  /\ buffer \in [Index -> Bytes]
  /\ head = 0 /\ tail = 0
  /\ adding = << >> /\ stored = FALSE
  /\ pc = "idle" /\ left = 0 /\ top = 0
  /\ byte \in Bytes /\ out = byte

FIFO_Count == (head - tail) % Word

\* Deviant: full only when one byte too many is in.
FIFO_FullLate == FIFO_Count = Length + 1

FIFO_Full == FIFO_Count = Length

FIFO_Available(count) == count <= (Length - FIFO_Count) % Word

\* Deviant: the counter is kept an index, so that full looks like empty.
SuccShort(c) == (c + 1) % Length

\* Deviant: the counter does not wrap.
SuccForever(c) == c + 1

Succ(c) == (c + 1) % Word               \* c++ of an unsigned int

(* The interrupt, or whatever puts.                                        *)
Store(b) ==
  /\ buffer' = [buffer EXCEPT ![head % Length] = b]
  /\ head' = Succ(head)
  /\ stored' = TRUE
  /\ UNCHANGED tail

\* Deviant: when there is no room the oldest byte is overwritten.
FIFO_PutOverwriting(b) ==
  /\ adding = << >>
  /\ buffer' = [buffer EXCEPT ![head % Length] = b]
  /\ head' = Succ(head)
  /\ tail' = IF FIFO_Full THEN Succ(tail) ELSE tail
  /\ stored' = TRUE
  /\ UNCHANGED <<adding, taskVars>>

FIFO_Put(b) ==
  /\ adding = << >>
  /\ IF FIFO_Full
     THEN stored' = FALSE /\ UNCHANGED ringVars
     ELSE Store(b)
  /\ UNCHANGED <<adding, taskVars>>

FIFO_Add(bytes) ==
  /\ adding = << >>
  /\ FIFO_Available(Len(bytes))
  /\ adding' = bytes
  /\ UNCHANGED <<ringVars, stored, taskVars>>

AddByte ==                              \* one turn of its loop
  /\ adding # << >>
  /\ Store(Head(adding))
  /\ adding' = Tail(adding)
  /\ UNCHANGED taskVars

(* The task.  FIFO_Get is a pull of one byte.                              *)
FIFO_Pull(length) ==
  /\ pc = "idle" /\ FIFO_Count > 0
  /\ left' = IF FIFO_Count > length THEN length ELSE FIFO_Count
  /\ pc' = "copy"
  /\ UNCHANGED <<ringVars, putVars, top, byte, out>>

Copy ==                                 \* data_byte = b->buffer[index]
  /\ pc = "copy"
  /\ byte' = buffer[tail % Length]
  /\ pc' = "advance"
  /\ UNCHANGED <<ringVars, putVars, left, top, out>>

Advance ==                              \* b->tail++
  /\ pc = "advance"
  /\ tail' = Succ(tail)
  /\ out' = byte
  /\ left' = left - 1
  /\ pc' = IF left = 1 THEN "idle" ELSE "copy"
  /\ UNCHANGED <<buffer, head, putVars, top, byte>>

FIFO_Flush ==
  /\ pc = "idle"
  /\ top' = head
  /\ pc' = "flush"
  /\ UNCHANGED <<ringVars, putVars, left, byte, out>>

FlushTail ==
  /\ pc = "flush"
  /\ tail' = top
  /\ pc' = "idle"
  /\ UNCHANGED <<buffer, head, putVars, left, top, byte, out>>

Next ==
  \/ \E b \in Bytes : FIFO_Put(b)
  \/ \E n \in 1 .. MaxCall : \E bytes \in [1 .. n -> Bytes] : FIFO_Add(bytes)
  \/ AddByte
  \/ \E n \in 1 .. MaxCall : FIFO_Pull(n)
  \/ Copy \/ Advance
  \/ FIFO_Flush \/ FlushTail

Spec == Init /\ [][Next]_vars

-----------------------------------------------------------------------------
TypeOK ==
  /\ buffer \in [Index -> Bytes]
  /\ head \in Counter /\ tail \in Counter
  /\ adding \in Seq(Bytes) /\ stored \in BOOLEAN
  /\ pc \in {"idle", "copy", "advance", "flush"}
  /\ left \in 0 .. Length /\ top \in Counter
  /\ byte \in Bytes /\ out \in Bytes

(* The counters never run more than a buffer apart, through their wrap,    *)
(* and the bytes a FIFO_Add is storing still have their room.              *)
NeverOverrun == FIFO_Count + Len(adding) <= Length

(* The slot the task copied is not refilled before the task moves on, nor  *)
(* is the byte taken from under it.                                        *)
FrontHeld ==
  pc = "advance" => FIFO_Count >= left /\ left > 0 /\ byte = buffer[tail % Length]

(* What is taken is what was put, in order and once, and nothing is        *)
(* refused while there is room: the promise of ByteQueue.                  *)
Content == [i \in 1 .. FIFO_Count |-> buffer[(tail + i - 1) % Length]]

Promise == INSTANCE ByteQueue WITH queue <- Content

QueuePromise == Promise!Spec
=============================================================================
