----------------------------- MODULE ByteQueue ------------------------------
(***************************************************************************)
(* What a byte FIFO promises an interrupt that fills it and a task that    *)
(* empties it: what is taken is what was put, in order and once; a byte is *)
(* refused when there is no room, and only then.  Fifo implements it.      *)
(***************************************************************************)
EXTENDS Integers, Sequences

CONSTANTS
  Bytes,
  Length                \* how many bytes the queue holds

VARIABLES
  queue,                \* the bytes put and not yet taken
  out,                  \* the last byte taken
  stored                \* was the last byte offered accepted

queueVars == <<queue, out, stored>>

Init ==
  queue = << >> /\ out \in Bytes /\ stored = FALSE

Put(b) ==
  /\ Len(queue) < Length
  /\ queue' = Append(queue, b) /\ stored' = TRUE
  /\ UNCHANGED out

Refuse ==
  /\ Len(queue) = Length
  /\ stored' = FALSE
  /\ UNCHANGED <<queue, out>>

Take ==
  /\ queue # << >>
  /\ out' = Head(queue) /\ queue' = Tail(queue)
  /\ UNCHANGED stored

Discard ==              \* some of the oldest bytes
  /\ \E n \in 1 .. Len(queue) : queue' = SubSeq(queue, n + 1, Len(queue))
  /\ UNCHANGED <<out, stored>>

Next == (\E b \in Bytes : Put(b)) \/ Refuse \/ Take \/ Discard

Spec == Init /\ [][Next]_queueVars
=============================================================================
