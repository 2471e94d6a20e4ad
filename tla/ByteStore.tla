----------------------------- MODULE ByteStore -----------------------------
(***************************************************************************)
(* What AT24CXX_WriteOneByte promises when tasks share the bus: a call may *)
(* store its byte, at its address, while it runs; nothing else is stored.  *)
(***************************************************************************)
CONSTANTS Task, Address, Byte, NoCall

VARIABLES
  cells,                \* the memory
  call                  \* the byte each task is writing

Calls == [addr : Address, data : Byte]

Init == cells \in [Address -> Byte] /\ call = [t \in Task |-> NoCall]

Begin(t, c) ==
  /\ call[t] = NoCall /\ call' = [call EXCEPT ![t] = c]
  /\ UNCHANGED cells

Store(t) ==
  /\ call[t] # NoCall
  /\ cells' = [cells EXCEPT ![call[t].addr] = call[t].data]
  /\ UNCHANGED call

Return(t) == call' = [call EXCEPT ![t] = NoCall] /\ UNCHANGED cells

Next == \E t \in Task : (\E c \in Calls : Begin(t, c)) \/ Store(t) \/ Return(t)

Spec == Init /\ [][Next]_<<cells, call>>
=============================================================================
