---------------------------- MODULE RequestReply ----------------------------
(***************************************************************************)
(* What the slave promises the master of a half-duplex line, whatever its  *)
(* interrupts and tasks do: it answers some of the requests, each of them  *)
(* at most once and in the order they were sent, and it does not begin a   *)
(* reply before it is done with the one before.  ModbusSerial implements   *)
(* it.                                                                     *)
(***************************************************************************)
EXTENDS Naturals

CONSTANT Requests       \* the requests, numbered in the order they are sent

VARIABLES
  sending,              \* is a reply under way
  answered              \* the requests a reply was begun for

replyVars == <<sending, answered>>

Init == sending = FALSE /\ answered = {}

Answer(n) ==
  /\ ~sending
  /\ \A m \in answered : m < n
  /\ sending' = TRUE
  /\ answered' = answered \cup {n}

Complete ==
  /\ sending
  /\ sending' = FALSE
  /\ UNCHANGED answered

Next == Complete \/ \E n \in Requests : Answer(n)

Spec == Init /\ [][Next]_replyVars
=============================================================================
