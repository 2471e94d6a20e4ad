----------------------------- MODULE MCMstpRing -----------------------------
(* Three lines of MS/TP stations, for TLC. *)
EXTENDS MstpRing

CONSTANTS r1, r2

Line(st, f, c, o) ==
  [stations |-> st, MaxFaults |-> f, MaxCollisions |-> c, MaxForeign |-> 0, MaxOffs |-> o]

(* Three stations; two with a gap; one among foreign masters. *)
MCLines ==
  {Line({0, 1, 2}, 0, 1, 0), Line({0, 2}, 1, 1, 1),
   [Line({1}, 0, 1, 0) EXCEPT !.MaxForeign = 2]}

Asks(src, r) == [Header("expectingReply", 1, src) EXCEPT !.apdu = r]
MCForeign ==
  {Asks(0, r1), Asks(2, r2), Asks(2, "whois"), Header("testRequest", 1, 0),
   Header("token", 1, 0), Header("token", Broadcast, 0), Header("replyPostponed", 1, 2),
   [Header("notExpectingReply", Broadcast, 2) EXCEPT !.apdu = "whois"]}
=============================================================================
