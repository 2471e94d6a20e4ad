------------------------------ MODULE MstpRing ------------------------------
(***************************************************************************)
(* Stations on one MS/TP line that may be switched on and off, with frames *)
(* lost, broken or in collision, and the silence timer of each.            *)
(***************************************************************************)
EXTENDS MstpNode, FiniteSets

CONSTANTS
  Lines,                \* the lines to check: who is on one, and how many frames are
                        \* lost or broken, collide, or come from elsewhere, and how
                        \* many stations are switched off
  ForeignFrames,        \* what a station of another kind may send
  FifoLength            \* frames a FIFO holds, 512 octets; no fewer than ever wait

ASSUME RingAssumption ==
  /\ Lines \subseteq [stations : SUBSET Station, MaxFaults : Nat,
                     MaxCollisions : Nat, MaxForeign : Nat, MaxOffs : Nat]
  /\ ForeignFrames \subseteq Frame
  /\ FifoLength \in Nat \ {0}

VARIABLES
  line, up, faults, collisions, foreign, offs,
  late                  \* history: did a frame come too late to be waited for

vars == <<nodeVars, line, up, faults, collisions, foreign, offs, late>>

RingInit ==
  /\ Init
  /\ line \in Lines /\ up = {} /\ faults = 0 /\ collisions = 0 /\ foreign = 0 /\ offs = 0
  /\ late = FALSE

\* A station does not listen before it sends: two may do so at once.
Step(s) ==
  /\ NodeStep(s)
  /\ collisions' = IF Cardinality(air') > 1 /\ air' # air
                      THEN collisions + 1 ELSE collisions
  /\ collisions' <= line.MaxCollisions
  /\ UNCHANGED <<line, up, faults, foreign, offs, late>>

(* External: the line.                                                     *)
Put(s, f) == IF Len(inbox[s]) < FifoLength THEN Append(inbox[s], f) ELSE inbox[s]

Senders == {f.src : f \in air}
\* Deviant: the receiver stays on while its station sends.
HearingItself == up
Hearing == up \ Senders

\* A frame takes less than a call; a sender that may not collide waits for its end.
FrameOver == turn = None \/ collisions = line.MaxCollisions

(* A station takes one frame in a call, whatever it is.  What is for the   *)
(* station comes late if the sender has given up when it is taken.         *)
CallsDue(s) == IF s \in left /\ turn # s THEN 1 ELSE 0
ComesLate ==
  \E s \in Station : \E i \in 1 .. Len(inbox[s]) :
    inbox[s][i].dst = s /\ i > Tusage_timeout + CallsDue(s)

Deliver ==
  /\ FrameOver /\ Cardinality(air) = 1
  /\ inbox' = [s \in Station |-> IF s \in Hearing THEN Put(s, CHOOSE f \in air : TRUE)
                                                  ELSE inbox[s]]
  /\ air' = {}
  /\ UNCHANGED <<node, turn, left, line, up, faults, collisions, foreign, offs>>
  /\ late' = (late \/ ComesLate')

DeliverBadly ==         \* to one station
  /\ FrameOver /\ Cardinality(air) = 1 /\ faults < line.MaxFaults
  /\ \E s \in Hearing, damage \in {"lost", "invalid", "short"} :
       inbox' = [r \in Station |->
         IF r \in Hearing \ {s} THEN Put(r, CHOOSE f \in air : TRUE)
         ELSE IF r = s /\ damage # "lost" THEN Put(r, Header(damage, None, None))
         ELSE inbox[r]]
  /\ air' = {}
  /\ faults' = faults + 1
  /\ UNCHANGED <<node, turn, left, line, up, collisions, foreign, offs>>
  /\ late' = (late \/ ComesLate')

Collide ==
  /\ FrameOver /\ Cardinality(air) > 1
  /\ inbox' = [s \in Station |-> IF s \in Hearing THEN Put(s, Invalid) ELSE inbox[s]]
  /\ air' = {}
  /\ UNCHANGED <<node, turn, left, line, up, faults, collisions, foreign, offs, late>>

Foreign(f) ==           \* when the line is free
  /\ air = {} /\ turn = None /\ foreign < line.MaxForeign
  /\ air' = {f} /\ foreign' = foreign + 1
  /\ UNCHANGED <<node, inbox, turn, left, line, up, faults, collisions, offs, late>>

Elapse ==               \* the 5 ms are over
  /\ turn = None /\ left = {} /\ air = {} /\ up # {}
  /\ node' = [s \in Station |->
       IF s \in up THEN [node[s] EXCEPT !.SilenceTime = Tick(@)] ELSE node[s]]
  /\ left' = up
  /\ UNCHANGED <<inbox, air, turn, line, up, faults, collisions, foreign, offs, late>>

SwitchOn(s) ==
  /\ turn = None /\ s \in line.stations \ up
  /\ up' = up \cup {s}
  /\ UNCHANGED <<nodeVars, line, faults, collisions, foreign, offs, late>>

SwitchOff(s) ==
  /\ turn = None /\ s \in up /\ offs < line.MaxOffs
  /\ up' = up \ {s} /\ offs' = offs + 1
  /\ left' = left \ {s}
  /\ node' = [node EXCEPT ![s] = Reset(s)]
  /\ inbox' = [inbox EXCEPT ![s] = << >>]
  /\ UNCHANGED <<air, turn, line, faults, collisions, foreign, late>>

RingNext ==
  \/ \E s \in Station : Step(s) \/ SwitchOn(s) \/ SwitchOff(s)
  \/ \E f \in ForeignFrames : Foreign(f)
  \/ Deliver \/ DeliverBadly \/ Collide \/ Elapse

(* One at a time the stations make their calls, in any order; every 5 ms. *)
RingSpec == RingInit /\ [][RingNext]_vars

FairSpec ==
  /\ RingSpec
  /\ \A s \in Station : WF_vars(Step(s))
  /\ WF_vars(Deliver \/ Collide)
  /\ WF_vars(Elapse)

-----------------------------------------------------------------------------
(* Type invariant: the variables of every station, the line and the bounds. *)
TypeOK ==
  /\ \A s \in Station :
       /\ node[s].Master_State \in MasterState
       /\ {node[s].Next_Station, node[s].Poll_Station} \subseteq 0 .. MaxMaster
       /\ node[s].TokenCount \in 0 .. Npoll /\ node[s].RetryCount \in 0 .. Nretry_token
       /\ node[s].FrameCount \in 0 .. MaxInfoFrames
       /\ node[s].EventCount \in 0 .. Nmin_octets + 1
       /\ node[s].SilenceTime \in 0 .. MaxSilence
       /\ node[s].Received \in Frame
       /\ inbox[s] \in Seq(Frame) /\ Len(inbox[s]) <= FifoLength
  /\ air \subseteq Frame /\ turn \in Station \cup {None} /\ left \subseteq up

Holder == {s \in Station :
  node[s].Master_State \in {"USE_TOKEN", "DONE_WITH_TOKEN", "POLL_FOR_MASTER"}}

OneHolder == Cardinality(Holder) <= 1

(* As long as no frame was lost, broken, in collision or too late and no station
   went off, never do two stations think they hold the token: the slots of
   MSTP_MASTER_STATE_NO_TOKEN and the usage timeout see to it. *)
OneHolderUnlessDisturbed == faults + collisions + offs = 0 /\ ~late => OneHolder

(* On a line of two, undisturbed, no frame ever comes too late: a station sends
   one frame in a call and takes one, so that its queue never outgrows the wait.
   Three may pass the token faster than the third takes frames. *)
Two == line.MaxForeign = 0 /\ \E a, b \in Station : line.stations \subseteq {a, b}
TwoInTime == Two /\ faults + collisions + offs = 0 => ~late

(* The packet that is about to be sent as a reply answers the request this
   station has just received, and goes to the one who asked. *)
AnswerFitsRequest ==
  \A s \in Station :
    node[s].Master_State = "ANSWER_DATA_REQUEST" /\ node[s].TransmitPacketPending =>
      node[s].TransmitPacket = [to |-> node[s].Received.src, apdu |-> node[s].Received.apdu]

(* Whatever was lost, broken or in collision, in the end there is one token,
   unless a frame came too late. *)
Settles == <>late \/ <>[]OneHolder

(* A station that stays on the line gets the token again and again: a lost
   token is made again, a station switched on is found, a silent one skipped;
   unless a frame came too late. *)
TokenReachesAll ==
  <>late \/
  \A s \in Station : <>[](s \in up) => []<>(node[s].Master_State = "USE_TOKEN")
=============================================================================
