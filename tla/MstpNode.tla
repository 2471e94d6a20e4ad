------------------------------ MODULE MstpNode ------------------------------
(***************************************************************************)
(* A station on an MS/TP line (bac_lib/dlmstp.c): its receive and master   *)
(* state machines, run by dlmstp_receive every 5 ms, and the one packet it *)
(* keeps to transmit.  A frame is the unit; what is on the line and when   *)
(* time passes is left to the module that composes stations.               *)
(***************************************************************************)
EXTENDS Integers, Sequences

CONSTANTS
  Station,              \* the addresses of the stations of this kind
  MaxMaster,            \* Nmax_master, 127
  MaxInfoFrames,        \* Nmax_info_frames, 1
  Npoll, Nretry_token,  \* 50 and 1
  Tno_token, Tslot, Tusage_timeout,     \* 500, 10 and 95 ms
  MaxSilence,           \* 1000 ms, where SilenceTime starts again at 0
  Nmin_octets,          \* 4
  Request               \* confirmed requests of the application layer

None == MaxMaster + 2           \* no station
Broadcast == MaxMaster + 1      \* MSTP_BROADCAST_ADDRESS, 255

ASSUME NodeAssumption ==
  /\ MaxMaster \in Nat \ {0} /\ Station \subseteq 0 .. MaxMaster
  /\ MaxInfoFrames \in Nat \ {0} /\ Npoll \in Nat \ {0} /\ Nretry_token \in Nat
  /\ Tno_token \in Nat \ {0} /\ Tslot \in Nat \ {0} /\ Tusage_timeout \in Nat
  /\ MaxSilence \in Nat /\ Tusage_timeout < Tno_token /\ Tno_token < MaxSilence
  /\ Nmin_octets \in Nat \ {0}
  /\ Request \cap {"none", "whois", "iam"} = {}

VARIABLES
  node,                 \* what each station keeps
  inbox,                \* the frames in its FIFO
  air,                  \* the frames being sent
  turn,                 \* the station inside dlmstp_receive, or None
  left                  \* those that have still to call it in these 5 ms

nodeVars == <<node, inbox, air, turn, left>>

Apdu == {"none", "whois", "iam"} \cup Request

FrameType == {"token", "poll", "replyToPoll", "testRequest", "testResponse",
              "expectingReply", "notExpectingReply", "replyPostponed",
              "invalid", "short", "none"}

Frame == [type : FrameType, dst : 0 .. None, src : 0 .. None, apdu : Apdu]

\* A header alone, and what the receive machine makes of a broken frame.
Header(t, d, s) == [type |-> t, dst |-> d, src |-> s, apdu |-> "none"]
NoFrame         == Header("none", None, None)
Invalid         == Header("invalid", None, None)

MasterState == {"INITIALIZE", "IDLE", "USE_TOKEN", "DONE_WITH_TOKEN", "PASS_TOKEN",
                "NO_TOKEN", "POLL_FOR_MASTER", "ANSWER_DATA_REQUEST"}

\* dlmstp_init; Received stands for the two flags and the frame they are about.
Reset(s) ==
  [Master_State |-> "INITIALIZE", Next_Station |-> 0, Poll_Station |-> 0,
   SoleMaster |-> FALSE, TokenCount |-> 0, RetryCount |-> 0, FrameCount |-> 0,
   EventCount |-> 0, SilenceTime |-> 0, Received |-> NoFrame,
   Send_I_Am_Flag |-> TRUE, TransmitPacketPending |-> FALSE,
   TransmitPacket |-> [to |-> None, apdu |-> "none"]]

Init ==
  /\ node = [s \in Station |-> Reset(s)]
  /\ inbox = [s \in Station |-> << >>]
  /\ air = {} /\ turn = None /\ left = {}

\* Deviant: no modulo.
SuccPastEnd(a) == a + 1
Succ(a) == (a + 1) % (MaxMaster + 1)

Valid(s) == node[s].Received.type \notin {"none", "invalid"}

-----------------------------------------------------------------------------
(* The receive machine takes one frame, spinning until it is complete.     *)

\* Deviant: a frame counts as one event.
OctetsOne(f) == 1
Octets(f) == IF f.type = "short" THEN 1 ELSE Nmin_octets + 1

Least(a, b) == IF a < b THEN a ELSE b

Verdict(s, f) ==
  IF f.type \in {"invalid", "short"} THEN Invalid
  ELSE IF f.dst \in {s, Broadcast} THEN f ELSE NoFrame

dlmstp_receive(s) ==
  /\ turn = None /\ s \in left
  /\ turn' = s
  /\ \/ /\ node[s].Received = NoFrame /\ inbox[s] # << >>
        /\ inbox' = [inbox EXCEPT ![s] = Tail(@)]
        /\ node' = [node EXCEPT
             ![s].SilenceTime = 0,
             ![s].EventCount = Least(@ + Octets(Head(inbox[s])), Nmin_octets + 1),
             ![s].Received = Verdict(s, Head(inbox[s]))]
     \/ /\ node[s].Received # NoFrame \/ inbox[s] = << >>
        /\ UNCHANGED <<inbox, node>>
  /\ UNCHANGED <<air, left>>

-----------------------------------------------------------------------------
(* The master machine, one action for each transition.                     *)

At(s, state) == turn = s /\ node[s].Master_State = state

\* transition_now: the machine runs again in the same call; else it returns.
Again(s)  == UNCHANGED <<inbox, air, turn, left>>
Leave(s)  == turn' = None /\ left' = left \ {s} /\ UNCHANGED inbox
Return(s) == Leave(s) /\ UNCHANGED air

MSTP_Send_Frame(s, f) == Leave(s) /\ air' = air \cup {f}

Stay(s) == Return(s) /\ UNCHANGED node

Initialize(s) ==
  /\ At(s, "INITIALIZE")
  /\ node' = [node EXCEPT
       ![s].Next_Station = s, ![s].Poll_Station = s, ![s].TokenCount = Npoll,
       ![s].SoleMaster = FALSE, ![s].Master_State = "IDLE",
       ![s].Received = NoFrame, ![s].SilenceTime = 0]
  /\ Again(s)

(* IDLE *)
LostToken(s) ==
  /\ At(s, "IDLE") /\ node[s].SilenceTime >= Tno_token
  /\ node' = [node EXCEPT
       ![s].EventCount = 0, ![s].Master_State = "NO_TOKEN", ![s].Received = NoFrame]
  /\ Again(s)

Idle(s) == At(s, "IDLE") /\ node[s].SilenceTime < Tno_token

IdleInvalid(s) ==
  /\ Idle(s) /\ ~Valid(s)
  /\ node' = [node EXCEPT ![s].Received = NoFrame]
  /\ Return(s)

ReceivedToken(s) ==
  /\ Idle(s) /\ node[s].Received.type = "token"
  /\ node[s].Received.dst # Broadcast
  /\ node' = [node EXCEPT
       ![s].Received = NoFrame, ![s].FrameCount = 0,
       ![s].SoleMaster = FALSE, ![s].Master_State = "USE_TOKEN"]
  /\ Again(s)

ReceivedPFM(s) ==
  /\ Idle(s) /\ node[s].Received.type = "poll"
  /\ node' = [node EXCEPT ![s].Received = NoFrame, ![s].SilenceTime = 0]
  /\ MSTP_Send_Frame(s, Header("replyToPoll", node[s].Received.src, s))

ReceivedTest(s) ==
  /\ Idle(s) /\ node[s].Received.type = "testRequest"
  /\ node' = [node EXCEPT ![s].Received = NoFrame, ![s].SilenceTime = 0]
  /\ MSTP_Send_Frame(s, Header("testResponse", node[s].Received.src, s))

\* The application layer (npdu_handler) runs before the task sleeps:
\* handler_who_is, or a handler that ends in dlmstp_send_pdu.
Handled(n, f) ==
  LET reply == f.apdu \in Request /\ ~n.TransmitPacketPending
  IN [n EXCEPT
       !.Send_I_Am_Flag = @ \/ f.apdu = "whois",
       !.TransmitPacketPending = @ \/ reply,
       !.TransmitPacket = IF reply THEN [to |-> f.src, apdu |-> f.apdu] ELSE @]

ReceivedData(s) ==
  LET f == node[s].Received
      kept == f.type = "expectingReply" /\ f.dst # Broadcast
  IN /\ Idle(s) /\ f.type \in {"expectingReply", "notExpectingReply"}
     /\ node' = [node EXCEPT ![s] = [Handled(@, f) EXCEPT
          !.Received = IF kept THEN f ELSE NoFrame,
          !.Master_State = IF kept THEN "ANSWER_DATA_REQUEST" ELSE "IDLE"]]
     /\ Return(s)

ReceivedOther(s) ==
  /\ Idle(s)
  /\ \/ node[s].Received.type \in {"testResponse", "replyToPoll", "replyPostponed"}
     \/ node[s].Received.type = "token" /\ node[s].Received.dst = Broadcast
  /\ node' = [node EXCEPT ![s].Received = NoFrame]
  /\ Return(s)

(* USE_TOKEN: the packet is overwritten, whether or not a reply waits in it. *)
SendIAm(s) ==
  /\ At(s, "USE_TOKEN") /\ node[s].Send_I_Am_Flag
  /\ node' = [node EXCEPT
       ![s].Send_I_Am_Flag = FALSE, ![s].TransmitPacket.apdu = "iam",
       ![s].FrameCount = @ + 1, ![s].Master_State = "DONE_WITH_TOKEN",
       ![s].SilenceTime = 0]
  /\ MSTP_Send_Frame(s, [Header("notExpectingReply", Broadcast, s) EXCEPT !.apdu = "iam"])

NothingToSend(s) ==
  /\ At(s, "USE_TOKEN") /\ ~node[s].Send_I_Am_Flag
  /\ node' = [node EXCEPT
       ![s].TransmitPacket.apdu = "none",       \* TransmitPacketLen is 0
       ![s].FrameCount = MaxInfoFrames, ![s].Master_State = "DONE_WITH_TOKEN"]
  /\ Again(s)

(* DONE_WITH_TOKEN *)
SendAnotherFrame(s) ==
  /\ At(s, "DONE_WITH_TOKEN") /\ node[s].FrameCount < MaxInfoFrames
  /\ node' = [node EXCEPT ![s].Master_State = "USE_TOKEN"]
  /\ Again(s)

Done(s) == At(s, "DONE_WITH_TOKEN") /\ node[s].FrameCount >= MaxInfoFrames

NextUnknown(s) == ~node[s].SoleMaster /\ node[s].Next_Station = s

PollFrom(s, a) == MSTP_Send_Frame(s, Header("poll", a, s))
PassTo(s, a)   == MSTP_Send_Frame(s, Header("token", a, s))

NextStationUnknown(s) ==
  /\ Done(s) /\ NextUnknown(s)
  /\ node' = [node EXCEPT
       ![s].Poll_Station = Succ(s), ![s].RetryCount = 0,
       ![s].Master_State = "POLL_FOR_MASTER", ![s].SilenceTime = 0]
  /\ PollFrom(s, Succ(s))

SoleMasterKeeps(s) ==
  /\ Done(s) /\ ~NextUnknown(s) /\ node[s].TokenCount < Npoll - 1
  /\ node[s].SoleMaster /\ node[s].Next_Station # Succ(s)
  /\ node' = [node EXCEPT
       ![s].FrameCount = 0, ![s].TokenCount = @ + 1, ![s].Master_State = "USE_TOKEN"]
  /\ Again(s)

SendToken(s) ==
  /\ Done(s) /\ ~NextUnknown(s) /\ node[s].TokenCount < Npoll - 1
  /\ ~node[s].SoleMaster \/ node[s].Next_Station = Succ(s)
  /\ node' = [node EXCEPT
       ![s].TokenCount = @ + 1, ![s].RetryCount = 0, ![s].EventCount = 0,
       ![s].Master_State = "PASS_TOKEN", ![s].SilenceTime = 0]
  /\ PassTo(s, node[s].Next_Station)

PollDue(s) == Done(s) /\ ~NextUnknown(s) /\ node[s].TokenCount >= Npoll - 1

RestartMaintenancePFM(s) ==
  /\ PollDue(s) /\ Succ(node[s].Poll_Station) = node[s].Next_Station
  /\ node[s].SoleMaster
  /\ node' = [node EXCEPT
       ![s].Poll_Station = Succ(node[s].Next_Station), ![s].Next_Station = s,
       ![s].RetryCount = 0, ![s].TokenCount = 1,
       ![s].Master_State = "POLL_FOR_MASTER", ![s].SilenceTime = 0]
  /\ PollFrom(s, Succ(node[s].Next_Station))

ResetMaintenancePFM(s) ==
  /\ PollDue(s) /\ Succ(node[s].Poll_Station) = node[s].Next_Station
  /\ ~node[s].SoleMaster
  /\ node' = [node EXCEPT
       ![s].Poll_Station = s, ![s].RetryCount = 0, ![s].TokenCount = 1,
       ![s].EventCount = 0, ![s].Master_State = "PASS_TOKEN", ![s].SilenceTime = 0]
  /\ PassTo(s, node[s].Next_Station)

SendMaintenancePFM(s) ==
  /\ PollDue(s) /\ Succ(node[s].Poll_Station) # node[s].Next_Station
  /\ node' = [node EXCEPT
       ![s].Poll_Station = Succ(@), ![s].RetryCount = 0,
       ![s].Master_State = "POLL_FOR_MASTER", ![s].SilenceTime = 0]
  /\ PollFrom(s, Succ(node[s].Poll_Station))

(* PASS_TOKEN *)
SawTokenUser(s) ==
  /\ At(s, "PASS_TOKEN") /\ node[s].SilenceTime <= Tusage_timeout
  /\ node[s].EventCount > Nmin_octets
  /\ node' = [node EXCEPT ![s].Master_State = "IDLE"]
  /\ Again(s)

AwaitTokenUser(s) ==
  /\ At(s, "PASS_TOKEN") /\ node[s].SilenceTime <= Tusage_timeout
  /\ node[s].EventCount <= Nmin_octets
  /\ Stay(s)

\* Deviant: the retries are not counted.
RetrySendTokenForever(s) ==
  /\ At(s, "PASS_TOKEN") /\ node[s].SilenceTime > Tusage_timeout
  /\ node[s].RetryCount < Nretry_token
  /\ node' = [node EXCEPT ![s].EventCount = 0, ![s].SilenceTime = 0]
  /\ PassTo(s, node[s].Next_Station)

RetrySendToken(s) ==
  /\ At(s, "PASS_TOKEN") /\ node[s].SilenceTime > Tusage_timeout
  /\ node[s].RetryCount < Nretry_token
  /\ node' = [node EXCEPT
       ![s].RetryCount = @ + 1, ![s].EventCount = 0, ![s].SilenceTime = 0]
  /\ PassTo(s, node[s].Next_Station)

FindNewSuccessor(s) ==
  /\ At(s, "PASS_TOKEN") /\ node[s].SilenceTime > Tusage_timeout
  /\ node[s].RetryCount >= Nretry_token
  /\ node' = [node EXCEPT
       ![s].Poll_Station = Succ(node[s].Next_Station), ![s].Next_Station = s,
       ![s].RetryCount = 0, ![s].TokenCount = 0,
       ![s].Master_State = "POLL_FOR_MASTER", ![s].SilenceTime = 0]
  /\ PollFrom(s, Succ(node[s].Next_Station))

(* NO_TOKEN *)
MyTimeout(s) == Tno_token + Tslot * s
NsTimeout(s) == Tno_token + Tslot * (s + 1)

SawFrame(s) ==
  /\ At(s, "NO_TOKEN") /\ node[s].SilenceTime < MyTimeout(s)
  /\ node[s].EventCount > Nmin_octets
  /\ node' = [node EXCEPT ![s].Master_State = "IDLE"]
  /\ Again(s)

AwaitSlot(s) ==         \* also when its slot is over
  /\ At(s, "NO_TOKEN")
  /\ \/ node[s].SilenceTime < MyTimeout(s) /\ node[s].EventCount <= Nmin_octets
     \/ node[s].SilenceTime >= NsTimeout(s)
  /\ Stay(s)

GenerateToken(s) ==
  /\ At(s, "NO_TOKEN")
  /\ node[s].SilenceTime >= MyTimeout(s) /\ node[s].SilenceTime < NsTimeout(s)
  /\ node' = [node EXCEPT
       ![s].Poll_Station = Succ(s), ![s].Next_Station = s, ![s].RetryCount = 0,
       ![s].TokenCount = 0, ![s].Master_State = "POLL_FOR_MASTER", ![s].SilenceTime = 0]
  /\ PollFrom(s, Succ(s))

(* POLL_FOR_MASTER *)
ReceivedReplyToPFM(s) ==
  /\ At(s, "POLL_FOR_MASTER")
  /\ node[s].Received.type = "replyToPoll" /\ node[s].Received.dst = s
  /\ node' = [node EXCEPT
       ![s].SoleMaster = FALSE, ![s].Next_Station = node[s].Received.src,
       ![s].EventCount = 0, ![s].Poll_Station = s, ![s].TokenCount = 0,
       ![s].RetryCount = 0, ![s].Master_State = "PASS_TOKEN",
       ![s].Received = NoFrame, ![s].SilenceTime = 0]
  /\ PassTo(s, node[s].Received.src)

\* Deviant: a poller keeps its role whatever it hears.
ReceivedUnexpectedFrameIgnored(s) ==
  /\ At(s, "POLL_FOR_MASTER") /\ Valid(s)
  /\ node[s].Received.type # "replyToPoll" \/ node[s].Received.dst # s
  /\ node' = [node EXCEPT ![s].Received = NoFrame]
  /\ Return(s)

ReceivedUnexpectedFrame(s) ==
  /\ At(s, "POLL_FOR_MASTER") /\ Valid(s)
  /\ node[s].Received.type # "replyToPoll" \/ node[s].Received.dst # s
  /\ node' = [node EXCEPT ![s].Master_State = "IDLE", ![s].Received = NoFrame]
  /\ Again(s)

NoReplyToPFM(s) ==
  /\ At(s, "POLL_FOR_MASTER") /\ ~Valid(s)
  /\ node[s].SilenceTime > Tusage_timeout \/ node[s].Received = Invalid

AwaitReplyToPFM(s) ==
  /\ At(s, "POLL_FOR_MASTER") /\ ~Valid(s)
  /\ node[s].SilenceTime <= Tusage_timeout /\ node[s].Received # Invalid
  /\ Stay(s)

StillSoleMaster(s) ==
  /\ NoReplyToPFM(s) /\ node[s].SoleMaster
  /\ node' = [node EXCEPT
       ![s].FrameCount = 0, ![s].Master_State = "USE_TOKEN", ![s].Received = NoFrame]
  /\ Again(s)

DoneWithPFM(s) ==
  /\ NoReplyToPFM(s) /\ ~node[s].SoleMaster /\ node[s].Next_Station # s
  /\ node' = [node EXCEPT
       ![s].EventCount = 0, ![s].RetryCount = 0, ![s].Master_State = "PASS_TOKEN",
       ![s].Received = NoFrame, ![s].SilenceTime = 0]
  /\ PassTo(s, node[s].Next_Station)

SendNextPFM(s) ==
  /\ NoReplyToPFM(s) /\ NextUnknown(s) /\ Succ(node[s].Poll_Station) # s
  /\ node' = [node EXCEPT
       ![s].Poll_Station = Succ(@), ![s].RetryCount = 0,
       ![s].Received = NoFrame, ![s].SilenceTime = 0]
  /\ PollFrom(s, Succ(node[s].Poll_Station))

DeclareSoleMaster(s) ==
  /\ NoReplyToPFM(s) /\ NextUnknown(s) /\ Succ(node[s].Poll_Station) = s
  /\ node' = [node EXCEPT
       ![s].SoleMaster = TRUE, ![s].FrameCount = 0,
       ![s].Master_State = "USE_TOKEN", ![s].Received = NoFrame]
  /\ Again(s)

(* ANSWER_DATA_REQUEST, in the call after the one that received it *)
\* Deviant: the packet still counts as pending once it was sent.
ReplyStillPending(s) ==
  /\ At(s, "ANSWER_DATA_REQUEST") /\ node[s].TransmitPacketPending
  /\ node' = [node EXCEPT
       ![s].Received = NoFrame, ![s].Master_State = "IDLE", ![s].SilenceTime = 0]
  /\ MSTP_Send_Frame(s,
       [Header("notExpectingReply", node[s].TransmitPacket.to, s)
          EXCEPT !.apdu = node[s].TransmitPacket.apdu])

Reply(s) ==
  /\ At(s, "ANSWER_DATA_REQUEST") /\ node[s].TransmitPacketPending
  /\ node' = [node EXCEPT
       ![s].TransmitPacketPending = FALSE, ![s].Received = NoFrame,
       ![s].Master_State = "IDLE", ![s].SilenceTime = 0]
  /\ MSTP_Send_Frame(s,
       [Header("notExpectingReply", node[s].TransmitPacket.to, s)
          EXCEPT !.apdu = node[s].TransmitPacket.apdu])

DeferredReply(s) ==
  /\ At(s, "ANSWER_DATA_REQUEST") /\ ~node[s].TransmitPacketPending
  /\ node' = [node EXCEPT
       ![s].Received = NoFrame, ![s].Master_State = "IDLE", ![s].SilenceTime = 0]
  /\ MSTP_Send_Frame(s, Header("replyPostponed", node[s].Received.src, s))

MSTP_Master_Node_FSM(s) ==
  \/ Initialize(s)
  \/ LostToken(s) \/ IdleInvalid(s) \/ ReceivedToken(s) \/ ReceivedPFM(s)
  \/ ReceivedTest(s) \/ ReceivedData(s) \/ ReceivedOther(s)
  \/ SendIAm(s) \/ NothingToSend(s)
  \/ SendAnotherFrame(s) \/ NextStationUnknown(s) \/ SoleMasterKeeps(s) \/ SendToken(s)
  \/ RestartMaintenancePFM(s) \/ ResetMaintenancePFM(s) \/ SendMaintenancePFM(s)
  \/ SawTokenUser(s) \/ AwaitTokenUser(s) \/ RetrySendToken(s) \/ FindNewSuccessor(s)
  \/ SawFrame(s) \/ AwaitSlot(s) \/ GenerateToken(s)
  \/ ReceivedReplyToPFM(s) \/ ReceivedUnexpectedFrame(s) \/ AwaitReplyToPFM(s)
  \/ StillSoleMaster(s) \/ DoneWithPFM(s) \/ SendNextPFM(s) \/ DeclareSoleMaster(s)
  \/ Reply(s) \/ DeferredReply(s)

\* TIM6_IRQHandler, for the time of one call
Tick(t) == IF t < MaxSilence THEN t + 1 ELSE 0

NodeStep(s) == dlmstp_receive(s) \/ MSTP_Master_Node_FSM(s)
=============================================================================
