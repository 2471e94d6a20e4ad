-------------------------- MODULE MstpRing_proofs --------------------------
(***************************************************************************)
(* Proofs about MstpRing, for every set of stations and lines, every bound *)
(* and every timing that NodeAssumption and RingAssumption allow.          *)
(***************************************************************************)
EXTENDS MstpRing, FiniteSetTheorems, TLAPS

(* What the stations of another kind do: they have an address of their own  *)
(* in the range of a master, and they ask a confirmed request of one        *)
(* station, in a frame that expects a reply.                               *)
StandardMasters ==
  \A f \in ForeignFrames :
    /\ f.src \in 0 .. MaxMaster
    /\ f.apdu \in Request =>
         /\ f.type = "expectingReply" /\ f.dst # Broadcast
         /\ \A l \in Lines : l.MaxForeign > 0 => f.src \notin l.stations

-----------------------------------------------------------------------------
(* The inductive invariant.                                                *)

NodeType ==
  [Master_State : MasterState,
   Next_Station : 0 .. MaxMaster, Poll_Station : 0 .. MaxMaster,
   SoleMaster : BOOLEAN, TokenCount : 0 .. Npoll, RetryCount : 0 .. Nretry_token,
   FrameCount : 0 .. MaxInfoFrames, EventCount : 0 .. Nmin_octets + 1,
   SilenceTime : 0 .. MaxSilence, Received : Frame, Send_I_Am_Flag : BOOLEAN,
   TransmitPacketPending : BOOLEAN,
   TransmitPacket : [to : 0 .. None, apdu : Apdu]]

Broken(f) == f.type \in {"invalid", "short", "none"}
Asking(f) == f.type = "expectingReply" /\ f.dst # Broadcast /\ f.src \notin line.stations
Answering(f) == f.dst # Broadcast /\ f.dst \notin line.stations

(* A frame on the line: it comes from a master, and what carries a request *)
(* is either asked by a station of another kind or the answer to one.      *)
Proper(f) ==
  /\ f \in Frame
  /\ ~Broken(f) => f.src \in 0 .. MaxMaster
  /\ f.apdu \in Request => ~Broken(f) /\ (Asking(f) \/ Answering(f))

(* A frame a station has taken: answers are never for this kind.           *)
Taken(f) == Proper(f) /\ (f.apdu \in Request => Asking(f))

(* A packet waits to be sent only from the call that received the request  *)
(* to the one that answers it; who may use the token has a frame left.     *)
Sound(n) ==
  /\ Taken(n.Received)
  /\ n.Master_State = "USE_TOKEN" => n.FrameCount < MaxInfoFrames
  /\ n.TransmitPacketPending =>
       /\ n.Master_State = "ANSWER_DATA_REQUEST"
       /\ n.TransmitPacket = [to |-> n.Received.src, apdu |-> n.Received.apdu]
       /\ n.Received.apdu \in Request

ProperFrames == {f \in Frame : Proper(f)}

Inv ==
  /\ line \in Lines /\ up \subseteq line.stations
  /\ node \in [Station -> NodeType]
  /\ \A s \in Station : Sound(node[s])
  /\ inbox \in [Station -> Seq(ProperFrames)]
  /\ \A s \in Station : Len(inbox[s]) <= FifoLength
  /\ air \subseteq ProperFrames
  /\ turn = None \/ turn \in up
  /\ left \subseteq up
  /\ foreign \in Nat

-----------------------------------------------------------------------------
(* Constants, frames and stations.                                         *)
LEMMA States ==
  {"INITIALIZE", "IDLE", "USE_TOKEN", "DONE_WITH_TOKEN", "PASS_TOKEN",
   "NO_TOKEN", "POLL_FOR_MASTER", "ANSWER_DATA_REQUEST"} \subseteq MasterState
BY DEF MasterState

LEMMA Starts ==
  /\ 0 \in 0 .. MaxMaster /\ 0 \in 0 .. Npoll /\ 1 \in 0 .. Npoll /\ Npoll \in 0 .. Npoll
  /\ 0 \in 0 .. Nretry_token /\ 0 \in 0 .. MaxInfoFrames
  /\ MaxInfoFrames \in 0 .. MaxInfoFrames /\ 0 < MaxInfoFrames
  /\ 0 \in 0 .. Nmin_octets + 1 /\ 0 \in 0 .. MaxSilence
  /\ None \in 0 .. None /\ Broadcast \in 0 .. None
  /\ Broadcast \notin 0 .. MaxMaster /\ 0 .. MaxMaster \subseteq 0 .. None
BY NodeAssumption DEF None, Broadcast

LEMMA Frames ==
  /\ NoFrame \in Frame /\ Invalid \in Frame
  /\ \A t \in FrameType, d, s \in 0 .. None : Header(t, d, s) \in Frame
<1>1. "none" \in FrameType /\ "invalid" \in FrameType
  BY DEF FrameType
<1>2. "none" \in Apdu
  BY DEF Apdu
<1> QED
  BY <1>1, <1>2, Starts DEF NoFrame, Invalid, Header, Frame

(* What is no request is proper if its sender is a master.                 *)
LEMMA Headers ==
  /\ Taken(NoFrame) /\ Taken(Invalid)
  /\ \A t \in FrameType, d \in 0 .. None, s \in 0 .. MaxMaster :
       Header(t, d, s) \in ProperFrames
<1>1. "none" \notin Request
  BY NodeAssumption
<1>2. Taken(NoFrame) /\ Taken(Invalid)
  BY <1>1, Frames DEF Taken, Proper, Broken, NoFrame, Invalid, Header
<1>3. ASSUME NEW t \in FrameType, NEW d \in 0 .. None, NEW s \in 0 .. MaxMaster
      PROVE  Header(t, d, s) \in ProperFrames
  <2>1. s \in 0 .. None
    BY Starts
  <2>2. Header(t, d, s) \in Frame
    BY <2>1, Frames
  <2>3. Header(t, d, s).src = s /\ Header(t, d, s).apdu = "none"
    BY DEF Header
  <2> QED
    BY <1>1, <2>2, <2>3 DEF ProperFrames, Proper
<1> QED
  BY <1>2, <1>3

LEMMA Successors == \A a \in 0 .. MaxMaster : Succ(a) \in 0 .. MaxMaster
BY NodeAssumption DEF Succ

LEMMA Addresses == ASSUME NEW s \in Station PROVE s \in 0 .. MaxMaster
BY NodeAssumption

(* The parts of a station's record.                                        *)
LEMMA Fields ==
  ASSUME NEW n \in NodeType
  PROVE  /\ n.Master_State \in MasterState
         /\ n.Next_Station \in 0 .. MaxMaster /\ n.Poll_Station \in 0 .. MaxMaster
         /\ n.SoleMaster \in BOOLEAN /\ n.TokenCount \in 0 .. Npoll
         /\ n.RetryCount \in 0 .. Nretry_token /\ n.FrameCount \in 0 .. MaxInfoFrames
         /\ n.EventCount \in 0 .. Nmin_octets + 1 /\ n.SilenceTime \in 0 .. MaxSilence
         /\ n.Received \in Frame /\ n.Send_I_Am_Flag \in BOOLEAN
         /\ n.TransmitPacketPending \in BOOLEAN
         /\ n.TransmitPacket \in [to : 0 .. None, apdu : Apdu]
BY DEF NodeType

(* Their names.                                                            *)
LEMMA Names ==
  ASSUME NEW n \in NodeType
  PROVE  DOMAIN n =
           {"Master_State", "Next_Station", "Poll_Station", "SoleMaster", "TokenCount",
            "RetryCount", "FrameCount", "EventCount", "SilenceTime", "Received",
            "Send_I_Am_Flag", "TransmitPacketPending", "TransmitPacket"}
BY DEF NodeType

-----------------------------------------------------------------------------
(* The master machine.                                                     *)
LEMMA NodeTyped ==
  ASSUME Inv, NEW s \in Station, MSTP_Master_Node_FSM(s)
  PROVE  node' \in [Station -> NodeType]
<1>0. NoFrame \in Frame
  BY Frames
<1>1. node \in [Station -> NodeType] /\ node[s] \in NodeType
  BY DEF Inv
<1>2. s \in 0 .. MaxMaster /\ Succ(s) \in 0 .. MaxMaster
  BY Addresses, Successors
<1>3. /\ Succ(node[s].Next_Station) \in 0 .. MaxMaster
      /\ Succ(node[s].Poll_Station) \in 0 .. MaxMaster
  BY <1>1, Fields, Successors
<1>4. /\ Npoll \in Nat /\ Nretry_token \in Nat /\ MaxInfoFrames \in Nat
      /\ Nmin_octets \in Nat /\ MaxSilence \in Nat
  BY NodeAssumption
<1>5. \A k \in 0 .. Npoll : k < Npoll - 1 => k + 1 \in 0 .. Npoll
  BY <1>4
<1>6. \A k \in 0 .. Nretry_token : k < Nretry_token => k + 1 \in 0 .. Nretry_token
  BY <1>4
<1>7. \A k \in 0 .. MaxInfoFrames : k < MaxInfoFrames => k + 1 \in 0 .. MaxInfoFrames
  BY <1>4
<1>8. Sound(node[s])
  BY DEF Inv
<1>9. CASE Initialize(s)
  <2>1. "IDLE" \in MasterState /\ Npoll \in 0 .. Npoll /\ 0 \in 0 .. Nretry_token
    BY States, Starts
  <2> QED
    <3> DEFINE m == [node[s] EXCEPT !.Next_Station = s, !.Poll_Station = s,
                      !.TokenCount = Npoll, !.SoleMaster = FALSE]
               n == [m EXCEPT !.Master_State = "IDLE", !.Received = NoFrame,
                      !.SilenceTime = 0]
    <3>1. m \in NodeType
      BY <1>1, <1>2, <2>1 DEF NodeType
    <3>2. node' = [node EXCEPT ![s] = n]
      BY <1>1, <1>9 DEF Initialize
    <3>3. n \in NodeType
      <4> HIDE DEF m
      <4> QED
        BY <1>0, <2>1, <3>1, Starts DEF NodeType
    <3> HIDE DEF n
    <3> QED
      BY <1>1, <3>2, <3>3
<1>10. CASE LostToken(s)
  BY <1>10, <1>1, <1>0, States, Starts DEF LostToken, NodeType
<1>11. CASE IdleInvalid(s)
  BY <1>11, <1>1, <1>0, States, Starts DEF IdleInvalid, NodeType
<1>12. CASE ReceivedToken(s)
  BY <1>12, <1>1, <1>0, States, Starts DEF ReceivedToken, Idle, NodeType
<1>13. CASE ReceivedPFM(s)
  BY <1>13, <1>1, <1>0, States, Starts DEF ReceivedPFM, NodeType
<1>14. CASE ReceivedTest(s)
  BY <1>14, <1>1, <1>0, States, Starts DEF ReceivedTest, NodeType
<1>15. CASE ReceivedData(s)
  <2>1. /\ Handled(node[s], node[s].Received) \in NodeType
    <3>1. node[s].Received.src \in 0 .. None /\ node[s].Received.apdu \in Apdu
      BY <1>1, Fields DEF Frame
    <3>2. [to |-> node[s].Received.src, apdu |-> node[s].Received.apdu]
            \in [to : 0 .. None, apdu : Apdu]
      BY <3>1
    <3> QED
      BY <1>1, <3>2, Zenon DEF Handled, NodeType
  <2> QED
    BY <1>15, <1>1, <2>1, States, Frames DEF ReceivedData, NodeType
<1>16. CASE ReceivedOther(s)
  BY <1>16, <1>1, <1>0, States, Starts DEF ReceivedOther, NodeType
<1>17. CASE SendIAm(s)
  <2>1. node[s].FrameCount + 1 \in 0 .. MaxInfoFrames
    BY <1>17, <1>1, <1>7, <1>8, Fields DEF SendIAm, At, Sound
  <2>2. "iam" \in Apdu
    BY DEF Apdu
  <2> QED
    BY <1>17, <1>1, <2>1, <2>2, States, Starts DEF SendIAm, NodeType
<1>18. CASE NothingToSend(s)
  <2>1. "none" \in Apdu
    BY DEF Apdu
  <2> QED
    BY <1>18, <1>1, <2>1, States, Starts DEF NothingToSend, NodeType
<1>19. CASE SendAnotherFrame(s)
  BY <1>19, <1>1, <1>0, States, Starts DEF SendAnotherFrame, NodeType
<1>20. CASE NextStationUnknown(s)
  BY <1>20, <1>1, <1>2, <1>0, States, Starts DEF NextStationUnknown, NodeType
<1>21. CASE SoleMasterKeeps(s)
  BY <1>21, <1>1, <1>5, <1>0, States, Starts DEF SoleMasterKeeps, NodeType
<1>22. CASE SendToken(s)
  BY <1>22, <1>1, <1>5, <1>0, States, Starts DEF SendToken, NodeType
<1>23. CASE RestartMaintenancePFM(s)
  BY <1>23, <1>1, <1>2, <1>3, <1>0, States, Starts DEF RestartMaintenancePFM, NodeType
<1>24. CASE ResetMaintenancePFM(s)
  BY <1>24, <1>1, <1>2, <1>0, States, Starts DEF ResetMaintenancePFM, NodeType
<1>25. CASE SendMaintenancePFM(s)
  BY <1>25, <1>1, <1>3, <1>0, States, Starts DEF SendMaintenancePFM, NodeType
<1>26. CASE SawTokenUser(s)
  BY <1>26, <1>1, <1>0, States, Starts DEF SawTokenUser, NodeType
<1>27. CASE AwaitTokenUser(s)
  BY <1>27, <1>1, <1>0, States, Starts DEF AwaitTokenUser, Stay, NodeType
<1>28. CASE RetrySendToken(s)
  BY <1>28, <1>1, <1>6, <1>0, States, Starts DEF RetrySendToken, NodeType
<1>29. CASE FindNewSuccessor(s)
  BY <1>29, <1>1, <1>2, <1>3, <1>0, States, Starts DEF FindNewSuccessor, NodeType
<1>30. CASE SawFrame(s)
  BY <1>30, <1>1, <1>0, States, Starts DEF SawFrame, NodeType
<1>31. CASE AwaitSlot(s)
  BY <1>31, <1>1, <1>0, States, Starts DEF AwaitSlot, Stay, NodeType
<1>32. CASE GenerateToken(s)
  BY <1>32, <1>1, <1>2, <1>0, States, Starts DEF GenerateToken, NodeType
<1>33. CASE ReceivedReplyToPFM(s)
  <2>1. node[s].Received.src \in 0 .. MaxMaster
    <3>1. node[s].Received.type = "replyToPoll"
      BY <1>33 DEF ReceivedReplyToPFM
    <3>2. ~Broken(node[s].Received)
      BY <3>1 DEF Broken
    <3> QED
      BY <1>8, <3>2 DEF Sound, Taken, Proper
  <2> DEFINE m == [node[s] EXCEPT !.SoleMaster = FALSE,
                    !.Next_Station = node[s].Received.src, !.EventCount = 0,
                    !.Poll_Station = s]
             n == [m EXCEPT !.TokenCount = 0, !.RetryCount = 0,
                    !.Master_State = "PASS_TOKEN", !.Received = NoFrame,
                    !.SilenceTime = 0]
  <2>2. m \in NodeType
    BY <1>1, <1>2, <2>1, Starts DEF NodeType
  <2>3. n \in NodeType
    <3> HIDE DEF m
    <3> QED
      BY <2>2, <1>0, States, Starts DEF NodeType
  <2>4. node' = [node EXCEPT ![s] = n]
    BY <1>33, <1>1 DEF ReceivedReplyToPFM
  <2> QED
    BY <1>1, <2>3, <2>4
<1>34. CASE ReceivedUnexpectedFrame(s)
  BY <1>34, <1>1, <1>0, States, Starts DEF ReceivedUnexpectedFrame, NodeType
<1>35. CASE AwaitReplyToPFM(s)
  BY <1>35, <1>1, <1>0, States, Starts DEF AwaitReplyToPFM, Stay, NodeType
<1>36. CASE StillSoleMaster(s)
  BY <1>36, <1>1, <1>0, States, Starts DEF StillSoleMaster, NodeType
<1>37. CASE DoneWithPFM(s)
  BY <1>37, <1>1, <1>0, States, Starts DEF DoneWithPFM, NodeType
<1>38. CASE SendNextPFM(s)
  BY <1>38, <1>1, <1>3, <1>0, States, Starts DEF SendNextPFM, NodeType
<1>39. CASE DeclareSoleMaster(s)
  BY <1>39, <1>1, <1>0, States, Starts DEF DeclareSoleMaster, NodeType
<1>40. CASE Reply(s)
  BY <1>40, <1>1, <1>0, States, Starts DEF Reply, NodeType
<1>41. CASE DeferredReply(s)
  BY <1>41, <1>1, <1>0, States, Starts DEF DeferredReply, NodeType
<1> QED
  BY <1>9, <1>10, <1>11, <1>12, <1>13, <1>14, <1>15, <1>16, <1>17, <1>18, <1>19, <1>20,
     <1>21, <1>22, <1>23, <1>24, <1>25, <1>26, <1>27, <1>28, <1>29, <1>30, <1>31, <1>32, <1>33,
     <1>34, <1>35, <1>36, <1>37, <1>38, <1>39, <1>40, <1>41 DEF MSTP_Master_Node_FSM

(* Nothing about a frame or a station depends on more than the line.       *)
LEMMA LineKept ==
  ASSUME line' = line
  PROVE  /\ \A f : Taken(f)' <=> Taken(f)
         /\ \A n : Sound(n)' <=> Sound(n)
         /\ ProperFrames' = ProperFrames
<1>1. \A f : Proper(f)' <=> Proper(f)
  BY DEF Proper, Asking, Answering
<1>2. \A f : Taken(f)' <=> Taken(f)
  BY <1>1 DEF Taken, Asking
<1> QED
  BY <1>1, <1>2 DEF Sound, ProperFrames

(* The other stations are as they were, and this one, with no packet       *)
(* waiting, still holds the frame it had or none.                          *)
Calm(s) ==
  /\ \A r \in Station \ {s} : node'[r] = node[r]
  /\ node'[s].Received \in {node[s].Received, NoFrame}
  /\ ~node'[s].TransmitPacketPending
  /\ node'[s].Master_State = "USE_TOKEN" => node'[s].FrameCount < MaxInfoFrames

LEMMA NodeCalm ==
  ASSUME Inv, NEW s \in Station, MSTP_Master_Node_FSM(s), ~ReceivedData(s)
  PROVE  Calm(s)
<1>1. node \in [Station -> NodeType] /\ node[s] \in NodeType
  BY DEF Inv
<1>2. /\ node[s].Master_State # "ANSWER_DATA_REQUEST" => ~node[s].TransmitPacketPending
      /\ node[s].Master_State = "USE_TOKEN" => node[s].FrameCount < MaxInfoFrames
  BY DEF Inv, Sound
<1>3. CASE Initialize(s)
  BY <1>3, <1>1, <1>2 DEF Initialize, At, Calm, NodeType
<1>4. CASE LostToken(s)
  BY <1>4, <1>1, <1>2 DEF LostToken, At, Calm, NodeType
<1>5. CASE IdleInvalid(s)
  BY <1>5, <1>1, <1>2 DEF IdleInvalid, At, Calm, NodeType, Idle
<1>6. CASE ReceivedToken(s)
  BY <1>6, <1>1, <1>2, Starts DEF ReceivedToken, At, Calm, NodeType, Idle
<1>7. CASE ReceivedPFM(s)
  BY <1>7, <1>1, <1>2 DEF ReceivedPFM, At, Calm, NodeType, Idle
<1>8. CASE ReceivedTest(s)
  BY <1>8, <1>1, <1>2 DEF ReceivedTest, At, Calm, NodeType, Idle
<1>9. CASE ReceivedOther(s)
  BY <1>9, <1>1, <1>2 DEF ReceivedOther, At, Calm, NodeType, Idle
<1>10. CASE SendIAm(s)
  BY <1>10, <1>1, <1>2 DEF SendIAm, At, Calm, NodeType
<1>11. CASE NothingToSend(s)
  BY <1>11, <1>1, <1>2 DEF NothingToSend, At, Calm, NodeType
<1>12. CASE SendAnotherFrame(s)
  BY <1>12, <1>1, <1>2 DEF SendAnotherFrame, At, Calm, NodeType
<1>13. CASE NextStationUnknown(s)
  BY <1>13, <1>1, <1>2 DEF NextStationUnknown, At, Calm, NodeType, Done
<1>14. CASE SoleMasterKeeps(s)
  BY <1>14, <1>1, <1>2, Starts DEF SoleMasterKeeps, At, Calm, NodeType, Done
<1>15. CASE SendToken(s)
  BY <1>15, <1>1, <1>2 DEF SendToken, At, Calm, NodeType, Done
<1>16. CASE RestartMaintenancePFM(s)
  BY <1>16, <1>1, <1>2 DEF RestartMaintenancePFM, At, Calm, NodeType, PollDue, Done
<1>17. CASE ResetMaintenancePFM(s)
  BY <1>17, <1>1, <1>2 DEF ResetMaintenancePFM, At, Calm, NodeType, PollDue, Done
<1>18. CASE SendMaintenancePFM(s)
  BY <1>18, <1>1, <1>2 DEF SendMaintenancePFM, At, Calm, NodeType, PollDue, Done
<1>19. CASE SawTokenUser(s)
  BY <1>19, <1>1, <1>2 DEF SawTokenUser, At, Calm, NodeType
<1>20. CASE AwaitTokenUser(s)
  BY <1>20, <1>1, <1>2 DEF AwaitTokenUser, At, Calm, NodeType, Stay
<1>21. CASE RetrySendToken(s)
  BY <1>21, <1>1, <1>2 DEF RetrySendToken, At, Calm, NodeType
<1>22. CASE FindNewSuccessor(s)
  BY <1>22, <1>1, <1>2 DEF FindNewSuccessor, At, Calm, NodeType
<1>23. CASE SawFrame(s)
  BY <1>23, <1>1, <1>2 DEF SawFrame, At, Calm, NodeType
<1>24. CASE AwaitSlot(s)
  BY <1>24, <1>1, <1>2 DEF AwaitSlot, At, Calm, NodeType, Stay
<1>25. CASE GenerateToken(s)
  BY <1>25, <1>1, <1>2 DEF GenerateToken, At, Calm, NodeType
<1>26. CASE ReceivedReplyToPFM(s)
  <2> DEFINE n == [node[s] EXCEPT
                    !.SoleMaster = FALSE, !.Next_Station = node[s].Received.src,
                    !.EventCount = 0, !.Poll_Station = s, !.TokenCount = 0,
                    !.RetryCount = 0, !.Master_State = "PASS_TOKEN",
                    !.Received = NoFrame, !.SilenceTime = 0]
  <2>1. node' = [node EXCEPT ![s] = n] /\ node[s].Master_State = "POLL_FOR_MASTER"
    BY <1>26, <1>1 DEF ReceivedReplyToPFM, At
  <2>2. /\ n.Received = NoFrame /\ n.Master_State = "PASS_TOKEN"
        /\ n.TransmitPacketPending = node[s].TransmitPacketPending
    BY <1>1 DEF NodeType
  <2>3. node'[s] = n /\ \A r \in Station \ {s} : node'[r] = node[r]
    BY <1>1, <2>1
  <2> HIDE DEF n
  <2> QED
    BY <1>2, <2>1, <2>2, <2>3 DEF Calm
<1>27. CASE ReceivedUnexpectedFrame(s)
  BY <1>27, <1>1, <1>2 DEF ReceivedUnexpectedFrame, At, Calm, NodeType
<1>28. CASE AwaitReplyToPFM(s)
  BY <1>28, <1>1, <1>2 DEF AwaitReplyToPFM, At, Calm, NodeType, Stay
<1>29. CASE StillSoleMaster(s)
  BY <1>29, <1>1, <1>2, Starts DEF StillSoleMaster, At, Calm, NodeType, NoReplyToPFM
<1>30. CASE DoneWithPFM(s)
  BY <1>30, <1>1, <1>2 DEF DoneWithPFM, At, Calm, NodeType, NoReplyToPFM
<1>31. CASE SendNextPFM(s)
  BY <1>31, <1>1, <1>2 DEF SendNextPFM, At, Calm, NodeType, NoReplyToPFM
<1>32. CASE DeclareSoleMaster(s)
  BY <1>32, <1>1, <1>2, Starts DEF DeclareSoleMaster, At, Calm, NodeType, NoReplyToPFM
<1>33. CASE Reply(s)
  BY <1>33, <1>1, <1>2 DEF Reply, At, Calm, NodeType
<1>34. CASE DeferredReply(s)
  BY <1>34, <1>1, <1>2 DEF DeferredReply, At, Calm, NodeType
<1> QED
  BY <1>3, <1>4, <1>5, <1>6, <1>7, <1>8, <1>9, <1>10, <1>11, <1>12, <1>13, <1>14, <1>15,
     <1>16, <1>17, <1>18, <1>19, <1>20, <1>21, <1>22, <1>23, <1>24, <1>25, <1>26, <1>27, <1>28,
     <1>29, <1>30, <1>31, <1>32, <1>33, <1>34 DEF MSTP_Master_Node_FSM

LEMMA NodeSound ==
  ASSUME Inv, NEW s \in Station, MSTP_Master_Node_FSM(s), line' = line
  PROVE  \A r \in Station : Sound(node[r])'
<1>1. node \in [Station -> NodeType] /\ node[s] \in NodeType
  BY DEF Inv
<1>2. \A r \in Station : Sound(node[r])
  BY DEF Inv
<1>3. SUFFICES \A r \in Station : Sound(node'[r])
  BY LineKept DEF Sound, Taken, Proper, Asking, Answering
<1>4. CASE ~ReceivedData(s)
  <2>1. Calm(s)
    BY <1>4, NodeCalm
  <2>2. Taken(node'[s].Received)
    BY <1>2, <2>1, Headers DEF Calm, Sound
  <2>3. Sound(node'[s])
    BY <2>1, <2>2 DEF Calm, Sound
  <2> QED
    BY <1>2, <2>1, <2>3 DEF Calm
<1>5. CASE ReceivedData(s)
  <2> DEFINE f    == node[s].Received
             kept == f.type = "expectingReply" /\ f.dst # Broadcast
             h    == Handled(node[s], f)
             n    == [h EXCEPT !.Received = IF kept THEN f ELSE NoFrame,
                        !.Master_State = IF kept THEN "ANSWER_DATA_REQUEST" ELSE "IDLE"]
  <2>1. node' = [node EXCEPT ![s] = n]
    BY <1>5 DEF ReceivedData
  <2>2. Taken(f) /\ ~node[s].TransmitPacketPending
    BY <1>2, <1>5 DEF ReceivedData, Idle, At, Sound
  <2>3. /\ n.Received = IF kept THEN f ELSE NoFrame
        /\ n.Master_State = IF kept THEN "ANSWER_DATA_REQUEST" ELSE "IDLE"
        /\ n.TransmitPacketPending => f.apdu \in Request
        /\ f.apdu \in Request =>
             n.TransmitPacket = [to |-> f.src, apdu |-> f.apdu]
    BY <1>1, <2>2 DEF Handled, NodeType
  <2>4. f.apdu \in Request => kept
    BY <2>2 DEF Taken, Asking
  <2>5. Taken(n.Received)
    BY <2>2, <2>3, Headers
  <2>6. Sound(n)
    <3> HIDE DEF n, kept, f, h
    <3>1. n.Master_State # "USE_TOKEN"
      BY <2>3
    <3>2. n.TransmitPacketPending =>
            /\ n.Master_State = "ANSWER_DATA_REQUEST" /\ n.Received = f
            /\ n.TransmitPacket = [to |-> f.src, apdu |-> f.apdu]
            /\ f.apdu \in Request
      BY <2>3, <2>4
    <3> QED
      BY <2>5, <3>1, <3>2 DEF Sound
  <2> QED
    BY <1>1, <1>2, <2>1, <2>6
<1> QED
  BY <1>4, <1>5

(* What the master machine sends, and how it leaves the call.              *)
LEMMA NodeSends ==
  ASSUME Inv, NEW s \in Station, MSTP_Master_Node_FSM(s)
  PROVE  /\ inbox' = inbox
         /\ UNCHANGED <<turn, left>> \/ (turn' = None /\ left' = left \ {s})
         /\ \/ air' = air
            \/ /\ turn' = None /\ left' = left \ {s}
               /\ \E f \in ProperFrames : f.src = s /\ air' = air \cup {f}
<1> DEFINE own == {f \in ProperFrames : f.src = s}
<1> SUFFICES /\ inbox' = inbox
             /\ UNCHANGED <<turn, left>> \/ (turn' = None /\ left' = left \ {s})
             /\ \/ air' = air
                \/ /\ turn' = None /\ left' = left \ {s}
                   /\ \E f \in own : air' = air \cup {f}
  OBVIOUS
<1>1. node[s] \in NodeType /\ Sound(node[s])
  BY DEF Inv
<1>2. /\ s \in 0 .. MaxMaster /\ s \in 0 .. None
      /\ Succ(s) \in 0 .. None /\ Broadcast \in 0 .. None
      /\ node[s].Next_Station \in 0 .. None
      /\ Succ(node[s].Next_Station) \in 0 .. None
      /\ Succ(node[s].Poll_Station) \in 0 .. None
  BY <1>1, Addresses, Successors, Fields, Starts
<1>3. node[s].Received.src \in 0 .. None
  BY <1>1, Fields DEF Frame
<1>4. \A d \in 0 .. None :
        /\ Header("token", d, s) \in own
        /\ Header("poll", d, s) \in own
        /\ Header("replyToPoll", d, s) \in own
        /\ Header("testResponse", d, s) \in own
        /\ Header("replyPostponed", d, s) \in own
        /\ Header("notExpectingReply", d, s) \in own
  <2>1. {"token", "poll", "replyToPoll", "testResponse", "replyPostponed",
         "notExpectingReply"} \subseteq FrameType
    BY DEF FrameType
  <2>2. \A t \in FrameType, d \in 0 .. None :
          Header(t, d, s) \in ProperFrames /\ Header(t, d, s).src = s
    BY <1>2, Headers DEF Header
  <2>3. \A t \in FrameType, d \in 0 .. None : Header(t, d, s) \in own
    BY <2>2
  <2> HIDE DEF own
  <2> QED
    BY <2>1, <2>3
<1>38. \A f : f \in own <=> f \in ProperFrames /\ f.src = s
  OBVIOUS
<1> HIDE DEF own
<1>5. CASE Initialize(s)
  BY <1>5 DEF Initialize, Again
<1>6. CASE LostToken(s)
  BY <1>6 DEF LostToken, Again
<1>7. CASE IdleInvalid(s)
  BY <1>7 DEF IdleInvalid, Return, Leave
<1>8. CASE ReceivedToken(s)
  BY <1>8 DEF ReceivedToken, Again
<1>9. CASE ReceivedPFM(s)
  BY <1>9, <1>2, <1>3, <1>4 DEF ReceivedPFM, MSTP_Send_Frame, Leave
<1>10. CASE ReceivedTest(s)
  BY <1>10, <1>2, <1>3, <1>4 DEF ReceivedTest, MSTP_Send_Frame, Leave
<1>11. CASE ReceivedData(s)
  BY <1>11 DEF ReceivedData, Return, Leave
<1>12. CASE ReceivedOther(s)
  BY <1>12 DEF ReceivedOther, Return, Leave
<1>13. CASE SendIAm(s)
  <2> DEFINE h == Header("notExpectingReply", Broadcast, s)
             f == [h EXCEPT !.apdu = "iam"]
  <2>1. h \in ProperFrames /\ h.src = s /\ "iam" \notin Request /\ "iam" \in Apdu
    BY <1>2, <1>4, <1>38, NodeAssumption DEF Apdu
  <2>2. f \in Frame /\ f.apdu = "iam" /\ f.src = h.src /\ f.type = h.type
    BY <2>1 DEF ProperFrames, Frame
  <2>3. f \in ProperFrames
    BY <2>1, <2>2 DEF ProperFrames, Proper, Broken
  <2>4. f \in own
    BY <1>38, <2>1, <2>2, <2>3
  <2> HIDE DEF f
  <2> QED
    BY <1>13, <2>4 DEF f, SendIAm, MSTP_Send_Frame, Leave
<1>14. CASE NothingToSend(s)
  BY <1>14 DEF NothingToSend, Again
<1>15. CASE SendAnotherFrame(s)
  BY <1>15 DEF SendAnotherFrame, Again
<1>16. CASE NextStationUnknown(s)
  BY <1>16, <1>2, <1>3, <1>4 DEF NextStationUnknown, PollFrom, MSTP_Send_Frame, Leave
<1>17. CASE SoleMasterKeeps(s)
  BY <1>17 DEF SoleMasterKeeps, Again
<1>18. CASE SendToken(s)
  BY <1>18, <1>2, <1>3, <1>4 DEF SendToken, PassTo, MSTP_Send_Frame, Leave
<1>19. CASE RestartMaintenancePFM(s)
  BY <1>19, <1>2, <1>3, <1>4 DEF RestartMaintenancePFM, PollFrom, MSTP_Send_Frame, Leave
<1>20. CASE ResetMaintenancePFM(s)
  BY <1>20, <1>2, <1>3, <1>4 DEF ResetMaintenancePFM, PassTo, MSTP_Send_Frame, Leave
<1>21. CASE SendMaintenancePFM(s)
  BY <1>21, <1>2, <1>3, <1>4 DEF SendMaintenancePFM, PollFrom, MSTP_Send_Frame, Leave
<1>22. CASE SawTokenUser(s)
  BY <1>22 DEF SawTokenUser, Again
<1>23. CASE AwaitTokenUser(s)
  BY <1>23 DEF AwaitTokenUser, Stay, Return, Leave
<1>24. CASE RetrySendToken(s)
  BY <1>24, <1>2, <1>3, <1>4 DEF RetrySendToken, PassTo, MSTP_Send_Frame, Leave
<1>25. CASE FindNewSuccessor(s)
  BY <1>25, <1>2, <1>3, <1>4 DEF FindNewSuccessor, PollFrom, MSTP_Send_Frame, Leave
<1>26. CASE SawFrame(s)
  BY <1>26 DEF SawFrame, Again
<1>27. CASE AwaitSlot(s)
  BY <1>27 DEF AwaitSlot, Stay, Return, Leave
<1>28. CASE GenerateToken(s)
  BY <1>28, <1>2, <1>3, <1>4 DEF GenerateToken, PollFrom, MSTP_Send_Frame, Leave
<1>29. CASE ReceivedReplyToPFM(s)
  BY <1>29, <1>2, <1>3, <1>4 DEF ReceivedReplyToPFM, PassTo, MSTP_Send_Frame, Leave
<1>30. CASE ReceivedUnexpectedFrame(s)
  BY <1>30 DEF ReceivedUnexpectedFrame, Again
<1>31. CASE AwaitReplyToPFM(s)
  BY <1>31 DEF AwaitReplyToPFM, Stay, Return, Leave
<1>32. CASE StillSoleMaster(s)
  BY <1>32 DEF StillSoleMaster, Again
<1>33. CASE DoneWithPFM(s)
  BY <1>33, <1>2, <1>3, <1>4 DEF DoneWithPFM, PassTo, MSTP_Send_Frame, Leave
<1>34. CASE SendNextPFM(s)
  BY <1>34, <1>2, <1>3, <1>4 DEF SendNextPFM, PollFrom, MSTP_Send_Frame, Leave
<1>35. CASE DeclareSoleMaster(s)
  BY <1>35 DEF DeclareSoleMaster, Again
<1>36. CASE Reply(s)
  <2> DEFINE p == node[s].TransmitPacket
             h == Header("notExpectingReply", p.to, s)
             f == [h EXCEPT !.apdu = p.apdu]
  <2>1. /\ p.to = node[s].Received.src /\ p.apdu = node[s].Received.apdu
        /\ p.apdu \in Request
    BY <1>1, <1>36 DEF Reply, Sound
  <2>2. Asking(node[s].Received) /\ ~Broken(node[s].Received)
        /\ node[s].Received.src \in 0 .. MaxMaster
    BY <1>1, <2>1 DEF Sound, Taken, Proper
  <2>3. p.to \in 0 .. None /\ p.to # Broadcast /\ p.to \notin line.stations
    BY <2>1, <2>2, Starts DEF Asking
  <2>4. h \in ProperFrames /\ p.apdu \in Apdu
    BY <1>4, <1>38, <2>1, <2>3 DEF Apdu
  <2>5. /\ f \in Frame /\ f.dst = p.to /\ f.src = h.src
        /\ f.type = "notExpectingReply"
    BY <2>4 DEF ProperFrames, Frame, Header
  <2>6. ~Broken(f) /\ h.src = s
    BY <2>5 DEF Broken, Header
  <2>7. f \in ProperFrames
    BY <1>2, <2>3, <2>5, <2>6 DEF ProperFrames, Proper, Answering
  <2>8. f \in own
    BY <1>38, <2>5, <2>6, <2>7
  <2> HIDE DEF f
  <2> QED
    BY <1>36, <2>8 DEF f, Reply, MSTP_Send_Frame, Leave
<1>37. CASE DeferredReply(s)
  BY <1>37, <1>2, <1>3, <1>4 DEF DeferredReply, MSTP_Send_Frame, Leave
<1> QED
  BY <1>5, <1>6, <1>7, <1>8, <1>9, <1>10, <1>11, <1>12, <1>13, <1>14, <1>15, <1>16, <1>17,
     <1>18, <1>19, <1>20, <1>21, <1>22, <1>23, <1>24, <1>25, <1>26, <1>27, <1>28, <1>29, <1>30,
     <1>31, <1>32, <1>33, <1>34, <1>35, <1>36, <1>37 DEF MSTP_Master_Node_FSM

-----------------------------------------------------------------------------
(* A queue of frames.                                                      *)
LEMMA Queues ==
  ASSUME NEW S, NEW q \in Seq(S)
  PROVE  /\ q # << >> => Head(q) \in S /\ Tail(q) \in Seq(S) /\ Len(Tail(q)) <= Len(q)
         /\ \A f \in S : Append(q, f) \in Seq(S) /\ Len(Append(q, f)) = Len(q) + 1
         /\ Len(q) \in Nat /\ << >> \in Seq(S) /\ Len(<< >>) = 0
OBVIOUS

LEMMA Putting ==
  ASSUME Inv, NEW s \in Station, NEW f \in ProperFrames
  PROVE  Put(s, f) \in Seq(ProperFrames) /\ Len(Put(s, f)) <= FifoLength
<1>1. inbox[s] \in Seq(ProperFrames) /\ Len(inbox[s]) <= FifoLength
  BY DEF Inv
<1>2. Append(inbox[s], f) \in Seq(ProperFrames)
      /\ Len(Append(inbox[s], f)) = Len(inbox[s]) + 1 /\ Len(inbox[s]) \in Nat
  BY <1>1, Queues
<1>3. FifoLength \in Nat
  BY RingAssumption
<1> QED
  BY <1>1, <1>2, <1>3 DEF Put

(* The receive machine takes a frame, or leaves it in the queue.           *)
LEMMA Receives ==
  ASSUME Inv, NEW s \in Station, dlmstp_receive(s), UNCHANGED <<line, up, foreign>>
  PROVE  Inv'
<1>1. node \in [Station -> NodeType] /\ node[s] \in NodeType /\ Sound(node[s])
  BY DEF Inv
<1>2. s \in up /\ s \in line.stations /\ turn' = s /\ UNCHANGED <<air, left>>
  BY DEF dlmstp_receive, Inv
<1>3. UNCHANGED <<inbox, node>> => Inv'
  BY <1>2, LineKept DEF Inv, Sound, Taken, Proper, Asking, Answering, ProperFrames
<1>4. ASSUME node[s].Received = NoFrame, inbox[s] # << >>,
             inbox' = [inbox EXCEPT ![s] = Tail(@)],
             node' = [node EXCEPT
               ![s].SilenceTime = 0,
               ![s].EventCount = Least(@ + Octets(Head(inbox[s])), Nmin_octets + 1),
               ![s].Received = Verdict(s, Head(inbox[s]))]
      PROVE  Inv'
  <2> DEFINE f == Head(inbox[s])
             v == Verdict(s, f)
             e == Least(node[s].EventCount + Octets(f), Nmin_octets + 1)
             n == [node[s] EXCEPT !.SilenceTime = 0, !.EventCount = e, !.Received = v]
  <2>1. inbox[s] \in Seq(ProperFrames) /\ Len(inbox[s]) <= FifoLength
    BY DEF Inv
  <2>2. f \in ProperFrames /\ Tail(inbox[s]) \in Seq(ProperFrames)
        /\ Len(Tail(inbox[s])) <= Len(inbox[s])
    BY <1>4, <2>1, Queues
  <2>3. Len(Tail(inbox[s])) <= FifoLength
    <3>1. Len(Tail(inbox[s])) \in Nat /\ Len(inbox[s]) \in Nat /\ FifoLength \in Nat
      BY <2>1, <2>2, Queues, RingAssumption
    <3> QED
      BY <2>1, <2>2, <3>1
  <2>4. Taken(v) /\ v \in Frame
    <3>1. CASE v = f /\ f.dst \in {s, Broadcast}
      <4>1. Proper(f) /\ f \in Frame
        BY <2>2 DEF ProperFrames
      <4>2. ~Answering(f)
        BY <1>2, <3>1 DEF Answering
      <4> QED
        BY <3>1, <4>1, <4>2 DEF Taken, Proper
    <3>2. CASE v \in {Invalid, NoFrame}
      BY <3>2, Headers, Frames
    <3> QED
      BY <3>1, <3>2 DEF Verdict
  <2>5. e \in 0 .. Nmin_octets + 1
    <3>1. node[s].EventCount \in Nat /\ Nmin_octets \in Nat
      BY <1>1, Fields, NodeAssumption
    <3>2. Octets(f) \in Nat
      BY <3>1 DEF Octets
    <3> QED
      BY <3>1, <3>2 DEF Least
  <2>6. n \in NodeType
    <3> HIDE DEF e, v
    <3> QED
      BY <1>1, <2>4, <2>5, Starts DEF NodeType
  <2>7. Sound(n)
    <3>1. /\ n.Received = v /\ n.Master_State = node[s].Master_State
          /\ n.FrameCount = node[s].FrameCount
          /\ n.TransmitPacketPending = node[s].TransmitPacketPending
      BY <1>1 DEF NodeType
    <3>2. NoFrame.apdu \notin Request
      BY NodeAssumption DEF NoFrame, Header
    <3>3. ~node[s].TransmitPacketPending
      BY <1>1, <1>4, <3>2 DEF Sound
    <3> QED
      BY <1>1, <2>4, <3>1, <3>3 DEF Sound
  <2>8. node' = [node EXCEPT ![s] = n]
    BY <1>1, <1>4
  <2>9. /\ node' \in [Station -> NodeType]
        /\ \A r \in Station : Sound(node'[r])
    <3> HIDE DEF n
    <3> QED
      BY <1>1, <2>6, <2>7, <2>8 DEF Inv
  <2>10. /\ inbox' \in [Station -> Seq(ProperFrames)]
         /\ \A r \in Station : Len(inbox'[r]) <= FifoLength
    BY <1>4, <2>2, <2>3 DEF Inv
  <2> QED
    BY <1>2, <2>9, <2>10, LineKept DEF Inv, Sound, Taken, Proper, Asking, Answering
<1> QED
  BY <1>3, <1>4 DEF dlmstp_receive

(* What is left of the line when the frame on it has been delivered.       *)
LEMMA OnTheAir ==
  ASSUME Inv, Cardinality(air) = 1
  PROVE  (CHOOSE f \in air : TRUE) \in ProperFrames
<1>1. air # {}
  BY FS_EmptySet
<1>2. (CHOOSE f \in air : TRUE) \in air
  BY <1>1
<1> QED
  BY <1>2 DEF Inv

LEMMA InvInit == RingInit => Inv
<1> SUFFICES ASSUME RingInit PROVE Inv
  OBVIOUS
<1>1. \A s \in Station : Reset(s) \in NodeType
  <2>1. [to |-> None, apdu |-> "none"] \in [to : 0 .. None, apdu : Apdu]
    BY Starts DEF Apdu
  <2> QED
    BY <2>1, States, Starts, Frames DEF Reset, NodeType
<1>2. \A s \in Station : Sound(Reset(s))
  BY Headers DEF Reset, Sound
<1>3. FifoLength \in Nat /\ << >> \in Seq(ProperFrames) /\ Len(<< >>) = 0
  BY RingAssumption
<1> QED
  BY <1>1, <1>2, <1>3 DEF RingInit, Init, Inv

LEMMA InvStep == StandardMasters /\ Inv /\ [RingNext]_vars => Inv'
<1> SUFFICES ASSUME StandardMasters, Inv, [RingNext]_vars PROVE Inv'
  OBVIOUS
<1>1. /\ line.stations \subseteq Station /\ FifoLength \in Nat
      /\ line.MaxForeign \in Nat
  BY RingAssumption DEF Inv
<1>l. ASSUME line' = line
      PROVE  /\ ProperFrames' = ProperFrames
             /\ \A n : Sound(n)' <=> Sound(n)
  BY <1>l, LineKept
<1>2. ASSUME NEW s \in Station, Step(s) PROVE Inv'
  <2>1. UNCHANGED <<line, up, foreign>>
    BY <1>2 DEF Step
  <2>2. CASE dlmstp_receive(s)
    BY <2>1, <2>2, Receives
  <2>3. CASE MSTP_Master_Node_FSM(s)
    <3>1. node' \in [Station -> NodeType]
      BY <2>3, NodeTyped
    <3>2. \A r \in Station : Sound(node[r])'
      BY <2>1, <2>3, NodeSound
    <3>3. /\ inbox' = inbox
          /\ UNCHANGED <<turn, left>> \/ (turn' = None /\ left' = left \ {s})
          /\ air' = air \/ \E f \in ProperFrames : air' = air \cup {f}
      BY <2>3, NodeSends
    <3>4. air' \subseteq ProperFrames
      BY <3>3 DEF Inv
    <3> QED
      BY <2>1, <3>1, <3>2, <3>3, <3>4, <1>l DEF Inv
  <2> QED
    BY <1>2, <2>2, <2>3 DEF Step, NodeStep
<1>3. ASSUME NEW s \in Station, SwitchOn(s) PROVE Inv'
  <2>1. UNCHANGED <<node, inbox, air, turn, left, line, foreign>> /\ up' = up \cup {s}
        /\ s \in line.stations
    BY <1>3 DEF SwitchOn, nodeVars
  <2> QED
    BY <2>1, <1>l DEF Inv
<1>4. ASSUME NEW s \in Station, SwitchOff(s) PROVE Inv'
  <2>1. /\ UNCHANGED <<air, line, foreign>> /\ turn' = None
        /\ up' = up \ {s} /\ left' = left \ {s}
        /\ node' = [node EXCEPT ![s] = Reset(s)]
        /\ inbox' = [inbox EXCEPT ![s] = << >>]
    BY <1>4 DEF SwitchOff
  <2>2. Reset(s) \in NodeType
    <3>1. [to |-> None, apdu |-> "none"] \in [to : 0 .. None, apdu : Apdu]
      BY Starts DEF Apdu
    <3> QED
      BY <3>1, States, Starts, Frames DEF Reset, NodeType
  <2>3. Sound(Reset(s))
    BY Headers DEF Reset, Sound
  <2>4. node' \in [Station -> NodeType] /\ \A r \in Station : Sound(node'[r])
    BY <2>1, <2>2, <2>3 DEF Inv
  <2>5. /\ inbox' \in [Station -> Seq(ProperFrames)]
        /\ \A r \in Station : Len(inbox'[r]) <= FifoLength
    <3>1. << >> \in Seq(ProperFrames) /\ Len(<< >>) <= FifoLength
      BY <1>1
    <3> QED
      BY <2>1, <3>1 DEF Inv
  <2> QED
    BY <2>1, <2>4, <2>5, <1>l DEF Inv
<1>5. ASSUME NEW f \in ForeignFrames, Foreign(f) PROVE Inv'
  <2>1. /\ air' = {f} /\ foreign' = foreign + 1 /\ foreign < line.MaxForeign
        /\ UNCHANGED <<node, inbox, turn, left, line, up>>
    BY <1>5 DEF Foreign
  <2>2. line.MaxForeign > 0 /\ line \in Lines /\ foreign' \in Nat
    BY <1>1, <2>1 DEF Inv
  <2>3. /\ f \in Frame /\ f.src \in 0 .. MaxMaster
        /\ f.apdu \in Request =>
             f.type = "expectingReply" /\ f.dst # Broadcast /\ f.src \notin line.stations
    BY <2>2, RingAssumption DEF StandardMasters
  <2>4. f \in ProperFrames
    <3>1. f.type = "expectingReply" => ~Broken(f)
      BY DEF Broken
    <3> QED
      BY <2>3, <3>1 DEF ProperFrames, Proper, Asking
  <2> QED
    BY <2>1, <2>2, <2>4, <1>l DEF Inv
<1>6. CASE Deliver
  <2> DEFINE f == CHOOSE f \in air : TRUE
  <2>1. /\ inbox' = [s \in Station |-> IF s \in Hearing THEN Put(s, f) ELSE inbox[s]]
        /\ air' = {} /\ UNCHANGED <<node, turn, left, line, up, foreign>>
    BY <1>6 DEF Deliver
  <2>2. f \in ProperFrames
    BY <1>6, OnTheAir DEF Deliver
  <2>3. /\ inbox' \in [Station -> Seq(ProperFrames)]
        /\ \A r \in Station : Len(inbox'[r]) <= FifoLength
    <3> HIDE DEF f
    <3> QED
      BY <2>1, <2>2, Putting DEF Inv
  <2> QED
    BY <2>1, <2>3, <1>l DEF Inv
<1>7. CASE DeliverBadly
  <2> DEFINE f == CHOOSE f \in air : TRUE
  <2>1. PICK s \in Hearing, damage \in {"lost", "invalid", "short"} :
          inbox' = [r \in Station |->
            IF r \in Hearing \ {s} THEN Put(r, f)
            ELSE IF r = s /\ damage # "lost" THEN Put(r, Header(damage, None, None))
            ELSE inbox[r]]
    BY <1>7 DEF DeliverBadly
  <2>2. air' = {} /\ UNCHANGED <<node, turn, left, line, up, foreign>>
    BY <1>7 DEF DeliverBadly
  <2>3. f \in ProperFrames
    BY <1>7, OnTheAir DEF DeliverBadly
  <2>4. damage # "lost" => Header(damage, None, None) \in ProperFrames
    <3> DEFINE h == Header(damage, None, None)
    <3>1. damage # "lost" => h \in Frame
      BY Starts, Frames DEF FrameType
    <3>2. h.type = damage /\ h.apdu = "none"
      BY DEF Header
    <3>3. "none" \notin Request
      BY NodeAssumption
    <3> QED
      BY <3>1, <3>2, <3>3 DEF ProperFrames, Proper, Broken
  <2>5. /\ inbox' \in [Station -> Seq(ProperFrames)]
        /\ \A r \in Station : Len(inbox'[r]) <= FifoLength
    <3> HIDE DEF f
    <3> QED
      BY <2>1, <2>3, <2>4, Putting DEF Inv
  <2> QED
    BY <2>2, <2>5, <1>l DEF Inv
<1>8. CASE Collide
  <2>1. /\ inbox' = [s \in Station |-> IF s \in Hearing THEN Put(s, Invalid) ELSE inbox[s]]
        /\ air' = {} /\ UNCHANGED <<node, turn, left, line, up, foreign>>
    BY <1>8 DEF Collide
  <2>2. Invalid \in ProperFrames
    BY Headers, Frames DEF ProperFrames, Taken
  <2>3. /\ inbox' \in [Station -> Seq(ProperFrames)]
        /\ \A r \in Station : Len(inbox'[r]) <= FifoLength
    BY <2>1, <2>2, Putting DEF Inv
  <2> QED
    BY <2>1, <2>3, <1>l DEF Inv
<1>9. CASE Elapse
  <2>1. /\ node' = [s \in Station |->
             IF s \in up THEN [node[s] EXCEPT !.SilenceTime = Tick(@)] ELSE node[s]]
        /\ left' = up /\ UNCHANGED <<inbox, air, turn, line, up, foreign>>
    BY <1>9 DEF Elapse
  <2>2. ASSUME NEW n \in NodeType, Sound(n)
        PROVE  /\ [n EXCEPT !.SilenceTime = Tick(@)] \in NodeType
               /\ Sound([n EXCEPT !.SilenceTime = Tick(@)])
    <3>1. Tick(n.SilenceTime) \in 0 .. MaxSilence
      BY <2>2, Fields, NodeAssumption DEF Tick
    <3>2. [n EXCEPT !.SilenceTime = Tick(@)] \in NodeType
      BY <2>2, <3>1 DEF NodeType
    <3>3. Sound([n EXCEPT !.SilenceTime = Tick(@)])
      BY <2>2 DEF NodeType, Sound
    <3> QED
      BY <3>2, <3>3
  <2>3. node' \in [Station -> NodeType] /\ \A r \in Station : Sound(node'[r])
    BY <2>1, <2>2 DEF Inv
  <2> QED
    BY <2>1, <2>3, <1>l DEF Inv
<1>10. CASE UNCHANGED vars
  BY <1>10, <1>l DEF vars, nodeVars, Inv
<1> QED
  BY <1>2, <1>3, <1>4, <1>5, <1>6, <1>7, <1>8, <1>9, <1>10 DEF RingNext

LEMMA Invariance == ASSUME StandardMasters PROVE RingSpec => []Inv
<1>1. Inv /\ [RingNext]_vars => Inv'
  BY InvStep
<1> QED
  BY <1>1, InvInit, PTL DEF RingSpec

-----------------------------------------------------------------------------
(* Every counter of a station stays in its range and every queue in its    *)
(* length, whoever is switched on and off and whatever the line does.      *)
THEOREM RingTyped == ASSUME StandardMasters PROVE RingSpec => []TypeOK
<1>1. Inv => TypeOK
  <2> SUFFICES ASSUME Inv PROVE TypeOK
    OBVIOUS
  <2>1. \A s \in Station : node[s] \in NodeType
    BY DEF Inv
  <2>2. \A s \in Station : inbox[s] \in Seq(Frame)
    <3>1. \A s \in Station : inbox[s] \in Seq(ProperFrames)
      BY DEF Inv
    <3>2. ProperFrames \subseteq Frame
      BY DEF ProperFrames
    <3>3. \A S, T : S \subseteq T => Seq(S) \subseteq Seq(T)
      OBVIOUS
    <3> QED
      BY <3>1, <3>2, <3>3
  <2>3. air \subseteq Frame /\ turn \in Station \cup {None} /\ left \subseteq up
    BY RingAssumption DEF Inv, ProperFrames
  <2>4. \A s \in Station : Len(inbox[s]) <= FifoLength
    BY DEF Inv
  <2> QED
    BY <2>1, <2>2, <2>3, <2>4, Fields DEF TypeOK
<1> QED
  BY <1>1, Invariance, PTL

(* The reply that is about to leave answers the request just received, and *)
(* goes to the station that asked it: the one packet a station keeps is    *)
(* empty whenever it is not answering.                                     *)
THEOREM AnswersTheOneWhoAsked ==
  ASSUME StandardMasters PROVE RingSpec => []AnswerFitsRequest
<1>1. Inv => AnswerFitsRequest
  BY DEF Inv, Sound, AnswerFitsRequest
<1> QED
  BY <1>1, Invariance, PTL

-----------------------------------------------------------------------------
(* One holder.                                                             *)

(* The lines the argument is about: two stations may collide, and who has  *)
(* company has none of another kind.                                       *)
OwnLines ==
  \A l \in Lines :
    /\ l.MaxCollisions > 0
    /\ l.MaxForeign = 0 \/ \A s, r \in l.stations : s = r

(* Nothing was lost, broken or in collision, and no station went off; nor   *)
(* was anything late.                                                       *)
Quiet == faults = 0 /\ collisions = 0 /\ offs = 0
Undisturbed == Quiet /\ late = FALSE

(* What a station of this kind sends without being asked a request.        *)
OwnFrames ==
  {f \in Frame :
    \/ f.type \in {"token", "poll", "replyToPoll"} /\ f.dst \in 0 .. MaxMaster
    \/ f.type = "notExpectingReply" /\ f.dst = Broadcast}

(* A station takes a frame in its call and is done with it in its call.    *)
Handling(s) ==
  LET n == node[s]
  IN \/ n.Received = NoFrame
     \/ /\ turn = s /\ n.Received \in OwnFrames /\ n.Received.dst \in {s, Broadcast}
        /\ n.SilenceTime = 0 /\ n.EventCount > Nmin_octets

(* A station that is off.                                                   *)
Asleep(s) ==
  /\ node[s].Master_State = "INITIALIZE" /\ node[s].SilenceTime = 0
  /\ inbox[s] = << >>

(* Only frames of this kind are about; a frame is on the line until after   *)
(* the call that sent it.                                                   *)
Tidy ==
  /\ inbox \in [Station -> Seq(OwnFrames)] /\ air \subseteq OwnFrames
  /\ \A s \in Station : Handling(s)
  /\ \A s \in Station \ up : Asleep(s)
  /\ \A f \in air : f.src \in up \ left
  /\ turn = None \/ turn \in left

(* Before the first token: everyone is still counting slots.                *)
Silent ==
  /\ air = {}
  /\ \A s \in Station :
       /\ node[s].Master_State \in {"INITIALIZE", "IDLE", "NO_TOKEN"}
       /\ inbox[s] = << >> /\ node[s].Received = NoFrame

(* The station whose turn it is on the line: nobody else speaks unless it  *)
(* is asked to.                                                            *)
Speaks(a) ==
  node[a].Master_State \in {"USE_TOKEN", "DONE_WITH_TOKEN", "PASS_TOKEN", "POLL_FOR_MASTER"}

(* Who leads is in a call that ends with a frame.                           *)
WillSend(a) ==
  /\ turn = a
  /\ \/ node[a].Master_State \in {"USE_TOKEN", "DONE_WITH_TOKEN"}
     \/ node[a].Received # NoFrame

(* A station in its call, with a frame in its hands or just thrown away.    *)
Heard(s) == turn = s /\ node[s].EventCount > Nmin_octets /\ node[s].SilenceTime = 0
(* Something is on its way to the station or waits in its queue.            *)
ToHear(s) == air # {} \/ (turn # s /\ inbox[s] # << >>)

(* A station that does not lead has a silence timer no later than the one   *)
(* who leads, or something to hear that resets it; one that passed the token*)
(* on hears of its use before it would pass it again.                       *)
Listens(s, a) ==
  /\ node[s].Master_State \in {"INITIALIZE", "IDLE", "NO_TOKEN", "PASS_TOKEN"}
  /\ WillSend(a) \/
       /\ ToHear(s) \/ node[s].SilenceTime <= node[a].SilenceTime
       /\ node[s].Master_State = "PASS_TOKEN" => ToHear(s) \/ Heard(s)

(* Nothing has come for the one who leads.                                  *)
Waits(a) == inbox[a] = << >> /\ node[a].Received = NoFrame

(* The frame i places down is taken before the one who asked gives up.      *)
InTime(a, s, i) == node[a].SilenceTime + i <= Tusage_timeout + CallsDue(s)

(* Frame f, for s, is i frames from being taken.                           *)
Asked(a, s, i, f) ==
  \/ /\ f.type = "token" /\ s # a /\ node[a].Master_State = "PASS_TOKEN"
     /\ node[a].Next_Station = s /\ Waits(a) /\ InTime(a, s, i)
  \/ /\ f.type = "poll" /\ s # a /\ f.src = a /\ node[a].Master_State = "POLL_FOR_MASTER"
     /\ node[a].Poll_Station = s /\ Waits(a) /\ InTime(a, s, i)
  \/ /\ f.type = "replyToPoll" /\ s = a /\ node[a].Master_State = "POLL_FOR_MASTER"
     /\ i <= 1

(* Only what was asked for is waiting for a station, last in its queue.     *)
Pending(a, s) ==
  /\ node[s].Received.dst = s =>
       air = {} /\ inbox[s] = << >> /\ Asked(a, s, 0, node[s].Received)
  /\ \A i \in 1 .. Len(inbox[s]) : inbox[s][i].dst = s =>
       air = {} /\ i = Len(inbox[s]) /\ Asked(a, s, i, inbox[s][i])

(* The one frame on the line: of the one who leads, or the answer to it.    *)
OnTheLine(a, f) ==
  /\ air = {f} /\ Waits(a)
  /\ \/ /\ f.src = a /\ node[a].SilenceTime = 0
        /\ \/ /\ f.type = "token" /\ node[a].Master_State = "PASS_TOKEN"
              /\ f.dst = node[a].Next_Station
           \/ /\ f.type = "poll" /\ node[a].Master_State = "POLL_FOR_MASTER"
              /\ f.dst = node[a].Poll_Station
           \/ f.type = "notExpectingReply"
     \/ /\ f.type = "replyToPoll" /\ f.src # a /\ f.dst = a
        /\ node[a].Master_State = "POLL_FOR_MASTER" /\ node[a].SilenceTime <= Tusage_timeout
        /\ node[f.src].Master_State = "IDLE" /\ node[f.src].SilenceTime = 0

(* Station a has the token, or has sent it or a poll and waits for who takes*)
(* it; everybody else listens.                                              *)
Leads(a) ==
  /\ Speaks(a)
  /\ node[a].SilenceTime <= Tusage_timeout + (IF a \in left THEN 1 ELSE 0)
  /\ node[a].Master_State = "PASS_TOKEN" => node[a].EventCount = 0
  /\ Len(inbox[a]) <= 1 /\ (turn = a => inbox[a] = << >>)
  /\ \A i \in 1 .. Len(inbox[a]) : inbox[a][i].dst = a
  /\ node[a].Received # NoFrame => node[a].Received.dst = a
  /\ \A s \in Station : Pending(a, s)
  /\ \A s \in Station \ {a} : Listens(s, a)
  /\ air = {} \/ \E f \in air : OnTheLine(a, f)

(* As long as nothing disturbs them, at most one station leads.             *)
Orderly == Tidy /\ (Silent \/ \E a \in up : Leads(a))

-----------------------------------------------------------------------------
(* A move of the master machine, by what it does to the line.              *)
Alone(s) == \A r \in Station \ {s} : node'[r] = node[r]

(* The station sends f and waits for what comes of it.                      *)
Utters(s, f) ==
  /\ Alone(s) /\ f \in OwnFrames /\ f.src = s
  /\ inbox' = inbox /\ turn' = None /\ left' = left \ {s} /\ air' = air \cup {f}
  /\ node'[s].SilenceTime = 0 /\ node'[s].Received = NoFrame
  /\ \/ f.type = "token" /\ node'[s].Master_State = "PASS_TOKEN"
        /\ f.dst = node'[s].Next_Station /\ node'[s].EventCount = 0
     \/ f.type = "poll" /\ node'[s].Master_State = "POLL_FOR_MASTER"
        /\ f.dst = node'[s].Poll_Station
     \/ f.type = "notExpectingReply" /\ node'[s].Master_State = "DONE_WITH_TOKEN"

(* It keeps the token for another move of the same call.                    *)
GoesOn(s) ==
  /\ Alone(s) /\ UNCHANGED <<inbox, air, turn, left>>
  /\ node'[s].Master_State \in {"USE_TOKEN", "DONE_WITH_TOKEN"}
  /\ node'[s].Received = NoFrame
  /\ node'[s].SilenceTime = node[s].SilenceTime

(* It only listens.                                                         *)
Hushes(s) ==
  /\ Alone(s) /\ UNCHANGED <<inbox, air>>
  /\ node'[s].SilenceTime \in {0, node[s].SilenceTime}
  /\ \/ UNCHANGED <<turn, left>> /\ node'[s].Master_State \in {"IDLE", "NO_TOKEN"}
        /\ \/ node'[s].Received = NoFrame
           \/ /\ node'[s].Received = node[s].Received
              /\ node'[s].SilenceTime = node[s].SilenceTime
              /\ node'[s].EventCount = node[s].EventCount
     \/ /\ turn' = None /\ left' = left \ {s} /\ node'[s].Received = NoFrame
        /\ \/ node'[s].Master_State \in {"IDLE", "NO_TOKEN"}
           \/ /\ node[s].Master_State = "PASS_TOKEN" /\ ~Heard(s) /\ node' = node

(* Constants of the argument.                                              *)
LEMMA Numbers ==
  /\ Tusage_timeout \in Nat /\ Tno_token \in Nat /\ Nmin_octets \in Nat /\ MaxSilence \in Nat
  /\ None \notin Station /\ Broadcast \notin Station /\ None # Broadcast
  /\ \A s \in Station : s \in 0 .. MaxMaster
  /\ NoFrame.dst = None /\ NoFrame.type = "none"
BY NodeAssumption DEF None, Broadcast, NoFrame, Header

(* Tokens, polls and their answers are frames of this kind.                 *)
LEMMA OwnHeaders ==
  ASSUME NEW s \in Station, NEW d \in 0 .. MaxMaster
  PROVE  /\ Header("token", d, s) \in OwnFrames /\ Header("poll", d, s) \in OwnFrames
         /\ Header("replyToPoll", d, s) \in OwnFrames
<1>1. {"token", "poll", "replyToPoll"} \subseteq FrameType
  BY DEF FrameType
<1>2. s \in 0 .. None /\ d \in 0 .. None
  BY Numbers, Starts
<1>3. /\ Header("token", d, s) \in Frame /\ Header("poll", d, s) \in Frame
      /\ Header("replyToPoll", d, s) \in Frame
  BY <1>1, <1>2, Frames
<1> QED
  BY <1>3 DEF OwnFrames, Header

(* What a station sends of its own accord, and what it is to the others.   *)
LEMMA Utterances ==
  ASSUME Inv, Inv', NEW s \in Station,
         ReceivedReplyToPFM(s) \/ node[s].Received = NoFrame,
         \/ SendIAm(s) \/ NextStationUnknown(s) \/ SendToken(s) \/ RestartMaintenancePFM(s)
         \/ ResetMaintenancePFM(s) \/ SendMaintenancePFM(s) \/ RetrySendToken(s)
         \/ FindNewSuccessor(s) \/ GenerateToken(s) \/ ReceivedReplyToPFM(s)
         \/ DoneWithPFM(s) \/ SendNextPFM(s)
  PROVE  \E f : Utters(s, f)
<1>1. /\ node \in [Station -> NodeType] /\ node[s] \in NodeType
      /\ node' \in [Station -> NodeType] /\ node'[s] \in NodeType
  BY DEF Inv
<1>2. /\ node'[s].Next_Station \in 0 .. MaxMaster
      /\ node'[s].Poll_Station \in 0 .. MaxMaster
  BY <1>1, Fields
<1>11. DOMAIN node[s] =
         {"Master_State", "Next_Station", "Poll_Station", "SoleMaster", "TokenCount",
          "RetryCount", "FrameCount", "EventCount", "SilenceTime", "Received",
          "Send_I_Am_Flag", "TransmitPacketPending", "TransmitPacket"}
  BY <1>1, Names
<1> DEFINE tok == Header("token", node'[s].Next_Station, s)
           pol == Header("poll", node'[s].Poll_Station, s)
<1>3. /\ tok \in OwnFrames /\ tok.src = s /\ tok.type = "token"
      /\ tok.dst = node'[s].Next_Station
  <2>1. tok \in OwnFrames
    BY <1>2, OwnHeaders
  <2> QED
    BY <2>1 DEF Header
<1>4. /\ pol \in OwnFrames /\ pol.src = s /\ pol.type = "poll"
      /\ pol.dst = node'[s].Poll_Station
  <2>1. pol \in OwnFrames
    BY <1>2, OwnHeaders
  <2> QED
    BY <2>1 DEF Header
<1>5. ASSUME Alone(s), inbox' = inbox, Leave(s), air' = air \cup {tok},
             node'[s].SilenceTime = 0, node'[s].Received = NoFrame,
             node'[s].Master_State = "PASS_TOKEN", node'[s].EventCount = 0
      PROVE  Utters(s, tok)
  <2> HIDE DEF tok
  <2> QED
    BY <1>3, <1>5 DEF Utters, Leave
<1>6. ASSUME Alone(s), inbox' = inbox, Leave(s), air' = air \cup {pol},
             node'[s].SilenceTime = 0, node'[s].Received = NoFrame,
             node'[s].Master_State = "POLL_FOR_MASTER"
      PROVE  Utters(s, pol)
  <2> HIDE DEF pol
  <2> QED
    BY <1>4, <1>6 DEF Utters, Leave
<1>7. CASE SendIAm(s)
  <2> DEFINE h == Header("notExpectingReply", Broadcast, s)
             f == [h EXCEPT !.apdu = "iam"]
  <2>1. h \in Frame /\ h.type = "notExpectingReply" /\ h.dst = Broadcast /\ h.src = s
    <3>1. "notExpectingReply" \in FrameType /\ s \in 0 .. None /\ Broadcast \in 0 .. None
      BY Numbers, Starts DEF FrameType
    <3> QED
      BY <3>1, Frames DEF Header
  <2>2. f \in Frame /\ f.type = h.type /\ f.dst = h.dst /\ f.src = h.src
    BY <2>1 DEF Frame, Apdu
  <2>3. f \in OwnFrames
    BY <2>1, <2>2 DEF OwnFrames
  <2>4. /\ Alone(s) /\ node'[s].SilenceTime = 0 /\ node'[s].Received = node[s].Received
        /\ node'[s].Master_State = "DONE_WITH_TOKEN"
        /\ Leave(s) /\ air' = air \cup {f}
    BY <1>1, <1>7 DEF SendIAm, Alone, NodeType, MSTP_Send_Frame
  <2>5. node[s].Received = NoFrame
    BY <1>7 DEF ReceivedReplyToPFM, SendIAm, At
  <2> HIDE DEF f
  <2>6. Utters(s, f)
    BY <2>1, <2>2, <2>3, <2>4, <2>5 DEF Utters, Leave
  <2> QED
    BY <2>6
<1>8. CASE ReceivedReplyToPFM(s)
  <2>1. /\ Alone(s) /\ node'[s].SilenceTime = 0 /\ node'[s].Received = NoFrame
        /\ node'[s].Master_State = "PASS_TOKEN" /\ node'[s].EventCount = 0
        /\ node'[s].Next_Station = node[s].Received.src
    <3> DEFINE m == [node[s] EXCEPT !.SoleMaster = FALSE,
                      !.Next_Station = node[s].Received.src, !.EventCount = 0,
                      !.Poll_Station = s]
               n == [m EXCEPT !.TokenCount = 0, !.RetryCount = 0,
                      !.Master_State = "PASS_TOKEN", !.Received = NoFrame,
                      !.SilenceTime = 0]
    <3>1. node' = [node EXCEPT ![s] = n]
      BY <1>1, <1>8 DEF ReceivedReplyToPFM
    <3>2. node'[s] = n /\ Alone(s)
      BY <1>1, <3>1 DEF Alone
    <3>3. m.EventCount = 0 /\ m.Next_Station = node[s].Received.src
      BY <1>1 DEF NodeType
    <3>4. DOMAIN m = DOMAIN node[s]
      OBVIOUS
    <3>5. /\ n.SilenceTime = 0 /\ n.Received = NoFrame /\ n.Master_State = "PASS_TOKEN"
          /\ n.EventCount = m.EventCount /\ n.Next_Station = m.Next_Station
      <4> HIDE DEF m
      <4> QED
        BY <1>1, <3>4 DEF NodeType
    <3> QED
      BY <3>2, <3>3, <3>5
  <2>2. inbox' = inbox /\ Leave(s) /\ air' = air \cup {tok}
    BY <1>8, <2>1 DEF ReceivedReplyToPFM, PassTo, MSTP_Send_Frame, Leave
  <2> QED
    BY <1>5, <2>1, <2>2
<1>9. CASE SendToken(s) \/ ResetMaintenancePFM(s) \/ RetrySendToken(s) \/ DoneWithPFM(s)
  <2>1. /\ Alone(s) /\ node'[s].SilenceTime = 0 /\ node'[s].Received = NoFrame
        /\ node'[s].Master_State = "PASS_TOKEN" /\ node'[s].EventCount = 0
        /\ node'[s].Next_Station = node[s].Next_Station
    <3>1. node[s].Received = NoFrame \/ DoneWithPFM(s)
      BY <1>9 DEF ReceivedReplyToPFM, SendToken, ResetMaintenancePFM, RetrySendToken,
         PollDue, Done, At
    <3>2. CASE node[s].Received = NoFrame /\ SendToken(s)
      <4> DEFINE n == [node[s] EXCEPT !.TokenCount = @ + 1, !.RetryCount = 0,
                    !.EventCount = 0, !.Master_State = "PASS_TOKEN", !.SilenceTime = 0]
      <4>1. node' = [node EXCEPT ![s] = n] /\ node[s].Received = NoFrame
        BY <1>1, <3>2 DEF SendToken
      <4>2. /\ n.SilenceTime = 0 /\ n.Received = node[s].Received
            /\ n.Master_State = "PASS_TOKEN" /\ n.EventCount = 0
            /\ n.Next_Station = node[s].Next_Station
        BY <1>11
      <4>3. node'[s] = n /\ Alone(s)
        BY <1>1, <4>1 DEF Alone
      <4> HIDE DEF n
      <4> QED
        BY <4>1, <4>2, <4>3
    <3>3. CASE node[s].Received = NoFrame /\ ResetMaintenancePFM(s)
      <4> DEFINE n == [node[s] EXCEPT !.Poll_Station = s, !.RetryCount = 0,
                    !.TokenCount = 1, !.EventCount = 0, !.Master_State = "PASS_TOKEN",
                    !.SilenceTime = 0]
      <4>1. node' = [node EXCEPT ![s] = n] /\ node[s].Received = NoFrame
        BY <1>1, <3>3 DEF ResetMaintenancePFM
      <4>2. /\ n.SilenceTime = 0 /\ n.Received = node[s].Received
            /\ n.Master_State = "PASS_TOKEN" /\ n.EventCount = 0
            /\ n.Next_Station = node[s].Next_Station
        BY <1>11
      <4>3. node'[s] = n /\ Alone(s)
        BY <1>1, <4>1 DEF Alone
      <4> HIDE DEF n
      <4> QED
        BY <4>1, <4>2, <4>3
    <3>4. CASE node[s].Received = NoFrame /\ RetrySendToken(s)
      <4> DEFINE n == [node[s] EXCEPT !.RetryCount = @ + 1, !.EventCount = 0,
                    !.SilenceTime = 0]
      <4>1. node' = [node EXCEPT ![s] = n] /\ node[s].Received = NoFrame
        BY <1>1, <3>4 DEF RetrySendToken
      <4>0. node[s].Master_State = "PASS_TOKEN"
        BY <3>4 DEF RetrySendToken, At
      <4>2. /\ n.SilenceTime = 0 /\ n.Received = node[s].Received
            /\ n.Master_State = node[s].Master_State /\ n.EventCount = 0
            /\ n.Next_Station = node[s].Next_Station
        BY <1>11
      <4>3. node'[s] = n /\ Alone(s)
        BY <1>1, <4>1 DEF Alone
      <4> HIDE DEF n
      <4> QED
        BY <4>0, <4>1, <4>2, <4>3
    <3>5. CASE DoneWithPFM(s)
      BY <1>1, <3>5 DEF DoneWithPFM, Alone, NodeType
    <3> QED
      BY <1>9, <3>1, <3>2, <3>3, <3>4, <3>5
  <2>2. inbox' = inbox /\ Leave(s) /\ air' = air \cup {tok}
    BY <1>9, <2>1 DEF SendToken, ResetMaintenancePFM, RetrySendToken, DoneWithPFM,
       PassTo, MSTP_Send_Frame, Leave
  <2> QED
    BY <1>5, <2>1, <2>2
<1>10. CASE \/ NextStationUnknown(s) \/ RestartMaintenancePFM(s) \/ SendMaintenancePFM(s)
            \/ FindNewSuccessor(s) \/ GenerateToken(s) \/ SendNextPFM(s)
  <2>1. node[s].Received = NoFrame \/ SendNextPFM(s)
    BY <1>10 DEF ReceivedReplyToPFM, NextStationUnknown, RestartMaintenancePFM,
       SendMaintenancePFM, FindNewSuccessor, GenerateToken, PollDue, Done, At
  <2> DEFINE Polls(d) ==
        /\ Alone(s) /\ node'[s].SilenceTime = 0 /\ node'[s].Received = NoFrame
        /\ node'[s].Master_State = "POLL_FOR_MASTER" /\ node'[s].Poll_Station = d
        /\ PollFrom(s, d)
  <2>2. CASE node[s].Received = NoFrame /\ NextStationUnknown(s)
    <3> DEFINE n == [node[s] EXCEPT !.Poll_Station = Succ(s), !.RetryCount = 0,
                   !.Master_State = "POLL_FOR_MASTER", !.SilenceTime = 0]
    <3>1. node' = [node EXCEPT ![s] = n] /\ PollFrom(s, Succ(s))
      BY <1>1, <2>2 DEF NextStationUnknown
    <3>2. /\ n.SilenceTime = 0 /\ n.Received = node[s].Received
          /\ n.Master_State = "POLL_FOR_MASTER" /\ n.Poll_Station = Succ(s)
      BY <1>11
    <3>3. node'[s] = n /\ Alone(s)
      BY <1>1, <3>1 DEF Alone
    <3> HIDE DEF n
    <3>4. Polls(Succ(s))
      BY <2>2, <3>1, <3>2, <3>3
    <3> QED
      BY <3>4, <1>6 DEF PollFrom, MSTP_Send_Frame, Leave
  <2>3. CASE node[s].Received = NoFrame /\ RestartMaintenancePFM(s)
    <3> DEFINE n == [node[s] EXCEPT !.Poll_Station = Succ(node[s].Next_Station),
                   !.Next_Station = s, !.RetryCount = 0, !.TokenCount = 1,
                   !.Master_State = "POLL_FOR_MASTER", !.SilenceTime = 0]
    <3>1. node' = [node EXCEPT ![s] = n] /\ PollFrom(s, Succ(node[s].Next_Station))
      BY <1>1, <2>3 DEF RestartMaintenancePFM
    <3>2. /\ n.SilenceTime = 0 /\ n.Received = node[s].Received
          /\ n.Master_State = "POLL_FOR_MASTER" /\ n.Poll_Station = Succ(node[s].Next_Station)
      BY <1>11
    <3>3. node'[s] = n /\ Alone(s)
      BY <1>1, <3>1 DEF Alone
    <3> HIDE DEF n
    <3>4. Polls(Succ(node[s].Next_Station))
      BY <2>3, <3>1, <3>2, <3>3
    <3> QED
      BY <3>4, <1>6 DEF PollFrom, MSTP_Send_Frame, Leave
  <2>4. CASE node[s].Received = NoFrame /\ SendMaintenancePFM(s)
    <3> DEFINE n == [node[s] EXCEPT !.Poll_Station = Succ(@), !.RetryCount = 0,
                   !.Master_State = "POLL_FOR_MASTER", !.SilenceTime = 0]
    <3>1. node' = [node EXCEPT ![s] = n] /\ PollFrom(s, Succ(node[s].Poll_Station))
      BY <1>1, <2>4 DEF SendMaintenancePFM
    <3>2. /\ n.SilenceTime = 0 /\ n.Received = node[s].Received
          /\ n.Master_State = "POLL_FOR_MASTER" /\ n.Poll_Station = Succ(node[s].Poll_Station)
      BY <1>11
    <3>3. node'[s] = n /\ Alone(s)
      BY <1>1, <3>1 DEF Alone
    <3> HIDE DEF n
    <3>4. Polls(Succ(node[s].Poll_Station))
      BY <2>4, <3>1, <3>2, <3>3
    <3> QED
      BY <3>4, <1>6 DEF PollFrom, MSTP_Send_Frame, Leave
  <2>5. CASE node[s].Received = NoFrame /\ FindNewSuccessor(s)
    <3> DEFINE n == [node[s] EXCEPT !.Poll_Station = Succ(node[s].Next_Station),
                   !.Next_Station = s, !.RetryCount = 0, !.TokenCount = 0,
                   !.Master_State = "POLL_FOR_MASTER", !.SilenceTime = 0]
    <3>1. node' = [node EXCEPT ![s] = n] /\ PollFrom(s, Succ(node[s].Next_Station))
      BY <1>1, <2>5 DEF FindNewSuccessor
    <3>2. /\ n.SilenceTime = 0 /\ n.Received = node[s].Received
          /\ n.Master_State = "POLL_FOR_MASTER" /\ n.Poll_Station = Succ(node[s].Next_Station)
      BY <1>11
    <3>3. node'[s] = n /\ Alone(s)
      BY <1>1, <3>1 DEF Alone
    <3> HIDE DEF n
    <3>4. Polls(Succ(node[s].Next_Station))
      BY <2>5, <3>1, <3>2, <3>3
    <3> QED
      BY <3>4, <1>6 DEF PollFrom, MSTP_Send_Frame, Leave
  <2>6. CASE node[s].Received = NoFrame /\ GenerateToken(s)
    <3> DEFINE n == [node[s] EXCEPT !.Poll_Station = Succ(s), !.Next_Station = s,
                   !.RetryCount = 0, !.TokenCount = 0,
                   !.Master_State = "POLL_FOR_MASTER", !.SilenceTime = 0]
    <3>1. node' = [node EXCEPT ![s] = n] /\ PollFrom(s, Succ(s))
      BY <1>1, <2>6 DEF GenerateToken
    <3>2. /\ n.SilenceTime = 0 /\ n.Received = node[s].Received
          /\ n.Master_State = "POLL_FOR_MASTER" /\ n.Poll_Station = Succ(s)
      BY <1>11
    <3>3. node'[s] = n /\ Alone(s)
      BY <1>1, <3>1 DEF Alone
    <3> HIDE DEF n
    <3>4. Polls(Succ(s))
      BY <2>6, <3>1, <3>2, <3>3
    <3> QED
      BY <3>4, <1>6 DEF PollFrom, MSTP_Send_Frame, Leave
  <2>7. CASE SendNextPFM(s)
    <3>1. Polls(Succ(node[s].Poll_Station))
      <4> DEFINE n == [node[s] EXCEPT !.Poll_Station = Succ(node[s].Poll_Station),
                         !.RetryCount = 0, !.Received = NoFrame, !.SilenceTime = 0]
      <4>1. node' = [node EXCEPT ![s] = n]
        BY <1>1, <2>7 DEF SendNextPFM
      <4>2. /\ n.Poll_Station = Succ(node[s].Poll_Station) /\ n.Received = NoFrame
            /\ n.SilenceTime = 0 /\ n.Master_State = node[s].Master_State
        BY <1>1 DEF NodeType
      <4>3. node[s].Master_State = "POLL_FOR_MASTER" /\ PollFrom(s, Succ(node[s].Poll_Station))
        BY <2>7 DEF SendNextPFM, NoReplyToPFM, At
      <4> QED
        BY <1>1, <4>1, <4>2, <4>3 DEF Alone
    <3> QED
      BY <3>1, <1>6 DEF PollFrom, MSTP_Send_Frame, Leave
  <2> QED
    BY <1>10, <2>1, <2>2, <2>3, <2>4, <2>5, <2>6, <2>7
<1> QED
  BY <1>7, <1>8, <1>9, <1>10

(* The master machine runs in the call of its station.                     *)
LEMMA ItsTurn ==
  ASSUME NEW s \in Station, MSTP_Master_Node_FSM(s) PROVE turn = s
BY DEF MSTP_Master_Node_FSM, Initialize, LostToken, IdleInvalid, ReceivedToken,
   ReceivedPFM, ReceivedTest, ReceivedData, ReceivedOther, SendIAm, NothingToSend,
   SendAnotherFrame, NextStationUnknown, SoleMasterKeeps, SendToken,
   RestartMaintenancePFM, ResetMaintenancePFM, SendMaintenancePFM, SawTokenUser,
   AwaitTokenUser, RetrySendToken, FindNewSuccessor, SawFrame, AwaitSlot,
   GenerateToken, ReceivedReplyToPFM, ReceivedUnexpectedFrame, AwaitReplyToPFM,
   StillSoleMaster, DoneWithPFM, SendNextPFM, DeclareSoleMaster, Reply,
   DeferredReply, PollDue, Done, NoReplyToPFM, Idle, At

(* What the machine of a station that speaks does.                         *)
LEMMA Speaking ==
  ASSUME Inv, Inv', NEW s \in Station, MSTP_Master_Node_FSM(s), Speaks(s),
         node[s].Received # NoFrame =>
           /\ node[s].Master_State = "POLL_FOR_MASTER"
           /\ node[s].Received.type = "replyToPoll" /\ node[s].Received.dst = s,
         node[s].Master_State = "PASS_TOKEN" => node[s].EventCount = 0
  PROVE  \/ /\ (\E f : Utters(s, f)) \/ GoesOn(s)
            /\ WillSend(s) \/ node[s].SilenceTime > Tusage_timeout
         \/ /\ node' = node /\ Return(s)
            /\ node[s].Master_State \in {"PASS_TOKEN", "POLL_FOR_MASTER"}
            /\ node[s].Received = NoFrame /\ node[s].SilenceTime <= Tusage_timeout
<1>1. /\ node \in [Station -> NodeType] /\ node[s] \in NodeType
      /\ node[s].EventCount \in Nat /\ node[s].SilenceTime \in Nat
      /\ Nmin_octets \in Nat /\ Tusage_timeout \in Nat
  <2>1. node \in [Station -> NodeType]
    BY DEF Inv
  <2> QED
    BY <2>1, Fields, Numbers
<1>2. node[s].Received # Invalid
  BY DEF Invalid, NoFrame, Header
<1>3. turn = s
  BY ItsTurn
<1>4. Valid(s) => node[s].Received.type = "replyToPoll" /\ node[s].Received.dst = s
  <2>1. node[s].Received = NoFrame => ~Valid(s)
    BY Numbers DEF Valid
  <2> QED
    BY <2>1
<1>5. CASE SendIAm(s) \/ NextStationUnknown(s) \/ SendToken(s) \/ RestartMaintenancePFM(s)
           \/ ResetMaintenancePFM(s) \/ SendMaintenancePFM(s)
  <2>1. node[s].Master_State \in {"USE_TOKEN", "DONE_WITH_TOKEN"}
    BY <1>5 DEF SendIAm, NextStationUnknown, SendToken, RestartMaintenancePFM,
       ResetMaintenancePFM, SendMaintenancePFM, PollDue, Done, At
  <2>2. node[s].Received = NoFrame /\ WillSend(s)
    BY <1>3, <2>1 DEF WillSend
  <2> QED
    BY <1>5, <2>2, Utterances
<1>6. CASE RetrySendToken(s) \/ FindNewSuccessor(s)
  <2>1. node[s].Master_State = "PASS_TOKEN" /\ node[s].SilenceTime > Tusage_timeout
    BY <1>6 DEF RetrySendToken, FindNewSuccessor, At
  <2>2. node[s].Received = NoFrame
    BY <2>1
  <2> QED
    BY <1>6, <2>1, <2>2, Utterances
<1>7. CASE ReceivedReplyToPFM(s)
  <2>1. node[s].Received # NoFrame
    BY <1>7, Numbers DEF ReceivedReplyToPFM
  <2> QED
    BY <1>3, <1>7, <2>1, Utterances DEF WillSend
<1>8. ASSUME NoReplyToPFM(s)
      PROVE  node[s].SilenceTime > Tusage_timeout /\ node[s].Received = NoFrame
  <2>1. node[s].SilenceTime > Tusage_timeout /\ ~Valid(s)
    BY <1>2, <1>8 DEF NoReplyToPFM
  <2> QED
    BY <2>1 DEF Valid
<1>9. CASE DoneWithPFM(s) \/ SendNextPFM(s)
  <2>1. NoReplyToPFM(s)
    BY <1>9 DEF DoneWithPFM, SendNextPFM
  <2> QED
    BY <1>8, <1>9, <2>1, Utterances
<1>10. CASE NothingToSend(s)
  BY <1>1, <1>3, <1>10 DEF NothingToSend, GoesOn, Alone, Again, At, WillSend, NodeType
<1>11. CASE SendAnotherFrame(s)
  BY <1>1, <1>3, <1>11 DEF SendAnotherFrame, GoesOn, Alone, Again, At, WillSend, NodeType
<1>12. CASE SoleMasterKeeps(s)
  BY <1>1, <1>3, <1>12 DEF SoleMasterKeeps, Done, GoesOn, Alone, Again, At, WillSend, NodeType
<1>13. CASE StillSoleMaster(s)
  <2>1. NoReplyToPFM(s)
    BY <1>13 DEF StillSoleMaster
  <2>2. GoesOn(s)
    BY <1>1, <1>13 DEF StillSoleMaster, GoesOn, Alone, Again, NodeType
  <2> QED
    BY <1>8, <2>1, <2>2
<1>14. CASE DeclareSoleMaster(s)
  <2>1. NoReplyToPFM(s)
    BY <1>14 DEF DeclareSoleMaster
  <2>2. GoesOn(s)
    BY <1>1, <1>14 DEF DeclareSoleMaster, GoesOn, Alone, Again, NodeType
  <2> QED
    BY <1>8, <2>1, <2>2
<1>15. CASE AwaitTokenUser(s) \/ AwaitReplyToPFM(s)
  <2>1. node[s].Received = NoFrame
    BY <1>15 DEF AwaitTokenUser, AwaitReplyToPFM, Valid, At
  <2> QED
    BY <1>15, <2>1 DEF AwaitTokenUser, AwaitReplyToPFM, Stay, At
<1>16. ~SawTokenUser(s)
  BY <1>1 DEF SawTokenUser, At
<1>17. ~ReceivedUnexpectedFrame(s)
  BY <1>4 DEF ReceivedUnexpectedFrame, Valid
<1>18. /\ ~Initialize(s) /\ ~LostToken(s) /\ ~IdleInvalid(s) /\ ~ReceivedToken(s)
       /\ ~ReceivedPFM(s) /\ ~ReceivedTest(s) /\ ~ReceivedData(s) /\ ~ReceivedOther(s)
       /\ ~SawFrame(s) /\ ~AwaitSlot(s) /\ ~GenerateToken(s) /\ ~Reply(s)
       /\ ~DeferredReply(s)
  BY DEF Speaks, Initialize, LostToken, IdleInvalid, ReceivedToken, ReceivedPFM,
     ReceivedTest, ReceivedData, ReceivedOther, SawFrame, AwaitSlot, GenerateToken,
     Reply, DeferredReply, Idle, At
<1> QED
  BY <1>5, <1>6, <1>7, <1>9, <1>10, <1>11, <1>12, <1>13, <1>14, <1>15, <1>16, <1>17,
     <1>18 DEF MSTP_Master_Node_FSM

(* What the machine of a station that listens does.                        *)
LEMMA Listening ==
  ASSUME Inv, Inv', NEW s \in Station, MSTP_Master_Node_FSM(s), Handling(s),
         node[s].Master_State \in {"INITIALIZE", "IDLE", "NO_TOKEN", "PASS_TOKEN"},
         node[s].Received.dst = s => node[s].Received.type \in {"token", "poll"}
  PROVE  \/ Hushes(s) \/ ReceivedToken(s) \/ ReceivedPFM(s)
         \/ /\ \E f : Utters(s, f)
            /\ \/ node[s].SilenceTime >= Tno_token
               \/ /\ node[s].Master_State = "PASS_TOKEN" /\ ~Heard(s)
                  /\ node[s].SilenceTime > Tusage_timeout
<1>1. /\ node \in [Station -> NodeType] /\ node[s] \in NodeType
      /\ node[s].EventCount \in Nat /\ node[s].SilenceTime \in Nat
      /\ Nmin_octets \in Nat /\ Tusage_timeout \in Nat /\ Tno_token \in Nat \ {0}
  <2>1. node \in [Station -> NodeType]
    BY DEF Inv
  <2> QED
    BY <2>1, Fields, Numbers, NodeAssumption
<1>2. /\ MyTimeout(s) >= Tno_token /\ NsTimeout(s) >= Tno_token
      /\ MyTimeout(s) \in Nat /\ NsTimeout(s) \in Nat
  <2>1. s \in Nat /\ s + 1 \in Nat /\ Tslot \in Nat
    BY Numbers, NodeAssumption
  <2>2. \A k, m \in Nat : k * m \in Nat
    OBVIOUS
  <2>3. Tslot * s \in Nat /\ Tslot * (s + 1) \in Nat
    BY <2>1, <2>2
  <2> QED
    BY <1>1, <2>3 DEF MyTimeout, NsTimeout
<1>3. \/ node[s].Received = NoFrame
      \/ /\ node[s].SilenceTime = 0 /\ node[s].EventCount > Nmin_octets
         /\ node[s].Received.type \in {"token", "poll", "notExpectingReply"}
         /\ node[s].Received.type \in {"token", "poll"} => node[s].Received.dst = s
  <2>1. ASSUME node[s].Received # NoFrame
        PROVE  node[s].Received.type \in {"token", "poll", "notExpectingReply"}
               /\ (node[s].Received.type \in {"token", "poll"} => node[s].Received.dst = s)
    <3>1. node[s].Received \in OwnFrames /\ node[s].Received.dst \in {s, Broadcast}
      BY <2>1 DEF Handling
    <3>2. Broadcast \notin 0 .. MaxMaster /\ s # Broadcast
      BY Starts, Numbers
    <3> QED
      BY <3>1, <3>2 DEF OwnFrames
  <2> QED
    BY <2>1 DEF Handling
<1>4. NoFrame.type = "none" /\ Broadcast # s
  BY Numbers
<1>5. CASE Initialize(s)
  BY <1>1, <1>5 DEF Initialize, Hushes, Alone, Again, NodeType
<1>6. CASE LostToken(s)
  BY <1>1, <1>6 DEF LostToken, Hushes, Alone, Again, NodeType
<1>7. CASE IdleInvalid(s)
  BY <1>1, <1>7 DEF IdleInvalid, Idle, At, Hushes, Alone, Return, Leave, NodeType
<1>8. CASE ReceivedData(s)
  <2> DEFINE f == node[s].Received
             n == [Handled(node[s], f) EXCEPT !.Received = NoFrame, !.Master_State = "IDLE"]
  <2>1. f.type = "notExpectingReply"
    BY <1>3, <1>4, <1>8 DEF ReceivedData
  <2>2. node' = [node EXCEPT ![s] = n] /\ Return(s)
    BY <1>8, <2>1 DEF ReceivedData
  <2>3. n.Received = NoFrame /\ n.Master_State = "IDLE" /\ n.SilenceTime = node[s].SilenceTime
    BY <1>1 DEF NodeType, Handled
  <2> HIDE DEF n
  <2> QED
    BY <1>1, <2>2, <2>3 DEF Hushes, Alone, Return, Leave
<1>9. CASE AwaitTokenUser(s)
  <2>1. node[s].Received = NoFrame /\ ~Heard(s)
    BY <1>1, <1>3, <1>9 DEF AwaitTokenUser, Heard
  <2> QED
    BY <1>9, <2>1 DEF AwaitTokenUser, At, Stay, Return, Leave, Hushes, Alone
<1>10. CASE AwaitSlot(s)
  <2>1. node[s].Received = NoFrame
    BY <1>1, <1>2, <1>3, <1>10 DEF AwaitSlot
  <2> QED
    BY <1>10, <2>1 DEF AwaitSlot, At, Stay, Return, Leave, Hushes, Alone
<1>11. CASE SawTokenUser(s)
  BY <1>1, <1>11 DEF SawTokenUser, Hushes, Alone, Again, NodeType
<1>12. CASE SawFrame(s)
  BY <1>1, <1>12 DEF SawFrame, Hushes, Alone, Again, NodeType
<1>13. CASE RetrySendToken(s) \/ FindNewSuccessor(s)
  <2>1. node[s].SilenceTime > Tusage_timeout /\ node[s].Master_State = "PASS_TOKEN"
    BY <1>13 DEF RetrySendToken, FindNewSuccessor, At
  <2>2. node[s].Received = NoFrame /\ ~Heard(s)
    BY <1>1, <1>3, <2>1 DEF Heard
  <2> QED
    BY <1>13, <2>1, <2>2, Utterances
<1>14. CASE GenerateToken(s)
  <2>1. node[s].SilenceTime >= Tno_token
    BY <1>1, <1>2, <1>14 DEF GenerateToken
  <2>2. node[s].Received = NoFrame
    BY <1>1, <1>3, <2>1
  <2> QED
    BY <1>14, <2>1, <2>2, Utterances
<1>15. ~ReceivedTest(s) /\ ~ReceivedOther(s)
  BY <1>3, <1>4 DEF ReceivedTest, ReceivedOther
<1>16. /\ ~SendIAm(s) /\ ~NothingToSend(s) /\ ~SendAnotherFrame(s)
       /\ ~NextStationUnknown(s) /\ ~SoleMasterKeeps(s) /\ ~SendToken(s)
       /\ ~RestartMaintenancePFM(s) /\ ~ResetMaintenancePFM(s) /\ ~SendMaintenancePFM(s)
       /\ ~ReceivedReplyToPFM(s) /\ ~ReceivedUnexpectedFrame(s) /\ ~AwaitReplyToPFM(s)
       /\ ~StillSoleMaster(s) /\ ~DoneWithPFM(s) /\ ~SendNextPFM(s)
       /\ ~DeclareSoleMaster(s) /\ ~Reply(s) /\ ~DeferredReply(s)
  BY DEF SendIAm, NothingToSend, SendAnotherFrame, NextStationUnknown, SoleMasterKeeps,
     SendToken, RestartMaintenancePFM, ResetMaintenancePFM, SendMaintenancePFM,
     ReceivedReplyToPFM, ReceivedUnexpectedFrame, AwaitReplyToPFM, StillSoleMaster,
     DoneWithPFM, SendNextPFM, DeclareSoleMaster, Reply, DeferredReply, PollDue, Done,
     NoReplyToPFM, At
<1> QED
  BY <1>5, <1>6, <1>7, <1>8, <1>9, <1>10, <1>11, <1>12, <1>13, <1>14, <1>15, <1>16
     DEF MSTP_Master_Node_FSM

-----------------------------------------------------------------------------
(* What each move makes of who leads.                                      *)

(* Two frames at once are a collision.                                     *)
LEMMA Collides ==
  ASSUME Inv, Tidy, NEW s \in Station, NEW f, Utters(s, f), turn = s, Step(s),
         NEW g, air = {g}, collisions \in Nat
  PROVE  collisions' \in Nat /\ collisions' > 0
<1>1. g # f
  <2>1. s \in left
    BY Numbers DEF Tidy
  <2>2. g.src \notin left /\ f.src = s
    BY DEF Tidy, Utters
  <2> QED
    BY <2>1, <2>2
<1>2. air' = {g, f}
  BY DEF Utters
<1>3. Cardinality({g, f}) = 2
  <2>1. IsFiniteSet({g}) /\ Cardinality({g}) = 1
    BY FS_Singleton
  <2>2. Cardinality({g} \cup {f}) = 2
    BY <1>1, <2>1, FS_AddElement
  <2> QED
    BY <2>2, {g} \cup {f} = {g, f}
<1>4. air' # air
  BY <1>1, <1>2
<1> QED
  BY <1>2, <1>3, <1>4 DEF Step

(* Whose call it is has the one frame that is not in a queue.              *)
LEMMA OneCall ==
  ASSUME Tidy, NEW s \in Station, turn = s
  PROVE  /\ s \in left
         /\ \A r \in Station \ {s} : node[r].Received = NoFrame
BY Numbers DEF Tidy, Handling

(* Who speaks into the silence, with nobody asked, leads.                  *)
LEMMA Uttering ==
  ASSUME Inv, Inv', Tidy, NEW s \in Station, s \in up, NEW f, Utters(s, f), turn = s,
         air = {}, up' = up, inbox[s] = << >>,
         \A r \in Station \ {s} : node[r].Master_State \in
           {"INITIALIZE", "IDLE", "NO_TOKEN", "PASS_TOKEN"},
         \A r \in Station : \A i \in 1 .. Len(inbox[r]) : inbox[r][i].dst # r
  PROVE  Tidy' /\ Leads(s)'
<1>1. /\ \A r \in Station \ {s} : node'[r] = node[r] /\ node'[r].Received = NoFrame
      /\ f \in OwnFrames /\ f.src = s
      /\ inbox' = inbox /\ turn' = None /\ left' = left \ {s} /\ air' = {f}
      /\ node'[s].SilenceTime = 0 /\ node'[s].Received = NoFrame
  BY OneCall DEF Utters, Alone
<1>2. Tidy'
  BY <1>1 DEF Tidy, Handling, Asleep
<1>3. Waits(s)' /\ ToHear(s)' /\ Len(inbox'[s]) = 0
  BY <1>1 DEF Waits, ToHear
<1>4. Speaks(s)' /\ (node'[s].Master_State = "PASS_TOKEN" => node'[s].EventCount = 0)
  BY DEF Utters, Speaks
<1>5. ASSUME NEW r \in Station PROVE Pending(s, r)'
  <2>1. node'[r].Received.dst # r
    BY <1>1, Numbers
  <2> QED
    BY <1>1, <2>1 DEF Pending
<1>6. ASSUME NEW r \in Station \ {s} PROVE Listens(r, s)'
  BY <1>1 DEF Listens, ToHear
<1>7. OnTheLine(s, f)'
  BY <1>1, <1>3 DEF OnTheLine, Utters
<1>8. node'[s].SilenceTime <= Tusage_timeout + (IF s \in left' THEN 1 ELSE 0)
  BY <1>1, Numbers
<1> QED
  BY <1>1, <1>2, <1>3, <1>4, <1>5, <1>6, <1>7, <1>8 DEF Leads

(* Who leads asks or waits for nobody when it has something to send or has *)
(* waited long enough.                                                     *)
LEMMA NobodyAsked ==
  ASSUME Inv, Tidy, NEW a \in Station, Leads(a), turn = a,
         WillSend(a) \/ node[a].SilenceTime > Tusage_timeout
  PROVE  /\ air = {} /\ inbox[a] = << >>
         /\ \A r \in Station : \A i \in 1 .. Len(inbox[r]) : inbox[r][i].dst # r
<1>1. inbox[a] = << >> /\ a \in left
  BY OneCall DEF Leads
<1>2. node[a].SilenceTime \in Nat /\ Tusage_timeout \in Nat
  BY Fields, Numbers DEF Inv
<1>3. ~(/\ node[a].Master_State \in {"PASS_TOKEN", "POLL_FOR_MASTER"} /\ Waits(a)
        /\ node[a].SilenceTime <= Tusage_timeout)
  BY <1>2 DEF WillSend, Waits
<1>4. air = {}
  <2>1. ASSUME NEW f \in air PROVE ~OnTheLine(a, f)
    BY <1>1, <1>3 DEF OnTheLine, Tidy
  <2> QED
    BY <2>1 DEF Leads
<1>5. ASSUME NEW r \in Station, NEW i \in 1 .. Len(inbox[r]), inbox[r][i].dst = r
      PROVE  FALSE
  <2>1. r # a
    BY <1>1, <1>5
  <2>2. Asked(a, r, i, inbox[r][i])
    BY <1>5 DEF Leads, Pending
  <2>3. CallsDue(r) <= 1 /\ CallsDue(r) \in Nat /\ i \in Nat /\ i >= 1
    BY DEF CallsDue
  <2>4. InTime(a, r, i) => node[a].SilenceTime <= Tusage_timeout
    BY <1>2, <2>3 DEF InTime
  <2> QED
    BY <1>3, <2>1, <2>2, <2>4 DEF Asked
<1> QED
  BY <1>1, <1>4, <1>5

(* The one who leads goes on in the same call.                             *)
LEMMA Going ==
  ASSUME Inv, Inv', Tidy, NEW a \in Station, a \in up, Leads(a), GoesOn(a), turn = a,
         up' = up, WillSend(a) \/ node[a].SilenceTime > Tusage_timeout
  PROVE  Tidy' /\ Leads(a)'
<1>1. /\ \A r \in Station \ {a} : node'[r] = node[r] /\ node'[r].Received = NoFrame
      /\ UNCHANGED <<inbox, air, turn, left>>
      /\ node'[a].Master_State \in {"USE_TOKEN", "DONE_WITH_TOKEN"}
      /\ node'[a].Received = NoFrame
      /\ node'[a].SilenceTime = node[a].SilenceTime
  BY OneCall DEF GoesOn, Alone
<1>2. Tidy'
  BY <1>1 DEF Tidy, Handling, Asleep
<1>3. /\ air = {} /\ inbox[a] = << >>
      /\ \A r \in Station : \A i \in 1 .. Len(inbox[r]) : inbox[r][i].dst # r
  BY NobodyAsked
<1>4. ASSUME NEW r \in Station PROVE Pending(a, r)'
  <2>1. node'[r].Received.dst # r
    BY <1>1, Numbers
  <2> QED
    BY <1>1, <1>3, <2>1 DEF Pending
<1>5. ASSUME NEW r \in Station \ {a} PROVE Listens(r, a)'
  <2>1. WillSend(a)'
    BY <1>1 DEF WillSend
  <2>2. node[r].Master_State \in {"INITIALIZE", "IDLE", "NO_TOKEN", "PASS_TOKEN"}
    BY DEF Leads, Listens
  <2> QED
    BY <1>1, <2>1, <2>2 DEF Listens
<1>6. Speaks(a)' /\ node'[a].Master_State # "PASS_TOKEN"
  BY <1>1 DEF Speaks
<1> QED
  BY <1>1, <1>2, <1>3, <1>4, <1>5, <1>6 DEF Leads

(* The one who leads waits for another 5 ms.                               *)
LEMMA Resting ==
  ASSUME Inv, Inv', Tidy, NEW a \in Station, a \in up, Leads(a), node' = node, Return(a),
         turn = a, up' = up, node[a].Received = NoFrame,
         node[a].Master_State \in {"PASS_TOKEN", "POLL_FOR_MASTER"},
         node[a].SilenceTime <= Tusage_timeout
  PROVE  Tidy' /\ Leads(a)'
<1>1. /\ UNCHANGED <<node, inbox, air>> /\ turn' = None /\ left' = left \ {a}
      /\ \A r \in Station : node[r].Received = NoFrame
  BY OneCall DEF Return, Leave
<1>2. Tidy'
  BY <1>1 DEF Tidy, Handling, Asleep
<1>3. \A r \in Station \ {a} : CallsDue(r)' = CallsDue(r)
  BY <1>1, Numbers DEF CallsDue
<1>4. ASSUME NEW r \in Station, NEW i, NEW f, Asked(a, r, i, f) PROVE Asked(a, r, i, f)'
  BY <1>1, <1>3, <1>4 DEF Asked, Waits, InTime
<1>5. ASSUME NEW r \in Station PROVE Pending(a, r)'
  <2>1. node'[r].Received.dst # r
    BY <1>1, Numbers
  <2>2. Pending(a, r)
    BY DEF Leads
  <2> QED
    BY <1>1, <1>4, <2>1, <2>2 DEF Pending
<1>6. ASSUME NEW r \in Station \ {a} PROVE Listens(r, a)'
  <2>1. Listens(r, a) /\ ~WillSend(a) /\ turn' # r
    BY <1>1, Numbers DEF Leads, WillSend
  <2> QED
    BY <1>1, <2>1 DEF Listens, ToHear, Heard
<1>7. \A f : OnTheLine(a, f) => OnTheLine(a, f)'
  BY <1>1 DEF OnTheLine, Waits
<1>8. /\ Speaks(a)' /\ node'[a].SilenceTime <= Tusage_timeout
      /\ (node'[a].Master_State = "PASS_TOKEN" => node'[a].EventCount = 0)
      /\ Len(inbox'[a]) <= 1 /\ \A i \in 1 .. Len(inbox'[a]) : inbox'[a][i].dst = a
      /\ air' = {} \/ \E f \in air' : OnTheLine(a, f)'
      /\ turn' # a /\ a \notin left'
  BY <1>1, <1>7, Numbers DEF Leads, Speaks
<1> QED
  BY <1>1, <1>2, <1>5, <1>6, <1>8, Numbers DEF Leads

(* What a station that hears the one who leads has of its own afterwards.  *)
LEMMA Hushing ==
  ASSUME Inv, Inv', Tidy, NEW a \in Station, a \in up, Leads(a),
         NEW s \in Station \ {a}, turn = s, Hushes(s), up' = up
  PROVE  Tidy' /\ Leads(a)'
<1>1. /\ \A r \in Station \ {s} : node'[r] = node[r] /\ node'[r].Received = NoFrame
      /\ UNCHANGED <<inbox, air>> /\ s \in left
      /\ node'[s].SilenceTime \in {0, node[s].SilenceTime}
      /\ node'[s].Received \in {NoFrame, node[s].Received}
      /\ turn' \in {None, s} /\ left' \in {left, left \ {s}}
      /\ (turn' = s <=> left' = left)
  BY OneCall, Numbers DEF Hushes, Alone
<1>2. Handling(s)'
  BY <1>1, Numbers DEF Tidy, Handling, Hushes
<1>3. Tidy'
  <2>1. s \in up
    BY <1>1 DEF Inv
  <2> QED
    BY <1>1, <1>2, <2>1, Numbers DEF Tidy, Handling, Asleep
<1>4. \A r \in Station : CallsDue(r)' = CallsDue(r)
  BY <1>1, Numbers DEF CallsDue
<1>5. ASSUME NEW r \in Station, NEW i, NEW f, Asked(a, r, i, f) PROVE Asked(a, r, i, f)'
  BY <1>1, <1>4, <1>5 DEF Asked, Waits, InTime
<1>6. ASSUME NEW r \in Station PROVE Pending(a, r)'
  <2>1. Pending(a, r)
    BY DEF Leads
  <2>2. node'[r].Received.dst = r => node[r].Received = node'[r].Received
    BY <1>1, Numbers
  <2> QED
    BY <1>1, <1>5, <2>1, <2>2 DEF Pending
<1>7. ~WillSend(a) /\ ~WillSend(a)'
  BY <1>1, Numbers DEF WillSend
<1>8. ASSUME NEW r \in Station \ {a} PROVE Listens(r, a)'
  <2>1. Listens(r, a)
    BY DEF Leads
  <2>2. CASE r # s
    BY <1>1, <1>7, <2>1, <2>2, Numbers DEF Listens, ToHear, Heard
  <2>3. CASE r = s
    <3>1. air # {} => ToHear(s)'
      BY <1>1 DEF ToHear
    <3>2. air # {} \/ node[s].SilenceTime <= node[a].SilenceTime
      BY <1>7, <2>1, <2>3 DEF Listens, ToHear
    <3>3. node'[a] = node[a] /\ 0 <= node[a].SilenceTime
      BY <1>1, Fields DEF Inv
    <3>4. node'[s].Master_State \in {"IDLE", "NO_TOKEN"}
            \/ (node' = node /\ node[s].Master_State = "PASS_TOKEN" /\ ~Heard(s))
      BY DEF Hushes
    <3>5. node'[s].Master_State = "PASS_TOKEN" => air # {}
      BY <1>7, <2>1, <2>3, <3>4 DEF Listens, ToHear
    <3> QED
      BY <1>1, <2>3, <3>1, <3>2, <3>3, <3>4, <3>5 DEF Listens
  <2> QED
    BY <2>2, <2>3
<1>9. ASSUME NEW f, OnTheLine(a, f) PROVE OnTheLine(a, f)'
  <2>1. f.src \in Station \ {s}
    BY <1>1, <1>9, RingAssumption DEF OnTheLine, Tidy, Inv
  <2> QED
    BY <1>1, <1>9, <2>1 DEF OnTheLine, Waits
<1>10. /\ node'[a] = node[a] /\ inbox'[a] = inbox[a] /\ turn' # a
       /\ (a \in left' <=> a \in left)
  BY <1>1, Numbers
<1> QED
  BY <1>1, <1>3, <1>6, <1>8, <1>9, <1>10 DEF Leads, Speaks

(* Whoever is polled is the only one to answer, and answers the poller.    *)
LEMMA AnsweringThePoll ==
  ASSUME Inv, Inv', Tidy, NEW a \in Station, a \in up, Leads(a),
         NEW s \in Station \ {a}, turn = s, ReceivedPFM(s), up' = up
  PROVE  Tidy' /\ Leads(a)' /\ \E f : air' = {f}
<1> DEFINE p == node[s].Received
           f == Header("replyToPoll", a, s)
<1>1. p.type = "poll" /\ Handling(s) /\ p \in OwnFrames /\ p.dst = s
  <2>1. p.type = "poll" /\ Handling(s)
    BY DEF ReceivedPFM, Tidy
  <2>2. p \in OwnFrames /\ p.dst \in {s, Broadcast}
    BY <2>1, Numbers DEF Handling
  <2> QED
    BY <2>1, <2>2, Numbers, Starts DEF OwnFrames
<1>2. air = {} /\ inbox[s] = << >> /\ Asked(a, s, 0, p)
  BY <1>1 DEF Leads, Pending
<1>3. /\ p.src = a /\ Waits(a) /\ node[a].Master_State = "POLL_FOR_MASTER"
      /\ node[a].Poll_Station = s /\ node[a].SilenceTime <= Tusage_timeout
  <2>1. CallsDue(s) = 0 /\ node[a].SilenceTime \in Nat /\ Tusage_timeout \in Nat
    BY Fields, Numbers DEF CallsDue, Inv
  <2> QED
    BY <1>1, <1>2, <2>1 DEF Asked, InTime
<1>4. /\ \A r \in Station \ {s} : node'[r] = node[r] /\ node'[r].Received = NoFrame
      /\ node'[s].Received = NoFrame /\ node'[s].SilenceTime = 0
      /\ node'[s].Master_State = "IDLE"
      /\ inbox' = inbox /\ air' = {f} /\ turn' = None /\ left' = left \ {s}
  <2>1. node \in [Station -> NodeType]
    BY DEF Inv
  <2>2. \A r \in Station \ {s} : node[r].Received = NoFrame
    BY OneCall
  <2> QED
    BY <1>2, <1>3, <2>1, <2>2 DEF ReceivedPFM, Idle, At, MSTP_Send_Frame, Leave, NodeType
<1>5. f \in OwnFrames /\ f.src = s /\ f.dst = a /\ f.type = "replyToPoll"
  BY Numbers, OwnHeaders DEF Header
<1> HIDE DEF f
<1>6. s \in up /\ s \in left
  BY OneCall DEF Inv
<1>7. Tidy'
  BY <1>4, <1>5, <1>6 DEF Tidy, Handling, Asleep
<1>8. ASSUME NEW r \in Station PROVE Pending(a, r)'
  <2>1. node'[r].Received.dst # r
    BY <1>4, Numbers
  <2>2. ASSUME NEW i \in 1 .. Len(inbox[r]), inbox[r][i].dst = r PROVE FALSE
    <3>1. Asked(a, r, i, inbox[r][i]) /\ inbox[s] = << >> /\ inbox[a] = << >>
      BY <1>2, <1>3, <2>2 DEF Leads, Pending, Waits
    <3> QED
      BY <1>3, <2>2, <3>1 DEF Asked
  <2> QED
    BY <1>4, <2>1, <2>2 DEF Pending
<1>9. ASSUME NEW r \in Station \ {a} PROVE Listens(r, a)'
  <2>1. Listens(r, a)
    BY DEF Leads
  <2> QED
    BY <1>4, <2>1 DEF Listens, ToHear
<1>10. OnTheLine(a, f)'
  BY <1>3, <1>4, <1>5 DEF OnTheLine, Waits
<1> QED
  BY <1>4, <1>7, <1>8, <1>9, <1>10, Numbers DEF Leads, Speaks

(* Whoever takes the token leads from then on.                             *)
LEMMA TakingToken ==
  ASSUME Inv, Inv', Tidy, NEW a \in Station, a \in up, Leads(a),
         NEW s \in Station \ {a}, turn = s, ReceivedToken(s), up' = up
  PROVE  Tidy' /\ Leads(s)'
<1> DEFINE p == node[s].Received
<1>1. p.type = "token" /\ p.dst = s /\ node[s].SilenceTime = 0
  <2>1. p.type = "token" /\ p.dst # Broadcast /\ Handling(s)
    BY DEF ReceivedToken, Tidy
  <2> QED
    BY <2>1, Numbers DEF Handling
<1>2. air = {} /\ inbox[s] = << >> /\ Asked(a, s, 0, p)
  BY <1>1 DEF Leads, Pending
<1>3. Waits(a) /\ node[a].Master_State = "PASS_TOKEN" /\ node[a].Next_Station = s
  BY <1>1, <1>2 DEF Asked
<1>4. /\ \A r \in Station \ {s} : node'[r] = node[r] /\ node'[r].Received = NoFrame
      /\ node'[s].Received = NoFrame /\ node'[s].SilenceTime = 0
      /\ node'[s].Master_State = "USE_TOKEN" /\ UNCHANGED <<inbox, air, turn, left>>
  <2>1. node \in [Station -> NodeType]
    BY DEF Inv
  <2>2. \A r \in Station \ {s} : node[r].Received = NoFrame
    BY OneCall
  <2> QED
    BY <1>1, <2>1, <2>2 DEF ReceivedToken, Again, NodeType
<1>5. Tidy'
  <2>1. s \in up
    BY OneCall DEF Inv
  <2> QED
    BY <1>4, <2>1 DEF Tidy, Handling, Asleep
<1>6. ASSUME NEW r \in Station PROVE Pending(s, r)'
  <2>1. node'[r].Received.dst # r
    BY <1>4, Numbers
  <2>2. ASSUME NEW i \in 1 .. Len(inbox[r]), inbox[r][i].dst = r PROVE FALSE
    <3>1. Asked(a, r, i, inbox[r][i]) /\ inbox[s] = << >>
      BY <1>2, <2>2 DEF Leads, Pending
    <3> QED
      BY <1>3, <2>2, <3>1 DEF Asked
  <2> QED
    BY <1>4, <2>1, <2>2 DEF Pending
<1>7. ASSUME NEW r \in Station \ {s} PROVE Listens(r, s)'
  <2>1. WillSend(s)'
    BY <1>4 DEF WillSend
  <2>2. node[r].Master_State \in {"INITIALIZE", "IDLE", "NO_TOKEN", "PASS_TOKEN"}
    <3>1. CASE r = a
      BY <1>3, <3>1
    <3>2. CASE r # a
      BY <3>2 DEF Leads, Listens
    <3> QED
      BY <3>1, <3>2
  <2> QED
    BY <1>4, <2>1, <2>2 DEF Listens
<1> QED
  BY <1>2, <1>4, <1>5, <1>6, <1>7, Numbers DEF Leads, Speaks

(* A queue and its places.                                                 *)
LEMMA Places ==
  ASSUME NEW S, NEW q \in Seq(S)
  PROVE  /\ Len(q) \in Nat /\ (q = << >> <=> Len(q) = 0)
         /\ \A i \in 1 .. Len(q) : q[i] \in S
         /\ q # << >> =>
              /\ Head(q) = q[1] /\ Head(q) \in S /\ Len(q) >= 1 /\ Tail(q) \in Seq(S)
              /\ Len(Tail(q)) = Len(q) - 1
              /\ \A i \in 1 .. Len(Tail(q)) : i + 1 \in 1 .. Len(q) /\ Tail(q)[i] = q[i + 1]
         /\ \A f \in S :
              /\ Append(q, f) \in Seq(S) /\ Append(q, f) # << >>
              /\ Len(Append(q, f)) = Len(q) + 1
              /\ Append(q, f)[Len(q) + 1] = f
              /\ \A i \in 1 .. Len(q) : Append(q, f)[i] = q[i]
OBVIOUS

(* A frame of this kind is taken as it is or, if it is for another, not.   *)
LEMMA Verdicts ==
  ASSUME NEW s \in Station, NEW f \in OwnFrames
  PROVE  /\ Verdict(s, f) = IF f.dst \in {s, Broadcast} THEN f ELSE NoFrame
         /\ f.dst = s => f # NoFrame
         /\ Octets(f) = Nmin_octets + 1
<1>1. f.type \in {"token", "poll", "replyToPoll", "notExpectingReply"}
  BY DEF OwnFrames
<1> QED
  BY <1>1, Numbers DEF Verdict, Octets

(* What a call takes from the queue.                                       *)
LEMMA Taking ==
  ASSUME Inv, Tidy, NEW s \in Station, dlmstp_receive(s), inbox[s] # << >>
  PROVE  /\ inbox' = [inbox EXCEPT ![s] = Tail(@)]
         /\ Head(inbox[s]) \in OwnFrames
         /\ node'[s].Received =
              IF Head(inbox[s]).dst \in {s, Broadcast} THEN Head(inbox[s]) ELSE NoFrame
         /\ node'[s].SilenceTime = 0 /\ node'[s].EventCount > Nmin_octets
         /\ node'[s].Master_State = node[s].Master_State
         /\ Alone(s)
<1> DEFINE f == Head(inbox[s])
<1>1. node \in [Station -> NodeType] /\ node[s].EventCount \in Nat /\ Nmin_octets \in Nat
  <2>1. node \in [Station -> NodeType]
    BY DEF Inv
  <2> QED
    BY <2>1, Fields, Numbers
<1>2. f \in OwnFrames
  BY Places DEF Tidy
<1>3. node[s].Received = NoFrame
  BY Numbers DEF dlmstp_receive, Tidy, Handling
<1>4. /\ inbox' = [inbox EXCEPT ![s] = Tail(@)]
      /\ node' = [node EXCEPT
           ![s].SilenceTime = 0,
           ![s].EventCount = Least(@ + Octets(f), Nmin_octets + 1),
           ![s].Received = Verdict(s, f)]
  BY <1>3 DEF dlmstp_receive
<1>5. Least(node[s].EventCount + Octets(f), Nmin_octets + 1) > Nmin_octets
  BY <1>1, <1>2, Verdicts DEF Least
<1> HIDE DEF f
<1>6. /\ node'[s].SilenceTime = 0 /\ node'[s].Received = Verdict(s, f)
      /\ node'[s].EventCount = Least(node[s].EventCount + Octets(f), Nmin_octets + 1)
      /\ node'[s].Master_State = node[s].Master_State
      /\ Alone(s)
  BY <1>1, <1>4 DEF Alone, NodeType
<1> QED
  BY <1>2, <1>4, <1>5, <1>6, Verdicts DEF f

(* A call takes one frame and leaves the rest in order.                     *)
LEMMA TakingTidy ==
  ASSUME Inv, Tidy, NEW s \in Station, dlmstp_receive(s), up' = up
  PROVE  Tidy'
<1>1. /\ turn = None /\ turn' = s /\ s \in left /\ UNCHANGED <<air, left>>
      /\ \A r \in Station : node[r].Received = NoFrame
  BY Numbers DEF dlmstp_receive, Tidy, Handling
<1>2. CASE inbox[s] = << >>
  <2>1. UNCHANGED <<inbox, node>>
    BY <1>2 DEF dlmstp_receive
  <2> QED
    BY <1>1, <2>1 DEF Tidy, Handling, Asleep
<1>3. CASE inbox[s] # << >>
  <2>1. inbox' \in [Station -> Seq(OwnFrames)]
    <3>1. inbox[s] \in Seq(OwnFrames) /\ inbox \in [Station -> Seq(OwnFrames)]
      BY DEF Tidy
    <3>2. Tail(inbox[s]) \in Seq(OwnFrames)
      BY <1>3, <3>1, Places
    <3> QED
      BY <1>3, <3>1, <3>2, Taking
  <2>2. Handling(s)'
    BY <1>1, <1>3, Taking DEF Handling
  <2>3. \A r \in Station \ {s} : node'[r] = node[r] /\ inbox'[r] = inbox[r]
    BY <1>3, Taking DEF Alone, Inv
  <2>4. s \in up
    BY <1>1 DEF Inv
  <2> QED
    BY <1>1, <2>1, <2>2, <2>3, <2>4 DEF Tidy, Handling, Asleep
<1> QED
  BY <1>2, <1>3

(* The one who leads takes what came for it.                                *)
LEMMA LeaderTakes ==
  ASSUME Inv, Inv', Tidy, NEW a \in Station, a \in up, Leads(a), dlmstp_receive(a), up' = up
  PROVE  Tidy' /\ Leads(a)'
<1>1. /\ turn = None /\ turn' = a /\ a \in left /\ UNCHANGED <<air, left>>
      /\ \A r \in Station : node[r].Received = NoFrame
      /\ ~WillSend(a)
  BY Numbers DEF dlmstp_receive, Tidy, Handling, WillSend
<1>2. Tidy'
  BY TakingTidy
<1>3. CASE inbox[a] = << >>
  <2>1. UNCHANGED <<inbox, node>>
    BY <1>3 DEF dlmstp_receive
  <2>2. \A r \in Station \ {a} : CallsDue(r)' = CallsDue(r)
    BY <1>1, Numbers DEF CallsDue
  <2>3. ASSUME NEW r \in Station PROVE Pending(a, r)'
    <3>1. Pending(a, r) /\ node'[r].Received.dst # r
      BY <1>1, <2>1, Numbers DEF Leads
    <3>2. ASSUME NEW i, NEW f, Asked(a, r, i, f) PROVE Asked(a, r, i, f)'
      BY <2>1, <2>2, <3>2 DEF Asked, Waits, InTime
    <3> QED
      BY <1>1, <2>1, <3>1, <3>2 DEF Pending
  <2>4. ASSUME NEW r \in Station \ {a} PROVE Listens(r, a)'
    <3>1. Listens(r, a)
      BY DEF Leads
    <3> QED
      BY <1>1, <2>1, <3>1, Numbers DEF Listens, ToHear, Heard
  <2>5. \A f : OnTheLine(a, f) => OnTheLine(a, f)'
    BY <1>1, <2>1 DEF OnTheLine, Waits
  <2> QED
    BY <1>1, <1>2, <1>3, <2>1, <2>3, <2>4, <2>5 DEF Leads, Speaks
<1>4. CASE inbox[a] # << >>
  <2>f. PICK f : f = Head(inbox[a])
    OBVIOUS
  <2>1. Len(inbox[a]) = 1 /\ f = inbox[a][1] /\ f.dst = a
    <3>1. inbox[a] \in Seq(OwnFrames) /\ Len(inbox[a]) <= 1
          /\ \A i \in 1 .. Len(inbox[a]) : inbox[a][i].dst = a
      BY DEF Tidy, Leads
    <3>2. Len(inbox[a]) \in Nat /\ Len(inbox[a]) # 0 /\ f = inbox[a][1]
      BY <1>4, <2>f, <3>1, Places
    <3>3. \A k \in Nat : k # 0 /\ k <= 1 => k = 1
      OBVIOUS
    <3>4. Len(inbox[a]) = 1
      BY <3>1, <3>2, <3>3
    <3>5. 1 \in 1 .. Len(inbox[a])
      BY <3>4
    <3> QED
      BY <3>1, <3>2, <3>4, <3>5
  <2>2. air = {} /\ Asked(a, a, 1, f)
    BY <2>1 DEF Leads, Pending
  <2>3. f.type = "replyToPoll" /\ node[a].Master_State = "POLL_FOR_MASTER"
    BY <2>2 DEF Asked
  <2>4. /\ inbox'[a] = << >> /\ Len(inbox'[a]) = 0
        /\ node'[a].Received = f /\ node'[a].SilenceTime = 0
        /\ node'[a].Master_State = "POLL_FOR_MASTER"
        /\ \A r \in Station \ {a} : node'[r] = node[r] /\ inbox'[r] = inbox[r]
    <3>1. /\ inbox \in [Station -> Seq(OwnFrames)]
          /\ inbox' = [inbox EXCEPT ![a] = Tail(@)]
      BY <1>4, Taking DEF Tidy
    <3>2. Tail(inbox[a]) \in Seq(OwnFrames) /\ Len(Tail(inbox[a])) = 0
      BY <1>4, <2>1, <3>1, Places
    <3>3. Tail(inbox[a]) = << >>
      BY <3>2, Places
    <3> QED
      BY <1>4, <2>f, <2>1, <2>3, <3>1, <3>2, <3>3, Taking DEF Alone
  <2>5. ASSUME NEW r \in Station PROVE Pending(a, r)'
    <3>1. CASE r = a
      <4>1. Asked(a, a, 0, f)'
        BY <2>3, <2>4 DEF Asked
      <4> QED
        BY <1>1, <2>2, <2>4, <3>1, <4>1 DEF Pending
    <3>2. CASE r # a
      <4>1. node'[r].Received.dst # r
        BY <1>1, <2>4, <3>2, Numbers
      <4>2. ASSUME NEW i \in 1 .. Len(inbox[r]), inbox[r][i].dst = r PROVE FALSE
        <5>1. Asked(a, r, i, inbox[r][i])
          BY <4>2 DEF Leads, Pending
        <5> QED
          BY <1>4, <3>2, <5>1 DEF Asked, Waits
      <4> QED
        BY <2>4, <3>2, <4>1, <4>2 DEF Pending
    <3> QED
      BY <3>1, <3>2
  <2>6. ASSUME NEW r \in Station \ {a} PROVE Listens(r, a)'
    <3>1. WillSend(a)'
      <4>1. f # NoFrame
        BY <2>1, Numbers
      <4> QED
        BY <1>1, <2>4, <4>1 DEF WillSend
    <3>2. node'[r] = node[r] /\ Listens(r, a)
      BY <2>4 DEF Leads
    <3> QED
      BY <3>1, <3>2 DEF Listens
  <2> QED
    BY <1>1, <1>2, <2>1, <2>2, <2>4, <2>5, <2>6, Numbers DEF Leads, Speaks
<1> QED
  BY <1>3, <1>4

(* A station that listens takes the frame it is asked with, or one of       *)
(* another.                                                                 *)
LEMMA ListenerTakes ==
  ASSUME Inv, Inv', Tidy, NEW a \in Station, a \in up, Leads(a),
         NEW s \in Station \ {a}, dlmstp_receive(s), up' = up
  PROVE  Tidy' /\ Leads(a)'
<1>1. /\ turn = None /\ turn' = s /\ s \in left /\ UNCHANGED <<air, left>>
      /\ \A r \in Station : node[r].Received = NoFrame
      /\ ~WillSend(a) /\ ~WillSend(a)' /\ turn # a /\ turn' # a
  BY Numbers DEF dlmstp_receive, Tidy, Handling, WillSend
<1>2. Tidy'
  BY TakingTidy
<1>3. /\ \A r \in Station \ {s} : node'[r] = node[r] /\ inbox'[r] = inbox[r]
      /\ \A r \in Station \ {s} : CallsDue(r)' = CallsDue(r)
      /\ CallsDue(s) = 1 /\ CallsDue(s)' = 0
  <2>1. inbox[s] = << >> => UNCHANGED <<node, inbox>>
    BY DEF dlmstp_receive
  <2>2. inbox[s] # << >> =>
          \A r \in Station \ {s} : node'[r] = node[r] /\ inbox'[r] = inbox[r]
    BY Taking DEF Alone, Inv
  <2> QED
    BY <1>1, <2>1, <2>2, Numbers DEF CallsDue
<1>4. ASSUME NEW r \in Station \ {s} PROVE Pending(a, r)'
  <2>1. Pending(a, r) /\ node'[r].Received.dst # r
    BY <1>1, <1>3, Numbers DEF Leads
  <2>2. ASSUME NEW i, NEW f, Asked(a, r, i, f) PROVE Asked(a, r, i, f)'
    BY <1>3, <2>2 DEF Asked, Waits, InTime
  <2> QED
    BY <1>1, <1>3, <2>1, <2>2 DEF Pending
<1>5. ASSUME NEW r \in Station \ {a, s} PROVE Listens(r, a)'
  <2>1. Listens(r, a)
    BY DEF Leads
  <2> QED
    BY <1>1, <1>3, <2>1, Numbers DEF Listens, ToHear, Heard
<1>6. \A f : OnTheLine(a, f) => OnTheLine(a, f)'
  <2>1. ASSUME NEW f, OnTheLine(a, f) PROVE f.src \in Station \ {s}
    BY <1>1, <2>1, RingAssumption DEF OnTheLine, Tidy, Inv
  <2> QED
    BY <1>1, <1>3, <2>1 DEF OnTheLine, Waits
<1>7. Pending(a, s)' /\ Listens(s, a)'
  <2>1. CASE inbox[s] = << >>
    <3>1. UNCHANGED <<node, inbox>>
      BY <2>1 DEF dlmstp_receive
    <3>2. Pending(a, s)'
      <4>1. node'[s].Received.dst # s /\ Len(inbox'[s]) = 0
        BY <1>1, <2>1, <3>1, Numbers
      <4> QED
        BY <4>1 DEF Pending
    <3>3. Listens(s, a)
      BY DEF Leads
    <3> QED
      BY <1>1, <2>1, <3>1, <3>2, <3>3, Numbers DEF Listens, ToHear, Heard
  <2>2. CASE inbox[s] # << >>
    <3>q. PICK q, f : q = inbox[s] /\ f = Head(q)
      OBVIOUS
    <3>1. q \in Seq(OwnFrames) /\ inbox'[s] = Tail(q)
      BY <2>2, <3>q, Taking DEF Tidy
    <3>2. /\ f = q[1] /\ Len(q) \in Nat /\ Len(q) >= 1 /\ Len(Tail(q)) = Len(q) - 1
          /\ Tail(q) \in Seq(OwnFrames)
          /\ \A i \in 1 .. Len(Tail(q)) : i + 1 \in 1 .. Len(q) /\ Tail(q)[i] = q[i + 1]
      BY <2>2, <3>q, <3>1, Places
    <3>3. node[a].SilenceTime \in Nat /\ Tusage_timeout \in Nat
      BY Fields, Numbers DEF Inv
    <3>4. ASSUME NEW i \in Nat, NEW g, Asked(a, s, i + 1, g) PROVE Asked(a, s, i, g)'
      <4>1. InTime(a, s, i + 1) => InTime(a, s, i)'
        BY <1>3, <3>3 DEF InTime
      <4> QED
        BY <1>3, <3>4, <4>1 DEF Asked, Waits
    <3>5. ASSUME f.dst = s
          PROVE  air = {} /\ Tail(q) = << >> /\ Asked(a, s, 0, f)'
      <4>1. air = {} /\ 1 = Len(q) /\ Asked(a, s, 1, f)
        <5>1. Pending(a, s) /\ 1 \in 1 .. Len(inbox[s]) /\ inbox[s][1] = f
          BY <3>q, <3>2 DEF Leads
        <5> QED
          BY <3>q, <3>5, <5>1 DEF Pending
      <4>2. Tail(q) = << >>
        BY <3>2, <4>1, Places
      <4>3. Asked(a, s, 0 + 1, f)
        BY <4>1
      <4> QED
        BY <3>4, <4>1, <4>2, <4>3
    <3>6. ASSUME NEW i \in 1 .. Len(Tail(q)), NEW g, g = Tail(q)[i], g.dst = s
          PROVE  air = {} /\ i = Len(Tail(q)) /\ Asked(a, s, i, g)'
      <4>1. i + 1 \in 1 .. Len(q) /\ Tail(q)[i] = q[i + 1] /\ i \in Nat
        BY <3>2
      <4>2. air = {} /\ i + 1 = Len(q) /\ Asked(a, s, i + 1, g)
        BY <3>q, <3>6, <4>1 DEF Leads, Pending
      <4>3. Asked(a, s, i, g)'
        BY <3>4, <4>1, <4>2
      <4>4. i = Len(Tail(q))
        <5>1. \A k, m \in Nat : k + 1 = m => k = m - 1
          OBVIOUS
        <5> QED
          BY <3>2, <4>1, <4>2, <5>1
      <4> QED
        BY <4>2, <4>3, <4>4
    <3>7. Pending(a, s)'
      <4>1. node'[s].Received.dst = s => f.dst = s /\ node'[s].Received = f
        BY <2>2, <3>q, Taking, Numbers
      <4> QED
        BY <1>1, <3>1, <3>5, <3>6, <4>1 DEF Pending
    <3>8. Listens(s, a)'
      <4>1. Listens(s, a) /\ node'[a] = node[a]
        BY <1>3 DEF Leads
      <4>2. /\ Heard(s)' /\ node'[s].SilenceTime = 0
            /\ node'[s].Master_State = node[s].Master_State
        BY <1>1, <2>2, Taking DEF Heard
      <4> QED
        BY <3>3, <4>1, <4>2 DEF Listens
    <3> QED
      BY <3>7, <3>8
  <2> QED
    BY <2>1, <2>2
<1> QED
  BY <1>1, <1>2, <1>3, <1>4, <1>5, <1>6, <1>7 DEF Leads, Speaks

(* The frame on the line reaches everybody who does not send.              *)
LEMMA Delivering ==
  ASSUME Inv, Inv', Tidy, NEW a \in Station, a \in up, Leads(a), Deliver, turn = None, ~ComesLate'
  PROVE  Tidy' /\ Leads(a)'
<1>1. PICK f : OnTheLine(a, f) /\ air = {f}
  <2>1. air # {}
    BY FS_EmptySet DEF Deliver
  <2> QED
    BY <2>1 DEF Leads, OnTheLine
<1>2. f \in OwnFrames /\ f.src \in up \ left /\ up \subseteq Station
  BY <1>1, RingAssumption DEF Tidy, Inv
<1>3. /\ inbox' = [s \in Station |-> IF s \in up \ {f.src} THEN Put(s, f) ELSE inbox[s]]
      /\ air' = {} /\ UNCHANGED <<node, turn, left, up>>
  <2>1. Senders = {f.src} /\ (CHOOSE g \in air : TRUE) = f
    BY <1>1 DEF Senders
  <2> QED
    BY <2>1 DEF Deliver, Hearing
<1>4. \A s \in Station : node[s].Received = NoFrame /\ CallsDue(s)' = CallsDue(s)
  BY <1>3, Numbers DEF Tidy, Handling, CallsDue
<1>5. ASSUME NEW s \in up \ {f.src}
      PROVE  /\ inbox[s] \in Seq(OwnFrames) /\ inbox'[s] \in Seq(OwnFrames)
             /\ inbox'[s] # << >>
             /\ \/ inbox'[s] = inbox[s]
                \/ inbox'[s] = Append(inbox[s], f)
  <2>1. inbox[s] \in Seq(OwnFrames) /\ inbox'[s] = Put(s, f) /\ s \in Station
    BY <1>2, <1>3 DEF Tidy
  <2>2. CASE Len(inbox[s]) < FifoLength
    BY <1>2, <2>1, <2>2, Places DEF Put
  <2>3. CASE ~(Len(inbox[s]) < FifoLength)
    <3>1. inbox[s] # << >>
      BY <2>1, <2>3, Places, RingAssumption
    <3> QED
      BY <2>1, <2>3, <3>1 DEF Put
  <2> QED
    BY <2>2, <2>3
<1>6. \A s \in Station : s \notin up \ {f.src} => inbox'[s] = inbox[s]
  BY <1>3
<1>7. Tidy'
  <2>1. inbox' \in [Station -> Seq(OwnFrames)]
    <3>1. \A s \in Station : inbox'[s] \in Seq(OwnFrames)
      BY <1>5, <1>6 DEF Tidy
    <3> QED
      BY <1>3, <3>1
  <2> QED
    BY <1>3, <1>4, <1>6, <2>1 DEF Tidy, Handling, Asleep
<1>8. ASSUME NEW s \in Station, NEW i \in 1 .. Len(inbox'[s]), inbox'[s][i].dst = s
      PROVE  /\ s \in up \ {f.src} /\ inbox'[s][i] = f /\ f.dst = s
             /\ i = Len(inbox[s]) + 1 /\ i = Len(inbox'[s])
             /\ inbox'[s] = Append(inbox[s], f)
  <2>1. \A k \in 1 .. Len(inbox[s]) : inbox[s][k].dst # s
    BY <1>1 DEF Leads, Pending
  <2>2. s \in up \ {f.src} /\ inbox'[s] = Append(inbox[s], f)
    BY <1>5, <1>6, <1>8, <2>1
  <2>3. /\ Len(inbox[s]) \in Nat /\ Len(inbox'[s]) = Len(inbox[s]) + 1
        /\ inbox'[s][Len(inbox[s]) + 1] = f
        /\ \A k \in 1 .. Len(inbox[s]) : inbox'[s][k] = inbox[s][k]
    BY <1>2, <1>5, <2>2, Places
  <2>4. i \notin 1 .. Len(inbox[s])
    BY <1>8, <2>1, <2>3
  <2>5. i = Len(inbox[s]) + 1
    BY <2>3, <2>4
  <2> QED
    BY <1>8, <2>2, <2>3, <2>5
<1>9. ASSUME NEW s \in Station, NEW i \in 1 .. Len(inbox'[s]), NEW g, g = inbox'[s][i],
             g.dst = s
      PROVE  i = Len(inbox'[s]) /\ Asked(a, s, i, g)'
  <2>1. /\ s \in up \ {f.src} /\ g = f /\ f.dst = s /\ i = Len(inbox'[s])
        /\ i = Len(inbox[s]) + 1
    BY <1>8, <1>9
  <2>2. CASE f.src = a
    <3>1. /\ node'[a] = node[a] /\ inbox'[a] = << >> /\ node[a].SilenceTime = 0
          /\ node[a].Received = NoFrame
      BY <1>1, <1>3, <1>6, <2>2 DEF OnTheLine, Waits
    <3>2. i <= Tusage_timeout + CallsDue(s)'
      <4>1. ~(i > Tusage_timeout + CallsDue(s)')
        BY <1>9 DEF ComesLate
      <4>2. i \in Nat /\ Tusage_timeout \in Nat /\ CallsDue(s)' \in {0, 1}
        BY <1>9, Numbers DEF CallsDue
      <4> QED
        BY <4>1, <4>2
    <3>3. InTime(a, s, i)' /\ Waits(a)'
      BY <3>1, <3>2 DEF InTime, Waits
    <3>4. f.dst # Broadcast
      BY <2>1, Numbers
    <3>5. \/ f.type = "token" /\ node[a].Master_State = "PASS_TOKEN" /\ s = node[a].Next_Station
          \/ f.type = "poll" /\ node[a].Master_State = "POLL_FOR_MASTER" /\ s = node[a].Poll_Station
      BY <1>1, <1>2, <2>1, <2>2, <3>4 DEF OnTheLine, OwnFrames
    <3>6. s # a
      BY <2>1, <2>2
    <3>7. Asked(a, s, i, f)'
      BY <2>2, <3>1, <3>3, <3>5, <3>6 DEF Asked
    <3> QED
      BY <2>1, <3>7
  <2>3. CASE f.src # a
    <3>1. /\ f.type = "replyToPoll" /\ f.dst = a /\ node[a].Master_State = "POLL_FOR_MASTER"
          /\ inbox[a] = << >>
      BY <1>1, <2>3 DEF OnTheLine, Waits
    <3>2. s = a /\ i = 1
      BY <2>1, <3>1
    <3>3. Asked(a, s, i, f)'
      BY <1>3, <3>1, <3>2 DEF Asked
    <3> QED
      BY <2>1, <3>3
  <2> QED
    BY <2>2, <2>3
<1>10. ASSUME NEW s \in Station PROVE Pending(a, s)'
  <2>1. node'[s].Received.dst # s
    BY <1>3, <1>4, Numbers
  <2> QED
    BY <1>3, <1>9, <2>1 DEF Pending
<1>11. node[a].SilenceTime >= 0 /\ turn' = None
  BY <1>3, Fields DEF Inv
<1>12. ASSUME NEW s \in Station \ {a} PROVE Listens(s, a)'
  <2>1. Listens(s, a) /\ node' = node
    BY <1>3 DEF Leads
  <2>2. CASE s \in up \ {f.src}
    <3>1. ToHear(s)'
      BY <1>5, <1>11, <2>2, Numbers DEF ToHear
    <3> QED
      BY <2>1, <3>1 DEF Listens
  <2>3. CASE s \notin up
    <3>1. node[s].Master_State = "INITIALIZE" /\ node[s].SilenceTime = 0
      BY <2>3 DEF Tidy, Asleep
    <3> QED
      BY <1>11, <2>1, <3>1 DEF Listens
  <2>4. CASE s = f.src
    <3>1. node[s].Master_State = "IDLE" /\ node[s].SilenceTime = 0
      BY <1>1, <2>4 DEF OnTheLine
    <3> QED
      BY <1>11, <2>1, <3>1 DEF Listens
  <2> QED
    BY <2>2, <2>3, <2>4
<1>13. Len(inbox'[a]) <= 1 /\ \A i \in 1 .. Len(inbox'[a]) : inbox'[a][i].dst = a
  <2>1. inbox[a] = << >> /\ Len(inbox[a]) = 0 /\ inbox[a] \in Seq(OwnFrames)
    BY <1>1 DEF OnTheLine, Waits, Tidy
  <2>2. CASE a \in up \ {f.src}
    <3>1. f.dst = a
      BY <1>1, <2>2 DEF OnTheLine
    <3>2. inbox'[a] = Append(inbox[a], f)
      BY <1>5, <2>1, <2>2
    <3>3. Len(inbox'[a]) = 1 /\ inbox'[a][1] = f
      BY <1>2, <2>1, <3>2, Places
    <3> QED
      BY <3>1, <3>3
  <2>3. CASE a \notin up \ {f.src}
    BY <1>6, <2>1, <2>3
  <2> QED
    BY <2>2, <2>3
<1> QED
  BY <1>3, <1>4, <1>7, <1>10, <1>11, <1>12, <1>13, Numbers DEF Leads, Speaks

(* Five milliseconds later: every station calls again.                     *)
LEMMA Elapsing ==
  ASSUME Inv, Inv', Tidy, NEW a \in Station, a \in up, Leads(a), Elapse,
         Tusage_timeout + 1 < Tno_token
  PROVE  Tidy' /\ Leads(a)'
<1>1. /\ turn = None /\ left = {} /\ air = {} /\ left' = up
      /\ UNCHANGED <<inbox, air, turn, up>>
      /\ \A s \in Station : node[s].Received = NoFrame
  BY Numbers DEF Elapse, Tidy, Handling
<1>2. ASSUME NEW s \in Station
      PROVE  /\ node[s].SilenceTime \in 0 .. MaxSilence
             /\ s \notin up => node'[s] = node[s]
             /\ s \in up =>
                  /\ node'[s].SilenceTime = Tick(node[s].SilenceTime)
                  /\ node'[s].Master_State = node[s].Master_State
                  /\ node'[s].Received = NoFrame /\ node'[s].EventCount = node[s].EventCount
                  /\ node'[s].Next_Station = node[s].Next_Station
                  /\ node'[s].Poll_Station = node[s].Poll_Station
  <2>1. node[s] \in NodeType
    BY DEF Inv
  <2> QED
    BY <1>1, <2>1, Fields DEF Elapse, NodeType
<1>3. Tidy'
  BY <1>1, <1>2 DEF Tidy, Handling, Asleep
<1>4. /\ Tusage_timeout \in Nat /\ MaxSilence \in Nat /\ Tusage_timeout < MaxSilence
      /\ node[a].SilenceTime \in Nat /\ node[a].SilenceTime <= Tusage_timeout
  BY <1>1, <1>2, NodeAssumption DEF Leads
<1>5. \A s \in up : node[s].SilenceTime <= node[a].SilenceTime =>
                     node'[s].SilenceTime = node[s].SilenceTime + 1
  <2>1. up \subseteq Station
    BY RingAssumption DEF Inv
  <2> QED
    BY <1>2, <1>4, <2>1 DEF Tick
<1>6. node'[a].SilenceTime = node[a].SilenceTime + 1
  BY <1>4, <1>5
<1>7. \A s \in up : CallsDue(s) = 0 /\ CallsDue(s)' = 1
  BY <1>1, Numbers, RingAssumption DEF CallsDue, Inv
<1>8. ASSUME NEW s \in up, NEW i \in Nat, NEW f, Asked(a, s, i, f) PROVE Asked(a, s, i, f)'
  <2>1. InTime(a, s, i) => InTime(a, s, i)'
    BY <1>4, <1>6, <1>7 DEF InTime
  <2> QED
    BY <1>1, <1>2, <1>8, <2>1 DEF Asked, Waits
<1>9. ASSUME NEW s \in Station PROVE Pending(a, s)'
  <2>1. node'[s].Received.dst # s
    BY <1>1, <1>2, Numbers
  <2>2. CASE s \in up
    <3>1. Pending(a, s)
      BY DEF Leads
    <3>2. \A i \in 1 .. Len(inbox[s]) : i \in Nat
      OBVIOUS
    <3> QED
      BY <1>1, <1>8, <2>1, <2>2, <3>1, <3>2 DEF Pending
  <2>3. CASE s \notin up
    <3>1. Len(inbox'[s]) = 0
      BY <1>1, <2>3 DEF Tidy, Asleep
    <3> QED
      BY <2>1, <3>1 DEF Pending
  <2> QED
    BY <2>2, <2>3
<1>10. ~WillSend(a) /\ \A s \in Station : ~Heard(s)
  BY <1>1, Numbers DEF WillSend, Heard
<1>11. ASSUME NEW s \in Station \ {a} PROVE Listens(s, a)'
  <2>1. Listens(s, a) /\ ToHear(s)' = ToHear(s)
    BY <1>1 DEF Leads, ToHear
  <2>2. CASE s \in up
    <3>1. \/ ToHear(s)' \/ node'[s].SilenceTime <= node'[a].SilenceTime
      BY <1>2, <1>4, <1>5, <1>6, <1>10, <2>1, <2>2 DEF Listens
    <3> QED
      BY <1>2, <1>10, <2>1, <2>2, <3>1 DEF Listens
  <2>3. CASE s \notin up
    <3>1. node'[s].Master_State = "INITIALIZE" /\ node'[s].SilenceTime = 0
      BY <1>2, <2>3 DEF Tidy, Asleep
    <3> QED
      BY <1>4, <1>6, <3>1 DEF Listens
  <2> QED
    BY <2>2, <2>3
<1>12. node'[a].SilenceTime <= Tusage_timeout + 1
  BY <1>4, <1>6
<1> QED
  BY <1>1, <1>2, <1>3, <1>9, <1>11, <1>12, Numbers DEF Leads, Speaks

(* Before the first token nobody hears anything.                           *)
LEMMA BreakingSilence ==
  ASSUME Inv, Inv', Tidy, Silent, NEW s \in Station, s \in up, NodeStep(s), up' = up
  PROVE  Tidy' /\ (Silent' \/ Leads(s)')
<1>1. CASE dlmstp_receive(s)
  <2>1. UNCHANGED <<inbox, node, air>>
    BY <1>1 DEF dlmstp_receive, Silent
  <2> QED
    BY <1>1, <2>1, TakingTidy DEF Silent
<1>2. CASE MSTP_Master_Node_FSM(s)
  <2>1. /\ turn = s /\ Handling(s) /\ node[s].Received = NoFrame /\ node[s].Received.dst # s
        /\ node[s].Master_State \in {"INITIALIZE", "IDLE", "NO_TOKEN", "PASS_TOKEN"}
        /\ node[s].Master_State # "PASS_TOKEN"
    BY <1>2, ItsTurn, Numbers DEF Silent, Tidy
  <2>2. ~ReceivedToken(s) /\ ~ReceivedPFM(s)
    BY <2>1, Numbers DEF ReceivedToken, ReceivedPFM
  <2>3. CASE Hushes(s)
    <3>1. /\ \A r \in Station \ {s} : node'[r] = node[r]
          /\ UNCHANGED <<inbox, air>> /\ node'[s].Received = NoFrame
          /\ node'[s].Master_State \in {"IDLE", "NO_TOKEN"}
          /\ \/ turn' = s /\ left' = left
             \/ turn' = None /\ left' = left \ {s}
      BY <2>1, <2>3 DEF Hushes, Alone
    <3>2. Silent'
      BY <3>1 DEF Silent
    <3>3. Tidy'
      BY <2>1, <3>1, Numbers DEF Tidy, Silent, Handling, Asleep
    <3> QED
      BY <3>2, <3>3
  <2>4. ASSUME NEW f, Utters(s, f) PROVE Tidy' /\ Leads(s)'
    <3>1. /\ \A r \in Station \ {s} : node[r].Master_State \in
               {"INITIALIZE", "IDLE", "NO_TOKEN", "PASS_TOKEN"}
          /\ \A r \in Station : \A i \in 1 .. Len(inbox[r]) : inbox[r][i].dst # r
          /\ air = {} /\ inbox[s] = << >>
      <4>1. \A r \in Station : Len(inbox[r]) = 0
        BY DEF Silent
      <4> QED
        BY <4>1 DEF Silent
    <3> QED
      BY <2>1, <2>4, <3>1, Uttering
  <2> QED
    BY <1>2, <2>1, <2>2, <2>3, <2>4, Listening
<1> QED
  BY <1>1, <1>2 DEF NodeStep

(* A step of the one who leads.                                            *)
LEMMA LeaderSteps ==
  ASSUME Inv, Inv', Tidy, NEW a \in Station, a \in up, Leads(a), NodeStep(a), up' = up
  PROVE  Tidy' /\ Leads(a)'
<1>1. CASE dlmstp_receive(a)
  BY <1>1, LeaderTakes
<1>2. CASE MSTP_Master_Node_FSM(a)
  <2>1. turn = a
    BY <1>2, ItsTurn
  <2>2. node[a].Received # NoFrame =>
          /\ node[a].Master_State = "POLL_FOR_MASTER"
          /\ node[a].Received.type = "replyToPoll" /\ node[a].Received.dst = a
    BY DEF Leads, Pending, Asked
  <2>3. Speaks(a) /\ (node[a].Master_State = "PASS_TOKEN" => node[a].EventCount = 0)
    BY DEF Leads
  <2>4. ASSUME WillSend(a) \/ node[a].SilenceTime > Tusage_timeout, NEW f, Utters(a, f)
        PROVE  Tidy' /\ Leads(a)'
    <3>1. /\ air = {} /\ inbox[a] = << >>
          /\ \A r \in Station : \A i \in 1 .. Len(inbox[r]) : inbox[r][i].dst # r
      BY <2>1, <2>4, NobodyAsked
    <3>2. \A r \in Station \ {a} : node[r].Master_State \in
            {"INITIALIZE", "IDLE", "NO_TOKEN", "PASS_TOKEN"}
      BY DEF Leads, Listens
    <3> QED
      BY <2>1, <2>4, <3>1, <3>2, Uttering
  <2> QED
    BY <1>2, <2>1, <2>2, <2>3, <2>4, Speaking, Going, Resting
<1> QED
  BY <1>1, <1>2 DEF NodeStep

(* A step of a station that listens: it may be asked, it may take the      *)
(* token, and if it speaks unasked it collides.                            *)
LEMMA ListenerSteps ==
  ASSUME Inv, Inv', Tidy, NEW a \in Station, a \in up, Leads(a),
         NEW s \in Station \ {a}, s \in up, Step(s), collisions \in Nat,
         Tusage_timeout + 1 < Tno_token
  PROVE  collisions' > 0 \/ (Tidy' /\ (Leads(a)' \/ Leads(s)'))
<1>1. NodeStep(s) /\ up' = up
  BY DEF Step
<1>2. CASE dlmstp_receive(s)
  BY <1>1, <1>2, ListenerTakes
<1>3. CASE MSTP_Master_Node_FSM(s)
  <2>1. turn = s /\ Handling(s)
    BY <1>3, ItsTurn DEF Tidy
  <2>2. Listens(s, a) /\ ~WillSend(a)
    BY <2>1 DEF Leads, WillSend
  <2>3. node[s].Received.dst = s => node[s].Received.type \in {"token", "poll"}
    BY DEF Leads, Pending, Asked
  <2>4. CASE Hushes(s)
    BY <1>1, <2>1, <2>4, Hushing
  <2>5. CASE ReceivedToken(s)
    BY <1>1, <2>1, <2>5, TakingToken
  <2>6. CASE ReceivedPFM(s)
    BY <1>1, <2>1, <2>6, AnsweringThePoll
  <2>7. ASSUME NEW f, Utters(s, f),
               \/ node[s].SilenceTime >= Tno_token
               \/ /\ node[s].Master_State = "PASS_TOKEN" /\ ~Heard(s)
                  /\ node[s].SilenceTime > Tusage_timeout
        PROVE  collisions' > 0
    <3>1. air # {}
      <4>1. CASE node[s].SilenceTime >= Tno_token
        <5>1. /\ node[a].SilenceTime \in Nat /\ node[s].SilenceTime \in Nat
              /\ Tusage_timeout \in Nat /\ Tno_token \in Nat
          BY Fields, Numbers DEF Inv
        <5>2. node[a].SilenceTime <= Tusage_timeout + 1
          BY <5>1 DEF Leads
        <5>3. ~(node[s].SilenceTime <= node[a].SilenceTime)
          BY <4>1, <5>1, <5>2
        <5> QED
          BY <2>1, <2>2, <5>3 DEF Listens, ToHear
      <4>2. CASE node[s].Master_State = "PASS_TOKEN" /\ ~Heard(s)
        BY <2>1, <2>2, <4>2 DEF Listens, ToHear
      <4> QED
        BY <2>7, <4>1, <4>2
    <3>2. PICK g : air = {g}
      BY <3>1 DEF Leads, OnTheLine
    <3> QED
      BY <2>1, <2>7, <3>2, Collides
  <2> QED
    BY <1>3, <2>1, <2>2, <2>3, <2>4, <2>5, <2>6, <2>7, Listening DEF Listens
<1> QED
  BY <1>1, <1>2, <1>3 DEF NodeStep

-----------------------------------------------------------------------------
(* The inductive invariant of one holder: Orderly until a disturbance.     *)
OrderInv ==
  /\ faults \in Nat /\ collisions \in Nat /\ offs \in Nat /\ late \in BOOLEAN
  /\ \A s \in Station \ up : node[s].Master_State = "INITIALIZE"
  /\ line.MaxForeign = 0 /\ Undisturbed => Orderly

(* A line starts silent.                                                    *)
LEMMA OrderInit == RingInit => OrderInv
<1> SUFFICES ASSUME RingInit PROVE OrderInv
  OBVIOUS
<1>1. /\ \A s \in Station : node[s] = Reset(s) /\ inbox[s] = << >>
      /\ inbox \in [Station -> Seq(OwnFrames)]
      /\ air = {} /\ turn = None /\ up = {} /\ faults = 0 /\ collisions = 0 /\ offs = 0
      /\ late = FALSE
  BY DEF RingInit, Init
<1>2. \A s \in Station : /\ node[s].Master_State = "INITIALIZE" /\ node[s].SilenceTime = 0
                         /\ node[s].Received = NoFrame
  <2> TAKE s \in Station
  <2>1. node[s] = Reset(s)
    BY <1>1
  <2>2. /\ Reset(s).Master_State = "INITIALIZE" /\ Reset(s).SilenceTime = 0
        /\ Reset(s).Received = NoFrame
    BY DEF Reset
  <2> QED
    BY <2>1, <2>2
<1>3. Tidy /\ Silent
  BY <1>1, <1>2 DEF Tidy, Silent, Handling, Asleep
<1> QED
  BY <1>1, <1>2, <1>3 DEF OrderInv, Orderly

(* A station of the kind stays in its place, on or off.                    *)
LEMMA StepCounts ==
  ASSUME Inv, OrderInv, [RingNext]_vars
  PROVE  /\ line' = line /\ faults' \in Nat /\ collisions' \in Nat /\ offs' \in Nat
         /\ late' \in BOOLEAN /\ (late' = FALSE => late = FALSE) /\ (Quiet' => Quiet)
         /\ \A s \in Station \ up' : node'[s].Master_State = "INITIALIZE"
<1>1. /\ faults \in Nat /\ collisions \in Nat /\ offs \in Nat /\ late \in BOOLEAN
      /\ up \subseteq Station
  BY RingAssumption DEF OrderInv, Inv
<1>2. ASSUME NEW s \in Station, Step(s)
      PROVE  /\ UNCHANGED <<line, up, faults, offs, late>>
             /\ collisions' \in {collisions, collisions + 1}
             /\ \A r \in Station \ up : node'[r] = node[r]
  <2>1. UNCHANGED <<line, up, faults, offs, late>>
    BY <1>2 DEF Step
  <2>2. collisions' \in {collisions, collisions + 1}
    BY <1>2 DEF Step
  <2>3. s \in up
    <3>1. CASE dlmstp_receive(s)
      BY <3>1 DEF dlmstp_receive, Inv
    <3>2. CASE MSTP_Master_Node_FSM(s)
      BY <3>2, ItsTurn, Numbers DEF Inv
    <3> QED
      BY <1>2, <3>1, <3>2 DEF Step, NodeStep
  <2>4. \A r \in Station \ {s} : node'[r] = node[r]
    <3>1. CASE dlmstp_receive(s)
      BY <3>1 DEF dlmstp_receive, Inv
    <3>2. CASE MSTP_Master_Node_FSM(s) /\ ~ReceivedData(s)
      BY <3>2, NodeCalm DEF Calm
    <3>3. CASE ReceivedData(s)
      BY <3>3 DEF ReceivedData, Inv
    <3> QED
      BY <1>2, <3>1, <3>2, <3>3 DEF Step, NodeStep
  <2> QED
    BY <2>1, <2>2, <2>3, <2>4
<1>3. CASE \E s \in Station : Step(s)
  <2>1. PICK s \in Station : Step(s)
    BY <1>3
  <2>2. UNCHANGED <<line, up, faults, offs, late>>
    BY <1>2, <2>1
  <2>3. collisions' \in Nat /\ (collisions' = 0 => collisions = 0)
    <3>1. collisions' \in {collisions, collisions + 1}
      BY <1>2, <2>1
    <3> QED
      BY <1>1, <3>1
  <2>4. \A r \in Station \ up' : node'[r].Master_State = "INITIALIZE"
    BY <1>2, <2>1, <2>2 DEF OrderInv
  <2> QED
    BY <1>1, <2>2, <2>3, <2>4 DEF Quiet
<1>4. ASSUME NEW s \in Station, SwitchOn(s)
      PROVE  UNCHANGED <<node, line, faults, collisions, offs, late>> /\ up' = up \cup {s}
  BY <1>4 DEF SwitchOn, nodeVars
<1>5. ASSUME NEW s \in Station, SwitchOff(s)
      PROVE  /\ UNCHANGED <<line, faults, collisions, late>>
             /\ offs' = offs + 1 /\ up' = up \ {s}
             /\ node'[s].Master_State = "INITIALIZE"
             /\ \A r \in Station \ {s} : node'[r] = node[r]
  BY <1>5 DEF SwitchOff, Inv, Reset
<1>6. CASE DeliverBadly
  <2>1. /\ UNCHANGED <<node, line, up, collisions, offs>> /\ faults' = faults + 1
        /\ late' = (late \/ ComesLate')
    BY <1>6 DEF DeliverBadly
  <2>2. faults' \in Nat /\ ~(faults' = 0)
    BY <1>1, <2>1
  <2>3. late' \in BOOLEAN
    BY <2>1
  <2> QED
    BY <1>1, <2>1, <2>2, <2>3 DEF Quiet, OrderInv
<1>7. CASE Elapse
  <2>1. /\ UNCHANGED <<line, up, faults, collisions, offs, late>>
        /\ \A s \in Station \ up : node'[s] = node[s]
    BY <1>7 DEF Elapse
  <2> QED
    BY <1>1, <2>1 DEF Quiet, OrderInv
<1>8. CASE Deliver
  <2>1. UNCHANGED <<node, line, up, faults, collisions, offs>> /\ late' = (late \/ ComesLate')
    BY <1>8 DEF Deliver
  <2>2. late' \in BOOLEAN /\ (late' = FALSE => late = FALSE)
    BY <1>1, <2>1
  <2> QED
    BY <1>1, <2>1, <2>2 DEF Quiet, OrderInv
<1>9. CASE Collide \/ (\E f \in ForeignFrames : Foreign(f)) \/ UNCHANGED vars
  <2>1. UNCHANGED <<node, line, up, faults, collisions, offs, late>>
    BY <1>9 DEF Collide, Foreign, vars, nodeVars
  <2> QED
    BY <1>1, <2>1 DEF Quiet, OrderInv
<1>10. CASE \E s \in Station : SwitchOn(s)
  BY <1>1, <1>4, <1>10 DEF Quiet, OrderInv
<1>11. CASE \E s \in Station : SwitchOff(s)
  <2>1. PICK s \in Station : SwitchOff(s)
    BY <1>11
  <2>2. offs' \in Nat /\ ~(offs' = 0)
    BY <1>1, <1>5, <2>1
  <2> QED
    BY <1>1, <1>5, <2>1, <2>2 DEF Quiet, OrderInv
<1> QED
  BY <1>3, <1>6, <1>7, <1>8, <1>9, <1>10, <1>11 DEF RingNext

(* Every step keeps the order, as long as no frame came late.               *)
LEMMA OrderStep ==
  ASSUME StandardMasters, OwnLines, Tusage_timeout + 1 < Tno_token,
         Inv, OrderInv, [RingNext]_vars
  PROVE  OrderInv'
<1>1. /\ line' = line /\ faults' \in Nat /\ collisions' \in Nat /\ offs' \in Nat
      /\ late' \in BOOLEAN /\ (late' = FALSE => late = FALSE) /\ (Quiet' => Quiet)
      /\ \A s \in Station \ up' : node'[s].Master_State = "INITIALIZE"
  BY StepCounts
<1> SUFFICES ASSUME line.MaxForeign = 0, Undisturbed' PROVE Orderly'
  BY <1>1 DEF OrderInv, Undisturbed
<1>2. /\ Inv' /\ Tidy /\ (Silent \/ \E a \in up : Leads(a)) /\ up \subseteq Station
      /\ line.MaxCollisions > 0 /\ line.MaxCollisions \in Nat
  BY <1>1, InvStep, RingAssumption DEF OrderInv, Orderly, Undisturbed, OwnLines, Inv
<1>3. /\ faults = 0 /\ collisions = 0 /\ offs = 0
      /\ faults' = 0 /\ collisions' = 0 /\ offs' = 0 /\ late' = FALSE
  BY <1>1 DEF Undisturbed, Quiet
<1>4. ASSUME NEW s \in Station, Step(s) PROVE Orderly'
  <2>1. NodeStep(s) /\ up' = up
    BY <1>4 DEF Step
  <2>2. s \in up
    <3>1. CASE dlmstp_receive(s)
      BY <3>1 DEF dlmstp_receive, Inv
    <3>2. CASE MSTP_Master_Node_FSM(s)
      BY <3>2, ItsTurn, Numbers DEF Inv
    <3> QED
      BY <2>1, <3>1, <3>2 DEF NodeStep
  <2>3. CASE Silent
    BY <1>2, <2>1, <2>2, <2>3, BreakingSilence DEF Orderly
  <2>4. ASSUME NEW a \in up, Leads(a) PROVE Orderly'
    <3>1. CASE s = a
      BY <1>2, <2>1, <2>2, <2>4, <3>1, LeaderSteps DEF Orderly
    <3>2. CASE s # a
      <4>1. a \in Station /\ s \in Station \ {a} /\ collisions \in Nat
        BY <1>2, <1>3, <2>4, <3>2
      <4>2. Tidy' /\ (Leads(a)' \/ Leads(s)')
        BY <1>2, <1>3, <1>4, <2>2, <2>4, <4>1, ListenerSteps
      <4> QED
        BY <2>1, <2>2, <2>4, <4>2 DEF Orderly
    <3> QED
      BY <3>1, <3>2
  <2> QED
    BY <1>2, <2>3, <2>4
<1>5. ASSUME NEW s \in Station, SwitchOn(s) PROVE Orderly'
  <2>1. UNCHANGED <<node, inbox, air, turn, left>> /\ up' = up \cup {s} /\ s \notin up
    BY <1>5 DEF SwitchOn, nodeVars
  <2>2. Tidy'
    BY <1>2, <2>1 DEF Tidy, Handling, Asleep
  <2>3. Silent => Silent'
    BY <2>1 DEF Silent
  <2>4. \A a \in up : Leads(a) => Leads(a)'
    BY <2>1 DEF Leads, Speaks, Pending, Asked, Waits, InTime, CallsDue, Listens,
       WillSend, Heard, ToHear, OnTheLine
  <2> QED
    BY <1>2, <2>1, <2>2, <2>3, <2>4 DEF Orderly
<1>6. \A s \in Station : ~SwitchOff(s)
  BY <1>3 DEF SwitchOff
<1>7. ~DeliverBadly
  BY <1>3 DEF DeliverBadly
<1>8. \A f \in ForeignFrames : ~Foreign(f)
  BY DEF Foreign, Inv
<1>9. CASE Deliver
  <2>1. air # {}
    BY <1>9, FS_EmptySet DEF Deliver
  <2>2. turn = None /\ up' = up
    BY <1>2, <1>3, <1>9 DEF Deliver, FrameOver
  <2>3. PICK a \in up : Leads(a)
    BY <1>2, <2>1 DEF Silent
  <2>4. ~ComesLate'
    BY <1>3, <1>9 DEF Deliver
  <2> QED
    BY <1>2, <1>9, <2>2, <2>3, <2>4, Delivering DEF Orderly
<1>10. ~Collide
  <2>1. air = {} \/ \E f : air = {f}
    BY <1>2 DEF Silent, Leads, OnTheLine
  <2>2. Cardinality(air) = 0 \/ Cardinality(air) = 1
    BY <2>1, FS_EmptySet, FS_Singleton
  <2> QED
    BY <2>2 DEF Collide
<1>11. CASE Elapse
  <2>1. CASE Silent
    <3>1. /\ UNCHANGED <<inbox, air, turn, up>> /\ left' = up
          /\ \A s \in Station \ up : node'[s] = node[s]
          /\ \A s \in Station : /\ node'[s].Master_State = node[s].Master_State
                                /\ node'[s].Received = node[s].Received
      <4>1. node \in [Station -> NodeType]
        BY DEF Inv
      <4> QED
        BY <1>11, <4>1 DEF Elapse, NodeType
    <3>2. Silent'
      BY <2>1, <3>1 DEF Silent
    <3>3. turn = None
      BY <1>11 DEF Elapse
    <3>4. Tidy'
      BY <1>2, <2>1, <3>1, <3>2, <3>3 DEF Tidy, Handling, Asleep, Silent
    <3> QED
      BY <3>2, <3>4 DEF Orderly
  <2>2. ASSUME NEW a \in up, Leads(a) PROVE Orderly'
    BY <1>2, <1>11, <2>2, Elapsing DEF Orderly, Elapse
  <2> QED
    BY <1>2, <2>1, <2>2
<1>12. CASE UNCHANGED vars
  <2>1. UNCHANGED <<node, inbox, air, turn, left, up>>
    BY <1>12 DEF vars, nodeVars
  <2>2. Tidy'
    BY <1>2, <2>1 DEF Tidy, Handling, Asleep
  <2>3. Silent => Silent'
    BY <2>1 DEF Silent
  <2>4. \A a \in up : Leads(a) => Leads(a)'
    BY <2>1 DEF Leads, Speaks, Pending, Asked, Waits, InTime, CallsDue, Listens,
       WillSend, Heard, ToHear, OnTheLine
  <2> QED
    BY <1>2, <2>1, <2>2, <2>3, <2>4 DEF Orderly
<1> QED
  BY <1>4, <1>5, <1>6, <1>7, <1>8, <1>9, <1>10, <1>11, <1>12 DEF RingNext

(* Nothing happened if the counts add up to nothing.                       *)
LEMMA SumZero ==
  ASSUME faults \in Nat, collisions \in Nat, offs \in Nat, faults + collisions + offs = 0
  PROVE  Quiet
<1>1. \A i, j, k \in Nat : i + j + k = 0 => i = 0 /\ j = 0 /\ k = 0
  OBVIOUS
<1> QED
  BY <1>1 DEF Quiet

(* Who speaks is the only one; on a line with a station of another kind    *)
(* there is only one of this kind.                                         *)
LEMMA OneSpeaks ==
  ASSUME OwnLines, Inv, OrderInv
  PROVE  OneHolderUnlessDisturbed
<1>1. ASSUME NEW a, Holder \subseteq {a} PROVE OneHolder
  <2>1. Holder = {} \/ Holder = {a}
    BY <1>1
  <2>2. Cardinality(Holder) = 0 \/ Cardinality(Holder) = 1
    BY <2>1, FS_EmptySet, FS_Singleton
  <2> QED
    BY <2>2 DEF OneHolder
<1> SUFFICES ASSUME faults + collisions + offs = 0, ~late PROVE OneHolder
  BY DEF OneHolderUnlessDisturbed
<1>4. Undisturbed
  <2>1. late = FALSE
    BY DEF OrderInv
  <2> QED
    BY <2>1, SumZero DEF OrderInv, Undisturbed
<1>2. CASE line.MaxForeign = 0
  <2>1. CASE Silent
    <3>1. Holder \subseteq {None}
      BY <2>1 DEF Holder, Silent
    <3> QED
      BY <1>1, <3>1
  <2>2. ASSUME NEW a \in up, Leads(a) PROVE OneHolder
    <3>1. Holder \subseteq {a}
      BY <2>2 DEF Holder, Leads, Listens
    <3> QED
      BY <1>1, <3>1
  <2> QED
    BY <1>2, <1>4, <2>1, <2>2 DEF OrderInv, Orderly
<1>3. CASE \A s, r \in line.stations : s = r
  <2>1. Holder \subseteq line.stations
    BY DEF Holder, OrderInv, Inv
  <2>2. PICK a : Holder \subseteq {a}
    <3>1. CASE Holder = {}
      BY <3>1
    <3>2. ASSUME NEW s \in Holder PROVE Holder \subseteq {s}
      BY <1>3, <2>1
    <3> QED
      BY <3>1, <3>2
  <2> QED
    BY <1>1, <2>2
<1> QED
  BY <1>2, <1>3 DEF OwnLines, Inv

(* Two stations never think they hold the token unless a frame was lost,    *)
(* broken, in collision or too late to be waited for or a station went off, *)
(* whatever the stations and the timing: provided that stations of two kinds*)
(* are not mixed (OwnLines), and that the usage timeout ends before a       *)
(* station that hears nothing makes a token of its own. One station leads,  *)
(* what is asked is asked by it, and who has nothing to hear has a silence  *)
(* timer no later than its own.                                             *)
THEOREM OneTokenHolder ==
  ASSUME StandardMasters, OwnLines, Tusage_timeout + 1 < Tno_token
  PROVE  RingSpec => []OneHolderUnlessDisturbed
<1>1. RingInit => OrderInv
  BY OrderInit
<1>2. Inv /\ OrderInv /\ [RingNext]_vars => OrderInv'
  BY OrderStep
<1>3. Inv /\ OrderInv => OneHolderUnlessDisturbed
  BY OneSpeaks
<1>4. RingSpec => []Inv
  BY Invariance
<1> QED
  BY <1>1, <1>2, <1>3, <1>4, PTL DEF RingSpec
-----------------------------------------------------------------------------
(* Two stations.                                                           *)

(* A frame of another station is on its way; another has its call to make.  *)
Coming(s) == IF \E f \in air : f.src # s THEN 1 ELSE 0
MaySend(s) == IF left \ {s} # {} THEN 1 ELSE 0

(* What waits for a station, and what may yet be sent before it takes some. *)
Queued ==
  \A s \in line.stations : Len(inbox[s]) + Coming(s) + MaySend(s) <= 1 + CallsDue(s)

PairInv == Two /\ Quiet => late = FALSE /\ Queued

LEMMA PairInit == RingInit => PairInv
<1> SUFFICES ASSUME RingInit PROVE late = FALSE /\ Queued
  BY DEF PairInv
<1>1. late = FALSE /\ air = {} /\ left = {} /\ line \in Lines
      /\ \A s \in Station : inbox[s] = << >>
  BY DEF RingInit, Init
<1>2. line.stations \subseteq Station
  BY <1>1, RingAssumption
<1>3. ASSUME NEW s \in line.stations
      PROVE  Len(inbox[s]) = 0 /\ Coming(s) = 0 /\ MaySend(s) = 0 /\ CallsDue(s) = 0
  BY <1>1, <1>2, <1>3 DEF Coming, MaySend, CallsDue
<1> QED
  BY <1>1, <1>3 DEF Queued

(* In its call a station takes a frame, if there is one, before it sends;   *)
(* if there is none, at most the one that the other has sent will come.     *)
LEMMA PairTakes ==
  ASSUME Inv, Tidy, Queued, NEW a, NEW b, line.stations \subseteq {a, b},
         NEW s \in Station, dlmstp_receive(s), line' = line
  PROVE  Queued'
<1>1. /\ turn = None /\ s \in left /\ turn' = s /\ UNCHANGED <<air, left>>
      /\ s \in up /\ up \subseteq line.stations /\ left \subseteq up
      /\ line.stations \subseteq Station
  BY RingAssumption DEF dlmstp_receive, Inv
<1>2. \A r \in Station : Coming(r)' = Coming(r) /\ MaySend(r)' = MaySend(r)
  BY <1>1 DEF Coming, MaySend
<1>3. node[s].Received = NoFrame
  BY <1>1, Numbers DEF Tidy, Handling
<1>4. ASSUME NEW r \in line.stations, r # s
      PROVE  inbox'[r] = inbox[r] /\ CallsDue(r)' = CallsDue(r)
  <2>1. inbox'[r] = inbox[r]
    BY <1>1, <1>4 DEF dlmstp_receive, Inv
  <2>2. turn # r /\ turn' # r
    BY <1>1, <1>4, Numbers
  <2> QED
    BY <1>1, <2>1, <2>2 DEF CallsDue
<1>5. CallsDue(s) = 1 /\ CallsDue(s)' = 0
  BY <1>1, Numbers DEF CallsDue
<1>6. Len(inbox'[s]) + Coming(s) + MaySend(s) <= 1
  <2>1. /\ inbox[s] \in Seq(OwnFrames) /\ Coming(s) \in {0, 1} /\ MaySend(s) \in {0, 1}
        /\ Len(inbox[s]) + Coming(s) + MaySend(s) <= 1 + CallsDue(s)
    BY <1>1 DEF Tidy, Coming, MaySend, Queued
  <2>2. CASE inbox[s] # << >>
    <3>1. inbox'[s] = Tail(inbox[s])
      BY <1>3, <2>2 DEF dlmstp_receive, Inv
    <3>2. Len(inbox[s]) \in Nat /\ Len(inbox'[s]) = Len(inbox[s]) - 1
      BY <2>1, <2>2, <3>1, Places
    <3> QED
      BY <1>5, <2>1, <3>2
  <2>3. CASE inbox[s] = << >>
    <3>1. inbox'[s] = << >>
      BY <1>3, <2>3 DEF dlmstp_receive
    <3>2. Len(inbox'[s]) = 0
      BY <3>1
    <3>3. Coming(s) = 0 \/ MaySend(s) = 0
      <4>1. ASSUME NEW f \in air, f.src # s PROVE left \ {s} = {}
        <5>1. f.src \in line.stations /\ f.src \notin left
          BY <1>1 DEF Tidy
        <5> QED
          BY <1>1, <4>1, <5>1
      <4> QED
        BY <4>1 DEF Coming, MaySend
    <3> QED
      BY <2>1, <3>2, <3>3
  <2> QED
    BY <2>2, <2>3
<1>7. ASSUME NEW r \in line.stations
      PROVE  Len(inbox'[r]) + Coming(r)' + MaySend(r)' <= 1 + CallsDue(r)'
  <2>1. CASE r = s
    BY <1>1, <1>2, <1>5, <1>6, <2>1
  <2>2. CASE r # s
    BY <1>1, <1>2, <1>4, <2>2 DEF Queued
  <2> QED
    BY <2>1, <2>2
<1> QED
  BY <1>7 DEF Queued

(* What it sends ends its call: the other station has now one frame to come *)
(* and nobody who could send it another.                                    *)
LEMMA PairSends ==
  ASSUME Inv, Tidy, Queued, NEW a, NEW b, line.stations \subseteq {a, b},
         NEW s \in Station, MSTP_Master_Node_FSM(s), line' = line
  PROVE  Queued'
<1>1. /\ turn = s /\ s \in left /\ s \in up /\ up \subseteq line.stations /\ left \subseteq up
      /\ line.stations \subseteq Station
  BY ItsTurn, Numbers, RingAssumption DEF Tidy, Inv
<1>2. /\ inbox' = inbox
      /\ UNCHANGED <<turn, left>> \/ (turn' = None /\ left' = left \ {s})
      /\ \/ air' = air
         \/ /\ turn' = None /\ left' = left \ {s}
            /\ \E f \in ProperFrames : f.src = s /\ air' = air \cup {f}
  BY NodeSends
<1>3. ASSUME NEW r \in line.stations
      PROVE  /\ Len(inbox[r]) \in Nat /\ CallsDue(r)' = CallsDue(r) /\ CallsDue(r) \in {0, 1}
             /\ Coming(r) \in {0, 1} /\ MaySend(r) \in {0, 1}
             /\ Len(inbox[r]) + Coming(r) + MaySend(r) <= 1 + CallsDue(r)
  <2>1. inbox[r] \in Seq(OwnFrames)
    BY <1>1 DEF Tidy
  <2>2. CallsDue(r)' = CallsDue(r)
    BY <1>1, <1>2, Numbers DEF CallsDue
  <2> QED
    BY <2>1, <2>2, Places DEF CallsDue, Coming, MaySend, Queued
<1>4. ASSUME NEW r \in line.stations
      PROVE  /\ Coming(r)' \in {0, 1} /\ MaySend(r)' \in {0, 1}
             /\ Coming(r)' + MaySend(r)' <= Coming(r) + MaySend(r)
  <2>1. Coming(r)' \in {0, 1} /\ MaySend(r)' \in {0, 1}
    BY DEF Coming, MaySend
  <2>2. MaySend(r)' <= MaySend(r)
    BY <1>2 DEF MaySend
  <2>3. CASE Coming(r)' = Coming(r)
    BY <1>3, <2>1, <2>2, <2>3
  <2>4. CASE Coming(r)' # Coming(r)
    <3>1. PICK f : f.src = s /\ air' = air \cup {f} /\ left' = left \ {s}
      BY <1>2, <2>4 DEF Coming
    <3>2. r # s
      BY <2>4, <3>1 DEF Coming
    <3>3. left \ {r} # {} /\ left' \ {r} = {}
      BY <1>1, <3>1, <3>2
    <3>4. MaySend(r) = 1 /\ MaySend(r)' = 0
      BY <3>3 DEF MaySend
    <3> QED
      BY <1>3, <2>1, <3>4
  <2> QED
    BY <2>1, <2>3, <2>4
<1>5. ASSUME NEW r \in line.stations
      PROVE  Len(inbox'[r]) + Coming(r)' + MaySend(r)' <= 1 + CallsDue(r)'
  BY <1>2, <1>3, <1>4
<1> QED
  BY <1>5 DEF Queued

(* A frame that is heard is no longer to come.                              *)
LEMMA PairHears ==
  ASSUME Inv, Tidy, Queued, Deliver, line' = line, 0 < Tusage_timeout
  PROVE  Queued' /\ ~ComesLate'
<1> DEFINE f == CHOOSE g \in air : TRUE
<1>1. /\ air' = {} /\ UNCHANGED <<turn, left, up>>
      /\ up \subseteq line.stations /\ line.stations \subseteq Station
      /\ inbox' = [s \in Station |-> IF s \in Hearing THEN Put(s, f) ELSE inbox[s]]
  BY RingAssumption DEF Deliver, Inv
<1>2. f \in air
  <2>1. air # {}
    BY FS_EmptySet DEF Deliver
  <2> QED
    BY <2>1
<1> HIDE DEF f
<1>3. ASSUME NEW s \in Station
      PROVE  /\ Len(inbox[s]) \in Nat /\ Len(inbox'[s]) \in Nat
             /\ Len(inbox'[s]) + Coming(s)' <= Len(inbox[s]) + Coming(s)
             /\ s \notin up => inbox'[s] = inbox[s]
  <2>1. inbox[s] \in Seq(OwnFrames) /\ f \in OwnFrames /\ Coming(s)' = 0 /\ Coming(s) \in {0, 1}
    BY <1>1, <1>2 DEF Tidy, Coming
  <2>2. Len(inbox[s]) \in Nat
    BY <2>1, Places
  <2>3. CASE s \in Hearing
    <3>1. f.src # s /\ s \in up
      BY <1>2, <2>3 DEF Hearing, Senders
    <3>2. Coming(s) = 1
      BY <1>2, <3>1 DEF Coming
    <3>3. inbox'[s] \in {inbox[s], Append(inbox[s], f)}
      BY <1>1, <2>3 DEF Put
    <3>4. Len(inbox'[s]) \in {Len(inbox[s]), Len(inbox[s]) + 1}
      BY <2>1, <3>3, Queues
    <3> QED
      BY <2>1, <2>2, <3>1, <3>2, <3>4
  <2>4. CASE s \notin Hearing
    <3>1. inbox'[s] = inbox[s]
      BY <1>1, <2>4
    <3> QED
      BY <2>1, <2>2, <3>1
  <2> QED
    BY <2>3, <2>4
<1>4. ASSUME NEW s \in line.stations
      PROVE  Len(inbox'[s]) + Coming(s)' + MaySend(s)' <= 1 + CallsDue(s)'
  <2>1. MaySend(s)' = MaySend(s) /\ CallsDue(s)' = CallsDue(s)
    BY <1>1 DEF MaySend, CallsDue
  <2>2. /\ MaySend(s) \in {0, 1} /\ CallsDue(s) \in {0, 1}
        /\ Coming(s) \in {0, 1} /\ Coming(s)' \in {0, 1}
        /\ Len(inbox[s]) + Coming(s) + MaySend(s) <= 1 + CallsDue(s)
    BY DEF Queued, MaySend, CallsDue, Coming
  <2> QED
    BY <1>1, <1>3, <2>1, <2>2
<1>5. ASSUME NEW s \in Station, NEW i \in 1 .. Len(inbox'[s])
      PROVE  ~(i > Tusage_timeout + CallsDue(s)')
  <2>1. s \in line.stations
    <3>1. CASE s \notin up
      <4>1. inbox'[s] = << >>
        BY <1>3, <3>1 DEF Tidy, Asleep
      <4> QED
        BY <1>5, <4>1
    <3> QED
      BY <1>1, <3>1
  <2>2. /\ Len(inbox'[s]) \in Nat /\ i \in Nat /\ i <= Len(inbox'[s])
        /\ Len(inbox'[s]) + Coming(s)' + MaySend(s)' <= 1 + CallsDue(s)'
    BY <1>3, <1>4, <2>1
  <2>3. MaySend(s)' \in {0, 1} /\ CallsDue(s)' \in {0, 1} /\ Coming(s)' \in {0, 1}
    BY DEF MaySend, CallsDue, Coming
  <2> QED
    BY <2>2, <2>3, Numbers
<1> QED
  BY <1>4, <1>5 DEF Queued, ComesLate

(* Every step of a pair, as long as it is quiet.                            *)
LEMMA PairStep ==
  ASSUME OwnLines, 0 < Tusage_timeout, Inv, OrderInv, PairInv, [RingNext]_vars
  PROVE  PairInv'
<1>1. /\ line' = line /\ faults' \in Nat /\ collisions' \in Nat /\ offs' \in Nat
      /\ late' \in BOOLEAN /\ (late' = FALSE => late = FALSE) /\ (Quiet' => Quiet)
  BY StepCounts
<1> SUFFICES ASSUME Two, Quiet' PROVE late' = FALSE /\ Queued'
  BY <1>1 DEF PairInv, Two
<1>2. /\ Quiet /\ late = FALSE /\ Queued /\ Tidy
      /\ air = {} \/ \E f : air = {f}
      /\ up \subseteq line.stations /\ line.stations \subseteq Station
  <2>1. Quiet /\ late = FALSE /\ Queued
    BY <1>1 DEF PairInv
  <2>2. Orderly
    BY <2>1 DEF OrderInv, Undisturbed, Two
  <2>3. air = {} \/ \E f : air = {f}
    BY <2>2 DEF Orderly, Silent, Leads, OnTheLine
  <2> QED
    BY <2>1, <2>2, <2>3, RingAssumption DEF Orderly, Inv
<1>3. PICK a, b : line.stations \subseteq {a, b}
  BY DEF Two
<1>4. ASSUME NEW s \in Station, Step(s) PROVE late' = FALSE /\ Queued'
  <2>1. NodeStep(s) /\ late' = late
    BY <1>4 DEF Step
  <2>2. CASE dlmstp_receive(s)
    BY <1>1, <1>2, <1>3, <2>1, <2>2, PairTakes
  <2>3. CASE MSTP_Master_Node_FSM(s)
    BY <1>1, <1>2, <1>3, <2>1, <2>3, PairSends
  <2> QED
    BY <2>1, <2>2, <2>3 DEF NodeStep
<1>5. CASE Deliver
  <2>1. Queued' /\ ~ComesLate'
    BY <1>1, <1>2, <1>5, PairHears
  <2> QED
    BY <1>2, <1>5, <2>1 DEF Deliver
<1>6. CASE Elapse
  <2>1. /\ turn = None /\ left = {} /\ air = {} /\ left' = up
        /\ UNCHANGED <<inbox, air, turn, late>>
    BY <1>6 DEF Elapse
  <2>2. ASSUME NEW s \in line.stations
        PROVE  Len(inbox[s]) + Coming(s)' + MaySend(s)' <= 1 + CallsDue(s)'
    <3>1. /\ inbox[s] \in Seq(OwnFrames) /\ Coming(s)' = 0 /\ MaySend(s)' \in {0, 1}
          /\ Coming(s) = 0 /\ MaySend(s) = 0 /\ CallsDue(s) = 0
      BY <1>2, <2>1 DEF Tidy, Coming, MaySend, CallsDue
    <3>2. Len(inbox[s]) \in Nat /\ Len(inbox[s]) <= 1
      <4>1. Len(inbox[s]) \in Nat
        BY <3>1, Places
      <4>2. Len(inbox[s]) + Coming(s) + MaySend(s) <= 1 + CallsDue(s)
        BY <1>2 DEF Queued
      <4> QED
        BY <3>1, <4>1, <4>2
    <3>3. CASE s \in up
      <4>1. CallsDue(s)' = 1
        BY <1>2, <2>1, <3>3, Numbers DEF CallsDue
      <4> QED
        BY <3>1, <3>2, <4>1
    <3>4. CASE s \notin up
      <4>1. inbox[s] = << >> /\ CallsDue(s)' = 0
        BY <1>2, <2>1, <3>4 DEF Tidy, Asleep, CallsDue
      <4>2. Len(inbox[s]) = 0
        BY <4>1
      <4> QED
        BY <3>1, <4>1, <4>2
    <3> QED
      BY <3>3, <3>4
  <2> QED
    BY <1>1, <1>2, <2>1, <2>2 DEF Queued
<1>7. CASE (\E s \in Station : SwitchOn(s)) \/ UNCHANGED vars
  <2>1. UNCHANGED <<inbox, air, turn, left, late>>
    BY <1>7 DEF SwitchOn, vars, nodeVars
  <2>2. \A s : Coming(s)' = Coming(s) /\ MaySend(s)' = MaySend(s) /\ CallsDue(s)' = CallsDue(s)
    BY <2>1 DEF Coming, MaySend, CallsDue
  <2> QED
    BY <1>1, <1>2, <2>1, <2>2 DEF Queued
<1>8. ~Collide
  <2>1. Cardinality(air) = 0 \/ Cardinality(air) = 1
    BY <1>2, FS_EmptySet, FS_Singleton
  <2> QED
    BY <2>1 DEF Collide
<1>9. ~DeliverBadly /\ \A s \in Station : ~SwitchOff(s)
  BY <1>2 DEF DeliverBadly, SwitchOff, Quiet
<1>10. \A f \in ForeignFrames : ~Foreign(f)
  BY DEF Foreign, Two, Inv
<1> QED
  BY <1>4, <1>5, <1>6, <1>7, <1>8, <1>9, <1>10 DEF RingNext

(* On a line of two stations, undisturbed, no frame ever comes too late to  *)
(* be waited for, however fast the two are: each sends and takes at most    *)
(* one frame in a call, so that what waits for one, what is on its way to   *)
(* it and what the other may still send in these 5 ms are never more than   *)
(* one and the call it has still to make.                                   *)
THEOREM TwoAreInTime ==
  ASSUME StandardMasters, OwnLines, 0 < Tusage_timeout, Tusage_timeout + 1 < Tno_token
  PROVE  RingSpec => []TwoInTime
<1>1. RingInit => OrderInv /\ PairInv
  BY OrderInit, PairInit
<1>2. Inv /\ OrderInv /\ PairInv /\ [RingNext]_vars => OrderInv' /\ PairInv'
  BY OrderStep, PairStep
<1>3. Inv /\ OrderInv /\ PairInv => TwoInTime
  <2> SUFFICES ASSUME OrderInv, PairInv, Two, faults + collisions + offs = 0 PROVE ~late
    BY DEF TwoInTime
  <2>1. Quiet
    BY SumZero DEF OrderInv
  <2> QED
    BY <2>1 DEF PairInv
<1>4. RingSpec => []Inv
  BY Invariance
<1> QED
  BY <1>1, <1>2, <1>3, <1>4, PTL DEF RingSpec

(* So two stations alone on a line never both think they hold the token     *)
(* unless a frame was lost, broken or in collision or one of them went off. *)
THEOREM OneTokenHolderOfTwo ==
  ASSUME StandardMasters, OwnLines, 0 < Tusage_timeout, Tusage_timeout + 1 < Tno_token
  PROVE  RingSpec => [](Two /\ faults + collisions + offs = 0 => OneHolder)
<1>1. OneHolderUnlessDisturbed /\ TwoInTime =>
        (Two /\ faults + collisions + offs = 0 => OneHolder)
  BY DEF OneHolderUnlessDisturbed, TwoInTime
<1> QED
  BY <1>1, OneTokenHolder, TwoAreInTime, PTL
=============================================================================
