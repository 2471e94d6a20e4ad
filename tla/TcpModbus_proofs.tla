-------------------------- MODULE TcpModbus_proofs --------------------------
(***************************************************************************)
(* Proofs about the Modbus TCP server: types, that nobody takes the reply  *)
(* to another (OwnReply), and that who waits for each reply takes the one  *)
(* to its last request (WholeReply).                                       *)
(***************************************************************************)
EXTENDS TcpModbus, SequenceTheorems, WellFoundedInduction, TLAPS

-----------------------------------------------------------------------------
(* Types.                                                                  *)
Peers == Client \cup {Nobody}
Kinds == {"syn", "fin", "rst", "data"}
Troubles == {"other unit", "asked again", "lost reply"}

Requests == [unit : Units, number : Nat, len : Lengths]
Replies == [client : Peers, number : Nat, len : Lengths \cup {0}]

ToServer ==
  {m \in [kind : Kinds, seq : Nat, ack : Nat, len : {0, 1}, data : Requests \cup Replies] :
     NewData(m) => m.data \in Requests}
ToClient == [kind : Kinds, seq : Nat, ack : Nat, len : Lengths \cup {0, 1}, data : Replies]

Connections ==
  [state : {"closed", "syn_rcvd", "established", "last_ack"}, peer : Peers,
   snd_nxt : Nat, rcv_nxt : Nat, len : Lengths \cup {0, 1}, textlen : Lengths \cup {0}]
Clients ==
  [state : {"closed", "syn_sent", "established", "fin_wait"}, snd : Nat, rcv : Nat,
   unacked : SUBSET ToServer, waits : BOOLEAN, number : Nat]

ServerTypes ==
  /\ conn \in [Slot -> Connections] /\ tcp_server_sendbuf \in Replies
  /\ upset \subseteq Troubles
NetTypes ==
  /\ toServer \in [Client -> Seq(ToServer)] /\ toClient \in [Client -> Seq(ToClient)]
ClientTypes ==
  /\ client \in [Client -> Clients] /\ got \in [Client -> [reply : Replies, len : Nat]]
  /\ asked \in Nat /\ connects \in Nat /\ faults \in Nat

TcpTypes == ServerTypes /\ NetTypes /\ ClientTypes

-----------------------------------------------------------------------------
(* What is on its way to c, and what it took, is its own.                  *)
Own(c) == {m \in ToClient : m.data.client \in {c, Nobody}}
OwnInv ==
  "other unit" \notin upset =>
    \A c \in Client : toClient[c] \in Seq(Own(c)) /\ got[c].reply.client \in {c, Nobody}

-----------------------------------------------------------------------------
(* A client and its connection, as long as nothing is upset.               *)
Syn == Segment("syn", 0, 0, 1, NoReply)
SynAck == Segment("syn", 0, 1, 1, NoReply)
IsAck(m) == m.kind = "data" /\ m.len = 0
IsRequest(r, m) ==
  m.kind = "data" /\ m.len = 1 /\ m.seq + 1 = r.snd /\ m.data.number = r.number

(* r is the client, k its connection, in and out what is on its way to the
   server and to the client. *)
Idle(r, k, in, out) ==
  /\ ~r.waits /\ r.unacked = {} /\ out = << >>
  /\ \A i \in 1 .. Len(in) : IsAck(in[i])
  /\ k.rcv_nxt = r.snd /\ k.snd_nxt + k.len = r.rcv
Waiting(r, k, in, out) ==       \* for its request to arrive, or to be repeated
  /\ r.waits /\ out = << >>
  /\ \A u \in r.unacked : IsRequest(r, u)
  /\ \A i \in 1 .. Len(in) :
       IsAck(in[i]) \/ (i = Len(in) /\ IsRequest(r, in[i]) /\ in[i].ack = r.rcv)
  /\ k.rcv_nxt + 1 = r.snd /\ k.snd_nxt + k.len = r.rcv
Answered(r, k, in, out) ==
  /\ r.waits /\ in = << >> /\ Len(out) = 1
  /\ \A u \in r.unacked : u.seq + 1 = r.snd
  /\ LET m == out[1]
     IN /\ m.kind = "data" /\ m.len > 0 /\ m.seq = r.rcv /\ m.ack = r.snd
        /\ m.len = m.data.len /\ m.data.number = r.number
        /\ k.snd_nxt = m.seq /\ k.len = m.len
  /\ k.rcv_nxt = r.snd

Talking(r, k, in, out) ==
  /\ k.state \in {"syn_rcvd", "established"}
  /\ Idle(r, k, in, out) \/ Waiting(r, k, in, out) \/ Answered(r, k, in, out)

Calling(c) ==
  /\ client[c] = [Away EXCEPT !.state = "syn_sent", !.snd = 1, !.unacked = {Syn}]
  /\ got[c] = Nothing
  /\ \/ /\ \A s \in Slot : ~Found(c, s)
        /\ toServer[c] \in {<< >>, <<Syn>>} /\ toClient[c] = << >>
     \/ /\ \E s \in Slot : /\ Found(c, s) /\ conn[s].state = "syn_rcvd"
                           /\ conn[s].snd_nxt = 0 /\ conn[s].rcv_nxt = 1 /\ conn[s].len = 1
        /\ toServer[c] = << >> /\ toClient[c] = <<SynAck>>

Whole(c) ==
  /\ got[c].len = got[c].reply.len
  /\ client[c].state = "syn_sent" => Calling(c)
  /\ client[c].state = "established" =>
       \E s \in Slot : Found(c, s) /\ Talking(client[c], conn[s], toServer[c], toClient[c])
  /\ client[c].state = "established" /\ ~client[c].waits /\ got[c].reply.client = c =>
       got[c].reply.number = client[c].number

OneEach == \A c \in Client : \A s, t \in Slot : Found(c, s) /\ Found(c, t) => s = t
WholeInv == OneEach /\ (upset = {} => \A c \in Client : Whole(c))

-----------------------------------------------------------------------------
(* What the server does with a segment of c, whatever the path.            *)
Flag(k, m) ==
  IF ~Acks(k, m) THEN "none" ELSE IF Acked(k, m).state = "syn_rcvd" THEN "connected" ELSE "acked"
Entered(k, m) ==
  [Acked(k, m) EXCEPT !.state = "established",
                      !.rcv_nxt = IF NewData(m) THEN @ + m.len ELSE @]
After(k, m) == AppSend(tcp_server_appcall(Entered(k, m), Flag(k, m), m))

LEMMA Positive == Lengths \subseteq Nat \ {0} /\ Nobody \notin Client
BY TcpAssumption

LEMMA LengthIs ==
  /\ \A n \in Lengths \cup {0, 1} : n \in Nat
  /\ \A n \in Lengths : n \in Nat /\ n > 0
<1>1. ASSUME NEW n \in Lengths PROVE n \in Nat /\ n > 0
  <2>1. n \in Nat /\ n # 0
    BY Positive
  <2> QED BY <2>1
<1>2. \A n \in {0, 1} : n \in Nat
  OBVIOUS
<1> QED BY <1>1, <1>2

LEMMA Constants ==
  /\ NoReply \in Replies /\ NoReply.client = Nobody
  /\ Closed \in Connections /\ Away \in Clients /\ Syn \in ToServer /\ SynAck \in ToClient
BY Positive DEF NoReply, Replies, Closed, Connections, Away, Clients, Syn, SynAck, Segment,
   ToServer, ToClient, Kinds, Peers, NewData

LEMMA SegmentFields ==
  ASSUME NEW kind, NEW seq, NEW ack, NEW len, NEW data
  PROVE  LET m == Segment(kind, seq, ack, len, data)
         IN m.kind = kind /\ m.seq = seq /\ m.ack = ack /\ m.len = len /\ m.data = data
BY DEF Segment

LEMMA AckedIs ==
  ASSUME NEW k \in Connections, NEW m \in ToServer
  PROVE  /\ Acked(k, m) \in Connections
         /\ Acked(k, m).state = k.state /\ Acked(k, m).peer = k.peer
         /\ Acked(k, m).rcv_nxt = k.rcv_nxt /\ Acked(k, m).textlen = k.textlen
         /\ Acks(k, m) => Acked(k, m).snd_nxt = m.ack /\ Acked(k, m).len = 0
         /\ ~Acks(k, m) => Acked(k, m).snd_nxt = k.snd_nxt /\ Acked(k, m).len = k.len
BY DEF Acked, Connections, ToServer

LEMMA EnteredIs ==
  ASSUME NEW k \in Connections, NEW m \in ToServer
  PROVE  LET e == Entered(k, m)
         IN /\ e \in Connections /\ e.state = "established" /\ e.peer = k.peer
            /\ e.rcv_nxt = IF NewData(m) THEN k.rcv_nxt + m.len ELSE k.rcv_nxt
            /\ e.snd_nxt = Acked(k, m).snd_nxt /\ e.len = Acked(k, m).len
<1>1. Acked(k, m) \in Connections /\ Acked(k, m).peer = k.peer /\ Acked(k, m).rcv_nxt = k.rcv_nxt
  BY AckedIs
<1>2. m.len \in Nat
  BY DEF ToServer
<1> DEFINE a == Acked(k, m)   n == IF NewData(m) THEN a.rcv_nxt + m.len ELSE a.rcv_nxt
<1>3. Entered(k, m) = [a EXCEPT !.state = "established", !.rcv_nxt = n]
  BY DEF Entered
<1>4. n \in Nat /\ n = IF NewData(m) THEN k.rcv_nxt + m.len ELSE k.rcv_nxt
  BY <1>1, <1>2 DEF Connections
<1> HIDE DEF a, n
<1>5. a \in Connections
  BY <1>1 DEF a
<1>6. LET e == [a EXCEPT !.state = "established", !.rcv_nxt = n]
      IN /\ e \in Connections /\ e.state = "established" /\ e.peer = a.peer
         /\ e.rcv_nxt = n /\ e.snd_nxt = a.snd_nxt /\ e.len = a.len
  BY <1>4, <1>5 DEF Connections
<1> QED BY <1>1, <1>3, <1>4, <1>6 DEF a

(* The application sets the length of the reply, and nothing else.         *)
LEMMA AppcallIs ==
  ASSUME NEW e \in Connections, NEW flag, NEW m \in ToServer
  PROVE  LET a == tcp_server_appcall(e, flag, m)
         IN /\ a \in Connections
            /\ a.state = e.state /\ a.peer = e.peer /\ a.rcv_nxt = e.rcv_nxt
            /\ a.snd_nxt = e.snd_nxt /\ a.len = e.len
            /\ ForUs(m) => a.textlen = m.data.len /\ m.data.len \in Lengths
            /\ ~ForUs(m) /\ flag \in {"connected", "acked"} => a.textlen = 0
<1>1. ForUs(m) => m.data.len \in Lengths
  BY DEF ForUs, ToServer, Requests
<1>2. CASE ForUs(m)
  BY <1>1, <1>2 DEF tcp_server_appcall, tcp_server_connected, tcp_server_acked, Connections
<1>3. CASE ~ForUs(m)
  BY <1>3 DEF tcp_server_appcall, tcp_server_connected, tcp_server_acked, Connections
<1> QED BY <1>2, <1>3

LEMMA AfterIs ==
  ASSUME NEW k \in Connections, NEW m \in ToServer
  PROVE  LET a == After(k, m)
         IN /\ a \in Connections /\ a.state = "established" /\ a.peer = k.peer
            /\ a.rcv_nxt = IF NewData(m) THEN k.rcv_nxt + m.len ELSE k.rcv_nxt
            /\ a.snd_nxt = Acked(k, m).snd_nxt
            /\ ForUs(m) => /\ a.textlen = m.data.len /\ m.data.len \in Lengths
                           /\ Acked(k, m).len = 0 => a.len = m.data.len
            /\ ~ForUs(m) /\ Acks(k, m) => a.textlen = 0 /\ a.len = 0
<1> DEFINE e == Entered(k, m)   f == tcp_server_appcall(e, Flag(k, m), m)
<1>1. /\ e \in Connections /\ e.state = "established" /\ e.peer = k.peer
      /\ e.rcv_nxt = IF NewData(m) THEN k.rcv_nxt + m.len ELSE k.rcv_nxt
      /\ e.snd_nxt = Acked(k, m).snd_nxt /\ e.len = Acked(k, m).len
  BY EnteredIs
<1>2. Acks(k, m) => Flag(k, m) \in {"connected", "acked"}
  BY DEF Flag
<1> HIDE DEF e
<1>3. /\ f \in Connections
      /\ f.state = e.state /\ f.peer = e.peer /\ f.rcv_nxt = e.rcv_nxt
      /\ f.snd_nxt = e.snd_nxt /\ f.len = e.len
      /\ ForUs(m) => f.textlen = m.data.len /\ m.data.len \in Lengths
      /\ ~ForUs(m) /\ Flag(k, m) \in {"connected", "acked"} => f.textlen = 0
  BY <1>1, AppcallIs
<1>4. After(k, m) = AppSend(f)
  BY DEF After, e
<1> HIDE DEF f
<1>5. /\ AppSend(f) \in Connections
      /\ AppSend(f).state = f.state /\ AppSend(f).peer = f.peer
      /\ AppSend(f).rcv_nxt = f.rcv_nxt /\ AppSend(f).snd_nxt = f.snd_nxt
      /\ AppSend(f).textlen = f.textlen
      /\ AppSend(f).len = IF f.textlen > 0 /\ f.len = 0 THEN f.textlen ELSE f.len
  BY <1>3 DEF AppSend, Connections
<1>6. Acks(k, m) => Acked(k, m).len = 0
  BY AckedIs
<1>7. ForUs(m) => m.data.len \in Nat /\ m.data.len > 0
  <2>1. SUFFICES ASSUME m.data.len \in Lengths PROVE m.data.len \in Nat /\ m.data.len > 0
    BY <1>3
  <2>2. m.data.len \in Nat \ {0}
    BY <2>1, Positive
  <2> QED BY <2>2
<1>8. ForUs(m) /\ Acked(k, m).len = 0 => After(k, m).len = m.data.len
  BY <1>1, <1>3, <1>4, <1>5, <1>7
<1>9. ~ForUs(m) /\ Acks(k, m) => After(k, m).textlen = 0 /\ After(k, m).len = 0
  BY <1>1, <1>2, <1>3, <1>4, <1>5, <1>6
<1> QED BY <1>1, <1>3, <1>4, <1>5, <1>8, <1>9

LEMMA EstablishedIs ==
  ASSUME NEW c, NEW s, NEW m, Established(c, s, m)
  PROVE  /\ Found(c, s) /\ InOrder(conn[s], m)
         /\ \/ conn[s].state = "established" /\ m.kind = "data"
            \/ conn[s].state = "syn_rcvd" /\ Acks(conn[s], m)
         /\ upset' = upset \cup (IF NewData(m) /\ ~ForUs(m) THEN {"other unit"} ELSE {})
         /\ \/ /\ ~Acks(conn[s], m) /\ ~NewData(m)
               /\ Reply(c, << >>) /\ UNCHANGED <<conn, tcp_server_sendbuf>>
            \/ /\ Acks(conn[s], m) \/ NewData(m)
               /\ conn' = [conn EXCEPT ![s] = After(conn[s], m)]
               /\ tcp_server_sendbuf' = IF ForUs(m) THEN responseCmd(c, m) ELSE tcp_server_sendbuf
               /\ LET out == After(conn[s], m)
                  IN Reply(c, IF out.textlen > 0
                              THEN <<Segment("data", out.snd_nxt, out.rcv_nxt, out.len, tcp_server_sendbuf')>>
                              ELSE IF NewData(m) THEN Ack(out) ELSE << >>)
<1>1. Established(c, s, m) <=>
        /\ Found(c, s) /\ InOrder(conn[s], m)
        /\ \/ conn[s].state = "established" /\ m.kind = "data"
           \/ conn[s].state = "syn_rcvd" /\ Flag(conn[s], m) = "connected"
        /\ IF Flag(conn[s], m) = "none" /\ ~NewData(m)
           THEN Reply(c, << >>) /\ UNCHANGED <<conn, tcp_server_sendbuf>>
           ELSE /\ conn' = [conn EXCEPT ![s] = After(conn[s], m)]
                /\ tcp_server_sendbuf' = IF ForUs(m) THEN responseCmd(c, m) ELSE tcp_server_sendbuf
                /\ LET out == After(conn[s], m)
                       buf == IF ForUs(m) THEN responseCmd(c, m) ELSE tcp_server_sendbuf
                   IN Reply(c, IF out.textlen > 0
                               THEN <<Segment("data", out.snd_nxt, out.rcv_nxt, out.len, buf)>>
                               ELSE IF NewData(m) THEN Ack(out) ELSE << >>)
        /\ upset' = upset \cup (IF NewData(m) /\ ~ForUs(m) THEN {"other unit"} ELSE {})
  BY DEF Established, Flag, After, Entered, Acked
<1>2. Flag(conn[s], m) = "none" <=> ~Acks(conn[s], m)
  BY DEF Flag
<1>3. Flag(conn[s], m) = "connected" => Acks(conn[s], m)
  BY DEF Flag
<1>4. CASE Acks(conn[s], m) \/ NewData(m)
  BY <1>1, <1>2, <1>3, <1>4
<1>5. CASE ~Acks(conn[s], m) /\ ~NewData(m)
  BY <1>1, <1>2, <1>3, <1>5
<1> QED BY <1>4, <1>5

-----------------------------------------------------------------------------
(* One segment of c: its types, to whom it belongs, whom it leaves alone.  *)
Elsewhere(c) == \A d \in Client \ {c}, s \in Slot :
  (Found(d, s)' <=> Found(d, s)) /\ (Found(d, s) => conn'[s] = conn[s])
Sends(c, segments) ==
  /\ segments \in Seq(ToClient) /\ Reply(c, segments)
  /\ "other unit" \notin upset' => segments \in Seq(Own(c))
Handles(c) ==
  /\ ServerTypes' /\ upset \subseteq upset'
  /\ \E segments : Sends(c, segments)
  /\ Elsewhere(c)

LEMMA Joined == ASSUME NEW S, NEW s \in Seq(S), NEW t \in Seq(S) PROVE s \o t \in Seq(S)
OBVIOUS

LEMMA Parts ==
  ASSUME NEW S, NEW s \in Seq(S), s # << >>
  PROVE  Head(s) \in S /\ Tail(s) \in Seq(S)
OBVIOUS

LEMMA Elements ==
  ASSUME NEW S, NEW s \in Seq(S), s # << >>
  PROVE  /\ Len(s) \in Nat \ {0} /\ Head(s) = s[1] /\ Head(s) \in S
         /\ Len(Tail(s)) = Len(s) - 1
         /\ \A i \in 1 .. Len(Tail(s)) : Tail(s)[i] = s[i + 1] /\ i + 1 \in 1 .. Len(s)
         /\ \A i \in 1 .. Len(Tail(s)) : i + 1 = Len(s) => i = Len(Tail(s))
OBVIOUS

LEMMA Appended ==
  ASSUME NEW S, NEW s \in Seq(S), NEW e, NEW i \in 1 .. Len(Append(s, e))
  PROVE  \/ i \in 1 .. Len(s) /\ Append(s, e)[i] = s[i]
         \/ i = Len(Append(s, e)) /\ Append(s, e)[i] = e
OBVIOUS

LEMMA OneElement ==
  ASSUME NEW S, NEW s \in Seq(S), Len(s) = 1
  PROVE  s # << >> /\ s[1] \in S /\ Head(s) = s[1] /\ Tail(s) = << >>
<1>1. s # << >> /\ s[1] \in S
  <2>1. s # << >>
    OBVIOUS
  <2>2. s[1] \in S
    OBVIOUS
  <2> QED BY <2>1, <2>2
<1>2. Tail(s) \in Seq(S) /\ Len(Tail(s)) = 0 /\ Head(s) = s[1]
  BY <1>1
<1>3. Tail(s) = << >>
  BY <1>2, EmptySeq
<1> QED BY <1>1, <1>2, <1>3

LEMMA Empty == ASSUME NEW S PROVE << >> \in Seq(S)
OBVIOUS

LEMMA Singleton == ASSUME NEW S, NEW m \in S PROVE <<m>> \in Seq(S)
OBVIOUS

LEMMA NoSegments == ASSUME NEW c \in Client, Reply(c, << >>) PROVE \E segments : Sends(c, segments)
<1>1. << >> \in Seq(ToClient) /\ << >> \in Seq(Own(c))
  OBVIOUS
<1>2. Sends(c, << >>)
  BY <1>1 DEF Sends
<1> QED BY <1>2

LEMMA OneSegment ==
  ASSUME NEW c \in Client, NEW kind \in Kinds, NEW seq \in Nat, NEW ack \in Nat,
         NEW len \in Lengths \cup {0, 1}, NEW data \in Replies,
         "other unit" \notin upset' => data.client \in {c, Nobody},
         Reply(c, <<Segment(kind, seq, ack, len, data)>>)
  PROVE  \E segments : Sends(c, segments)
<1>1. Segment(kind, seq, ack, len, data) \in ToClient
  BY DEF Segment, ToClient
<1>2. "other unit" \notin upset' => Segment(kind, seq, ack, len, data) \in Own(c)
  BY <1>1 DEF Own, Segment
<1> DEFINE m == Segment(kind, seq, ack, len, data)
<1>0. m \in ToClient /\ ("other unit" \notin upset' => m \in Own(c))
  BY <1>1, <1>2
<1> HIDE DEF m
<1>3. <<m>> \in Seq(ToClient) /\ ("other unit" \notin upset' => <<m>> \in Seq(Own(c)))
  BY <1>0, Singleton
<1>4. Reply(c, <<m>>)
  BY DEF m
<1>5. Sends(c, <<m>>)
  BY <1>3, <1>4 DEF Sends
<1> QED BY <1>5

(* A step that changes one connection of c only, or takes a free one.      *)
LEMMA OneConnection ==
  ASSUME TcpTypes, NEW c \in Client, NEW s \in Slot, NEW k \in Connections,
         conn' = [conn EXCEPT ![s] = k],
         conn[s].state = "closed" \/ conn[s].peer = c, k.peer = c
  PROVE  conn' \in [Slot -> Connections] /\ Elsewhere(c)
<1>1. conn \in [Slot -> Connections]
  BY DEF TcpTypes, ServerTypes
<1>2. conn' \in [Slot -> Connections]
  BY <1>1
<1>3. ASSUME NEW d \in Client \ {c}, NEW t \in Slot
      PROVE  (Found(d, t)' <=> Found(d, t)) /\ (Found(d, t) => conn'[t] = conn[t])
  <2>1. CASE t = s
    <3>1. conn'[t] = k
      BY <1>1, <2>1
    <3>2. ~Found(d, t) /\ ~Found(d, t)'
      BY <2>1, <3>1 DEF Found
    <3> QED BY <3>2
  <2>2. CASE t # s
    BY <1>1, <2>2 DEF Found
  <2> QED BY <2>1, <2>2
<1> QED BY <1>2, <1>3 DEF Elsewhere

LEMMA SameConnections == ASSUME NEW c, UNCHANGED conn PROVE Elsewhere(c)
BY DEF Elsewhere, Found

LEMMA EstablishedHandles ==
  ASSUME TcpTypes, NEW c \in Client, NEW s \in Slot, NEW m \in ToServer, Established(c, s, m)
  PROVE  Handles(c)
<1> DEFINE k == conn[s]   a == After(k, m)
<1>0. k \in Connections /\ tcp_server_sendbuf \in Replies /\ upset \subseteq Troubles
  BY DEF TcpTypes, ServerTypes
<1>1. /\ Found(c, s) /\ InOrder(conn[s], m)
      /\ upset' = upset \cup (IF NewData(m) /\ ~ForUs(m) THEN {"other unit"} ELSE {})
      /\ \/ /\ ~Acks(k, m) /\ ~NewData(m)
            /\ Reply(c, << >>) /\ UNCHANGED <<conn, tcp_server_sendbuf>>
         \/ /\ Acks(k, m) \/ NewData(m)
            /\ conn' = [conn EXCEPT ![s] = a]
            /\ tcp_server_sendbuf' = IF ForUs(m) THEN responseCmd(c, m) ELSE tcp_server_sendbuf
            /\ Reply(c, IF a.textlen > 0
                        THEN <<Segment("data", a.snd_nxt, a.rcv_nxt, a.len, tcp_server_sendbuf')>>
                        ELSE IF NewData(m) THEN Ack(a) ELSE << >>)
  BY EstablishedIs
<1>2. /\ a \in Connections /\ a.peer = k.peer
      /\ ~ForUs(m) /\ Acks(k, m) => a.textlen = 0
  BY <1>0, AfterIs
<1>3. upset' \subseteq Troubles /\ upset \subseteq upset'
  BY <1>0, <1>1 DEF Troubles
<1>4. ForUs(m) => responseCmd(c, m) \in Replies /\ responseCmd(c, m).client = c
  BY DEF ForUs, ToServer, Requests, Replies, responseCmd, Peers
<1>5. k.peer = c
  BY <1>1 DEF Found
<1> HIDE DEF k, a
<1>6. CASE ~Acks(k, m) /\ ~NewData(m)
  <2>1. Reply(c, << >>) /\ UNCHANGED <<conn, tcp_server_sendbuf>>
    BY <1>1, <1>6
  <2>2. ServerTypes'
    BY <1>3, <2>1 DEF TcpTypes, ServerTypes
  <2> QED BY <1>3, <2>1, <2>2, NoSegments, SameConnections DEF Handles
<1>7. CASE Acks(k, m) \/ NewData(m)
  <2>1. /\ conn' = [conn EXCEPT ![s] = a]
        /\ tcp_server_sendbuf' = IF ForUs(m) THEN responseCmd(c, m) ELSE tcp_server_sendbuf
        /\ Reply(c, IF a.textlen > 0
                    THEN <<Segment("data", a.snd_nxt, a.rcv_nxt, a.len, tcp_server_sendbuf')>>
                    ELSE IF NewData(m) THEN Ack(a) ELSE << >>)
    BY <1>1, <1>7
  <2>2. conn' \in [Slot -> Connections] /\ Elsewhere(c)
    BY <1>2, <1>5, <2>1, OneConnection DEF k
  <2>3. tcp_server_sendbuf' \in Replies
    BY <1>0, <1>4, <2>1
  <2>4. ServerTypes'
    BY <1>3, <2>2, <2>3 DEF ServerTypes
  <2>5. /\ a.snd_nxt \in Nat /\ a.rcv_nxt \in Nat /\ a.len \in Lengths \cup {0, 1}
        /\ a.textlen \in Lengths \cup {0}
    BY <1>2 DEF Connections
  <2>6. CASE a.textlen > 0
    <3>1. ~ForUs(m) => "other unit" \in upset'
      <4>1. a.textlen # 0
        BY <2>6
      <4>2. ~ForUs(m) => NewData(m)
        BY <1>2, <1>7, <4>1
      <4> QED BY <1>1, <4>2
    <3>2. "other unit" \notin upset' => tcp_server_sendbuf'.client \in {c, Nobody}
      BY <1>4, <2>1, <3>1
    <3>3. Reply(c, <<Segment("data", a.snd_nxt, a.rcv_nxt, a.len, tcp_server_sendbuf')>>)
      BY <2>1, <2>6
    <3>4. \E segments : Sends(c, segments)
      BY <2>3, <2>5, <3>2, <3>3, OneSegment DEF Kinds
    <3> QED BY <1>3, <2>2, <2>4, <3>4 DEF Handles
  <2>7. CASE ~(a.textlen > 0)
    <3>1. NewData(m) => Reply(c, <<Segment("data", a.snd_nxt, a.rcv_nxt, 0, NoReply)>>)
      BY <2>1, <2>7 DEF Ack
    <3>2. ~NewData(m) => Reply(c, << >>)
      BY <2>1, <2>7
    <3>3. NewData(m) => \E segments : Sends(c, segments)
      BY <2>5, <3>1, OneSegment, Constants DEF Kinds
    <3>4. \E segments : Sends(c, segments)
      BY <3>2, <3>3, NoSegments
    <3> QED BY <1>3, <2>2, <2>4, <3>4 DEF Handles
  <2> QED BY <2>6, <2>7
<1> QED BY <1>6, <1>7

LEMMA HandlesOne ==     \* a step that fills no buffer
  ASSUME TcpTypes, NEW c \in Client, NEW s \in Slot, NEW k \in Connections,
         conn' = [conn EXCEPT ![s] = k],
         conn[s].state = "closed" \/ conn[s].peer = c, k.peer = c,
         UNCHANGED <<tcp_server_sendbuf, upset>>, \E segments : Sends(c, segments)
  PROVE  Handles(c)
<1>1. conn' \in [Slot -> Connections] /\ Elsewhere(c)
  BY OneConnection
<1>2. ServerTypes' /\ upset \subseteq upset'
  BY <1>1 DEF TcpTypes, ServerTypes
<1> QED BY <1>1, <1>2 DEF Handles

LEMMA HandlesNone ==
  ASSUME TcpTypes, NEW c \in Client,
         UNCHANGED <<conn, tcp_server_sendbuf, upset>>, \E segments : Sends(c, segments)
  PROVE  Handles(c)
<1>1. ServerTypes' /\ upset \subseteq upset'
  BY DEF TcpTypes, ServerTypes
<1> QED BY <1>1, SameConnections DEF Handles

Opened(c, k) ==
  [k EXCEPT !.state = "syn_rcvd", !.peer = c, !.snd_nxt = 0, !.rcv_nxt = 1, !.len = 1]

LEMMA LeastSlot ==
  ASSUME NEW free \in SUBSET Slot, free # {}
  PROVE  \E t \in free : \A u \in free : t <= u
<1> DEFINE less == {p \in Nat \X Nat : p[1] < p[2]}
<1>1. IsWellFoundedOn(less, Nat)
  BY NatLessThanWellFounded DEF OpToRel
<1>2. free \subseteq Nat
  BY TcpAssumption DEF Slot
<1>3. \E t \in free : \A u \in free : ~ (<<u, t>> \in less)
  BY <1>1, <1>2, WFMin
<1>4. \A t, u \in Nat : u < t => <<u, t>> \in less
  OBVIOUS
<1> HIDE DEF less
<1>5. \A t \in free, u \in free : ~ (<<u, t>> \in less) => t <= u
  BY <1>2, <1>4
<1> QED BY <1>3, <1>5

LEMMA NewConnectionIs ==
  ASSUME TcpTypes, NEW c \in Client, NEW m \in ToServer, NewConnection(c, m)
  PROVE  /\ m.kind = "syn" /\ \A s \in Slot : ~Found(c, s)
         /\ UNCHANGED <<tcp_server_sendbuf, upset>>
         /\ \/ Reply(c, << >>) /\ UNCHANGED conn
            \/ /\ \E s \in Slot : /\ conn[s].state = "closed"
                                  /\ conn' = [conn EXCEPT ![s] = Opened(c, conn[s])]
               /\ Reply(c, <<SynAck>>)
<1> DEFINE free == {s \in Slot : conn[s].state = "closed"}
<1>1. CASE free = {}
  BY <1>1 DEF NewConnection
<1>2. CASE free # {}
  <2> DEFINE s == CHOOSE s \in free : \A t \in free : s <= t
  <2>1. /\ conn' = [conn EXCEPT ![s].state = "syn_rcvd", ![s].peer = c,
                              ![s].snd_nxt = 0, ![s].rcv_nxt = 1, ![s].len = 1]
        /\ Reply(c, <<SynAck>>)
    BY <1>2 DEF NewConnection, SynAck
  <2>2. \E t \in free : \A u \in free : t <= u
    BY <1>2, LeastSlot
  <2>3. s \in free
    BY <2>2
  <2> HIDE DEF s
  <2>4. conn' = [conn EXCEPT ![s] = Opened(c, conn[s])]
    BY <2>1, <2>3 DEF Opened, TcpTypes, ServerTypes, Connections
  <2> QED BY <2>1, <2>3, <2>4 DEF NewConnection
<1> QED BY <1>1, <1>2

LEMMA NewConnectionHandles ==
  ASSUME TcpTypes, NEW c \in Client, NEW m \in ToServer, NewConnection(c, m)
  PROVE  Handles(c)
<1>1. CASE Reply(c, << >>) /\ UNCHANGED conn
  BY <1>1, NewConnectionIs, NoSegments, HandlesNone
<1>2. CASE Reply(c, <<SynAck>>) /\ \E s \in Slot : /\ conn[s].state = "closed"
                                  /\ conn' = [conn EXCEPT ![s] = Opened(c, conn[s])]
  <2>1. PICK s \in Slot : /\ conn[s].state = "closed"
                          /\ conn' = [conn EXCEPT ![s] = Opened(c, conn[s])]
    BY <1>2
  <2>2. Opened(c, conn[s]) \in Connections /\ Opened(c, conn[s]).peer = c
    BY DEF Opened, Connections, TcpTypes, ServerTypes, Peers
  <2>3. \E segments : Sends(c, segments)
    BY <1>2, OneSegment, Constants, 0 \in Nat, 1 \in Nat DEF SynAck, Kinds
  <2> QED BY <2>1, <2>2, <2>3, NewConnectionIs, HandlesOne
<1> QED BY <1>1, <1>2, NewConnectionIs

LEMMA OutOfOrderHandles ==
  ASSUME TcpTypes, NEW c \in Client, NEW s \in Slot, NEW m, OutOfOrder(c, s, m)
  PROVE  Handles(c)
<1>1. conn[s].snd_nxt \in Nat /\ conn[s].rcv_nxt \in Nat
  BY DEF TcpTypes, ServerTypes, Connections
<1>2. Reply(c, <<Segment("data", conn[s].snd_nxt, conn[s].rcv_nxt, 0, NoReply)>>)
  BY DEF OutOfOrder, Ack
<1>3. \E segments : Sends(c, segments)
  BY <1>1, <1>2, OneSegment, Constants DEF Kinds
<1> QED BY <1>3, HandlesNone DEF OutOfOrder

LEMMA NoConnectionHandles ==
  ASSUME TcpTypes, NEW c \in Client, NEW m, NoConnection(c, m)
  PROVE  Handles(c)
BY NoSegments, HandlesNone DEF NoConnection

LEMMA AbortedHandles ==
  ASSUME TcpTypes, NEW c \in Client, NEW s \in Slot, NEW m, Aborted(c, s, m)
  PROVE  Handles(c)
<1> DEFINE k == [conn[s] EXCEPT !.state = "closed"]
<1>1. conn[s] \in Connections /\ conn[s].peer = c
  BY DEF TcpTypes, ServerTypes, Aborted, Found
<1>2. conn' = [conn EXCEPT ![s] = k]
  BY DEF Aborted
<1>3. k \in Connections /\ k.peer = c
  BY <1>1 DEF Connections
<1> HIDE DEF k
<1> QED BY <1>1, <1>2, <1>3, NoSegments, HandlesOne DEF Aborted

LEMMA LastAckHandles ==
  ASSUME TcpTypes, NEW c \in Client, NEW s \in Slot, NEW m, LastAck(c, s, m)
  PROVE  Handles(c)
<1> DEFINE state == IF Acks(conn[s], m) THEN "closed" ELSE conn[s].state
           k == [conn[s] EXCEPT !.state = state]
<1>1. conn[s] \in Connections /\ conn[s].peer = c
  BY DEF TcpTypes, ServerTypes, LastAck, Found
<1>2. conn' = [conn EXCEPT ![s] = k]
  BY DEF LastAck
<1>3. k \in Connections /\ k.peer = c
  BY <1>1 DEF Connections
<1> HIDE DEF k
<1> QED BY <1>1, <1>2, <1>3, NoSegments, HandlesOne DEF LastAck

LEMMA FinishHandles ==
  ASSUME TcpTypes, NEW c \in Client, NEW s \in Slot, NEW m \in ToServer, Finish(c, s, m)
  PROVE  Handles(c)
<1> DEFINE k == Acked(conn[s], m)
           flag == IF Acks(conn[s], m) THEN "acked" ELSE "none"
           called == tcp_server_appcall(k, flag, m)
           last == [called EXCEPT !.rcv_nxt = @ + 1, !.len = 1, !.state = "last_ack"]
<1>1. conn[s] \in Connections /\ conn[s].peer = c
  BY DEF TcpTypes, ServerTypes, Finish, Found
<1>2. k \in Connections /\ k.peer = c
  BY <1>1, AckedIs
<1>3. UNCHANGED <<tcp_server_sendbuf, upset>>
  BY DEF Finish
<1>4. CASE k.len > 0
  <2>1. conn' = [conn EXCEPT ![s] = k] /\ Reply(c, << >>)
    BY <1>4 DEF Finish
  <2> HIDE DEF k
  <2> QED BY <1>1, <1>2, <1>3, <2>1, NoSegments, HandlesOne
<1>5. CASE ~(k.len > 0)
  <2>1. /\ conn' = [conn EXCEPT ![s] = last]
        /\ Reply(c, <<Segment("fin", last.snd_nxt, last.rcv_nxt, 1, NoReply)>>)
    BY <1>5 DEF Finish
  <2> HIDE DEF k, flag
  <2>2. called \in Connections /\ called.peer = c
    BY <1>2, AppcallIs
  <2> HIDE DEF called
  <2>3. last \in Connections /\ last.peer = c
    <3>1. \A n \in Nat : LET l == [called EXCEPT !.rcv_nxt = n, !.len = 1, !.state = "last_ack"]
                         IN l \in Connections /\ l.peer = c
      BY <2>2 DEF Connections
    <3>2. called.rcv_nxt + 1 \in Nat
      BY <2>2 DEF Connections
    <3>3. last = [called EXCEPT !.rcv_nxt = called.rcv_nxt + 1, !.len = 1, !.state = "last_ack"]
      OBVIOUS
    <3> QED BY <3>1, <3>2, <3>3
  <2>4. last.snd_nxt \in Nat /\ last.rcv_nxt \in Nat
    BY <2>3 DEF Connections
  <2> HIDE DEF last
  <2>5. \E segments : Sends(c, segments)
    BY <2>1, <2>4, OneSegment, Constants DEF Kinds
  <2> QED BY <1>1, <1>3, <2>1, <2>3, <2>5, HandlesOne
<1> QED BY <1>4, <1>5

Segments(c, m) ==       \* the paths through uip_process
  \/ NewConnection(c, m) \/ NoConnection(c, m)
  \/ \E s \in Slot : \/ OutOfOrder(c, s, m) \/ Established(c, s, m)
                     \/ Finish(c, s, m) \/ LastAck(c, s, m) \/ Aborted(c, s, m)

LEMMA PollingHandles ==
  ASSUME TcpTypes, NEW c \in Client, uip_polling(c)
  PROVE  /\ Handles(c) /\ toServer[c] # << >> /\ Head(toServer[c]) \in ToServer
         /\ Segments(c, Head(toServer[c]))
         /\ UNCHANGED <<client, got, asked, connects, faults>>
<1> DEFINE m == Head(toServer[c])
<1>1. toServer[c] # << >> /\ toServer[c] \in Seq(ToServer)
  BY DEF uip_polling, TcpTypes, NetTypes
<1>2. m \in ToServer
  BY <1>1
<1>3. Segments(c, m) /\ UNCHANGED <<client, got, asked, connects, faults>>
  BY DEF uip_polling, Segments
<1> HIDE DEF m
<1>4. Handles(c)
  BY <1>2, <1>3, NewConnectionHandles, NoConnectionHandles, OutOfOrderHandles,
     EstablishedHandles, FinishHandles, LastAckHandles, AbortedHandles DEF Segments
<1> QED BY <1>1, <1>2, <1>3, <1>4 DEF m

-----------------------------------------------------------------------------
(* Types, step by step.                                                    *)
LEMMA TcpInitTyped == TcpInit => TcpTypes
<1> SUFFICES ASSUME TcpInit PROVE TcpTypes
  OBVIOUS
<1>1. ServerTypes
  BY Constants DEF TcpInit, ServerTypes
<1>2. NetTypes
  BY DEF TcpInit, NetTypes
<1>3. ClientTypes
  <2>1. Nothing \in [reply : Replies, len : Nat]
    BY Constants DEF Nothing
  <2> QED BY <2>1, Constants DEF TcpInit, ClientTypes
<1> QED BY <1>1, <1>2, <1>3 DEF TcpTypes

Unacked(k, m) == IF m.len > 0 THEN [k EXCEPT !.snd = @ + 1, !.unacked = @ \cup {m}] ELSE k

LEMMA TransmitsTyped ==
  ASSUME TcpTypes, NEW c \in Client, NEW k \in Clients, NEW m \in ToServer, Transmits(c, k, m)
  PROVE  /\ toServer' \in [Client -> Seq(ToServer)] /\ client' \in [Client -> Clients]
         /\ client' = [client EXCEPT ![c] = Unacked(k, m)]
         /\ toServer' = [toServer EXCEPT ![c] = Append(@, m)]
<1>1. Unacked(k, m) \in Clients
  <2>1. CASE m.len > 0
    <3>1. k.snd + 1 \in Nat /\ k.unacked \cup {m} \in SUBSET ToServer
      BY DEF Clients
    <3>2. Unacked(k, m) = [k EXCEPT !.snd = k.snd + 1, !.unacked = k.unacked \cup {m}]
      BY <2>1 DEF Unacked
    <3> QED BY <3>1, <3>2 DEF Clients
  <2>2. CASE ~(m.len > 0)
    BY <2>2 DEF Unacked
  <2> QED BY <2>1, <2>2
<1>2. client' = [client EXCEPT ![c] = Unacked(k, m)]
  BY DEF Transmits, Unacked
<1>3. client' \in [Client -> Clients]
  BY <1>1, <1>2 DEF TcpTypes, ClientTypes
<1>4. toServer' = [toServer EXCEPT ![c] = Append(@, m)]
  BY DEF Transmits
<1>5. toServer' \in [Client -> Seq(ToServer)]
  BY <1>4 DEF TcpTypes, NetTypes
<1> QED BY <1>2, <1>3, <1>4, <1>5

LEMMA NextSegmentTyped ==
  ASSUME NEW k \in Clients, NEW kind \in Kinds, NEW len \in {0, 1},
         NEW data \in Requests \cup Replies, kind = "data" /\ len > 0 => data \in Requests
  PROVE  NextSegment(k, kind, len, data) \in ToServer
<1>1. k.snd \in Nat /\ k.rcv \in Nat
  BY DEF Clients
<1> DEFINE m == NextSegment(k, kind, len, data)
<1>2. /\ m = [kind |-> kind, seq |-> k.snd, ack |-> k.rcv, len |-> len, data |-> data]
  BY DEF NextSegment, Segment
<1>3. NewData(m) => m.data \in Requests
  BY <1>2 DEF NewData
<1>4. m \in [kind : Kinds, seq : Nat, ack : Nat, len : {0, 1}, data : Requests \cup Replies]
  BY <1>1, <1>2
<1> QED BY <1>3, <1>4 DEF ToServer

(* The client after a segment: with what that one acknowledges forgotten,
   and past its data. *)
Heard(r, m) == [r EXCEPT !.unacked = {u \in @ : u.seq >= m.ack}]
Past(r, m) == [Heard(r, m) EXCEPT !.rcv = @ + m.len]
New(r, m) == m.len > 0 /\ m.seq = r.rcv

LEMMA HeardIs ==
  ASSUME NEW r \in Clients, NEW m \in ToClient
  PROVE  /\ Heard(r, m) \in Clients /\ Past(r, m) \in Clients
         /\ Heard(r, m).unacked = {u \in r.unacked : u.seq >= m.ack}
         /\ Heard(r, m).state = r.state /\ Heard(r, m).waits = r.waits
         /\ Heard(r, m).snd = r.snd /\ Heard(r, m).rcv = r.rcv /\ Heard(r, m).number = r.number
         /\ Past(r, m).unacked = Heard(r, m).unacked
         /\ Past(r, m).state = r.state /\ Past(r, m).waits = r.waits
         /\ Past(r, m).snd = r.snd /\ Past(r, m).rcv = r.rcv + m.len /\ Past(r, m).number = r.number
<1> DEFINE left == {u \in r.unacked : u.seq >= m.ack}   h == [r EXCEPT !.unacked = left]
<1>1. Heard(r, m) = h
  BY DEF Heard
<1>0. left \in SUBSET ToServer
  BY DEF Clients
<1> HIDE DEF left
<1>2. /\ h \in Clients /\ h.unacked = left /\ h.state = r.state /\ h.waits = r.waits
      /\ h.snd = r.snd /\ h.rcv = r.rcv /\ h.number = r.number
  BY <1>0 DEF Clients
<1> HIDE DEF h
<1>3. h.rcv + m.len \in Nat
  <2>1. m.len \in Lengths \cup {0, 1} /\ h.rcv \in Nat
    BY <1>2 DEF Clients, ToClient
  <2>2. m.len \in Nat
    BY <2>1, LengthIs
  <2> QED BY <2>1, <2>2
<1> DEFINE n == h.rcv + m.len   p == [h EXCEPT !.rcv = n]
<1>4. Past(r, m) = p
  BY <1>1 DEF Past
<1> HIDE DEF n
<1>5. /\ p \in Clients /\ p.unacked = h.unacked /\ p.state = h.state /\ p.waits = h.waits
      /\ p.snd = h.snd /\ p.rcv = n /\ p.number = h.number
  BY <1>2, <1>3 DEF Clients, n
<1> QED BY <1>1, <1>2, <1>4, <1>5 DEF left, n

Answer(r, m) == IF New(Heard(r, m), m) THEN [Past(r, m) EXCEPT !.waits = FALSE] ELSE Heard(r, m)

LEMMA TakeIs ==
  ASSUME NEW c, Take(c)
  PROVE  LET m == Head(toClient[c])   r == client[c]
         IN /\ toClient[c] # << >> /\ toClient' = [toClient EXCEPT ![c] = Tail(@)]
            /\ UNCHANGED <<conn, tcp_server_sendbuf, upset, asked, connects, faults>>
            /\ \/ /\ Heard(r, m).state = "syn_sent" /\ m.kind = "syn"
                  /\ Transmits(c, [Past(r, m) EXCEPT !.state = "established"],
                                  NextSegment(Past(r, m), "data", 0, NoReply))
                  /\ UNCHANGED got
               \/ /\ Heard(r, m).state = "established" /\ m.kind = "data"
                  /\ \/ Transmits(c, Answer(r, m), NextSegment(Answer(r, m), "data", 0, NoReply))
                     \/ client' = [client EXCEPT ![c] = Answer(r, m)] /\ UNCHANGED toServer
                  /\ got' = IF New(Heard(r, m), m)
                            THEN [got EXCEPT ![c] = [reply |-> m.data, len |-> m.len]] ELSE got
               \/ /\ Heard(r, m).state = "fin_wait"
                  /\ Transmits(c, Away, NextSegment(Past(r, m), "data", 0, NoReply)) /\ UNCHANGED got
               \/ /\ \/ Heard(r, m).state = "closed"
                     \/ Heard(r, m).state = "syn_sent" /\ m.kind # "syn"
                     \/ Heard(r, m).state = "established" /\ m.kind # "data"
                     \/ Heard(r, m).state = "fin_wait"
                  /\ UNCHANGED <<toServer, client, got>>
BY DEF Take, Heard, Past, New, Answer

LEMMA AnswerIs ==
  ASSUME NEW r \in Clients, NEW m \in ToClient
  PROVE  /\ Answer(r, m) \in Clients /\ Answer(r, m).state = r.state
         /\ Answer(r, m).unacked = {u \in r.unacked : u.seq >= m.ack}
         /\ Answer(r, m).snd = r.snd /\ Answer(r, m).number = r.number
         /\ New(Heard(r, m), m) <=> New(r, m)
         /\ New(r, m) => Answer(r, m).rcv = r.rcv + m.len /\ Answer(r, m).waits = FALSE
         /\ ~New(r, m) => Answer(r, m).rcv = r.rcv /\ Answer(r, m).waits = r.waits
<1> DEFINE p == Past(r, m)   h == Heard(r, m)
<1>1. /\ h \in Clients /\ p \in Clients
      /\ h.unacked = {u \in r.unacked : u.seq >= m.ack} /\ p.unacked = h.unacked
      /\ h.state = r.state /\ h.waits = r.waits /\ h.snd = r.snd /\ h.rcv = r.rcv
      /\ h.number = r.number
      /\ p.state = r.state /\ p.snd = r.snd /\ p.rcv = r.rcv + m.len /\ p.number = r.number
  BY HeardIs
<1>2. New(h, m) <=> New(r, m)
  BY <1>1 DEF New
<1>3. Answer(r, m) = IF New(r, m) THEN [p EXCEPT !.waits = FALSE] ELSE h
  BY <1>2 DEF Answer
<1> HIDE DEF p, h
<1> DEFINE q == [p EXCEPT !.waits = FALSE]
<1>4. /\ q \in Clients /\ q.state = p.state /\ q.unacked = p.unacked /\ q.snd = p.snd
      /\ q.rcv = p.rcv /\ q.number = p.number /\ q.waits = FALSE
  BY <1>1 DEF Clients
<1> HIDE DEF q
<1>5. Answer(r, m) = IF New(r, m) THEN q ELSE h
  BY <1>3 DEF q
<1>6. CASE New(r, m)
  BY <1>1, <1>2, <1>4, <1>5, <1>6 DEF h
<1>7. CASE ~New(r, m)
  BY <1>1, <1>2, <1>5, <1>7 DEF h
<1> QED BY <1>6, <1>7

LEMMA HeardTyped ==     \* what is taken, and what is taken next
  ASSUME TcpTypes, NEW c \in Client, toClient[c] # << >>
  PROVE  /\ Head(toClient[c]) \in ToClient /\ Tail(toClient[c]) \in Seq(ToClient)
         /\ toClient[c] \in Seq(ToClient) /\ client[c] \in Clients
<1>1. toClient[c] \in Seq(ToClient) /\ client[c] \in Clients
  BY DEF TcpTypes, NetTypes, ClientTypes
<1> QED BY <1>1

LEMMA TakeTyped == ASSUME TcpTypes, NEW c \in Client, Take(c) PROVE TcpTypes'
<1> DEFINE m == Head(toClient[c])   r == client[c]
<1>1. toClient[c] # << >> /\ toClient' = [toClient EXCEPT ![c] = Tail(@)]
  BY TakeIs
<1>2. m \in ToClient /\ Tail(toClient[c]) \in Seq(ToClient) /\ r \in Clients
  BY <1>1, HeardTyped
<1>3. toClient' \in [Client -> Seq(ToClient)]
  BY <1>1, <1>2 DEF TcpTypes, NetTypes
<1>4. UNCHANGED <<conn, tcp_server_sendbuf, upset, asked, connects, faults>>
  BY TakeIs
<1>5. ServerTypes'
  BY <1>4 DEF TcpTypes, ServerTypes
<1>6. asked' \in Nat /\ connects' \in Nat /\ faults' \in Nat
  BY <1>4 DEF TcpTypes, ClientTypes
<1>7. toServer \in [Client -> Seq(ToServer)] /\ client \in [Client -> Clients]
      /\ got \in [Client -> [reply : Replies, len : Nat]]
  BY DEF TcpTypes, NetTypes, ClientTypes
<1>8. Heard(r, m) \in Clients /\ Past(r, m) \in Clients /\ Answer(r, m) \in Clients
  BY <1>2, HeardIs, AnswerIs
<1>9. \A k \in Clients : NextSegment(k, "data", 0, NoReply) \in ToServer
  BY NextSegmentTyped, Constants DEF Kinds
<1>10. got' \in [Client -> [reply : Replies, len : Nat]]
  <2>1. m.data \in Replies /\ m.len \in Nat
    BY <1>2, LengthIs DEF ToClient
  <2>2. \/ UNCHANGED got
        \/ got' = [got EXCEPT ![c] = [reply |-> m.data, len |-> m.len]]
    BY TakeIs
  <2>3. [reply |-> m.data, len |-> m.len] \in [reply : Replies, len : Nat]
    BY <2>1
  <2> QED BY <1>7, <2>2, <2>3
<1>11. toServer' \in [Client -> Seq(ToServer)] /\ client' \in [Client -> Clients]
  <2>1. [Past(r, m) EXCEPT !.state = "established"] \in Clients
    BY <1>8 DEF Clients
  <2>2. \/ \E k \in Clients, n \in ToServer : Transmits(c, k, n)
        \/ client' = [client EXCEPT ![c] = Answer(r, m)] /\ UNCHANGED toServer
        \/ UNCHANGED <<client, toServer>>
    BY <1>8, <1>9, <2>1, Constants, TakeIs
  <2> QED BY <1>7, <1>8, <2>2, TransmitsTyped
<1> QED BY <1>3, <1>5, <1>6, <1>10, <1>11 DEF TcpTypes, NetTypes, ClientTypes

LEMMA PollingTyped == ASSUME TcpTypes, NEW c \in Client, uip_polling(c) PROVE TcpTypes'
<1>1. ServerTypes'
  BY PollingHandles DEF Handles
<1>2. ClientTypes'
  BY PollingHandles DEF TcpTypes, ClientTypes
<1>3. PICK segments : Sends(c, segments)
  BY PollingHandles DEF Handles
<1>4. NetTypes'
  <2>1. /\ toServer' = [toServer EXCEPT ![c] = Tail(@)]
        /\ toClient' = [toClient EXCEPT ![c] = @ \o segments]
        /\ segments \in Seq(ToClient)
    BY <1>3 DEF Sends, Reply
  <2>2. toServer[c] # << >> /\ toServer[c] \in Seq(ToServer) /\ toClient[c] \in Seq(ToClient)
    BY PollingHandles DEF TcpTypes, NetTypes
  <2>3. Tail(toServer[c]) \in Seq(ToServer) /\ toClient[c] \o segments \in Seq(ToClient)
    BY <2>1, <2>2
  <2> QED BY <2>1, <2>3 DEF TcpTypes, NetTypes
<1> QED BY <1>1, <1>2, <1>4 DEF TcpTypes

LEMMA TcpStepTyped == TcpTypes /\ [TcpNext]_tcpVars => TcpTypes'
<1> SUFFICES ASSUME TcpTypes, [TcpNext]_tcpVars PROVE TcpTypes'
  OBVIOUS
<1>0. /\ conn \in [Slot -> Connections] /\ tcp_server_sendbuf \in Replies /\ upset \subseteq Troubles
      /\ toServer \in [Client -> Seq(ToServer)] /\ toClient \in [Client -> Seq(ToClient)]
      /\ client \in [Client -> Clients] /\ got \in [Client -> [reply : Replies, len : Nat]]
      /\ asked \in Nat /\ connects \in Nat /\ faults \in Nat
  BY DEF TcpTypes, ServerTypes, NetTypes, ClientTypes
<1> USE DEF TcpTypes, ServerTypes, NetTypes, ClientTypes
<1>1. CASE UNCHANGED tcpVars
  BY <1>0, <1>1 DEF tcpVars
<1>2. ASSUME NEW c \in Client, uip_polling(c) PROVE TcpTypes'
  BY <1>2, PollingTyped
<1>3. ASSUME NEW c \in Client, Connect(c) PROVE TcpTypes'
  <2>1. toServer' \in [Client -> Seq(ToServer)] /\ client' \in [Client -> Clients]
    <3>1. [Away EXCEPT !.state = "syn_sent"] \in Clients
      BY Constants DEF Clients
    <3>2. Segment("syn", 0, 0, 1, NoReply) \in ToServer
      BY Constants DEF Syn
    <3> QED BY <1>3, <3>1, <3>2, TransmitsTyped DEF Connect
  <2>2. conn' \in [Slot -> Connections]
    <3>1. conn' = [s \in Slot |-> IF conn[s].peer = c THEN [conn[s] EXCEPT !.peer = Nobody] ELSE conn[s]]
      BY <1>3 DEF Connect
    <3>2. \A k \in Connections : [k EXCEPT !.peer = Nobody] \in Connections
      BY DEF Connections, Peers
    <3> QED BY <1>0, <3>1, <3>2
  <2>3. got' \in [Client -> [reply : Replies, len : Nat]]
    <3>1. Nothing \in [reply : Replies, len : Nat]
      BY Constants DEF Nothing
    <3> QED BY <1>0, <1>3, <3>1 DEF Connect
  <2>4. connects' \in Nat /\ UNCHANGED <<tcp_server_sendbuf, toClient, upset, asked, faults>>
    BY <1>0, <1>3 DEF Connect
  <2> QED BY <1>0, <2>1, <2>2, <2>3, <2>4
<1>4. ASSUME NEW c \in Client, Close(c) PROVE TcpTypes'
  <2>1. toServer' \in [Client -> Seq(ToServer)] /\ client' \in [Client -> Clients]
    <3>1. [client[c] EXCEPT !.state = "fin_wait"] \in Clients
      BY <1>0 DEF Clients
    <3>2. NextSegment(client[c], "fin", 1, NoReply) \in ToServer
      BY <1>0, NextSegmentTyped, Constants DEF Kinds
    <3> QED BY <1>4, <3>1, <3>2, TransmitsTyped DEF Close
  <2> QED BY <1>0, <1>4, <2>1 DEF Close
<1>5. ASSUME NEW c \in Client, Abort(c) PROVE TcpTypes'
  <2>1. toServer' \in [Client -> Seq(ToServer)] /\ client' \in [Client -> Clients]
    <3>1. NextSegment(client[c], "rst", 0, NoReply) \in ToServer
      BY <1>0, NextSegmentTyped, Constants DEF Kinds
    <3> QED BY <1>5, <3>1, TransmitsTyped, Constants DEF Abort
  <2> QED BY <1>0, <1>5, <2>1 DEF Abort
<1>6. ASSUME NEW c \in Client, Retransmit(c) PROVE TcpTypes'
  <2>1. PICK m \in client[c].unacked :
          toServer' = [toServer EXCEPT ![c] = <<[m EXCEPT !.ack = client[c].rcv]>>]
    BY <1>6 DEF Retransmit
  <2>2. m \in ToServer /\ client[c].rcv \in Nat
    BY <1>0 DEF Clients
  <2>3. [m EXCEPT !.ack = client[c].rcv] \in ToServer
    BY <2>2 DEF ToServer, NewData
  <2>4. <<[m EXCEPT !.ack = client[c].rcv]>> \in Seq(ToServer)
    BY <2>3, Singleton
  <2>5. toServer' \in [Client -> Seq(ToServer)]
    BY <1>0, <2>1, <2>4
  <2> QED BY <1>0, <1>6, <2>5 DEF Retransmit
<1>7. ASSUME NEW c \in Client, Take(c) PROVE TcpTypes'
  BY <1>7, TakeTyped
<1>8. ASSUME NEW c \in Client, Vanish(c) PROVE TcpTypes'
  <2>1. /\ toServer' \in [Client -> Seq(ToServer)] /\ toClient' \in [Client -> Seq(ToClient)]
        /\ client' \in [Client -> Clients]
    BY <1>0, <1>8, Constants DEF Vanish
  <2> QED BY <1>0, <1>8, <2>1 DEF Vanish
<1>9. ASSUME NEW c \in Client, NEW unit \in Units, NEW len \in Lengths, Ask(c, unit, len) PROVE TcpTypes'
  <2> DEFINE k == [client[c] EXCEPT !.waits = TRUE, !.number = asked + 1]
             m == NextSegment(client[c], "data", 1, Request(unit, asked + 1, len))
  <2>1. k \in Clients
    <3>1. \A n \in Nat : [client[c] EXCEPT !.waits = TRUE, !.number = n] \in Clients
      BY <1>0 DEF Clients
    <3>2. asked + 1 \in Nat
      BY <1>0
    <3> QED BY <3>1, <3>2
  <2>2. m \in ToServer
    <3>1. Request(unit, asked + 1, len) \in Requests
      BY <1>0 DEF Request, Requests
    <3> QED BY <1>0, <3>1, NextSegmentTyped DEF Kinds
  <2>3. Transmits(c, k, m)
    BY <1>9 DEF Ask
  <2>4. toServer' \in [Client -> Seq(ToServer)] /\ client' \in [Client -> Clients]
    BY <2>1, <2>2, <2>3, TransmitsTyped
  <2>5. upset' \subseteq Troubles /\ asked' \in Nat
    <3>1. upset' = upset \cup (IF client[c].waits THEN {"asked again"} ELSE {})
      BY <1>9 DEF Ask
    <3>2. asked' \in Nat
      <4>1. asked' = asked + 1
        BY <1>9 DEF Ask
      <4>2. asked + 1 \in Nat
        BY <1>0
      <4> QED BY <4>1, <4>2
    <3>3. upset' \subseteq upset \cup {"asked again"}
      BY <3>1
    <3> QED BY <1>0, <3>2, <3>3 DEF Troubles
  <2> QED BY <1>0, <1>9, <2>4, <2>5 DEF Ask
<1>10. ASSUME NEW c \in Client, LoseToServer(c) PROVE TcpTypes'
  <2>1. toServer' \in [Client -> Seq(ToServer)]
    <3>1. toServer[c] \in Seq(ToServer) /\ toServer[c] # << >>
      BY <1>0, <1>10 DEF LoseToServer
    <3>2. Tail(toServer[c]) \in Seq(ToServer)
      BY <3>1
    <3> QED BY <1>0, <1>10, <3>2 DEF LoseToServer
  <2> QED BY <1>0, <1>10, <2>1 DEF LoseToServer
<1>11. ASSUME NEW c \in Client, LoseToClient(c) PROVE TcpTypes'
  <2>1. toClient' \in [Client -> Seq(ToClient)]
    <3>1. toClient[c] # << >>
      BY <1>11 DEF LoseToClient
    <3>2. Tail(toClient[c]) \in Seq(ToClient)
      BY <3>1, HeardTyped
    <3> QED BY <1>0, <1>11, <3>2 DEF LoseToClient
  <2>2. upset' \subseteq Troubles
    BY <1>0, <1>11 DEF LoseToClient, Troubles
  <2>3. /\ UNCHANGED <<conn, tcp_server_sendbuf, toServer, client, got, asked, connects>>
        /\ faults' = faults + 1
    BY <1>11 DEF LoseToClient
  <2> QED BY <1>0, <2>1, <2>2, <2>3
<1> QED BY <1>1, <1>2, <1>3, <1>4, <1>5, <1>6, <1>7, <1>8, <1>9, <1>10, <1>11 DEF TcpNext

(* TcpTypeOK: types, in every behaviour of server and clients.             *)
THEOREM TcpTyped == TcpSpec => []TcpTypeOK
<1>1. TcpTypes => TcpTypeOK
  BY DEF TcpTypes, ServerTypes, TcpTypeOK, Connections, Replies, Peers, Troubles
<1> QED BY <1>1, TcpInitTyped, TcpStepTyped, PTL DEF TcpSpec

-----------------------------------------------------------------------------
(* Everyone takes its own replies: the buffer is filled and sent in one    *)
(* call, and nothing is sent of it otherwise.                              *)
OwnOf(c) == toClient[c] \in Seq(Own(c)) /\ got[c].reply.client \in {c, Nobody}

LEMMA OwnStep ==
  ASSUME TcpTypes, OwnInv, [TcpNext]_tcpVars
  PROVE  OwnInv'
<1> SUFFICES ASSUME "other unit" \notin upset', NEW d \in Client
             PROVE  OwnOf(d)'
  BY DEF OwnInv, OwnOf, Own
<1> DEFINE mine == Own(d)
<1>0. "other unit" \notin upset => toClient[d] \in Seq(mine) /\ got[d].reply.client \in {d, Nobody}
  BY DEF OwnInv
<1>types. /\ toClient \in [Client -> Seq(ToClient)]
          /\ got \in [Client -> [reply : Replies, len : Nat]]
  BY DEF TcpTypes, NetTypes, ClientTypes
<1>goal. toClient'[d] \in Seq(mine) /\ got'[d].reply.client \in {d, Nobody} => OwnOf(d)'
  BY DEF OwnOf, Own
<1> HIDE DEF mine
<1>1. CASE UNCHANGED tcpVars
  BY <1>0, <1>1, <1>goal DEF tcpVars
<1>2. ASSUME NEW c \in Client, uip_polling(c) PROVE OwnOf(d)'
  <2>1. PICK segments : Sends(c, segments)
    BY <1>2, PollingHandles DEF Handles
  <2>2. "other unit" \notin upset /\ UNCHANGED got
    BY <1>2, PollingHandles DEF Handles
  <2>3. toClient' = [toClient EXCEPT ![c] = @ \o segments] /\ segments \in Seq(Own(c))
    BY <2>1 DEF Sends, Reply
  <2>4. CASE c = d
    <3>1. toClient'[d] = toClient[d] \o segments /\ segments \in Seq(mine)
      BY <1>types, <2>3, <2>4 DEF mine
    <3>2. toClient'[d] \in Seq(mine)
      BY <1>0, <2>2, <3>1, Joined
    <3> QED BY <1>0, <1>goal, <2>2, <3>2
  <2>5. CASE c # d
    BY <1>0, <1>goal, <1>types, <2>2, <2>3, <2>5
  <2> QED BY <2>4, <2>5
<1>3. ASSUME NEW c \in Client, Connect(c) PROVE OwnOf(d)'
  <2>1. got' = [got EXCEPT ![c] = Nothing] /\ UNCHANGED <<toClient, upset>>
    BY <1>3 DEF Connect
  <2>2. Nothing.reply.client = Nobody
    BY DEF Nothing, NoReply
  <2>3. got'[d].reply.client \in {d, Nobody}
    BY <1>0, <1>types, <2>1, <2>2
  <2> QED BY <1>0, <1>goal, <2>1, <2>3
<1>4. ASSUME NEW c \in Client, Take(c) PROVE OwnOf(d)'
  <2> DEFINE m == Head(toClient[c])
  <2>1. /\ toClient[c] # << >> /\ toClient' = [toClient EXCEPT ![c] = Tail(@)]
        /\ UNCHANGED upset
        /\ UNCHANGED got \/ got' = [got EXCEPT ![c] = [reply |-> m.data, len |-> m.len]]
    BY <1>4, TakeIs
  <2>2. CASE c = d
    <3>1. toClient[d] # << >> /\ toClient[d] \in Seq(mine) /\ toClient'[d] = Tail(toClient[d])
      BY <1>0, <1>types, <2>1, <2>2
    <3>2. m \in mine /\ toClient'[d] \in Seq(mine)
      BY <2>2, <3>1, Parts
    <3>3. m.data.client \in {d, Nobody}
      BY <3>2 DEF mine, Own
    <3> HIDE DEF m
    <3>4. got'[d].reply = m.data \/ got'[d] = got[d]
      <4>1. CASE UNCHANGED got
        BY <4>1
      <4>2. CASE got' = [got EXCEPT ![c] = [reply |-> m.data, len |-> m.len]]
        <5> DEFINE reply == [reply |-> m.data, len |-> m.len]
        <5>1. got' = [got EXCEPT ![c] = reply] /\ reply.reply = m.data
          BY <4>2
        <5> HIDE DEF reply
        <5>2. got'[d] = reply
          BY <1>types, <2>2, <5>1
        <5> QED BY <5>1, <5>2
      <4> QED BY <2>1, <4>1, <4>2 DEF m
    <3>5. got'[d].reply.client \in {d, Nobody}
      BY <1>0, <2>1, <3>3, <3>4
    <3> QED BY <1>goal, <3>2, <3>5
  <2>3. CASE c # d
    BY <1>0, <1>goal, <1>types, <2>1, <2>3
  <2> QED BY <2>2, <2>3
<1>5. ASSUME NEW c \in Client, Vanish(c) PROVE OwnOf(d)'
  <2>1. toClient' = [toClient EXCEPT ![c] = << >>] /\ UNCHANGED <<got, upset>>
    BY <1>5 DEF Vanish
  <2>2. toClient'[d] = << >> \/ toClient'[d] = toClient[d]
    BY <1>types, <2>1
  <2>3. toClient'[d] \in Seq(mine)
    BY <1>0, <2>1, <2>2, Empty
  <2> QED BY <1>0, <1>goal, <2>1, <2>3
<1>6. ASSUME NEW c \in Client, LoseToClient(c) PROVE OwnOf(d)'
  <2>1. /\ toClient[c] # << >> /\ toClient' = [toClient EXCEPT ![c] = Tail(@)]
        /\ UNCHANGED got /\ "other unit" \notin upset
    BY <1>6 DEF LoseToClient
  <2>2. toClient'[d] = toClient[d] \/ (toClient[d] # << >> /\ toClient'[d] = Tail(toClient[d]))
    BY <1>types, <2>1
  <2>3. toClient'[d] \in Seq(mine)
    BY <1>0, <2>1, <2>2, Parts
  <2> QED BY <1>0, <1>goal, <2>1, <2>3
<1>7. ASSUME NEW c \in Client,
             Close(c) \/ Abort(c) \/ Retransmit(c) \/ LoseToServer(c)
             \/ (\E unit \in Units, len \in Lengths : Ask(c, unit, len))
      PROVE  OwnOf(d)'
  <2>1. UNCHANGED <<toClient, got>> /\ upset \subseteq upset'
    BY <1>7 DEF Close, Abort, Retransmit, LoseToServer, Ask
  <2> QED BY <1>0, <1>goal, <2>1
<1> QED BY <1>1, <1>2, <1>3, <1>4, <1>5, <1>6, <1>7 DEF TcpNext

(* OwnReply: nobody takes the reply to another, for any number of clients,
   although one buffer serves them all. *)
THEOREM NobodyTakesAnothers == TcpSpec => []OwnReply
<1>1. TcpInit => OwnInv
  <2> SUFFICES ASSUME TcpInit, NEW c \in Client
               PROVE  toClient[c] \in Seq(Own(c)) /\ got[c].reply.client \in {c, Nobody}
    BY DEF OwnInv
  <2>1. toClient[c] = << >> /\ got[c] = Nothing
    BY DEF TcpInit
  <2>2. Nothing.reply.client = Nobody
    BY DEF Nothing, NoReply
  <2> QED BY <2>1, <2>2
<1>2. TcpTypes /\ OwnInv /\ [TcpNext]_tcpVars => (TcpTypes /\ OwnInv)'
  BY OwnStep, TcpStepTyped
<1>3. OwnInv => OwnReply
  BY DEF OwnInv, OwnReply
<1> QED BY <1>1, <1>2, <1>3, TcpInitTyped, PTL DEF TcpSpec

-----------------------------------------------------------------------------
(* At most one connection is with a client.                                *)
LEMMA ConnectionChanged ==
  ASSUME TcpTypes, OneEach, NEW c \in Client, NEW s \in Slot, NEW k \in Connections,
         conn' = [conn EXCEPT ![s] = k], Found(c, s) \/ \A t \in Slot : ~Found(c, t)
  PROVE  \A t, u \in Slot : Found(c, t)' /\ Found(c, u)' => t = u
<1> SUFFICES ASSUME NEW t \in Slot, Found(c, t)' PROVE t = s
  OBVIOUS
<1>1. t # s => Found(c, t)
  BY DEF Found, TcpTypes, ServerTypes
<1> QED BY <1>1 DEF OneEach

LEMMA PollingOne ==
  ASSUME TcpTypes, OneEach, NEW c \in Client, uip_polling(c)
  PROVE  \A t, u \in Slot : Found(c, t)' /\ Found(c, u)' => t = u
<1> DEFINE m == Head(toServer[c])
<1>1. m \in ToServer /\ Segments(c, m)
  BY PollingHandles
<1> HIDE DEF m
<1>2. conn \in [Slot -> Connections] /\ conn' \in [Slot -> Connections]
  BY PollingHandles DEF TcpTypes, ServerTypes, Handles
<1>3. CASE UNCHANGED conn
  BY <1>3 DEF OneEach, Found
<1>4. ASSUME NEW s \in Slot, NEW k, conn' = [conn EXCEPT ![s] = k],
             Found(c, s) \/ \A t \in Slot : ~Found(c, t)
      PROVE  \A t, u \in Slot : Found(c, t)' /\ Found(c, u)' => t = u
  <2>1. k \in Connections
    BY <1>2, <1>4
  <2> QED BY <1>4, <2>1, ConnectionChanged
<1>5. CASE NewConnection(c, m)
  <2>1. \A s \in Slot : ~Found(c, s)
    BY <1>1, <1>5, NewConnectionIs
  <2>2. UNCHANGED conn \/ \E s \in Slot : conn' = [conn EXCEPT ![s] = Opened(c, conn[s])]
    BY <1>1, <1>5, NewConnectionIs
  <2> QED BY <1>3, <1>4, <2>1, <2>2
<1>6. CASE NoConnection(c, m)
  BY <1>3, <1>6 DEF NoConnection
<1>7. ASSUME NEW s \in Slot,
             OutOfOrder(c, s, m) \/ Established(c, s, m) \/ Finish(c, s, m)
             \/ LastAck(c, s, m) \/ Aborted(c, s, m)
      PROVE  \A t, u \in Slot : Found(c, t)' /\ Found(c, u)' => t = u
  <2>1. Found(c, s)
    BY <1>7 DEF OutOfOrder, Established, Finish, LastAck, Aborted
  <2>2. UNCHANGED conn \/ \E k : conn' = [conn EXCEPT ![s] = k]
    <3>1. CASE OutOfOrder(c, s, m)
      BY <3>1 DEF OutOfOrder
    <3>2. CASE Established(c, s, m)
      BY <3>2, EstablishedIs
    <3>3. CASE Finish(c, s, m)
      BY <3>3 DEF Finish
    <3>4. CASE LastAck(c, s, m) \/ Aborted(c, s, m)
      BY <3>4 DEF LastAck, Aborted
    <3> QED BY <1>7, <3>1, <3>2, <3>3, <3>4
  <2> QED BY <1>3, <1>4, <2>1, <2>2
<1> QED BY <1>1, <1>5, <1>6, <1>7 DEF Segments

LEMMA OneStep == TcpTypes /\ OneEach /\ [TcpNext]_tcpVars => OneEach'
<1> SUFFICES ASSUME TcpTypes, OneEach, [TcpNext]_tcpVars,
                    NEW d \in Client, NEW t \in Slot, NEW u \in Slot, Found(d, t)', Found(d, u)'
             PROVE  t = u
  BY DEF OneEach
<1>1. CASE UNCHANGED conn
  BY <1>1 DEF OneEach, Found
<1>2. ASSUME NEW c \in Client, uip_polling(c) PROVE t = u
  <2>1. CASE c = d
    BY <1>2, <2>1, PollingOne
  <2>2. CASE c # d
    BY <1>2, <2>2, PollingHandles DEF Handles, Elsewhere, OneEach
  <2> QED BY <2>1, <2>2
<1>3. ASSUME NEW c \in Client, Connect(c) PROVE t = u
  <2>1. conn' = [s \in Slot |-> IF conn[s].peer = c THEN [conn[s] EXCEPT !.peer = Nobody] ELSE conn[s]]
    BY <1>3 DEF Connect
  <2>2. \A s \in Slot : Found(d, s)' => Found(d, s)
    <3> SUFFICES ASSUME NEW s \in Slot, Found(d, s)' PROVE Found(d, s)
      OBVIOUS
    <3>1. conn[s] \in Connections /\ d # Nobody
      BY Positive DEF TcpTypes, ServerTypes
    <3>2. conn'[s] = conn[s] \/ conn'[s] = [conn[s] EXCEPT !.peer = Nobody]
      BY <2>1
    <3>3. conn'[s] = conn[s]
      BY <3>1, <3>2 DEF Found, Connections
    <3> QED BY <3>3 DEF Found
  <2> QED BY <2>2 DEF OneEach
<1> QED BY <1>1, <1>2, <1>3 DEF TcpNext, tcpVars, Close, Abort, Retransmit, Take, Vanish, Ask,
                               LoseToServer, LoseToClient

-----------------------------------------------------------------------------
(* Whom a step leaves alone.                                               *)
LEMMA Frame ==
  ASSUME NEW d \in Client, Whole(d),
         client'[d] = client[d], got'[d] = got[d],
         toServer'[d] = toServer[d], toClient'[d] = toClient[d],
         \A s \in Slot : (Found(d, s)' <=> Found(d, s)) /\ (Found(d, s) => conn'[s] = conn[s])
  PROVE  Whole(d)'
<1>1. client[d].state = "syn_sent" => Calling(d)'
  BY DEF Whole, Calling
<1>2. client[d].state = "established" =>
        \E s \in Slot : Found(d, s)' /\ Talking(client[d], conn'[s], toServer[d], toClient[d])
  BY DEF Whole
<1> QED BY <1>1, <1>2 DEF Whole

-----------------------------------------------------------------------------
(* A client and its connection, by what reaches them.                      *)
LEMMA AckHeard ==       \* also: a segment to the server is lost
  ASSUME NEW r \in Clients, NEW k \in Connections, NEW j \in Connections,
         NEW in \in Seq(ToServer), in # << >>, NEW out, Talking(r, k, in, out),
         j.state \in {"syn_rcvd", "established"}, j.rcv_nxt = k.rcv_nxt,
         j.snd_nxt + j.len = k.snd_nxt + k.len
  PROVE  Talking(r, j, Tail(in), out)
<1>1. /\ \A i \in 1 .. Len(Tail(in)) : Tail(in)[i] = in[i + 1] /\ i + 1 \in 1 .. Len(in)
      /\ \A i \in 1 .. Len(Tail(in)) : i + 1 = Len(in) => i = Len(Tail(in))
  BY Elements
<1>2. CASE Idle(r, k, in, out)
  <2>1. Idle(r, j, Tail(in), out)
    BY <1>1, <1>2 DEF Idle
  <2> QED BY <2>1 DEF Talking
<1>3. CASE Waiting(r, k, in, out)
  <2>1. ASSUME NEW i \in 1 .. Len(Tail(in))
        PROVE  \/ IsAck(Tail(in)[i])
               \/ i = Len(Tail(in)) /\ IsRequest(r, Tail(in)[i]) /\ Tail(in)[i].ack = r.rcv
    <3>1. IsAck(in[i + 1]) \/ (i + 1 = Len(in) /\ IsRequest(r, in[i + 1]) /\ in[i + 1].ack = r.rcv)
      BY <1>1, <1>3 DEF Waiting
    <3> QED BY <1>1, <3>1
  <2>2. Waiting(r, j, Tail(in), out)
    BY <1>3, <2>1 DEF Waiting
  <2> QED BY <2>2 DEF Talking
<1> QED BY <1>2, <1>3 DEF Talking, Answered

LEMMA RequestHeard ==
  ASSUME NEW c \in Client, NEW r \in Clients, NEW k \in Connections, NEW m \in ToServer,
         NEW in \in Seq(ToServer), Len(in) = 1, Waiting(r, k, in, << >>), in[1] = m, ~IsAck(m), ForUs(m)
  PROVE  LET a == After(k, m)
             reply == Segment("data", a.snd_nxt, a.rcv_nxt, a.len, responseCmd(c, m))
         IN  a.textlen > 0 /\ Talking(r, a, << >>, <<reply>>)
<1> DEFINE a == After(k, m)
           reply == Segment("data", a.snd_nxt, a.rcv_nxt, a.len, responseCmd(c, m))
<1>1. /\ IsRequest(r, m) /\ m.ack = r.rcv /\ r.waits /\ \A u \in r.unacked : IsRequest(r, u)
      /\ k.rcv_nxt + 1 = r.snd /\ k.snd_nxt + k.len = r.rcv
  BY DEF Waiting
<1>2. m.kind = "data" /\ m.len = 1 /\ NewData(m)
  BY <1>1 DEF IsRequest, NewData
<1>3. k.snd_nxt \in Nat /\ k.len \in Nat /\ k.rcv_nxt \in Nat /\ r.rcv \in Nat
  BY LengthIs DEF Connections, Clients
<1>4. Acks(k, m) \/ k.len = 0
  BY <1>1, <1>2, <1>3 DEF Acks
<1>5. Acked(k, m).len = 0 /\ Acked(k, m).snd_nxt = r.rcv
  BY <1>1, <1>3, <1>4, AckedIs
<1>6. /\ a.state = "established" /\ a.rcv_nxt = k.rcv_nxt + 1 /\ a.snd_nxt = r.rcv
      /\ m.data.len \in Lengths /\ a.textlen = m.data.len /\ a.len = m.data.len
  BY <1>2, <1>5, AfterIs
<1>7. m.data.len \in Nat /\ m.data.len > 0
  BY <1>6, LengthIs
<1> HIDE DEF a
<1>8. /\ reply.kind = "data" /\ reply.seq = a.snd_nxt /\ reply.ack = a.rcv_nxt /\ reply.len = a.len
      /\ reply.data.len = m.data.len /\ reply.data.number = m.data.number
  BY DEF Segment, responseCmd
<1> HIDE DEF reply
<1>9. Len(<<reply>>) = 1 /\ <<reply>>[1] = reply
  OBVIOUS
<1>10. Answered(r, a, << >>, <<reply>>)
  BY <1>1, <1>6, <1>7, <1>8, <1>9 DEF Answered, IsRequest
<1>11. Talking(r, a, << >>, <<reply>>)
  BY <1>6, <1>10 DEF Talking
<1> QED BY <1>6, <1>7, <1>11 DEF a, reply

LEMMA ReplyTaken ==
  ASSUME NEW r \in Clients, NEW k \in Connections, NEW out \in Seq(ToClient), NEW in \in Seq(ToServer),
         Answered(r, k, in, out), k.state \in {"syn_rcvd", "established"}, NEW j,
         j = Answer(r, out[1]), NEW acks \in Seq(ToServer), \A i \in 1 .. Len(acks) : IsAck(acks[i])
  PROVE  /\ New(r, out[1]) /\ ~j.waits /\ out[1].len = out[1].data.len
         /\ out[1].data.number = j.number /\ Talking(j, k, acks, << >>)
<1> DEFINE m == out[1]
<1>1. /\ m.kind = "data" /\ m.len > 0 /\ m.seq = r.rcv /\ m.ack = r.snd
      /\ m.len = m.data.len /\ m.data.number = r.number
      /\ k.snd_nxt = m.seq /\ k.len = m.len /\ k.rcv_nxt = r.snd
      /\ Len(out) = 1 /\ \A u \in r.unacked : u.seq + 1 = r.snd
  BY DEF Answered
<1>2. m \in ToClient
  <2>1. Len(out) = 1
    BY DEF Answered
  <2> QED BY <2>1, OneElement
<1> HIDE DEF m
<1>3. New(r, m)
  BY <1>1 DEF New
<1>4. /\ j.unacked = {u \in r.unacked : u.seq >= m.ack} /\ j.snd = r.snd /\ j.number = r.number
      /\ j.rcv = r.rcv + m.len /\ j.waits = FALSE
  BY <1>2, <1>3, AnswerIs DEF m
<1>5. j.unacked = {}
  <2>1. \A u \in r.unacked : u.seq \in Nat
    BY DEF Clients, ToServer
  <2>2. r.snd \in Nat
    BY DEF Clients
  <2> QED BY <1>1, <1>4, <2>1, <2>2
<1>6. Idle(j, k, acks, << >>)
  BY <1>1, <1>4, <1>5 DEF Idle
<1> QED BY <1>1, <1>3, <1>4, <1>6 DEF m, Talking

-----------------------------------------------------------------------------
(* A segment that reaches the server, for the client it is from.           *)
LEMMA PollingEstablished ==
  ASSUME TcpTypes, OneEach, NEW c \in Client, uip_polling(c), NEW s \in Slot, Found(c, s),
         Talking(client[c], conn[s], toServer[c], toClient[c])
  PROVE  /\ Established(c, s, Head(toServer[c]))
         /\ \/ IsAck(Head(toServer[c]))
            \/ /\ Waiting(client[c], conn[s], toServer[c], toClient[c]) /\ Len(toServer[c]) = 1
               /\ IsRequest(client[c], Head(toServer[c]))
<1> DEFINE r == client[c]   k == conn[s]   in == toServer[c]   out == toClient[c]   m == Head(in)
<1>1. in # << >> /\ m \in ToServer /\ Segments(c, m)
  BY PollingHandles
<1>2. in \in Seq(ToServer) /\ k \in Connections
  BY DEF TcpTypes, NetTypes, ServerTypes
<1>3. Len(in) \in Nat \ {0} /\ m = in[1]
  BY <1>1, <1>2, Elements
<1>4. Idle(r, k, in, out) \/ Waiting(r, k, in, out)
  BY <1>1 DEF Talking, Answered
<1>5. IsAck(m) \/ (Waiting(r, k, in, out) /\ Len(in) = 1 /\ IsRequest(r, m))
  <2>1. 1 \in 1 .. Len(in)
    BY <1>3
  <2> QED BY <1>3, <1>4, <2>1 DEF Idle, Waiting
<1>6. m.kind = "data" /\ (~IsAck(m) => m.seq = k.rcv_nxt)
  <2>1. m.seq \in Nat /\ k.rcv_nxt \in Nat
    BY <1>1, <1>2 DEF ToServer, Connections
  <2>2. CASE IsAck(m)
    BY <2>2 DEF IsAck
  <2>3. CASE ~IsAck(m)
    <3>1. m.kind = "data" /\ m.seq + 1 = r.snd /\ k.rcv_nxt + 1 = r.snd
      BY <1>5, <2>3 DEF Waiting, IsRequest
    <3> QED BY <2>1, <3>1
  <2> QED BY <2>2, <2>3
<1>7. InOrder(k, m)
  BY <1>6 DEF InOrder, IsAck
<1>8. k.state \in {"syn_rcvd", "established"}
  BY DEF Talking
<1>9. ~NewConnection(c, m) /\ ~NoConnection(c, m)
  BY DEF NewConnection, NoConnection
<1>10. ASSUME NEW t \in Slot,
              OutOfOrder(c, t, m) \/ Finish(c, t, m) \/ LastAck(c, t, m) \/ Aborted(c, t, m)
       PROVE  FALSE
  <2>1. Found(c, t)
    BY <1>10 DEF OutOfOrder, Finish, LastAck, Aborted
  <2>2. t = s
    BY <2>1 DEF OneEach
  <2> QED BY <1>6, <1>7, <1>8, <1>10, <2>2 DEF OutOfOrder, Finish, LastAck, Aborted
<1>11. PICK t \in Slot : Established(c, t, m)
  BY <1>1, <1>9, <1>10 DEF Segments
<1>12. Found(c, t)
  BY <1>11 DEF Established
<1>13. t = s
  BY <1>12 DEF OneEach
<1> QED BY <1>5, <1>11, <1>13

LEMMA PollingTalking ==
  ASSUME TcpTypes, OneEach, NEW c \in Client, uip_polling(c), upset' = {}, NEW s \in Slot, Found(c, s),
         Talking(client[c], conn[s], toServer[c], toClient[c])
  PROVE  Found(c, s)' /\ Talking(client'[c], conn'[s], toServer'[c], toClient'[c])
<1> DEFINE r == client[c]   k == conn[s]   in == toServer[c]   out == toClient[c]   m == Head(in)
           a == After(k, m)
<1>1. in # << >> /\ m \in ToServer /\ client'[c] = r
  BY PollingHandles
<1>2. in \in Seq(ToServer) /\ k \in Connections /\ r \in Clients /\ out \in Seq(ToClient)
  BY DEF TcpTypes, NetTypes, ServerTypes, ClientTypes
<1>3. Len(in) \in Nat \ {0} /\ m = in[1]
  BY <1>1, <1>2, Elements
<1>4. /\ Established(c, s, m)
      /\ IsAck(m) \/ (Waiting(r, k, in, out) /\ Len(in) = 1 /\ IsRequest(r, m))
  BY PollingEstablished
<1>5. /\ toServer \in [Client -> Seq(ToServer)] /\ toClient \in [Client -> Seq(ToClient)]
      /\ conn \in [Slot -> Connections]
  BY DEF TcpTypes, NetTypes, ServerTypes
<1>6. \A segments : Reply(c, segments) => toServer'[c] = Tail(in) /\ toClient'[c] = out \o segments
  BY <1>5 DEF Reply
<1>7. /\ \/ /\ ~Acks(k, m) /\ ~NewData(m)
            /\ Reply(c, << >>) /\ UNCHANGED <<conn, tcp_server_sendbuf>>
         \/ /\ Acks(k, m) \/ NewData(m)
            /\ conn' = [conn EXCEPT ![s] = a]
            /\ tcp_server_sendbuf' = IF ForUs(m) THEN responseCmd(c, m) ELSE tcp_server_sendbuf
            /\ Reply(c, IF a.textlen > 0
                        THEN <<Segment("data", a.snd_nxt, a.rcv_nxt, a.len, tcp_server_sendbuf')>>
                        ELSE IF NewData(m) THEN Ack(a) ELSE << >>)
      /\ upset' = upset \cup (IF NewData(m) /\ ~ForUs(m) THEN {"other unit"} ELSE {})
  BY <1>4, EstablishedIs
<1>8. k.state \in {"syn_rcvd", "established"} /\ k.state # "closed" /\ k.peer = c
  BY DEF Talking, Found
<1>9. out \o << >> = out
  BY <1>2, ConcatEmptySeq
<1>10. /\ a \in Connections /\ a.state = "established" /\ a.peer = k.peer
       /\ a.rcv_nxt = IF NewData(m) THEN k.rcv_nxt + m.len ELSE k.rcv_nxt
       /\ a.snd_nxt = Acked(k, m).snd_nxt
       /\ ~ForUs(m) /\ Acks(k, m) => a.textlen = 0 /\ a.len = 0
  BY <1>1, <1>2, AfterIs
<1> HIDE DEF a
<1>11. CASE IsAck(m)
  <2>1. ~NewData(m) /\ ~ForUs(m)
    BY <1>11 DEF IsAck, NewData, ForUs
  <2>2. CASE ~Acks(k, m)
    <3>1. toServer'[c] = Tail(in) /\ toClient'[c] = out /\ UNCHANGED conn
      BY <1>6, <1>7, <1>9, <2>1, <2>2
    <3>2. Talking(r, k, Tail(in), out)
      BY <1>1, <1>2, <1>3, <1>8, <1>11, AckHeard
    <3> QED BY <1>1, <3>1, <3>2 DEF Found
  <2>3. CASE Acks(k, m)
    <3>1. conn'[s] = a
      BY <1>5, <1>7, <2>3
    <3>2. a.textlen = 0 /\ a.len = 0
      BY <1>10, <2>1, <2>3
    <3>3. Reply(c, << >>)
      BY <1>7, <2>1, <2>3, <3>2
    <3>4. toServer'[c] = Tail(in) /\ toClient'[c] = out
      BY <1>6, <1>9, <3>3
    <3>5. a.snd_nxt + a.len = k.snd_nxt + k.len /\ a.rcv_nxt = k.rcv_nxt
      <4>1. a.snd_nxt = m.ack /\ m.ack = k.snd_nxt + k.len /\ m.ack \in Nat
        BY <1>1, <1>2, <1>10, <2>3, AckedIs DEF Acks, ToServer
      <4> QED BY <1>10, <2>1, <3>2, <4>1
    <3>6. Talking(r, a, Tail(in), out)
      BY <1>1, <1>2, <1>3, <1>10, <1>11, <3>5, AckHeard
    <3>7. Found(c, s)'
      BY <1>8, <1>10, <3>1 DEF Found
    <3> QED BY <1>1, <3>1, <3>4, <3>6, <3>7
  <2> QED BY <2>2, <2>3
<1>12. CASE ~IsAck(m)
  <2>1. Waiting(r, k, in, out) /\ Len(in) = 1 /\ IsRequest(r, m) /\ out = << >>
    BY <1>4, <1>12 DEF Waiting
  <2>2. NewData(m)
    BY <2>1 DEF IsRequest, NewData
  <2>3. ForUs(m)
    BY <1>7, <2>2
  <2> DEFINE reply == Segment("data", a.snd_nxt, a.rcv_nxt, a.len, responseCmd(c, m))
  <2>4. a.textlen > 0 /\ Talking(r, a, << >>, <<reply>>)
    BY <1>1, <1>2, <1>3, <1>12, <2>1, <2>3, RequestHeard DEF a
  <2>5. conn'[s] = a /\ Reply(c, <<reply>>)
    BY <1>5, <1>7, <2>2, <2>3, <2>4
  <2> HIDE DEF reply
  <2>6. toServer'[c] = << >> /\ toClient'[c] = <<reply>>
    <3>1. Tail(in) = << >>
      BY <1>2, <2>1, OneElement
    <3>2. << >> \o <<reply>> = <<reply>>
      OBVIOUS
    <3> QED BY <1>6, <2>1, <2>5, <3>1, <3>2
  <2>7. Found(c, s)'
    BY <1>8, <1>10, <2>5 DEF Found
  <2> QED BY <1>1, <2>4, <2>5, <2>6, <2>7
<1> QED BY <1>11, <1>12

LEMMA PollingCalling ==
  ASSUME TcpTypes, NEW c \in Client, uip_polling(c), Calling(c)
  PROVE  Calling(c)'
<1> DEFINE m == Head(toServer[c])
<1>1. toServer[c] # << >> /\ m \in ToServer /\ Segments(c, m) /\ UNCHANGED <<client, got>>
  BY PollingHandles
<1>2. /\ \A s \in Slot : ~Found(c, s)
      /\ toServer[c] = <<Syn>> /\ toClient[c] = << >>
  BY <1>1 DEF Calling
<1>3. NewConnection(c, m)
  <2>1. m = Syn
    BY <1>2
  <2>2. m.kind = "syn"
    BY <2>1 DEF Syn, Segment
  <2>3. ~NoConnection(c, m)
    BY <2>2 DEF NoConnection
  <2> QED BY <1>1, <1>2, <2>3 DEF Segments, OutOfOrder, Established, Finish, LastAck, Aborted
<1>4. \A segments : Reply(c, segments) => toServer'[c] = << >> /\ toClient'[c] = << >> \o segments
  <2>1. Tail(<<Syn>>) = << >>
    OBVIOUS
  <2>2. toServer \in [Client -> Seq(ToServer)] /\ toClient \in [Client -> Seq(ToClient)]
    BY DEF TcpTypes, NetTypes
  <2> QED BY <1>2, <2>1, <2>2 DEF Reply
<1>5. client'[c] = [Away EXCEPT !.state = "syn_sent", !.snd = 1, !.unacked = {Syn}] /\ got'[c] = Nothing
  BY <1>1 DEF Calling
<1>6. CASE Reply(c, << >>) /\ UNCHANGED conn
  <2>1. toServer'[c] = << >> /\ toClient'[c] = << >>
    <3>1. << >> \o << >> = << >>
      OBVIOUS
    <3> QED BY <1>4, <1>6, <3>1
  <2>2. \A s \in Slot : ~Found(c, s)'
    BY <1>2, <1>6 DEF Found
  <2> QED BY <1>5, <2>1, <2>2 DEF Calling
<1>7. CASE /\ Reply(c, <<SynAck>>)
           /\ \E s \in Slot : /\ conn[s].state = "closed"
                             /\ conn' = [conn EXCEPT ![s] = Opened(c, conn[s])]
  <2>1. toServer'[c] = << >> /\ toClient'[c] = <<SynAck>>
    <3>1. << >> \o <<SynAck>> = <<SynAck>>
      OBVIOUS
    <3> QED BY <1>4, <1>7, <3>1
  <2>2. PICK s \in Slot : conn' = [conn EXCEPT ![s] = Opened(c, conn[s])]
    BY <1>7
  <2>3. conn[s] \in Connections /\ conn'[s] = Opened(c, conn[s])
    BY <2>2 DEF TcpTypes, ServerTypes
  <2>4. /\ conn'[s].state = "syn_rcvd" /\ conn'[s].peer = c
        /\ conn'[s].snd_nxt = 0 /\ conn'[s].rcv_nxt = 1 /\ conn'[s].len = 1
    BY <2>3 DEF Opened, Connections
  <2>5. Found(c, s)'
    BY <2>4 DEF Found
  <2> QED BY <1>5, <2>1, <2>4, <2>5 DEF Calling
<1> QED BY <1>1, <1>3, <1>6, <1>7, NewConnectionIs

LEMMA PollingWhole ==
  ASSUME TcpTypes, OneEach, NEW c \in Client, uip_polling(c), upset' = {}, Whole(c)
  PROVE  Whole(c)'
<1>1. UNCHANGED <<client, got>>
  BY PollingHandles
<1>2. client[c].state = "syn_sent" => Calling(c)'
  BY PollingCalling DEF Whole
<1>3. client[c].state = "established" =>
        \E s \in Slot : Found(c, s)' /\ Talking(client'[c], conn'[s], toServer'[c], toClient'[c])
  BY PollingTalking DEF Whole
<1> QED BY <1>1, <1>2, <1>3 DEF Whole

-----------------------------------------------------------------------------
(* What a client does: it leaves the connections alone.                    *)
LEMMA AskWhole ==
  ASSUME TcpTypes, NEW c \in Client, NEW unit \in Units, NEW len \in Lengths,
         Ask(c, unit, len), upset' = {}, Whole(c)
  PROVE  Whole(c)'
<1> DEFINE r == client[c]   in == toServer[c]   q == [r EXCEPT !.waits = TRUE, !.number = asked + 1]
           m == NextSegment(r, "data", 1, Request(unit, asked + 1, len))   j == Unacked(q, m)
<1>1. /\ r.state = "established" /\ Transmits(c, q, m) /\ ~r.waits
      /\ UNCHANGED <<conn, toClient, got>>
  BY DEF Ask
<1>2. /\ r \in Clients /\ in \in Seq(ToServer) /\ asked \in Nat
      /\ client \in [Client -> Clients] /\ toServer \in [Client -> Seq(ToServer)]
  BY DEF TcpTypes, ClientTypes, NetTypes
<1>3. client'[c] = j /\ toServer'[c] = Append(in, m)
  BY <1>1, <1>2 DEF Transmits, Unacked
<1>4. PICK s \in Slot : Found(c, s) /\ Talking(r, conn[s], in, toClient[c])
  BY <1>1 DEF Whole
<1>5. Idle(r, conn[s], in, toClient[c]) /\ conn[s].state \in {"syn_rcvd", "established"}
  BY <1>1, <1>4 DEF Talking, Waiting, Answered
<1>6. /\ m.kind = "data" /\ m.len = 1 /\ m.seq = r.snd /\ m.ack = r.rcv
      /\ m.data.number = asked + 1
  BY DEF NextSegment, Segment, Request
<1>7. /\ q.state = r.state /\ q.waits /\ q.number = asked + 1 /\ q.snd = r.snd /\ q.rcv = r.rcv
      /\ q.unacked = {} /\ q \in Clients
  <2>1. asked + 1 \in Nat
    BY <1>2
  <2>2. r.unacked = {}
    BY <1>5 DEF Idle
  <2>3. \A n \in Nat : LET p == [r EXCEPT !.waits = TRUE, !.number = n]
                      IN /\ p.state = r.state /\ p.waits /\ p.number = n /\ p.snd = r.snd
                         /\ p.rcv = r.rcv /\ p.unacked = r.unacked /\ p \in Clients
    BY <1>2 DEF Clients
  <2> QED BY <2>1, <2>2, <2>3
<1> HIDE DEF m, q
<1>8. /\ j.state = q.state /\ j.waits = q.waits /\ j.number = q.number /\ j.snd = q.snd + 1
      /\ j.rcv = q.rcv /\ j.unacked = {m}
  <2>1. j = [q EXCEPT !.snd = q.snd + 1, !.unacked = q.unacked \cup {m}]
    BY <1>6 DEF Unacked
  <2> QED BY <1>7, <2>1 DEF Clients
<1> HIDE DEF j
<1>9. r.snd \in Nat /\ r.rcv \in Nat
  BY <1>2 DEF Clients
<1>10. IsRequest(j, m) /\ m.ack = j.rcv
  BY <1>6, <1>7, <1>8 DEF IsRequest
<1>11. Waiting(j, conn[s], Append(in, m), toClient[c])
  <2>1. \A i \in 1 .. Len(Append(in, m)) :
           IsAck(Append(in, m)[i]) \/ (i = Len(Append(in, m)) /\ Append(in, m)[i] = m)
    <3>1. \A i \in 1 .. Len(in) : IsAck(in[i])
      BY <1>5 DEF Idle
    <3> QED BY <1>2, <3>1, Appended
  <2> QED BY <1>5, <1>7, <1>8, <1>9, <1>10, <2>1 DEF Waiting, Idle
<1>12. Talking(j, conn'[s], Append(in, m), toClient'[c])
  BY <1>1, <1>5, <1>11 DEF Talking
<1>13. Found(c, s)'
  BY <1>1, <1>4 DEF Found
<1> QED BY <1>1, <1>3, <1>7, <1>8, <1>12, <1>13 DEF Whole

LEMMA ConnectWhole ==
  ASSUME TcpTypes, NEW c \in Client, Connect(c)
  PROVE  Whole(c)'
<1> DEFINE q == [Away EXCEPT !.state = "syn_sent"]
<1>1. /\ toServer[c] = << >> /\ toClient[c] = << >> /\ UNCHANGED toClient
      /\ conn' = [s \in Slot |-> IF conn[s].peer = c THEN [conn[s] EXCEPT !.peer = Nobody] ELSE conn[s]]
      /\ Transmits(c, q, Syn) /\ got' = [got EXCEPT ![c] = Nothing]
  BY DEF Connect, Syn
<1>2. /\ client \in [Client -> Clients] /\ toServer \in [Client -> Seq(ToServer)]
      /\ got \in [Client -> [reply : Replies, len : Nat]]
  BY DEF TcpTypes, ClientTypes, NetTypes
<1>3. client'[c] = Unacked(q, Syn) /\ toServer'[c] = <<Syn>> /\ got'[c] = Nothing
  <2>1. Append(<< >>, Syn) = <<Syn>>
    OBVIOUS
  <2> QED BY <1>1, <1>2, <2>1 DEF Transmits, Unacked
<1>4. Unacked(q, Syn) = [Away EXCEPT !.state = "syn_sent", !.snd = 1, !.unacked = {Syn}]
  BY DEF Unacked, Syn, Segment, Away
<1>5. \A s \in Slot : ~Found(c, s)'
  <2> SUFFICES ASSUME NEW s \in Slot, Found(c, s)' PROVE FALSE
    OBVIOUS
  <2>1. conn[s] \in Connections /\ c # Nobody
    BY Positive DEF TcpTypes, ServerTypes
  <2>2. conn'[s] = IF conn[s].peer = c THEN [conn[s] EXCEPT !.peer = Nobody] ELSE conn[s]
    BY <1>1
  <2> QED BY <2>1, <2>2 DEF Found, Connections
<1>6. Calling(c)'
  BY <1>1, <1>3, <1>4, <1>5 DEF Calling
<1>7. client'[c].state = "syn_sent" /\ got'[c].len = got'[c].reply.len
  <2>1. [Away EXCEPT !.state = "syn_sent", !.snd = 1, !.unacked = {Syn}].state = "syn_sent"
    BY DEF Away
  <2>2. Nothing.len = Nothing.reply.len
    BY DEF Nothing, NoReply
  <2> QED BY <1>3, <1>4, <2>1, <2>2
<1> QED BY <1>6, <1>7 DEF Whole

LEMMA RetransmitWhole ==
  ASSUME TcpTypes, NEW c \in Client, Retransmit(c), Whole(c)
  PROVE  Whole(c)'
<1> DEFINE r == client[c]
<1>1. PICK m \in r.unacked : toServer' = [toServer EXCEPT ![c] = <<[m EXCEPT !.ack = r.rcv]>>]
  BY DEF Retransmit
<1> DEFINE q == [m EXCEPT !.ack = r.rcv]
<1>2. /\ toServer[c] = << >> /\ toClient[c] = << >>
      /\ UNCHANGED <<conn, toClient, client, got>>
  BY DEF Retransmit
<1>3. r \in Clients /\ toServer \in [Client -> Seq(ToServer)] /\ toClient[c] \in Seq(ToClient)
  BY DEF TcpTypes, ClientTypes, NetTypes
<1>4. m \in ToServer
  BY <1>3 DEF Clients
<1>5. q.kind = m.kind /\ q.len = m.len /\ q.seq = m.seq /\ q.data = m.data /\ q.ack = r.rcv
  BY <1>4 DEF ToServer
<1>6. toServer'[c] = <<q>>
  BY <1>1, <1>3
<1>7. Len(<< >>) = 0 /\ Len(<<q>>) = 1 /\ <<q>>[1] = q
  OBVIOUS
<1>8. r.state = "syn_sent" => Calling(c)'
  <2> SUFFICES ASSUME Calling(c) PROVE Calling(c)'
    BY DEF Whole
  <2>1. r = [Away EXCEPT !.state = "syn_sent", !.snd = 1, !.unacked = {Syn}]
    BY DEF Calling
  <2>2. m = Syn /\ r.rcv = 0
    BY <2>1 DEF Away
  <2>3. q = Syn
    BY <2>2 DEF Syn, Segment
  <2>4. \A s \in Slot : ~Found(c, s)'
    BY <1>2 DEF Calling, Found
  <2> QED BY <1>2, <1>6, <2>3, <2>4 DEF Calling
<1> HIDE DEF q
<1>9. ASSUME NEW s \in Slot, Found(c, s), Talking(r, conn[s], toServer[c], toClient[c])
      PROVE  Found(c, s)' /\ Talking(r, conn'[s], toServer'[c], toClient'[c])
  <2>1. Waiting(r, conn[s], << >>, << >>) /\ conn[s].state \in {"syn_rcvd", "established"}
    BY <1>2, <1>7, <1>9 DEF Talking, Idle, Answered
  <2>2. IsRequest(r, q)
    BY <1>5, <2>1 DEF Waiting, IsRequest
  <2>3. Waiting(r, conn[s], <<q>>, << >>)
    BY <1>5, <1>7, <2>1, <2>2 DEF Waiting
  <2> QED BY <1>2, <1>6, <1>9, <2>1, <2>3 DEF Talking, Found
<1> QED BY <1>2, <1>8, <1>9 DEF Whole

LEMMA LoseToServerWhole ==
  ASSUME TcpTypes, NEW c \in Client, LoseToServer(c), Whole(c)
  PROVE  Whole(c)'
<1> DEFINE r == client[c]   in == toServer[c]
<1>1. in # << >> /\ toServer' = [toServer EXCEPT ![c] = Tail(in)] /\ UNCHANGED <<conn, toClient, client, got>>
  BY DEF LoseToServer
<1>2. r \in Clients /\ toServer \in [Client -> Seq(ToServer)] /\ conn \in [Slot -> Connections]
  BY DEF TcpTypes, ClientTypes, NetTypes, ServerTypes
<1>3. toServer'[c] = Tail(in) /\ in \in Seq(ToServer)
  BY <1>1, <1>2
<1>4. r.state = "syn_sent" => Calling(c)'
  <2> SUFFICES ASSUME Calling(c) PROVE Calling(c)'
    BY DEF Whole
  <2>1. in = <<Syn>> /\ Tail(<<Syn>>) = << >>
    BY <1>1 DEF Calling
  <2>2. toServer'[c] = << >>
    BY <1>3, <2>1
  <2>3. (\A s \in Slot : ~Found(c, s)') /\ toClient[c] = << >>
    BY <1>1, <2>1 DEF Calling, Found
  <2> QED BY <1>1, <2>2, <2>3 DEF Calling
<1>5. ASSUME NEW s \in Slot, Found(c, s), Talking(r, conn[s], in, toClient[c])
      PROVE  Found(c, s)' /\ Talking(r, conn'[s], toServer'[c], toClient'[c])
  <2>1. conn[s] \in Connections /\ conn[s].state \in {"syn_rcvd", "established"}
    BY <1>2, <1>5 DEF Talking
  <2>2. Talking(r, conn[s], Tail(in), toClient[c])
    BY <1>1, <1>2, <1>3, <1>5, <2>1, AckHeard
  <2> QED BY <1>1, <1>3, <1>5, <2>2 DEF Found
<1> QED BY <1>1, <1>4, <1>5 DEF Whole

LEMMA AwayWhole ==      \* a client that closes, aborts or vanishes
  ASSUME NEW c \in Client, Whole(c), got'[c] = got[c],
         client'[c].state \notin {"syn_sent", "established"}
  PROVE  Whole(c)'
BY DEF Whole

LEMMA TakeWhole ==
  ASSUME TcpTypes, NEW c \in Client, Take(c), Whole(c)
  PROVE  Whole(c)'
<1> DEFINE r == client[c]   out == toClient[c]   m == Head(out)   j == Answer(r, m)   p == Past(r, m)
<1>1. /\ out # << >> /\ toClient' = [toClient EXCEPT ![c] = Tail(out)] /\ UNCHANGED conn
  BY TakeIs
<1>2. /\ r \in Clients /\ out \in Seq(ToClient) /\ conn \in [Slot -> Connections]
      /\ toServer[c] \in Seq(ToServer)
      /\ client \in [Client -> Clients] /\ got \in [Client -> [reply : Replies, len : Nat]]
      /\ toServer \in [Client -> Seq(ToServer)] /\ toClient \in [Client -> Seq(ToClient)]
  BY DEF TcpTypes, ClientTypes, NetTypes, ServerTypes
<1>3. m \in ToClient /\ m = out[1]
  BY <1>1, <1>2, Elements
<1>4. toClient'[c] = Tail(out)
  BY <1>1, <1>2
<1>5. Heard(r, m).state = r.state /\ (New(Heard(r, m), m) <=> New(r, m))
  BY <1>2, <1>3, HeardIs, AnswerIs
<1>6. CASE r.state = "syn_sent"
  <2>1. /\ r = [Away EXCEPT !.state = "syn_sent", !.snd = 1, !.unacked = {Syn}]
        /\ got[c] = Nothing /\ toServer[c] = << >> /\ out = <<SynAck>>
        /\ \E s \in Slot : /\ Found(c, s) /\ conn[s].state = "syn_rcvd"
                          /\ conn[s].snd_nxt = 0 /\ conn[s].rcv_nxt = 1 /\ conn[s].len = 1
    BY <1>1, <1>6 DEF Whole, Calling
  <2>2. PICK s \in Slot : /\ Found(c, s) /\ conn[s].state = "syn_rcvd"
                          /\ conn[s].snd_nxt = 0 /\ conn[s].rcv_nxt = 1 /\ conn[s].len = 1
    BY <2>1
  <2>3. m = SynAck
    BY <2>1
  <2>4. m.kind = "syn" /\ m.ack = 1 /\ m.len = 1
    BY <2>3 DEF SynAck, Segment
  <2>5. /\ p.unacked = {u \in r.unacked : u.seq >= 1} /\ p.snd = 1 /\ p.rcv = 1 /\ p.waits = FALSE
        /\ p.number = 0 /\ p \in Clients
    <3>1. r.snd = 1 /\ r.rcv = 0 /\ r.waits = FALSE /\ r.number = 0
      BY <2>1 DEF Away
    <3>2. /\ p \in Clients /\ p.unacked = {u \in r.unacked : u.seq >= m.ack}
          /\ p.snd = r.snd /\ p.rcv = r.rcv + m.len /\ p.waits = r.waits /\ p.number = r.number
      <4>1. r \in Clients /\ m \in ToClient
        BY <1>2, <1>3
      <4> HIDE DEF r, m
      <4>2. /\ Past(r, m) \in Clients /\ Past(r, m).unacked = Heard(r, m).unacked
            /\ Heard(r, m).unacked = {u \in r.unacked : u.seq >= m.ack}
        BY <4>1, HeardIs
      <4>3. /\ Past(r, m).snd = r.snd /\ Past(r, m).rcv = r.rcv + m.len
            /\ Past(r, m).waits = r.waits /\ Past(r, m).number = r.number
        BY <4>1, HeardIs
      <4> QED
        BY <4>2, <4>3
    <3> HIDE DEF p, m
    <3>3. p.rcv = 1
      BY <2>4, <3>1, <3>2
    <3> QED BY <2>4, <3>1, <3>2, <3>3
  <2>6. p.unacked = {}
    <3>1. r.unacked = {Syn} /\ Syn.seq = 0
      BY <2>1 DEF Away, Syn, Segment
    <3> QED BY <2>5, <3>1
  <2> DEFINE k == [p EXCEPT !.state = "established"]   ack == NextSegment(p, "data", 0, NoReply)
  <2>7. Transmits(c, k, ack) /\ UNCHANGED got
    BY <1>5, <1>6, <2>4, TakeIs
  <2>8. /\ k.unacked = {} /\ k.snd = 1 /\ k.rcv = 1 /\ ~k.waits /\ k.state = "established"
    BY <2>5, <2>6 DEF Clients
  <2>9. ack.len = 0 /\ IsAck(ack)
    BY DEF NextSegment, Segment, IsAck
  <2> HIDE DEF k, ack
  <2>10. client'[c] = k /\ toServer'[c] = <<ack>> /\ toClient'[c] = << >>
    <3>1. Append(<< >>, ack) = <<ack>> /\ Tail(<<SynAck>>) = << >> /\ ~(0 > 0)
      OBVIOUS
    <3> QED BY <1>2, <1>4, <2>1, <2>7, <2>9, <3>1 DEF Transmits
  <2>11. Idle(k, conn[s], <<ack>>, << >>)
    <3>1. \A i \in 1 .. Len(<<ack>>) : <<ack>>[i] = ack
      OBVIOUS
    <3> QED BY <2>2, <2>8, <2>9, <3>1 DEF Idle
  <2>12. Found(c, s)' /\ Talking(client'[c], conn'[s], toServer'[c], toClient'[c])
    BY <1>1, <2>2, <2>10, <2>11 DEF Found, Talking
  <2>13. got'[c] = Nothing /\ Nothing.reply.client = Nobody /\ Nothing.len = Nothing.reply.len /\ c # Nobody
    BY <2>1, <2>7, Positive DEF Nothing, NoReply
  <2> QED BY <2>8, <2>10, <2>12, <2>13 DEF Whole
<1>7. CASE r.state = "established"
  <2>1. PICK s \in Slot : Found(c, s) /\ Talking(r, conn[s], toServer[c], out)
    BY <1>7 DEF Whole
  <2>2. Answered(r, conn[s], toServer[c], out) /\ conn[s].state \in {"syn_rcvd", "established"}
    BY <1>1, <2>1 DEF Talking, Idle, Waiting
  <2>3. toServer[c] = << >> /\ Len(out) = 1 /\ m.kind = "data"
    BY <1>3, <2>2 DEF Answered
  <2>4. toClient'[c] = << >>
    BY <1>2, <1>4, <2>3, OneElement
  <2> DEFINE ack == NextSegment(j, "data", 0, NoReply)
  <2>5. /\ Transmits(c, j, ack) \/ (client' = [client EXCEPT ![c] = j] /\ UNCHANGED toServer)
        /\ got' = IF New(r, m) THEN [got EXCEPT ![c] = [reply |-> m.data, len |-> m.len]] ELSE got
    BY <1>5, <1>7, <2>3, TakeIs
  <2>6. ack.len = 0 /\ IsAck(ack) /\ ack \in ToServer
    <3>1. j \in Clients
      BY <1>2, <1>3, AnswerIs
    <3> QED BY <3>1, NextSegmentTyped, Constants DEF NextSegment, Segment, IsAck, Kinds
  <2>7. j.state = "established"
    BY <1>2, <1>3, <1>7, AnswerIs
  <2> HIDE DEF ack, j
  <2>8. client'[c] = j /\ toServer'[c] \in {<<ack>>, << >>}
    <3>1. Append(<< >>, ack) = <<ack>> /\ ~(0 > 0)
      OBVIOUS
    <3>2. CASE Transmits(c, j, ack)
      BY <1>2, <2>3, <2>6, <3>1, <3>2 DEF Transmits
    <3>3. CASE client' = [client EXCEPT ![c] = j] /\ UNCHANGED toServer
      BY <1>2, <2>3, <3>3
    <3> QED BY <2>5, <3>2, <3>3
  <2>9. ASSUME NEW acks \in {<<ack>>, << >>}
        PROVE  acks \in Seq(ToServer) /\ \A i \in 1 .. Len(acks) : IsAck(acks[i])
    <3>1. <<ack>> \in Seq(ToServer) /\ << >> \in Seq(ToServer)
      BY <2>6, Singleton, Empty
    <3>2. (\A i \in 1 .. Len(<<ack>>) : <<ack>>[i] = ack) /\ 1 .. Len(<< >>) = {}
      OBVIOUS
    <3>3. CASE acks = <<ack>>
      BY <2>6, <3>1, <3>2, <3>3
    <3>4. CASE acks = << >>
      BY <3>1, <3>2, <3>4
    <3> QED BY <3>3, <3>4
  <2>10. j = Answer(r, out[1])
    BY <1>3 DEF j
  <2>11. conn[s] \in Connections
    BY <1>2
  <2>12. /\ New(r, m) /\ ~j.waits /\ m.len = m.data.len /\ m.data.number = j.number
         /\ Talking(j, conn[s], toServer'[c], << >>)
    <3> DEFINE acks == toServer'[c]
    <3>1. acks \in Seq(ToServer) /\ \A i \in 1 .. Len(acks) : IsAck(acks[i])
      BY <2>8, <2>9
    <3> HIDE DEF acks
    <3>2. /\ New(r, out[1]) /\ ~j.waits /\ out[1].len = out[1].data.len
          /\ out[1].data.number = j.number /\ Talking(j, conn[s], acks, << >>)
      BY <1>2, <2>2, <2>10, <2>11, <3>1, ReplyTaken
    <3> QED BY <1>3, <3>2 DEF acks
  <2>13. Found(c, s)' /\ Talking(client'[c], conn'[s], toServer'[c], toClient'[c])
    BY <1>1, <2>1, <2>4, <2>8, <2>12 DEF Found
  <2>14. got'[c].len = got'[c].reply.len /\ got'[c].reply.number = j.number
    <3> DEFINE reply == [reply |-> m.data, len |-> m.len]
    <3>1. got' = [got EXCEPT ![c] = reply]
      BY <2>5, <2>12
    <3>2. reply.reply = m.data /\ reply.len = m.len
      OBVIOUS
    <3> HIDE DEF reply
    <3>3. got'[c] = reply
      BY <1>2, <3>1
    <3> QED BY <2>12, <3>2, <3>3
  <2> QED BY <2>7, <2>8, <2>13, <2>14 DEF Whole
<1>8. CASE r.state \in {"closed", "fin_wait"}
  <2>1. UNCHANGED got
    BY <1>5, <1>8, TakeIs
  <2>2. client'[c] = Away \/ UNCHANGED client
    <3>1. NextSegment(p, "data", 0, NoReply).len = 0
      BY DEF NextSegment, Segment
    <3>2. Transmits(c, Away, NextSegment(p, "data", 0, NoReply)) \/ UNCHANGED client
      BY <1>5, <1>8, TakeIs
    <3> HIDE DEF p
    <3>3. ~(0 > 0)
      OBVIOUS
    <3> QED BY <1>2, <3>1, <3>2, <3>3 DEF Transmits
  <2>3. client'[c].state \notin {"syn_sent", "established"}
    BY <1>8, <2>2 DEF Away
  <2> QED BY <2>1, <2>3, AwayWhole
<1> QED BY <1>2, <1>6, <1>7, <1>8 DEF Clients

LEMMA WholeStep ==
  ASSUME TcpTypes, OneEach, [TcpNext]_tcpVars, upset' = {}, NEW d \in Client, Whole(d)
  PROVE  Whole(d)'
<1>0. /\ client \in [Client -> Clients] /\ got \in [Client -> [reply : Replies, len : Nat]]
      /\ toServer \in [Client -> Seq(ToServer)] /\ toClient \in [Client -> Seq(ToClient)]
  BY DEF TcpTypes, ClientTypes, NetTypes
<1>1. CASE UNCHANGED tcpVars
  BY <1>1, Frame DEF tcpVars, Found
<1>2. ASSUME NEW c \in Client, uip_polling(c) PROVE Whole(d)'
  <2>1. CASE c = d
    BY <1>2, <2>1, PollingWhole
  <2>2. CASE c # d
    <3>1. PICK segments : Sends(c, segments)
      BY <1>2, PollingHandles DEF Handles
    <3>2. toServer'[d] = toServer[d] /\ toClient'[d] = toClient[d]
      BY <1>0, <2>2, <3>1 DEF Sends, Reply
    <3>3. Elsewhere(c) /\ UNCHANGED <<client, got>>
      BY <1>2, PollingHandles DEF Handles
    <3> QED BY <2>2, <3>2, <3>3, Frame DEF Elsewhere
  <2> QED BY <2>1, <2>2
<1>3. ASSUME NEW c \in Client, Connect(c) PROVE Whole(d)'
  <2>1. CASE c = d
    BY <1>3, <2>1, ConnectWhole
  <2>2. CASE c # d
    <3>1. /\ conn' = [s \in Slot |-> IF conn[s].peer = c THEN [conn[s] EXCEPT !.peer = Nobody] ELSE conn[s]]
          /\ got' = [got EXCEPT ![c] = Nothing] /\ UNCHANGED toClient
      BY <1>3 DEF Connect
    <3>2. client'[d] = client[d] /\ toServer'[d] = toServer[d] /\ got'[d] = got[d]
      BY <1>0, <1>3, <2>2, <3>1 DEF Connect, Transmits
    <3>3. ASSUME NEW s \in Slot
          PROVE  (Found(d, s)' <=> Found(d, s)) /\ (Found(d, s) => conn'[s] = conn[s])
      <4>1. conn[s] \in Connections /\ d # Nobody
        BY Positive DEF TcpTypes, ServerTypes
      <4>2. CASE conn[s].peer = c
        <5>1. conn'[s].peer = Nobody
          BY <3>1, <4>1, <4>2 DEF Connections
        <5> QED BY <2>2, <4>1, <4>2, <5>1 DEF Found
      <4>3. CASE conn[s].peer # c
        BY <3>1, <4>3 DEF Found
      <4> QED BY <4>2, <4>3
    <3> QED BY <3>1, <3>2, <3>3, Frame
  <2> QED BY <2>1, <2>2
<1>4. ASSUME NEW c \in Client, c # d,
             Close(c) \/ Abort(c) \/ Retransmit(c) \/ Take(c) \/ Vanish(c) \/ LoseToServer(c)
             \/ (\E unit \in Units, len \in Lengths : Ask(c, unit, len))
      PROVE  Whole(d)'
  <2>1. UNCHANGED conn
    BY <1>4, TakeIs DEF Close, Abort, Retransmit, Vanish, LoseToServer, Ask
  <2>2. ASSUME NEW k, NEW m, Transmits(c, k, m)
        PROVE  client'[d] = client[d] /\ toServer'[d] = toServer[d]
    BY <1>0, <1>4, <2>2 DEF Transmits
  <2>3. client'[d] = client[d] /\ toServer'[d] = toServer[d]
    <3>1. CASE Take(c)
      BY <1>0, <1>4, <2>2, <3>1, TakeIs
    <3>2. CASE Close(c) \/ Abort(c) \/ \E unit \in Units, len \in Lengths : Ask(c, unit, len)
      BY <2>2, <3>2 DEF Close, Abort, Ask
    <3>3. CASE Retransmit(c) \/ Vanish(c) \/ LoseToServer(c)
      BY <1>0, <1>4, <3>3 DEF Retransmit, Vanish, LoseToServer
    <3> QED BY <1>4, <3>1, <3>2, <3>3
  <2>4. got'[d] = got[d] /\ toClient'[d] = toClient[d]
    <3>1. CASE Take(c)
      <4> DEFINE m == Head(toClient[c])   reply == [reply |-> m.data, len |-> m.len]
      <4>1. /\ toClient' = [toClient EXCEPT ![c] = Tail(@)]
            /\ UNCHANGED got \/ got' = [got EXCEPT ![c] = reply]
        BY <3>1, TakeIs
      <4> HIDE DEF reply
      <4> QED BY <1>0, <1>4, <4>1
    <3>2. CASE ~Take(c)
      BY <1>0, <1>4, <3>2 DEF Close, Abort, Retransmit, Vanish, LoseToServer, Ask
    <3> QED BY <3>1, <3>2
  <2> QED BY <2>1, <2>3, <2>4, Frame DEF Found
<1>5. CASE \E unit \in Units, len \in Lengths : Ask(d, unit, len)
  BY <1>5, AskWhole
<1>6. CASE Close(d) \/ Abort(d) \/ Vanish(d)
  <2>1. UNCHANGED got
    BY <1>6 DEF Close, Abort, Vanish
  <2>2. client'[d].state \in {"closed", "fin_wait"}
    <3>1. ASSUME NEW k, NEW m, Transmits(d, k, m), k \in Clients, m \in ToServer,
                 k.state \in {"closed", "fin_wait"}
          PROVE  client'[d].state \in {"closed", "fin_wait"}
      <4>1. client'[d] = Unacked(k, m)
        BY <1>0, <3>1, TransmitsTyped
      <4>2. Unacked(k, m).state = k.state
        BY <3>1 DEF Unacked, Clients
      <4> QED BY <3>1, <4>1, <4>2
    <3>2. CASE Close(d)
      <4>1. /\ [client[d] EXCEPT !.state = "fin_wait"] \in Clients
            /\ [client[d] EXCEPT !.state = "fin_wait"].state = "fin_wait"
        BY <1>0 DEF Clients
      <4>2. NextSegment(client[d], "fin", 1, NoReply) \in ToServer
        BY <1>0, NextSegmentTyped, Constants DEF Kinds
      <4> QED BY <3>1, <3>2, <4>1, <4>2 DEF Close
    <3>3. CASE Abort(d)
      <4>1. NextSegment(client[d], "rst", 0, NoReply) \in ToServer
        BY <1>0, NextSegmentTyped, Constants DEF Kinds
      <4>2. Away.state = "closed"
        BY DEF Away
      <4> QED BY <3>1, <3>3, <4>1, <4>2, Constants DEF Abort
    <3>4. CASE Vanish(d)
      BY <1>0, <3>4 DEF Vanish, Away
    <3> QED BY <1>6, <3>2, <3>3, <3>4
  <2> QED BY <2>1, <2>2, AwayWhole
<1>7. CASE Retransmit(d) \/ Take(d) \/ LoseToServer(d)
  BY <1>7, RetransmitWhole, TakeWhole, LoseToServerWhole
<1>8. ASSUME NEW c \in Client, LoseToClient(c) PROVE FALSE
  BY <1>8 DEF LoseToClient
<1> QED BY <1>1, <1>2, <1>3, <1>4, <1>5, <1>6, <1>7, <1>8 DEF TcpNext

LEMMA UpsetStays == TcpTypes /\ [TcpNext]_tcpVars => upset \subseteq upset'
<1> SUFFICES ASSUME TcpTypes, [TcpNext]_tcpVars PROVE upset \subseteq upset'
  OBVIOUS
<1>1. ASSUME NEW c \in Client, uip_polling(c) PROVE upset \subseteq upset'
  BY <1>1, PollingHandles DEF Handles
<1>2. ASSUME NEW c \in Client, Take(c) PROVE upset \subseteq upset'
  BY <1>2, TakeIs
<1> QED BY <1>1, <1>2 DEF TcpNext, tcpVars, Connect, Close, Abort, Retransmit, Vanish, Ask,
                          LoseToServer, LoseToClient

(* WholeReply: a client that waits for each reply and loses none takes the
   reply to its last request, all of it and no more. *)
THEOREM LastReplyIsWhole == TcpSpec => []WholeReply
<1>1. TcpInit => WholeInv
  <2> SUFFICES ASSUME TcpInit PROVE WholeInv
    OBVIOUS
  <2>1. OneEach
    BY DEF TcpInit, OneEach, Found, Closed
  <2>2. ASSUME NEW c \in Client PROVE Whole(c)
    <3>1. client[c].state = "closed" /\ got[c] = Nothing
      BY DEF TcpInit, Away
    <3>2. Nothing.len = Nothing.reply.len
      BY DEF Nothing, NoReply
    <3> QED BY <3>1, <3>2 DEF Whole
  <2> QED BY <2>1, <2>2 DEF WholeInv
<1>2. TcpTypes /\ WholeInv /\ [TcpNext]_tcpVars => (TcpTypes /\ WholeInv)'
  <2> SUFFICES ASSUME TcpTypes, WholeInv, [TcpNext]_tcpVars PROVE (TcpTypes /\ WholeInv)'
    OBVIOUS
  <2>1. TcpTypes' /\ OneEach'
    BY TcpStepTyped, OneStep DEF WholeInv
  <2>2. ASSUME upset' = {}, NEW d \in Client PROVE Whole(d)'
    <3>1. upset = {}
      BY <2>2, UpsetStays
    <3> QED BY <2>2, <3>1, WholeStep DEF WholeInv
  <2> QED BY <2>1, <2>2 DEF WholeInv
<1>3. WholeInv => WholeReply
  BY DEF WholeInv, WholeReply, Whole
<1> QED BY <1>1, <1>2, <1>3, TcpInitTyped, PTL DEF TcpSpec
=============================================================================
