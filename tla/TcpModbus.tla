------------------------------ MODULE TcpModbus ------------------------------
(***************************************************************************)
(* The Modbus TCP server (uIP-APP/tcp_modbus.c) on uIP (uIP-1.0/uip/uip.c) *)
(* in the NET task, and its clients over a network that may lose segments. *)
(* uip_periodic is never called (USER/main.c), so uIP sends only when it   *)
(* is sent something: it repeats nothing and gives up nothing.  One reply  *)
(* buffer serves all connections.                                          *)
(***************************************************************************)
EXTENDS Naturals, Sequences, FiniteSets

CONSTANTS
  Client, Nobody,
  Conns,                \* UIP_CONNS, 40
  Units,                \* addressed: "us", the module, or another
  Lengths,              \* of replies, in units; a request has one unit
  MaxAsked, MaxConnects, MaxFaults      \* bounds

ASSUME TcpAssumption ==
  /\ IsFiniteSet(Client) /\ Nobody \notin Client /\ Lengths \subseteq Nat \ {0}
  /\ MaxAsked \in Nat /\ MaxConnects \in Nat /\ MaxFaults \in Nat
  /\ Conns \in Nat /\ Conns >= Cardinality(Client) + MaxFaults

VARIABLES
  conn,                 \* uip_conns: state, peer, snd_nxt, rcv_nxt, len, textlen
  tcp_server_sendbuf,   \* the reply: whose, to which request, its length
  toServer, toClient,   \* segments on their way
  client,               \* state, snd, rcv; unacked segments; does it wait for
                        \* a reply; the number of its last request
  got,                  \* the last reply each took on its connection
  upset,                \* history: what the server does not cope with
  asked, connects, faults

tcpVars == <<conn, tcp_server_sendbuf, toServer, toClient, client, got, upset, asked, connects, faults>>

Slot == 1 .. Conns

NoReply == [client |-> Nobody, number |-> 0, len |-> 0]
Nothing == [reply |-> NoReply, len |-> 0]
Request(unit, number, len) == [unit |-> unit, number |-> number, len |-> len]
Closed == [state |-> "closed", peer |-> Nobody, snd_nxt |-> 0, rcv_nxt |-> 0,
           len |-> 0, textlen |-> 0]
Away == [state |-> "closed", snd |-> 0, rcv |-> 0, unacked |-> {},
         waits |-> FALSE, number |-> 0]

\* kind is "syn", "fin", "rst" or "data"; a pure acknowledge is data of length 0.
Segment(kind, seq, ack, len, data) ==
  [kind |-> kind, seq |-> seq, ack |-> ack, len |-> len, data |-> data]

TcpInit ==
  /\ conn = [s \in Slot |-> Closed] /\ tcp_server_sendbuf = NoReply
  /\ toServer = [c \in Client |-> << >>] /\ toClient = [c \in Client |-> << >>]
  /\ client = [c \in Client |-> Away] /\ got = [c \in Client |-> Nothing]
  /\ upset = {} /\ asked = 0 /\ connects = 0 /\ faults = 0

-----------------------------------------------------------------------------
(* The application, called with the flags of uIP; k is the connection.     *)
NewData(m) == m.kind = "data" /\ m.len > 0
ForUs(m) == NewData(m) /\ m.data.unit = "us"

\* Deviant: the length of the last reply is kept.
tcp_server_connected_kept(k) == k

tcp_server_connected(k) == [k EXCEPT !.textlen = 0]

\* Deviant: the length of the reply is kept when it is acknowledged.
tcp_server_acked_kept(k) == k

tcp_server_acked(k) == [k EXCEPT !.textlen = 0]

responseCmd(c, m) ==    \* the reply to a request, in the buffer of all
  [client |-> c, number |-> m.data.number, len |-> m.data.len]

\* Deviant: a request that comes with an acknowledge is left unanswered.
tcp_server_appcall_either(k, flag, m) ==
  CASE flag = "connected" -> tcp_server_connected(k)
    [] flag = "acked"     -> tcp_server_acked(k)
    [] OTHER -> IF ForUs(m) THEN [k EXCEPT !.textlen = m.data.len] ELSE k

tcp_server_appcall(k, flag, m) ==
  LET called == CASE flag = "connected" -> tcp_server_connected(k)
                  [] flag = "acked"     -> tcp_server_acked(k)
                  [] OTHER              -> k
  IN IF ForUs(m) THEN [called EXCEPT !.textlen = m.data.len] ELSE called

\* uIP after the call: a connection with data in transit sends no more than that.
AppSend(k) == IF k.textlen > 0 /\ k.len = 0 THEN [k EXCEPT !.len = k.textlen] ELSE k

-----------------------------------------------------------------------------
(* uip_input, at segment m of client c, which connection s belongs to.     *)
Reply(c, segments) ==
  /\ toServer' = [toServer EXCEPT ![c] = Tail(@)]
  /\ toClient' = [toClient EXCEPT ![c] = @ \o segments]
Ack(k) == <<Segment("data", k.snd_nxt, k.rcv_nxt, 0, NoReply)>>

Found(c, s) == conn[s].state # "closed" /\ conn[s].peer = c
InOrder(k, m) ==
  m.kind # "rst" /\ ((m.kind = "data" /\ m.len = 0) \/ m.seq = k.rcv_nxt)
Acks(k, m) == k.len > 0 /\ m.kind # "syn" /\ m.ack = k.snd_nxt + k.len
Acked(k, m) == IF Acks(k, m) THEN [k EXCEPT !.snd_nxt = m.ack, !.len = 0] ELSE k

NewConnection(c, m) ==
  LET free == {s \in Slot : conn[s].state = "closed"}
  IN /\ m.kind = "syn" /\ ~\E s \in Slot : Found(c, s)
     /\ IF free = {} THEN Reply(c, << >>) /\ UNCHANGED conn
        ELSE LET s == CHOOSE s \in free : \A t \in free : s <= t
             IN /\ conn' = [conn EXCEPT ![s].state = "syn_rcvd", ![s].peer = c,
                              ![s].snd_nxt = 0, ![s].rcv_nxt = 1, ![s].len = 1]
                /\ Reply(c, <<Segment("syn", 0, 1, 1, NoReply)>>)
     /\ UNCHANGED <<tcp_server_sendbuf, upset>>

NoConnection(c, m) ==   \* a reset, to a client that has closed
  /\ m.kind # "syn" /\ ~\E s \in Slot : Found(c, s)
  /\ Reply(c, << >>) /\ UNCHANGED <<conn, tcp_server_sendbuf, upset>>

OutOfOrder(c, s, m) ==
  /\ Found(c, s) /\ m.kind # "rst" /\ ~InOrder(conn[s], m)
  /\ Reply(c, Ack(conn[s])) /\ UNCHANGED <<conn, tcp_server_sendbuf, upset>>

Established(c, s, m) ==
  LET k == Acked(conn[s], m)
      flag == IF ~Acks(conn[s], m) THEN "none"
              ELSE IF k.state = "syn_rcvd" THEN "connected" ELSE "acked"
      in == [k EXCEPT !.state = "established",
                      !.rcv_nxt = IF NewData(m) THEN @ + m.len ELSE @]
      called == tcp_server_appcall(in, flag, m)
      out == AppSend(called)
      buf == IF ForUs(m) THEN responseCmd(c, m) ELSE tcp_server_sendbuf
  IN /\ Found(c, s) /\ InOrder(conn[s], m)
     /\ \/ conn[s].state = "established" /\ m.kind = "data"
        \/ conn[s].state = "syn_rcvd" /\ flag = "connected"    \* a FIN is overlooked
     /\ IF flag = "none" /\ ~NewData(m)
        THEN Reply(c, << >>) /\ UNCHANGED <<conn, tcp_server_sendbuf>>
        ELSE /\ conn' = [conn EXCEPT ![s] = out]
             /\ tcp_server_sendbuf' = buf
             /\ Reply(c, IF out.textlen > 0
                         THEN <<Segment("data", out.snd_nxt, out.rcv_nxt, out.len, buf)>>
                         ELSE IF NewData(m) THEN Ack(out) ELSE << >>)
     /\ upset' = upset \cup (IF NewData(m) /\ ~ForUs(m) THEN {"other unit"} ELSE {})

Finish(c, s, m) ==      \* a FIN, dropped while data is in transit
  LET k == Acked(conn[s], m)
  IN /\ Found(c, s) /\ InOrder(conn[s], m) /\ m.kind = "fin"
     /\ conn[s].state = "established"
     /\ IF k.len > 0 THEN conn' = [conn EXCEPT ![s] = k] /\ Reply(c, << >>)
        ELSE LET called == tcp_server_appcall(k, IF Acks(conn[s], m) THEN "acked" ELSE "none", m)
                 last == [called EXCEPT !.rcv_nxt = @ + 1, !.len = 1, !.state = "last_ack"]
             IN /\ conn' = [conn EXCEPT ![s] = last]
                /\ Reply(c, <<Segment("fin", last.snd_nxt, last.rcv_nxt, 1, NoReply)>>)
     /\ UNCHANGED <<tcp_server_sendbuf, upset>>

Aborted(c, s, m) ==     \* textlen stays as it is
  /\ Found(c, s) /\ m.kind = "rst"
  /\ conn' = [conn EXCEPT ![s].state = "closed"]
  /\ Reply(c, << >>) /\ UNCHANGED <<tcp_server_sendbuf, upset>>

LastAck(c, s, m) ==
  /\ Found(c, s) /\ InOrder(conn[s], m) /\ conn[s].state = "last_ack"
  /\ conn' = [conn EXCEPT ![s].state = IF Acks(conn[s], m) THEN "closed" ELSE @]
  /\ Reply(c, << >>) /\ UNCHANGED <<tcp_server_sendbuf, upset>>

uip_polling(c) ==
  /\ toServer[c] # << >>
  /\ LET m == Head(toServer[c])
     IN \/ NewConnection(c, m) \/ NoConnection(c, m)
        \/ \E s \in Slot : OutOfOrder(c, s, m) \/ Established(c, s, m)
                           \/ Finish(c, s, m) \/ LastAck(c, s, m) \/ Aborted(c, s, m)
  /\ UNCHANGED <<client, got, asked, connects, faults>>

-----------------------------------------------------------------------------
(* External: the clients and the network.  A client comes back from another *)
(* port: what it had is a connection with nobody.                          *)
Transmits(c, k, m) ==
  /\ toServer' = [toServer EXCEPT ![c] = Append(@, m)]
  /\ client' = [client EXCEPT ![c] =
                  IF m.len > 0 THEN [k EXCEPT !.snd = @ + 1, !.unacked = @ \cup {m}] ELSE k]
NextSegment(k, kind, len, data) == Segment(kind, k.snd, k.rcv, len, data)

Connect(c) ==
  /\ client[c].state = "closed" /\ connects < MaxConnects /\ connects' = connects + 1
  /\ toServer[c] = << >> /\ toClient[c] = << >>
  /\ conn' = [s \in Slot |-> IF conn[s].peer = c THEN [conn[s] EXCEPT !.peer = Nobody] ELSE conn[s]]
  /\ Transmits(c, [Away EXCEPT !.state = "syn_sent"],
               Segment("syn", 0, 0, 1, NoReply))
  /\ got' = [got EXCEPT ![c] = Nothing]
  /\ UNCHANGED <<tcp_server_sendbuf, toClient, upset, asked, faults>>

Ask(c, unit, len) ==    \* upset when it asks again before the reply
  /\ client[c].state = "established" /\ asked < MaxAsked /\ asked' = asked + 1
  /\ Transmits(c, [client[c] EXCEPT !.waits = TRUE, !.number = asked + 1],
               NextSegment(client[c], "data", 1, Request(unit, asked + 1, len)))
  /\ upset' = upset \cup (IF client[c].waits THEN {"asked again"} ELSE {})
  /\ UNCHANGED <<conn, tcp_server_sendbuf, toClient, got, connects, faults>>

Close(c) ==
  /\ client[c].state = "established" /\ ~client[c].waits /\ client[c].unacked = {}
  /\ Transmits(c, [client[c] EXCEPT !.state = "fin_wait"], NextSegment(client[c], "fin", 1, NoReply))
  /\ UNCHANGED <<conn, tcp_server_sendbuf, toClient, got, upset, asked, connects, faults>>

Abort(c) ==             \* it closes at once
  /\ client[c].state = "established" /\ client[c].waits
  /\ Transmits(c, Away, NextSegment(client[c], "rst", 0, NoReply))
  /\ UNCHANGED <<conn, tcp_server_sendbuf, toClient, got, upset, asked, connects, faults>>

Retransmit(c) ==        \* its timer, when nothing is on its way: the first not acknowledged
  /\ toServer[c] = << >> /\ toClient[c] = << >>
  /\ \E m \in client[c].unacked :
       /\ \A u \in client[c].unacked : m.seq <= u.seq
       /\ toServer' = [toServer EXCEPT ![c] = <<[m EXCEPT !.ack = client[c].rcv]>>]
  /\ UNCHANGED <<conn, tcp_server_sendbuf, toClient, client, got, upset, asked, connects, faults>>

Take(c) ==
  LET m == Head(toClient[c])
      k == [client[c] EXCEPT !.unacked = {u \in @ : u.seq >= m.ack}]
      new == m.len > 0 /\ m.seq = k.rcv
      next == [k EXCEPT !.rcv = @ + m.len]
  IN /\ toClient[c] # << >> /\ toClient' = [toClient EXCEPT ![c] = Tail(@)]
     /\ \/ /\ k.state = "syn_sent" /\ m.kind = "syn"
           /\ Transmits(c, [next EXCEPT !.state = "established"],
                           NextSegment(next, "data", 0, NoReply))
           /\ UNCHANGED got
        \/ /\ k.state = "established" /\ m.kind = "data"
           /\ LET after == IF new THEN [next EXCEPT !.waits = FALSE] ELSE k
              IN \/ /\ m.len > 0        \* acknowledge it, or leave that to what is sent next
                    /\ Transmits(c, after, NextSegment(after, "data", 0, NoReply))
                 \/ client' = [client EXCEPT ![c] = after] /\ UNCHANGED toServer
           /\ got' = IF new THEN [got EXCEPT ![c] = [reply |-> m.data, len |-> m.len]] ELSE got
        \/ /\ k.state = "fin_wait" /\ m.kind = "fin" /\ new
           /\ Transmits(c, Away, NextSegment(next, "data", 0, NoReply)) /\ UNCHANGED got
        \/ /\ k.state = "closed" \/ (k.state = "syn_sent" /\ m.kind # "syn")
              \/ (k.state = "established" /\ m.kind # "data") \/ (k.state = "fin_wait" /\ ~new)
           /\ UNCHANGED <<toServer, client, got>>
     /\ UNCHANGED <<conn, tcp_server_sendbuf, upset, asked, connects, faults>>

Vanish(c) ==
  /\ client[c].state # "closed" /\ faults < MaxFaults /\ faults' = faults + 1
  /\ client' = [client EXCEPT ![c] = Away]
  /\ toServer' = [toServer EXCEPT ![c] = << >>] /\ toClient' = [toClient EXCEPT ![c] = << >>]
  /\ UNCHANGED <<conn, tcp_server_sendbuf, got, upset, asked, connects>>

LoseToServer(c) ==
  /\ toServer[c] # << >> /\ faults < MaxFaults /\ faults' = faults + 1
  /\ toServer' = [toServer EXCEPT ![c] = Tail(@)]
  /\ UNCHANGED <<conn, tcp_server_sendbuf, toClient, client, got, upset, asked, connects>>

LoseToClient(c) ==
  /\ toClient[c] # << >> /\ faults < MaxFaults /\ faults' = faults + 1
  /\ toClient' = [toClient EXCEPT ![c] = Tail(@)]
  /\ upset' = upset \cup {"lost reply"}
  /\ UNCHANGED <<conn, tcp_server_sendbuf, toServer, client, got, asked, connects>>

TcpNext == \E c \in Client :
  \/ uip_polling(c)
  \/ Connect(c) \/ Close(c) \/ Abort(c) \/ Retransmit(c) \/ Take(c) \/ Vanish(c)
  \/ \E unit \in Units, len \in Lengths : Ask(c, unit, len)
  \/ LoseToServer(c) \/ LoseToClient(c)

TcpSpec == TcpInit /\ [][TcpNext]_tcpVars
TcpFair == \A c \in Client :
  WF_tcpVars(uip_polling(c)) /\ WF_tcpVars(Retransmit(c)) /\ WF_tcpVars(Take(c))

-----------------------------------------------------------------------------
(* Type invariant of the server. *)
TcpTypeOK ==
  /\ \A s \in Slot : /\ conn[s].state \in {"closed", "syn_rcvd", "established", "last_ack"}
                     /\ conn[s].peer \in Client \cup {Nobody}
                     /\ conn[s].len \in Lengths \cup {0, 1} /\ conn[s].textlen \in Lengths \cup {0}
  /\ tcp_server_sendbuf.client \in Client \cup {Nobody}
  /\ upset \subseteq {"other unit", "asked again", "lost reply"}

(* One buffer and one send operation for all clients, and yet nobody takes
   the reply to another: even with segments lost and requests not waited
   for, as long as all requests are for this unit. *)
OwnReply == "other unit" \in upset \/ \A c \in Client : got[c].reply.client \in {c, Nobody}

(* A client that waits for each reply and loses none takes the reply to its
   last request, all of it and no more. *)
WholeReply ==
  upset # {} \/ \A c \in Client :
    /\ got[c].len = got[c].reply.len
    /\ client[c].state = "established" /\ ~client[c].waits /\ got[c].reply.client = c =>
         got[c].reply.number = client[c].number

(* Then every client is connected and every request answered, as long as
   fewer clients vanished than there are connections to spare: uIP, without
   its periodic call, never frees theirs. *)
Served ==
  \/ <>(upset # {})
  \/ \A c \in Client : []<>(\/ client[c].state = "closed"
                            \/ client[c].state = "established" /\ ~client[c].waits)
=============================================================================
