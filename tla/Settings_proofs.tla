-------------------------- MODULE Settings_proofs --------------------------
(***************************************************************************)
(* Proofs about Settings, for any serial numbers and addresses, any number *)
(* of requests and of power failures, and any interleaving of the COMM and *)
(* the NET task: a serial number is locked whole, the settings in use are  *)
(* those that are stored, and the address comes up whole.                  *)
(***************************************************************************)
EXTENDS Settings, SequenceTheorems, TLAPS

Values == Serial \cup IpAddress \cup
  {"zero", "erased", "open", "locked", "static", "dhcp", DefaultAddress}

-----------------------------------------------------------------------------
(* Sequences of pieces to store, and of groups to read.                    *)

LEMMA MembersOf ==
  ASSUME NEW S, NEW s \in Seq(S)
  PROVE  Members(s) = {s[i] : i \in 1 .. Len(s)}
BY DEF Members

(* Storing the first of the pieces leaves the others.                      *)
LEMMA Popped ==
  ASSUME NEW S, NEW s \in Seq(S), s # << >>
  PROVE  /\ Head(s) \in S /\ Tail(s) \in Seq(S)
         /\ Members(s) = {Head(s)} \cup Members(Tail(s))
         /\ Len(s) = 1 => Members(s) = {Head(s)}
         /\ Len(s) # 1 => Tail(s) # << >>
<1>1. Len(s) \in Nat \ {0} /\ DOMAIN s = 1 .. Len(s) /\ Head(s) = s[1]
      /\ Head(s) \in S
  BY EmptySeq
<1>2. Tail(s) \in Seq(S) /\ Len(Tail(s)) = Len(s) - 1
      /\ \A i \in 1 .. Len(s) - 1 : Tail(s)[i] = s[i + 1]
  BY <1>1, HeadTailProperties
<1>3. Members(s) = {s[i] : i \in 1 .. Len(s)}
      /\ Members(Tail(s)) = {s[i + 1] : i \in 1 .. Len(s) - 1}
  <2>1. Members(s) = {s[i] : i \in 1 .. Len(s)}
    BY <1>1, MembersOf
  <2>2. PICK t : t = Tail(s)
    OBVIOUS
  <2>3. t \in Seq(S) /\ Len(t) = Len(s) - 1
    BY <1>2, <2>2
  <2>4. Members(t) = {t[i] : i \in 1 .. Len(t)}
    BY <2>3, MembersOf
  <2>5. {t[i] : i \in 1 .. Len(s) - 1} = {s[i + 1] : i \in 1 .. Len(s) - 1}
    BY <1>2, <2>2
  <2> QED
    BY <2>1, <2>2, <2>3, <2>4, <2>5
<1>4. Members(s) = {Head(s)} \cup Members(Tail(s))
  <2>1. ASSUME NEW x \in Members(s)
        PROVE  x = s[1] \/ x \in Members(Tail(s))
    <3>1. PICK i \in 1 .. Len(s) : x = s[i]
      BY <1>3, <2>1
    <3>2. CASE i # 1
      <4>1. i - 1 \in 1 .. Len(s) - 1 /\ (i - 1) + 1 = i
        BY <1>1, <3>2
      <4> QED
        BY <1>3, <3>1, <4>1
    <3> QED
      BY <3>1, <3>2
  <2>2. ASSUME NEW x \in Members(Tail(s))
        PROVE  x \in Members(s)
    <3>1. PICK i \in 1 .. Len(s) - 1 : x = s[i + 1]
      BY <1>3, <2>2
    <3>2. i + 1 \in 1 .. Len(s)
      BY <1>1
    <3> QED
      BY <1>3, <3>1, <3>2
  <2>3. s[1] \in Members(s)
    BY <1>1, <1>3
  <2> QED
    BY <1>1, <2>1, <2>2, <2>3
<1>5. Len(s) = 1 => Members(s) = {s[1]}
  BY <1>3
<1> QED
  BY <1>1, <1>2, <1>4, <1>5

LEMMA Listed ==
  /\ Members(<< >>) = {}
  /\ \A a : Members(<<a>>) = {a}
  /\ \A a, b : Members(<<a, b>>) = {a, b}
  /\ \A a, b, c : Members(<<a, b, c>>) = {a, b, c}
  /\ \A a, b, c, d, e, f : Members(<<a, b, c, d, e, f>>) = {a, b, c, d, e, f}
BY DEF Members

(* What is left of Groups while they are read.                             *)
FromFlag == <<<<"flag">>, <<"ip1", "ip2">>, <<"mode">>>>
FromIp   == <<<<"ip1", "ip2">>, <<"mode">>>>
FromMode == <<<<"mode">>>>

UnreadOf(s) ==
  CASE s = Groups   -> Setting
    [] s = FromFlag -> {"flag", "ip1", "ip2", "mode"}
    [] s = FromIp   -> {"ip1", "ip2", "mode"}
    [] s = FromMode -> {"mode"}
    [] OTHER        -> {}

Unread == UnreadOf(comm.groups)
Rest   == {Groups, FromFlag, FromIp, FromMode, << >>}
Ip     == {"ip1", "ip2"}
Sn     == {"sn1", "sn2"}

LEMMA GroupsLeft ==
  /\ Head(Groups) = <<"sn1", "sn2">> /\ Tail(Groups) = FromFlag
  /\ Head(FromFlag) = <<"flag">> /\ Tail(FromFlag) = FromIp
  /\ Head(FromIp) = <<"ip1", "ip2">> /\ Tail(FromIp) = FromMode
  /\ Head(FromMode) = <<"mode">> /\ Tail(FromMode) = << >>
BY DEF Groups, FromFlag, FromIp, FromMode

LEMMA GroupMembers ==
  /\ Members(<<"sn1", "sn2">>) = Sn /\ Members(<<"flag">>) = {"flag"}
  /\ Members(<<"ip1", "ip2">>) = Ip /\ Members(<<"mode">>) = {"mode"}
BY Listed DEF Sn, Ip

LEMMA GroupsTyped ==
  /\ <<"sn1", "sn2">> \in Seq(Setting) /\ <<"flag">> \in Seq(Setting)
  /\ <<"ip1", "ip2">> \in Seq(Setting) /\ <<"mode">> \in Seq(Setting)
<1>1. \A x \in Setting : <<x>> \in Seq(Setting)
  OBVIOUS
<1>2. \A x, y \in Setting : <<x, y>> \in Seq(Setting)
  OBVIOUS
<1>3. {"sn1", "sn2", "flag", "ip1", "ip2", "mode"} \subseteq Setting
  BY DEF Setting, Network
<1> QED
  BY <1>1, <1>2, <1>3

LEMMA GroupsDiffer ==
  /\ Groups # FromFlag /\ Groups # FromIp /\ Groups # FromMode /\ Groups # << >>
  /\ FromFlag # FromIp /\ FromFlag # FromMode /\ FromFlag # << >>
  /\ FromIp # FromMode /\ FromIp # << >> /\ FromMode # << >>
  /\ <<"sn1", "sn2">> # <<"flag">> /\ <<"ip1", "ip2">> # <<"flag">>
  /\ <<"mode">> # <<"flag">>
BY DEF Groups, FromFlag, FromIp, FromMode

LEMMA Pieces ==
  Setting = Sn \cup {"flag", "mode"} \cup Ip /\ Network = {"mode"} \cup Ip
BY DEF Setting, Network, Sn, Ip

(* The next group takes its settings out of those unread, and no other.    *)
LEMMA NextGroup ==
  ASSUME NEW s \in Rest, s # << >>
  PROVE  /\ Head(s) \in Seq(Setting) /\ Tail(s) \in Rest
         /\ Members(Head(s)) \in {Sn, {"flag"}, Ip, {"mode"}}
         /\ Head(s) = <<"flag">> <=> Members(Head(s)) = {"flag"}
         /\ Members(Head(s)) \subseteq UnreadOf(s)
         /\ UnreadOf(Tail(s)) = UnreadOf(s) \ Members(Head(s))
<1>1. CASE s = Groups
  <2>0. Head(s) = <<"sn1", "sn2">> /\ Tail(s) = FromFlag
    BY <1>1, GroupsLeft
  <2>1. Head(s) = <<"sn1", "sn2">> /\ Tail(s) = FromFlag /\ Members(Head(s)) = Sn
    BY <2>0, GroupMembers
  <2>2. UnreadOf(s) = Setting /\ UnreadOf(Tail(s)) = {"flag", "ip1", "ip2", "mode"}
    BY <1>1, <2>1, GroupsDiffer DEF UnreadOf
  <2>3. Head(s) \in Seq(Setting)
    BY <2>0, GroupsTyped
  <2> QED
    BY <2>1, <2>2, <2>3, Pieces, GroupsDiffer DEF Rest, Sn, Ip
<1>2. CASE s = FromFlag
  <2>0. Head(s) = <<"flag">> /\ Tail(s) = FromIp
    BY <1>2, GroupsLeft
  <2>1. Head(s) = <<"flag">> /\ Tail(s) = FromIp /\ Members(Head(s)) = {"flag"}
    BY <2>0, GroupMembers
  <2>2. UnreadOf(s) = {"flag", "ip1", "ip2", "mode"}
        /\ UnreadOf(Tail(s)) = {"ip1", "ip2", "mode"}
    BY <1>2, <2>1, GroupsDiffer DEF UnreadOf
  <2>3. Head(s) \in Seq(Setting)
    BY <2>0, GroupsTyped
  <2> QED
    BY <2>1, <2>2, <2>3 DEF Rest
<1>3. CASE s = FromIp
  <2>0. Head(s) = <<"ip1", "ip2">> /\ Tail(s) = FromMode
    BY <1>3, GroupsLeft
  <2>1. Head(s) = <<"ip1", "ip2">> /\ Tail(s) = FromMode /\ Members(Head(s)) = Ip
    BY <2>0, GroupMembers
  <2>2. UnreadOf(s) = {"ip1", "ip2", "mode"} /\ UnreadOf(Tail(s)) = {"mode"}
    BY <1>3, <2>1, GroupsDiffer DEF UnreadOf
  <2>3. Head(s) \in Seq(Setting)
    BY <2>0, GroupsTyped
  <2> QED
    BY <2>1, <2>2, <2>3, GroupsDiffer DEF Rest, Ip
<1>4. CASE s = FromMode
  <2>0. Head(s) = <<"mode">> /\ Tail(s) = << >>
    BY <1>4, GroupsLeft
  <2>1. Head(s) = <<"mode">> /\ Tail(s) = << >> /\ Members(Head(s)) = {"mode"}
    BY <2>0, GroupMembers
  <2>2. UnreadOf(s) = {"mode"} /\ UnreadOf(Tail(s)) = {}
    BY <1>4, <2>1, GroupsDiffer DEF UnreadOf
  <2>3. Head(s) \in Seq(Setting)
    BY <2>0, GroupsTyped
  <2> QED
    BY <2>1, <2>2, <2>3, GroupsDiffer DEF Rest
<1> QED
  BY <1>1, <1>2, <1>3, <1>4 DEF Rest

-----------------------------------------------------------------------------
(* What the tasks may be doing, and what they then have left to store.     *)

CommOps == {"none", "boot", "serial", "flag", "apply", "erase", "init", "unlock"}
NetOps  == {"none", "start", "change"}
JobOf(ops) ==
  [op : ops, todo : Seq(Setting), groups : Rest, value : Values \cup {"none"}]

ToDo == Members(comm.todo)

Types ==
  /\ eeprom \in [Setting -> Values] /\ live \in [Setting -> Values]
  /\ ghost \in [Network -> Values]
  /\ comm \in JobOf(CommOps) /\ net \in JobOf(NetOps)
  /\ IP_Change \in BOOLEAN /\ disturbed \in BOOLEAN /\ polls \in 0 .. Polls - 1

JobInv ==
  /\ comm.op = "none" => comm = Free
  /\ net.op = "none" => net = Free
  /\ net.op = "start" => net.todo = << >>
  /\ net.op = "change" => net.todo # << >>
  /\ Members(net.todo) \subseteq Ip
  /\ comm.op \notin {"boot", "init"} => comm.groups = << >>
  /\ comm.op = "serial" => comm.value \in Serial /\ ToDo \subseteq Sn
  /\ comm.op = "apply" => ToDo \subseteq {"mode"} \cup Ip
  /\ comm.op \in {"flag", "unlock"} => ToDo \subseteq {"flag"}
  /\ ToDo \cap Unread = {}

TInv == Types /\ JobInv

LEMMA FreeJobs ==
  /\ Free \in JobOf(CommOps) /\ Free \in JobOf(NetOps)
  /\ Boot \in JobOf(CommOps) /\ Boot.op = "boot" /\ Boot.groups = Groups
  /\ Boot.todo = << >> /\ Free.op = "none" /\ Free.todo = << >> /\ Free.groups = << >>
  /\ Job("start", << >>, << >>, "none") \in JobOf(NetOps)
BY DEF Free, Boot, Job, JobOf, Rest, CommOps, NetOps

LEMMA DefaultType == Default \in [Setting -> Values]
BY DEF Default, Values

(* A store takes the first piece off the list of the COMM task.            *)
LEMMA StoredPiece ==
  ASSUME Types, CommStore
  PROVE  /\ comm' = [comm EXCEPT !.todo = Tail(@)] /\ comm' \in JobOf(CommOps)
         /\ comm'.op = comm.op /\ comm'.groups = comm.groups
         /\ comm'.value = comm.value /\ Unread' = Unread
         /\ Head(comm.todo) \in Setting
         /\ ToDo = {Head(comm.todo)} \cup ToDo'
<1>1. comm.todo \in Seq(Setting) /\ comm.todo # << >>
  BY DEF Types, JobOf, CommStore
<1>2. comm' = [comm EXCEPT !.todo = Tail(@)]
  BY DEF CommStore
<1>3. Head(comm.todo) \in Setting /\ Tail(comm.todo) \in Seq(Setting)
      /\ Members(comm.todo) = {Head(comm.todo)} \cup Members(Tail(comm.todo))
  BY <1>1, Popped
<1> QED
  BY <1>2, <1>3 DEF Types, JobOf, ToDo, Unread

LEMMA NetPiece ==
  ASSUME Types, JobInv, NetStore
  PROVE  /\ net' \in JobOf(NetOps) /\ net'.op \in {"none", "change"}
         /\ net'.op = "none" => net' = Free
         /\ net'.op = "change" => net'.todo # << >>
         /\ Head(net.todo) \in Ip
         /\ Members(net.todo) = {Head(net.todo)} \cup Members(net'.todo)
<1>1. net.todo \in Seq(Setting) /\ net.todo # << >> /\ net.op = "change"
  BY DEF Types, JobInv, JobOf, NetStore
<1>2. Head(net.todo) \in Setting /\ Tail(net.todo) \in Seq(Setting)
      /\ Members(net.todo) = {Head(net.todo)} \cup Members(Tail(net.todo))
      /\ (Len(net.todo) = 1 => Members(net.todo) = {Head(net.todo)})
      /\ (Len(net.todo) # 1 => Tail(net.todo) # << >>)
  BY <1>1, Popped
<1>3. CASE Len(net.todo) = 1
  BY <1>1, <1>2, <1>3, FreeJobs, Listed DEF NetStore, JobInv
<1>4. CASE Len(net.todo) # 1
  BY <1>1, <1>2, <1>4 DEF NetStore, JobInv, Types, JobOf
<1> QED
  BY <1>3, <1>4

(* A group is read whole; it is stored again if it was erased.             *)
Reads(G) ==
  /\ G \in {Sn, {"flag"}, Ip, {"mode"}}
  /\ G \subseteq Unread /\ Unread' = Unread \ G
  /\ comm' \in JobOf(CommOps) /\ comm'.op = comm.op
  /\ \/ /\ \A c \in G : eeprom[c] = "erased"
        /\ live' = [c \in Setting |-> IF c \in G THEN Default[c] ELSE live[c]]
        /\ ghost' = [c \in Network |-> IF c \in G THEN Default[c] ELSE ghost[c]]
        /\ ToDo' = G \ {"flag"}
     \/ /\ \E c \in G : eeprom[c] # "erased"
        /\ live' = [c \in Setting |-> IF c \in G THEN eeprom[c] ELSE live[c]]
        /\ ghost' = [c \in Network |-> IF c \in G THEN eeprom[c] ELSE ghost[c]]
        /\ ToDo' = {}

LEMMA GroupRead ==
  ASSUME Types, ReadGroup
  PROVE  \E G \in SUBSET Setting : Reads(G)
<1> DEFINE g == Head(comm.groups)
           G == Members(g)
<1>1. comm.groups \in Rest /\ comm.groups # << >>
  BY DEF ReadGroup, Types, JobOf
<1>2. /\ g \in Seq(Setting) /\ Tail(comm.groups) \in Rest
      /\ G \in {Sn, {"flag"}, Ip, {"mode"}} /\ (g = <<"flag">> <=> G = {"flag"})
      /\ G \subseteq Unread /\ UnreadOf(Tail(comm.groups)) = Unread \ G
  BY <1>1, NextGroup DEF Unread
<1>3. comm' = [comm EXCEPT !.groups = Tail(@),
                 !.todo = IF (\A c \in G : eeprom[c] = "erased") /\ g # <<"flag">>
                          THEN g ELSE << >>]
  BY DEF ReadGroup
<1>4. G \subseteq Unread /\ Unread' = Unread \ G
  BY <1>2, <1>3 DEF Unread, Types, JobOf
<1>5. /\ comm' \in JobOf(CommOps) /\ comm'.op = comm.op
      /\ comm'.todo = IF (\A c \in G : eeprom[c] = "erased") /\ g # <<"flag">>
                      THEN g ELSE << >>
  <2> DEFINE T == IF (\A c \in G : eeprom[c] = "erased") /\ g # <<"flag">>
                  THEN g ELSE << >>
  <2>1. T \in Seq(Setting)
    BY <1>2
  <2>2. comm' = [comm EXCEPT !.groups = Tail(@), !.todo = T]
    BY <1>3
  <2>3. comm \in JobOf(CommOps)
    BY DEF Types
  <2> HIDE DEF T
  <2>4. comm' \in JobOf(CommOps) /\ comm'.op = comm.op /\ comm'.todo = T
    BY <1>2, <2>1, <2>2, <2>3 DEF JobOf
  <2> QED
    BY <2>4 DEF T
<1>6. DOMAIN live = Setting /\ DOMAIN ghost = Network
  BY DEF Types
<1>7. G \in SUBSET Setting
  BY <1>2, Pieces DEF Sn, Ip
<1>8. CASE \A c \in G : eeprom[c] = "erased"
  <2>1. ToDo' = G \ {"flag"}
    BY <1>2, <1>5, <1>8, Listed DEF ToDo, Sn, Ip
  <2>2. /\ live' = [c \in Setting |-> IF c \in G THEN Default[c] ELSE live[c]]
        /\ ghost' = [c \in Network |-> IF c \in G THEN Default[c] ELSE ghost[c]]
    BY <1>6, <1>8 DEF ReadGroup
  <2> HIDE DEF G, g
  <2> QED
    BY <1>2, <1>4, <1>5, <1>7, <1>8, <2>1, <2>2 DEF Reads
<1>9. CASE ~ \A c \in G : eeprom[c] = "erased"
  <2>1. ToDo' = {}
    BY <1>5, <1>9, Listed DEF ToDo
  <2>2. /\ live' = [c \in Setting |-> IF c \in G THEN eeprom[c] ELSE live[c]]
        /\ ghost' = [c \in Network |-> IF c \in G THEN eeprom[c] ELSE ghost[c]]
    BY <1>6, <1>9 DEF ReadGroup
  <2> HIDE DEF G, g
  <2> QED
    BY <1>2, <1>4, <1>5, <1>7, <1>9, <2>1, <2>2 DEF Reads
<1> QED
  BY <1>8, <1>9

-----------------------------------------------------------------------------
(* Types are kept.                                                         *)

LEMMA JobTypes ==
  /\ \A s \in Serial : Job("serial", <<"sn1", "sn2">>, << >>, s) \in JobOf(CommOps)
  /\ Job("apply", <<"mode", "ip1", "ip2">>, << >>, "none") \in JobOf(CommOps)
  /\ Job("flag", <<"flag">>, << >>, "none") \in JobOf(CommOps)
  /\ Job("unlock", <<"flag">>, << >>, "none") \in JobOf(CommOps)
  /\ Job("erase", <<"sn1", "sn2", "flag", "mode", "ip1", "ip2">>, << >>, "erased")
       \in JobOf(CommOps)
  /\ Job("init", << >>, Groups, "none") \in JobOf(CommOps)
  /\ Job("change", <<"ip1", "ip2">>, << >>, "none") \in JobOf(NetOps)
BY DEF Job, JobOf, CommOps, NetOps, Rest, Values, Setting, Network

LEMMA FirstPoll ==
  /\ 0 \in 0 .. Polls - 1
  /\ \A n \in 0 .. Polls - 1 : n + 1 < Polls => n + 1 \in 0 .. Polls - 1
BY SettingsAssumption

LEMMA TInit == SettingsInit => TInv
<1> SUFFICES ASSUME SettingsInit PROVE TInv
  OBVIOUS
<1>1. Types
  <2>1. ghost \in [Network -> Values]
    BY DefaultType, Pieces DEF SettingsInit
  <2>2. eeprom \in [Setting -> Values] /\ live \in [Setting -> Values]
    BY DefaultType DEF SettingsInit, Values
  <2>3. comm \in JobOf(CommOps) /\ net \in JobOf(NetOps)
    BY FreeJobs DEF SettingsInit
  <2> QED
    BY <2>1, <2>2, <2>3, FirstPoll DEF SettingsInit, Types
<1>2. JobInv
  BY FreeJobs, Listed DEF SettingsInit, JobInv, Job, ToDo
<1> QED
  BY <1>1, <1>2 DEF TInv

LEMMA NoneUnread == UnreadOf(<< >>) = {} /\ UnreadOf(Groups) = Setting
BY GroupsDiffer DEF UnreadOf

LEMMA TRestart ==
  ASSUME TInv, Restart, disturbed' \in BOOLEAN
  PROVE  TInv'
<1>1. Types'
  BY FreeJobs, FirstPoll DEF TInv, Types, Restart
<1>2. JobInv'
  BY FreeJobs, Listed DEF JobInv, Restart, Job, ToDo
<1> QED
  BY <1>1, <1>2 DEF TInv

LEMMA TMaster ==
  ASSUME TInv,
         \/ \E s \in Serial : WriteSerial(s)
         \/ \E c \in Ip, a \in IpAddress : WriteGhost(c, a)
         \/ \E m \in Modes : WriteGhost("mode", m)
         \/ ApplyGhost \/ Erase
  PROVE  TInv'
<1>1. ASSUME NEW s \in Serial, WriteSerial(s)
      PROVE  TInv'
  <2>1. comm' = Job("serial", <<"sn1", "sn2">>, << >>, s)
    BY <1>1 DEF WriteSerial
  <2>2. comm' \in JobOf(CommOps) /\ comm'.op = "serial" /\ comm'.value = s
        /\ comm'.groups = << >> /\ ToDo' = Sn
    BY <2>1, JobTypes, GroupMembers DEF Job, ToDo
  <2> QED
    BY <1>1, <2>2, NoneUnread DEF TInv, Types, JobInv, WriteSerial, Asked, Unread
<1>2. ASSUME NEW c \in Network, NEW v \in Values, WriteGhost(c, v)
      PROVE  TInv'
  BY <1>2 DEF TInv, Types, JobInv, WriteGhost, Asked, ToDo, Unread
<1>3. CASE ApplyGhost
  <2>1. comm' = Job("apply", <<"mode", "ip1", "ip2">>, << >>, "none")
    BY <1>3 DEF ApplyGhost
  <2>2. comm' \in JobOf(CommOps) /\ comm'.op = "apply" /\ comm'.groups = << >>
        /\ ToDo' = {"mode"} \cup Ip
    BY <2>1, JobTypes, Listed DEF Job, ToDo, Ip
  <2>3. Types'
    BY <1>3, <2>2, Pieces DEF TInv, Types, ApplyGhost
  <2>4. JobInv'
    BY <1>3, <2>2, NoneUnread DEF TInv, JobInv, ApplyGhost, Unread
  <2> QED
    BY <2>3, <2>4 DEF TInv
<1>4. CASE Erase
  <2>1. comm' = Job("erase", <<"sn1", "sn2", "flag", "mode", "ip1", "ip2">>, << >>, "erased")
    BY <1>4 DEF Erase
  <2>2. comm' \in JobOf(CommOps) /\ comm'.op = "erase" /\ comm'.groups = << >>
    BY <2>1, JobTypes DEF Job
  <2>3. Types'
    BY <1>4, <2>2 DEF TInv, Types, Erase, Asked
  <2>4. JobInv'
    BY <1>4, <2>2, NoneUnread DEF TInv, JobInv, Erase, Asked, Unread
  <2> QED
    BY <2>3, <2>4 DEF TInv
<1> QED
  BY <1>1, <1>2, <1>3, <1>4, Pieces, SettingsAssumption DEF Values, Ip

LEMMA TComm == ASSUME TInv, CommTask PROVE TInv'
<1>1. CASE ReadGroup
  <2>0. PICK G \in SUBSET Setting : Reads(G)
    BY <1>1, GroupRead DEF TInv
  <2>1. /\ G \subseteq Unread /\ Unread' = Unread \ G
        /\ comm' \in JobOf(CommOps) /\ comm'.op = comm.op
        /\ live' \in [Setting -> Values] /\ ghost' \in [Network -> Values]
        /\ ToDo' \subseteq G
    <3>1. eeprom \in [Setting -> Values] /\ live \in [Setting -> Values]
          /\ ghost \in [Network -> Values] /\ Network \subseteq Setting
      BY Pieces DEF TInv, Types
    <3>2. live' \in [Setting -> Values] /\ ghost' \in [Network -> Values]
      BY <2>0, <3>1, DefaultType DEF Reads
    <3> QED
      BY <2>0, <3>2 DEF Reads
  <2>2. comm.op \in {"boot", "init"}
    BY <1>1 DEF ReadGroup
  <2>3. Types'
    BY <1>1, <2>1 DEF ReadGroup, TInv, Types
  <2>4. JobInv'
    BY <1>1, <2>1, <2>2 DEF ReadGroup, TInv, JobInv
  <2> QED
    BY <2>3, <2>4 DEF TInv
<1>2. CASE CommStore
  <2>1. /\ comm' \in JobOf(CommOps) /\ comm'.op = comm.op /\ comm'.groups = comm.groups
        /\ comm'.value = comm.value /\ Unread' = Unread
        /\ ToDo = {Head(comm.todo)} \cup ToDo'
        /\ Head(comm.todo) \in Setting
    BY <1>2, StoredPiece DEF TInv
  <2>2. comm.op # "none"
    BY <1>2, FreeJobs DEF CommStore, TInv, JobInv
  <2>3. ToStore(Head(comm.todo)) \in Values
    <3>1. comm.op = "serial" => comm.value \in Values
      BY DEF TInv, JobInv, Values
    <3>2. comm.op = "apply" => Head(comm.todo) \in Network
      BY <2>1, Pieces DEF TInv, JobInv
    <3> QED
      BY <2>1, <3>1, <3>2 DEF ToStore, TInv, Types, Values
  <2>4. Types'
    BY <1>2, <2>1, <2>3 DEF CommStore, TInv, Types
  <2>5. JobInv'
    BY <1>2, <2>1, <2>2 DEF CommStore, TInv, JobInv
  <2> QED
    BY <2>4, <2>5 DEF TInv
<1>3. CASE LockSerial \/ Unlock
  <2>1. comm' = Job("flag", <<"flag">>, << >>, "none")
        \/ comm' = Job("unlock", <<"flag">>, << >>, "none")
    BY <1>3 DEF LockSerial, Unlock
  <2>2. comm' \in JobOf(CommOps) /\ comm'.op \in {"flag", "unlock"}
        /\ comm'.groups = << >> /\ ToDo' = {"flag"}
    BY <2>1, JobTypes, GroupMembers DEF Job, ToDo
  <2>3. live' \in [Setting -> Values]
    BY <1>3 DEF LockSerial, Unlock, JobDone, TInv, Types, JobInv, Values
  <2>4. Types'
    BY <1>3, <2>2, <2>3 DEF LockSerial, Unlock, TInv, Types
  <2>5. JobInv'
    BY <1>3, <2>2, NoneUnread DEF LockSerial, Unlock, TInv, JobInv, Unread
  <2> QED
    BY <2>4, <2>5 DEF TInv
<1>4. CASE CommDone
  <2>1. Types'
    BY <1>4, FreeJobs DEF CommDone, TInv, Types
  <2>2. JobInv'
    BY <1>4, FreeJobs, Listed DEF CommDone, TInv, JobInv, ToDo
  <2> QED
    BY <2>1, <2>2 DEF TInv
<1>5. CASE Reload
  <2>1. comm' = Job("init", << >>, Groups, "none")
    BY <1>5 DEF Reload
  <2>2. comm' \in JobOf(CommOps) /\ comm'.op = "init" /\ ToDo' = {}
    BY <2>1, JobTypes, Listed DEF Job, ToDo
  <2>3. Types'
    BY <1>5, <2>2 DEF Reload, TInv, Types
  <2>4. JobInv'
    BY <1>5, <2>2 DEF Reload, TInv, JobInv
  <2> QED
    BY <2>3, <2>4 DEF TInv
<1>6. CASE Unlocked
  BY <1>6, TRestart DEF Unlocked, TInv, Types
<1> QED
  BY <1>1, <1>2, <1>3, <1>4, <1>5, <1>6 DEF CommTask

LEMMA TNet ==
  ASSUME TInv, (\E a \in IpAddress : ChangeAddress(a)) \/ NetTask
  PROVE  TInv'
<1>1. ASSUME NEW a \in IpAddress, ChangeAddress(a)
      PROVE  TInv'
  <2>1. net' \in JobOf(NetOps) /\ net'.op \in {"none", "change"}
        /\ (net'.op = "none" => net' = Free) /\ Members(net'.todo) \subseteq Ip
        /\ (net'.op = "change" => net'.todo # << >>)
    BY <1>1, FreeJobs, JobTypes, Listed, GroupMembers
    DEF ChangeAddress, Job, Ip
  <2>2. Types'
    BY <1>1, <2>1, Pieces DEF ChangeAddress, TInv, Types, Values, Ip
  <2>3. JobInv'
    BY <1>1, <2>1 DEF ChangeAddress, TInv, JobInv, ToDo, Unread
  <2> QED
    BY <2>2, <2>3 DEF TInv
<1>2. CASE tapdev_init
  BY <1>2, FreeJobs, Listed DEF tapdev_init, TInv, Types, JobInv, ToDo, Unread
<1>3. CASE NetStore
  <2>1. net' \in JobOf(NetOps) /\ net'.op \in {"none", "change"}
        /\ (net'.op = "none" => net' = Free) /\ Members(net'.todo) \subseteq Ip
        /\ (net'.op = "change" => net'.todo # << >>) /\ Head(net.todo) \in Setting
    BY <1>3, NetPiece, Pieces DEF TInv, JobInv
  <2>2. Types'
    BY <1>3, <2>1 DEF NetStore, TInv, Types
  <2>3. JobInv'
    BY <1>3, <2>1 DEF NetStore, TInv, JobInv, ToDo, Unread
  <2> QED
    BY <2>2, <2>3 DEF TInv
<1>4. CASE Poll
  <2>1. CASE Restart
    BY <1>4, <2>1, TRestart DEF Poll, TInv, Types
  <2>2. CASE ~Restart
    BY <1>4, <2>2, FirstPoll DEF Poll, TInv, Types, JobInv, ToDo, Unread
  <2> QED
    BY <2>1, <2>2
<1> QED
  BY <1>1, <1>2, <1>3, <1>4 DEF NetTask

LEMMA TStep == TInv /\ [SettingsNext]_settingsVars => TInv'
<1> SUFFICES ASSUME TInv, [SettingsNext]_settingsVars PROVE TInv'
  OBVIOUS
<1>1. CASE UNCHANGED settingsVars
  BY <1>1 DEF settingsVars, TInv, Types, JobInv, ToDo, Unread
<1>2. CASE PowerFailure
  BY <1>2, TRestart DEF PowerFailure, TInv, Types
<1> QED
  BY <1>1, <1>2, TMaster, TComm, TNet DEF SettingsNext, Ip

LEMMA TInvariance == SettingsSpec => []TInv
<1> QED
  BY TInit, TStep, PTL DEF SettingsSpec

(* The types of the settings and of what the tasks have left to store.     *)
THEOREM SettingsTyped == SettingsSpec => []SettingsTypeOK
<1>1. ASSUME TInv PROVE SettingsTypeOK
  <2>1. comm.todo \in Seq(Setting) /\ net.todo \in Seq(Setting)
    BY <1>1 DEF TInv, Types, JobOf
  <2>2. Members(comm.todo) \subseteq Setting /\ Members(net.todo) \subseteq Setting
    BY <2>1, MembersOf
  <2> QED
    BY <1>1, <2>2 DEF SettingsTypeOK, TInv, Types, Values
<1> QED
  BY <1>1, TInvariance, PTL

-----------------------------------------------------------------------------
(* The address is whole.  Until something is disturbed, the two pieces are *)
(* equal in RAM but for the time a change is stored, equal in EEPROM but   *)
(* for the time they are stored, and a reset never finds them apart.       *)

Stored(c) == eeprom[c] = live[c]

AddressInv ==
  /\ IP_Change \/ net.op = "change" => comm = Free
  /\ comm.op # "apply" => live["ip1"] = live["ip2"]
  /\ comm.op = "apply" =>
       /\ ghost["ip1"] = ghost["ip2"] /\ net = Free
       /\ \A c \in Ip \ ToDo : live[c] = ghost[c] /\ eeprom[c] = ghost[c]
  /\ comm.op = "erase" => \A c \in Ip \ ToDo : eeprom[c] = "erased"
  /\ comm.op \in {"boot", "init"} =>
       IF Ip \subseteq Unread THEN eeprom["ip1"] = eeprom["ip2"]
                              ELSE \A c \in Ip \ ToDo : Stored(c)
  /\ net.op = "change" => \A c \in Ip \ Members(net.todo) : Stored(c)
  /\ comm.op \in {"none", "serial", "flag", "unlock"} /\ net.op # "change" =>
       eeprom["ip1"] = eeprom["ip2"]

AInv == disturbed \/ (AddressInv /\ AddressWhole)

LEMMA Together ==
  /\ "ip1" \in Unread <=> "ip2" \in Unread
  /\ "sn1" \in Unread <=> "sn2" \in Unread
BY DEF Unread, UnreadOf, Setting, Network

LEMMA AInit == SettingsInit => AInv
BY FreeJobs, NoneUnread, Pieces
DEF SettingsInit, AInv, AddressInv, AddressWhole, Pair, Default, Job, Unread, Free, Ip

LEMMA ARestart ==
  ASSUME TInv, AInv, Restart, ~disturbed', ~disturbed,
         comm.op \in {"none", "unlock"}, net = Free
  PROVE  AInv'
<1>1. comm' = Boot /\ Unread' = Setting /\ Boot.op = "boot"
  BY FreeJobs, NoneUnread DEF Restart, Unread
<1>2. net'.op = "start" /\ net.op = "none"
  BY FreeJobs DEF Restart, Job
<1>3. Ip \subseteq Setting
  BY Pieces
<1> QED
  BY <1>1, <1>2, <1>3 DEF Restart, AInv, AddressInv, AddressWhole

LEMMA AMaster ==
  ASSUME TInv, AInv, TInv', ~disturbed', ~disturbed,
         \/ \E s \in Serial : WriteSerial(s)
         \/ \E c \in Ip, a \in IpAddress : WriteGhost(c, a)
         \/ \E m \in Modes : WriteGhost("mode", m)
         \/ ApplyGhost \/ Erase
  PROVE  AInv'
<1>1. comm = Free /\ net = Free /\ ~IP_Change /\ UNCHANGED <<net, eeprom, hostaddr>>
  BY DEF WriteSerial, WriteGhost, ApplyGhost, Erase, Asked, TInv, Types
<1>2. AddressInv /\ AddressWhole /\ comm.op = "none" /\ net.op = "none"
      /\ live["ip1"] = live["ip2"] /\ eeprom["ip1"] = eeprom["ip2"]
  BY <1>1, FreeJobs DEF AInv, AddressInv
<1>3. AddressWhole'
  BY <1>1, <1>2 DEF AddressWhole
<1>4. ASSUME NEW s \in Serial, WriteSerial(s)
      PROVE  AInv'
  BY <1>1, <1>2, <1>3, <1>4 DEF AInv, AddressInv, WriteSerial, Asked, Job
<1>5. ASSUME NEW c, NEW v, WriteGhost(c, v)
      PROVE  AInv'
  BY <1>1, <1>2, <1>3, <1>5 DEF AInv, AddressInv, WriteGhost, Asked
<1>6. CASE ApplyGhost
  <2>1. ToDo' = {"mode"} \cup Ip /\ comm'.op = "apply"
    BY <1>6, Listed DEF ApplyGhost, Job, ToDo, Ip
  <2>2. ghost["ip1"] = ghost["ip2"]
    BY <1>6 DEF ApplyGhost
  <2> QED
    BY <1>1, <1>2, <1>3, <1>6, <2>1, <2>2 DEF ApplyGhost, AInv, AddressInv
<1>7. CASE Erase
  <2>1. Ip \subseteq ToDo' /\ comm'.op = "erase"
    BY <1>7, Listed DEF Erase, Job, ToDo, Ip
  <2> QED
    BY <1>1, <1>2, <1>3, <1>7, <2>1 DEF Erase, Asked, AInv, AddressInv
<1> QED
  BY <1>4, <1>5, <1>6, <1>7

LEMMA AComm ==
  ASSUME TInv, AInv, TInv', ~disturbed', ~disturbed, CommTask
  PROVE  AInv'
<1>1. AddressInv /\ AddressWhole
  BY DEF AInv
<1>2. CASE ReadGroup
  <2>1. PICK G \in SUBSET Setting : Reads(G)
    BY <1>2, GroupRead DEF TInv
  <2>2. /\ comm.op \in {"boot", "init"} /\ comm'.op = comm.op /\ ToDo = {}
        /\ UNCHANGED <<eeprom, net, IP_Change, hostaddr>>
        /\ comm # Free
    BY <1>2, <2>1, Listed, FreeJobs DEF ReadGroup, Reads, ToDo
  <2>3. CASE G = Ip
    <3>1. Ip \subseteq Unread /\ ~(Ip \subseteq Unread') /\ eeprom["ip1"] = eeprom["ip2"]
      BY <1>1, <2>1, <2>2, <2>3 DEF Reads, AddressInv, Ip
    <3>2. live'["ip1"] = live'["ip2"] /\ \A c \in Ip \ ToDo' : eeprom'[c] = live'[c]
      <4>1. {"ip1", "ip2"} \subseteq Setting /\ Default["ip1"] = Default["ip2"]
        BY Pieces DEF Default, Ip
      <4>2. CASE /\ live' = [c \in Setting |-> IF c \in G THEN Default[c] ELSE live[c]]
                 /\ ToDo' = G \ {"flag"}
        BY <2>3, <4>1, <4>2 DEF Ip
      <4>3. CASE live' = [c \in Setting |-> IF c \in G THEN eeprom[c] ELSE live[c]]
        BY <2>2, <2>3, <3>1, <4>1, <4>3 DEF Ip
      <4> QED
        BY <2>1, <4>2, <4>3 DEF Reads
    <3> QED
      BY <1>1, <2>2, <3>1, <3>2 DEF AInv, AddressInv, AddressWhole, Stored
  <2>4. CASE G # Ip
    <3>1. Ip \cap G = {} /\ Ip \cap ToDo' = {}
      BY <2>1, <2>4 DEF Reads, Ip, Sn
    <3>2. live'["ip1"] = live["ip1"] /\ live'["ip2"] = live["ip2"]
      BY <2>1, <3>1, Pieces DEF Reads, Ip
    <3>3. Ip \subseteq Unread <=> Ip \subseteq Unread'
      BY <2>1, <3>1 DEF Reads, Ip
    <3> QED
      BY <1>1, <2>2, <3>1, <3>2, <3>3
      DEF AInv, AddressInv, AddressWhole, Stored, Ip
  <2> QED
    BY <2>3, <2>4
<1>3. CASE CommStore
  <2> DEFINE h == Head(comm.todo)
  <2>1. /\ comm'.op = comm.op /\ Unread' = Unread /\ ToDo = {h} \cup ToDo'
        /\ h \in Setting /\ comm.op # "none" /\ comm'.op # "none"
    BY <1>3, StoredPiece, FreeJobs DEF TInv, JobInv, CommStore
  <2>2. /\ eeprom' = [eeprom EXCEPT ![h] = ToStore(h)]
        /\ live' = IF comm.op = "apply" THEN [live EXCEPT ![h] = ToStore(h)] ELSE live
        /\ UNCHANGED <<ghost, net, IP_Change, hostaddr>>
    BY <1>3 DEF CommStore
  <2>3. comm # Free /\ net.op # "change" /\ ~IP_Change
    BY <1>1, <2>1, FreeJobs DEF AddressInv, TInv, Types
  <2>4. AddressWhole'
    BY <1>1, <2>2 DEF AddressWhole
  <2>5. DOMAIN eeprom = Setting /\ DOMAIN live = Setting
    BY DEF TInv, Types
  <2>6. CASE comm.op = "apply"
    <3>1. h # "mode" => h \in Ip /\ ToStore(h) = ghost[h]
      BY <2>1, <2>6 DEF TInv, JobInv, ToStore
    <3>2. \A c \in Ip \ ToDo' : live'[c] = ghost[c] /\ eeprom'[c] = ghost[c]
      <4>1. ASSUME NEW c \in Ip \ ToDo', c = h
            PROVE  live'[c] = ghost[c] /\ eeprom'[c] = ghost[c]
        BY <2>1, <2>2, <2>5, <2>6, <3>1, <4>1 DEF Ip
      <4>2. ASSUME NEW c \in Ip \ ToDo', c # h
            PROVE  live'[c] = ghost[c] /\ eeprom'[c] = ghost[c]
        <5>1. c \in Ip \ ToDo /\ c \in Setting
          BY <2>1, <4>2, Pieces
        <5>2. live[c] = ghost[c] /\ eeprom[c] = ghost[c]
          BY <1>1, <2>6, <5>1 DEF AddressInv
        <5> QED
          BY <2>2, <2>5, <2>6, <4>2, <5>1, <5>2
      <4> QED
        BY <4>1, <4>2
    <3> QED
      BY <1>1, <2>1, <2>2, <2>3, <2>4, <2>6, <3>2 DEF AInv, AddressInv
  <2>7. CASE comm.op = "erase"
    <3>1. \A c \in Ip \ ToDo' : eeprom'[c] = "erased"
      BY <1>1, <2>1, <2>2, <2>5, <2>7, Pieces DEF AddressInv, ToStore
    <3> QED
      BY <1>1, <2>1, <2>2, <2>3, <2>4, <2>7, <3>1 DEF AInv, AddressInv
  <2>8. CASE comm.op \in {"boot", "init"}
    <3>1. h \notin Unread /\ ToStore(h) = live[h]
      BY <2>1, <2>8 DEF TInv, JobInv, ToStore
    <3>2. CASE Ip \subseteq Unread
      BY <1>1, <2>1, <2>2, <2>3, <2>4, <2>5, <2>8, <3>1, <3>2
      DEF AInv, AddressInv, Ip
    <3>3. CASE ~(Ip \subseteq Unread)
      BY <1>1, <2>1, <2>2, <2>3, <2>4, <2>5, <2>8, <3>1, <3>3, Pieces
      DEF AInv, AddressInv, Stored
    <3> QED
      BY <3>2, <3>3
  <2>9. CASE comm.op \in {"serial", "flag", "unlock"}
    <3>1. h \notin Ip
      BY <2>1, <2>9 DEF TInv, JobInv, Sn, Ip
    <3> QED
      BY <1>1, <2>1, <2>2, <2>3, <2>4, <2>5, <2>9, <3>1, Pieces
      DEF AInv, AddressInv, Ip
  <2> QED
    BY <2>1, <2>6, <2>7, <2>8, <2>9 DEF TInv, Types, JobOf, CommOps
<1>4. CASE LockSerial \/ Unlock
  <2>1. live'["ip1"] = live["ip1"] /\ live'["ip2"] = live["ip2"]
    BY <1>4, Pieces DEF LockSerial, Unlock, TInv, Types, Ip
  <2>2. comm.op \in {"serial", "init"} /\ comm'.op \in {"flag", "unlock"}
        /\ UNCHANGED <<eeprom, net, IP_Change, hostaddr>>
    BY <1>4 DEF LockSerial, Unlock, JobDone, Job
  <2>3. net.op # "change" /\ ~IP_Change
    BY <1>1, <2>2, FreeJobs DEF AddressInv
  <2>4. eeprom["ip1"] = eeprom["ip2"]
    <3>1. comm.op = "init" => comm.groups = << >> /\ ToDo = {}
      BY <1>4, Listed DEF LockSerial, Unlock, JobDone, ToDo
    <3>2. comm.op = "init" => \A c \in Ip : Stored(c)
      BY <1>1, <2>2, <3>1, NoneUnread DEF AddressInv, Unread, Ip
    <3> QED
      BY <1>1, <2>2, <2>3, <3>2 DEF AddressInv, Stored, Ip
  <2> QED
    BY <1>1, <2>1, <2>2, <2>3, <2>4 DEF AInv, AddressInv, AddressWhole
<1>5. CASE CommDone
  <2>1. comm.op \in {"boot", "flag", "apply"} /\ ToDo = {} /\ Unread = {}
        /\ comm'.op = "none" /\ comm' = Free
        /\ UNCHANGED <<eeprom, live, ghost, net, hostaddr>>
    BY <1>5, FreeJobs, Listed, NoneUnread DEF CommDone, JobDone, ToDo, Unread
  <2>2. net.op # "change"
    BY <1>1, <2>1, FreeJobs DEF AddressInv
  <2>3. eeprom["ip1"] = eeprom["ip2"] /\ live["ip1"] = live["ip2"]
    BY <1>1, <2>1, <2>2 DEF AddressInv, Stored, Ip
  <2> QED
    BY <1>1, <2>1, <2>2, <2>3 DEF AInv, AddressInv, AddressWhole
<1>6. CASE Reload
  <2>1. comm.op = "erase" /\ ToDo = {} /\ comm'.op = "init" /\ Unread' = Setting
        /\ UNCHANGED <<eeprom, live, net, IP_Change, hostaddr>>
    BY <1>6, Listed, NoneUnread DEF Reload, JobDone, Job, ToDo, Unread
  <2>2. net.op # "change" /\ ~IP_Change
    BY <1>1, <2>1, FreeJobs DEF AddressInv
  <2>3. eeprom["ip1"] = eeprom["ip2"] /\ Ip \subseteq Setting
    BY <1>1, <2>1, Pieces DEF AddressInv, Ip
  <2> QED
    BY <1>1, <2>1, <2>2, <2>3 DEF AInv, AddressInv, AddressWhole
<1>7. CASE Unlocked
  <2>1. comm.op = "unlock" /\ Restart
    BY <1>7 DEF Unlocked, JobDone
  <2>2. comm' = Boot /\ comm'.op = "boot" /\ Unread' = Setting /\ net'.op = "start"
        /\ ~IP_Change' /\ UNCHANGED <<eeprom, live, hostaddr>>
    BY <2>1, FreeJobs, NoneUnread DEF Restart, Unread, Job
  <2>3. eeprom["ip1"] = eeprom["ip2"] /\ live["ip1"] = live["ip2"]
    BY <1>1, <2>1, FreeJobs DEF AddressInv
  <2> QED
    BY <1>1, <2>2, <2>3, Pieces DEF AInv, AddressInv, AddressWhole
<1> QED
  BY <1>2, <1>3, <1>4, <1>5, <1>6, <1>7 DEF CommTask

LEMMA ANet ==
  ASSUME TInv, AInv, TInv', ~disturbed', ~disturbed,
         (\E a \in IpAddress : ChangeAddress(a)) \/ NetTask
  PROVE  AInv'
<1>1. AddressInv /\ AddressWhole
  BY DEF AInv
<1>2. ASSUME NEW a \in IpAddress, ChangeAddress(a)
      PROVE  AInv'
  <2>1. comm = Free /\ net = Free /\ UNCHANGED <<comm, eeprom, hostaddr>>
    BY <1>2 DEF ChangeAddress, TInv, Types
  <2>2. comm.op = "none" /\ net.op = "none" /\ eeprom["ip1"] = eeprom["ip2"]
    BY <1>1, <2>1, FreeJobs DEF AddressInv
  <2>3. live'["ip1"] = live'["ip2"]
    BY <1>2, Pieces DEF ChangeAddress, TInv, Types, Ip
  <2>4. net'.op = "change" => Ip \subseteq Members(net'.todo)
    BY <1>2, FreeJobs, GroupMembers DEF ChangeAddress, Job
  <2> QED
    BY <1>1, <2>1, <2>2, <2>3, <2>4 DEF AInv, AddressInv, AddressWhole
<1>3. CASE tapdev_init
  <2>1. net.op = "start" /\ net'.op = "none" /\ net' = Free
        /\ UNCHANGED <<eeprom, live, ghost, comm, IP_Change>>
    BY <1>3, FreeJobs DEF tapdev_init
  <2>2. comm.op # "apply"
    BY <1>1, <2>1, FreeJobs DEF AddressInv
  <2>3. hostaddr'[1] = hostaddr'[2]
    BY <1>1, <1>3, <2>2 DEF tapdev_init, AddressInv, Pair
  <2> QED
    BY <1>1, <2>1, <2>2, <2>3
    DEF AInv, AddressInv, AddressWhole, Stored, ToDo, Unread
<1>4. CASE NetStore
  <2> DEFINE h == Head(net.todo)
  <2>1. net.op = "change" /\ comm = Free /\ comm.op = "none"
        /\ UNCHANGED <<live, ghost, comm, IP_Change, hostaddr>>
        /\ eeprom' = [eeprom EXCEPT ![h] = live[h]]
    BY <1>1, <1>4, FreeJobs DEF NetStore, AddressInv
  <2>2. h \in Ip /\ Members(net.todo) = {h} \cup Members(net'.todo)
        /\ (net'.op = "none" => net' = Free)
    BY <1>4, NetPiece DEF TInv
  <2>3. \A c \in Ip \ Members(net'.todo) : eeprom'[c] = live[c]
    BY <1>1, <2>1, <2>2, Pieces DEF AddressInv, Stored, TInv, Types
  <2>4. net'.op # "change" => eeprom'["ip1"] = eeprom'["ip2"]
    <3>1. net'.op # "change" => Members(net'.todo) = {}
      BY <1>4, <2>2, NetPiece, FreeJobs, Listed DEF TInv
    <3> QED
      BY <1>1, <2>1, <2>3, <3>1 DEF AddressInv, Ip
  <2> QED
    BY <1>1, <2>1, <2>3, <2>4 DEF AInv, AddressInv, AddressWhole, Stored
<1>5. CASE Poll
  <2>1. comm = Free /\ net = Free
    BY <1>1, <1>5 DEF Poll, AddressInv
  <2>2. CASE Restart
    BY <2>1, <2>2, ARestart, FreeJobs
  <2>3. CASE ~Restart
    BY <1>1, <1>5, <2>3
    DEF Poll, AInv, AddressInv, AddressWhole, Stored, ToDo, Unread
  <2> QED
    BY <2>2, <2>3
<1> QED
  BY <1>2, <1>3, <1>4, <1>5 DEF NetTask

LEMMA AStep == TInv /\ TInv' /\ AInv /\ [SettingsNext]_settingsVars => AInv'
<1> SUFFICES ASSUME TInv, TInv', AInv, [SettingsNext]_settingsVars, ~disturbed'
             PROVE  AInv'
  BY DEF AInv
<1>1. CASE UNCHANGED settingsVars
  BY <1>1 DEF settingsVars, AInv, AddressInv, AddressWhole, Stored, ToDo, Unread
<1>2. CASE SettingsNext
  <2>1. ~disturbed
    BY <1>2 DEF SettingsNext, WriteSerial, WriteGhost, Asked, ApplyGhost, Erase,
       CommTask, ReadGroup, CommStore, LockSerial, CommDone, Reload, Unlock,
       Unlocked, ChangeAddress, NetTask, tapdev_init, NetStore, Poll, PowerFailure
  <2>2. CASE PowerFailure
    BY <2>1, <2>2, ARestart, FreeJobs DEF PowerFailure
  <2> QED
    BY <1>2, <2>1, <2>2, AMaster, AComm, ANet DEF SettingsNext, Ip
<1> QED
  BY <1>1, <1>2

(* The address the module comes up with is one that was asked for, not     *)
(* half of it, unless another change or a power failure came in between.   *)
THEOREM AddressComesUpWhole == SettingsSpec => []AddressWhole
<1>1. AInv => AddressWhole
  BY DEF AInv, AddressWhole
<1> QED
  BY <1>1, AInit, AStep, TInvariance, PTL DEF SettingsSpec

-----------------------------------------------------------------------------
(* The settings in use are those stored, but for what is about to be       *)
(* stored or read.  An address with a zero byte is never stored, and the   *)
(* change over UDP does not store the mode it sets: hence the hypotheses.  *)

AllStored == ZeroByte = {} /\ Modes = {"static"}

Pending(c) ==
  \/ c \in ToDo \/ c \in Members(net.todo) \/ c \in Unread
  \/ comm.op = "erase" \/ (comm.op = "serial" /\ c \in Sn)

ModeInv ==
  live["mode"] = "static" /\ ghost["mode"] = "static"
    /\ eeprom["mode"] \in {"static", "erased"}

StoredInv ==
  /\ \A c \in Setting : Pending(c) \/ Stored(c)
  /\ comm.op = "serial" => \A c \in Sn \ ToDo : eeprom[c] = comm.value

SInv == ModeInv /\ StoredInv

LEMMA SInit == SettingsInit => SInv
<1> SUFFICES ASSUME SettingsInit PROVE SInv
  OBVIOUS
<1>1. Unread = Setting /\ comm.op = "boot"
  BY FreeJobs, NoneUnread DEF SettingsInit, Unread
<1>2. ModeInv
  BY Pieces DEF SettingsInit, ModeInv, Default
<1> QED
  BY <1>1, <1>2 DEF SInv, StoredInv, Pending

LEMMA SRestart == ASSUME SInv, Restart PROVE SInv'
<1>1. Unread' = Setting /\ comm'.op = "boot"
  BY FreeJobs, NoneUnread DEF Restart, Unread
<1> QED
  BY <1>1 DEF SInv, ModeInv, StoredInv, Pending, Restart

LEMMA SMaster ==
  ASSUME AllStored, TInv, SInv, TInv',
         \/ \E s \in Serial : WriteSerial(s)
         \/ \E c \in Ip, a \in IpAddress : WriteGhost(c, a)
         \/ \E m \in Modes : WriteGhost("mode", m)
         \/ ApplyGhost \/ Erase
  PROVE  SInv'
<1>1. comm = Free /\ UNCHANGED <<net, eeprom>>
  BY DEF WriteSerial, WriteGhost, ApplyGhost, Erase, Asked
<1>2. ToDo = {} /\ Unread = {} /\ comm.op = "none"
  BY <1>1, FreeJobs, Listed, NoneUnread DEF ToDo, Unread
<1>3. ASSUME NEW s \in Serial, WriteSerial(s)
      PROVE  SInv'
  <2>1. ToDo' = Sn /\ comm'.op = "serial" /\ UNCHANGED <<live, ghost>>
    BY <1>3, GroupMembers DEF WriteSerial, Job, ToDo
  <2> QED
    BY <1>1, <1>2, <2>1 DEF SInv, ModeInv, StoredInv, Pending, Stored
<1>4. ASSUME NEW c \in Network, NEW v, WriteGhost(c, v), c = "mode" => v = "static"
      PROVE  SInv'
  <2>1. ghost'["mode"] = "static" /\ UNCHANGED <<live, comm>>
    BY <1>4, Pieces DEF WriteGhost, SInv, ModeInv, TInv, Types
  <2> QED
    BY <1>1, <1>2, <2>1 DEF SInv, ModeInv, StoredInv, Pending, Stored, ToDo, Unread
<1>5. CASE ApplyGhost
  <2>1. "mode" \in ToDo' /\ comm'.op = "apply"
    BY <1>5, Listed DEF ApplyGhost, Job, ToDo
  <2>2. live' = [live EXCEPT !["mode"] = "static"] /\ UNCHANGED ghost
    BY <1>5 DEF ApplyGhost, SInv, ModeInv
  <2>3. live'["mode"] = "static"
        /\ \A c \in Setting : c # "mode" => live'[c] = live[c]
    BY <2>2, Pieces DEF TInv, Types
  <2> QED
    BY <1>1, <1>2, <2>1, <2>2, <2>3 DEF SInv, ModeInv, StoredInv, Pending, Stored
<1>6. CASE Erase
  <2>1. comm'.op = "erase" /\ UNCHANGED <<live, ghost>>
    BY <1>6 DEF Erase, Job
  <2> QED
    BY <1>1, <1>2, <2>1 DEF SInv, ModeInv, StoredInv, Pending, Stored
<1> QED
  BY <1>3, <1>4, <1>5, <1>6, Pieces DEF AllStored, Ip

LEMMA SComm == ASSUME AllStored, TInv, SInv, TInv', CommTask PROVE SInv'
<1>1. CASE ReadGroup
  <2>1. PICK G \in SUBSET Setting : Reads(G)
    BY <1>1, GroupRead DEF TInv
  <2>2. comm.op \in {"boot", "init"} /\ comm'.op = comm.op /\ ToDo = {}
        /\ UNCHANGED <<eeprom, net>>
    BY <1>1, <2>1, Listed DEF ReadGroup, Reads, ToDo
  <2>3. ASSUME NEW c \in Setting PROVE Pending(c)' \/ Stored(c)'
    <3>1. CASE c \in G
      BY <2>1, <2>2, <3>1 DEF Reads, Pending, Stored, Default
    <3>2. CASE c \notin G
      BY <2>1, <2>2, <3>2 DEF Reads, Pending, Stored, SInv, StoredInv
    <3> QED
      BY <3>1, <3>2
  <2>4. ModeInv'
    BY <2>1, <2>2, Pieces DEF Reads, SInv, ModeInv, Default, Sn, Ip
  <2> QED
    BY <2>2, <2>3, <2>4 DEF SInv, StoredInv
<1>2. CASE CommStore
  <2> DEFINE h == Head(comm.todo)
  <2>1. /\ comm'.op = comm.op /\ Unread' = Unread /\ ToDo = {h} \cup ToDo'
        /\ comm'.value = comm.value /\ h \in Setting /\ comm.op # "none"
    BY <1>2, StoredPiece, FreeJobs DEF TInv, JobInv, CommStore
  <2>2. /\ eeprom' = [eeprom EXCEPT ![h] = ToStore(h)]
        /\ live' = IF comm.op = "apply" THEN [live EXCEPT ![h] = ToStore(h)] ELSE live
        /\ UNCHANGED <<ghost, net>>
    BY <1>2 DEF CommStore
  <2>3. /\ eeprom'[h] = ToStore(h) /\ (comm.op = "apply" => live'[h] = ToStore(h))
        /\ comm.op # "apply" => live' = live
        /\ \A c \in Setting : c # h => eeprom'[c] = eeprom[c] /\ live'[c] = live[c]
    BY <2>1, <2>2 DEF TInv, Types
  <2>4. h = "mode" => ToStore(h) \in {"static", "erased"}
        /\ (comm.op = "apply" => ToStore(h) = "static")
    BY <2>1 DEF SInv, ModeInv, ToStore, TInv, JobInv, Sn
  <2>5. ModeInv'
    BY <2>2, <2>3, <2>4, Pieces DEF SInv, ModeInv
  <2>6. comm.op = "serial" => h \in Sn /\ ToStore(h) = comm.value
    BY <2>1 DEF TInv, JobInv, ToStore, Sn
  <2>7. comm.op \notin {"serial", "apply", "erase"} => ToStore(h) = live[h]
    BY DEF ToStore
  <2>8. ASSUME NEW c \in Setting PROVE Pending(c)' \/ Stored(c)'
    <3>1. CASE c = h
      BY <2>1, <2>3, <2>6, <2>7, <3>1 DEF Pending, Stored
    <3>2. CASE c # h
      BY <2>1, <2>2, <2>3, <3>2 DEF Pending, Stored, SInv, StoredInv
    <3> QED
      BY <3>1, <3>2
  <2>9. comm.op = "serial" => \A c \in Sn \ ToDo' : eeprom'[c] = comm.value
    BY <2>1, <2>3, <2>6, Pieces DEF SInv, StoredInv
  <2> QED
    BY <2>1, <2>5, <2>8, <2>9 DEF SInv, StoredInv
<1>3. CASE LockSerial
  <2>1. comm.op = "serial" /\ ToDo = {} /\ Unread = {}
    BY <1>3, Listed, NoneUnread DEF LockSerial, JobDone, ToDo, Unread
  <2>2. comm'.op = "flag" /\ ToDo' = {"flag"} /\ UNCHANGED <<eeprom, ghost, net>>
    BY <1>3, GroupMembers DEF LockSerial, Job, ToDo
  <2>3. /\ \A c \in Sn : live'[c] = comm.value
        /\ \A c \in Setting : c \notin Sn \cup {"flag"} => live'[c] = live[c]
    BY <1>3, Pieces DEF LockSerial, TInv, Types, Sn
  <2>4. \A c \in Sn : eeprom[c] = comm.value
    BY <2>1 DEF SInv, StoredInv
  <2>5. ModeInv'
    BY <2>2, <2>3, Pieces DEF SInv, ModeInv, Sn
  <2>6. ASSUME NEW c \in Setting PROVE Pending(c)' \/ Stored(c)'
    BY <2>1, <2>2, <2>3, <2>4 DEF Pending, Stored, SInv, StoredInv
  <2> QED
    BY <2>2, <2>5, <2>6 DEF SInv, StoredInv
<1>4. CASE Unlock
  <2>1. comm.op = "init" /\ ToDo = {} /\ Unread = {}
    BY <1>4, Listed, NoneUnread DEF Unlock, JobDone, ToDo, Unread
  <2>2. comm'.op = "unlock" /\ ToDo' = {"flag"} /\ UNCHANGED <<eeprom, ghost, net>>
    BY <1>4, GroupMembers DEF Unlock, Job, ToDo
  <2>3. \A c \in Setting : c # "flag" => live'[c] = live[c]
    BY <1>4 DEF Unlock, TInv, Types
  <2> QED
    BY <2>1, <2>2, <2>3, Pieces DEF SInv, ModeInv, StoredInv, Pending, Stored
<1>5. CASE CommDone
  <2>1. comm.op \in {"boot", "flag", "apply"} /\ ToDo = {} /\ Unread = {}
        /\ comm'.op = "none" /\ UNCHANGED <<eeprom, live, ghost, net>>
    BY <1>5, FreeJobs, Listed, NoneUnread DEF CommDone, JobDone, ToDo, Unread
  <2> QED
    BY <2>1 DEF SInv, ModeInv, StoredInv, Pending, Stored
<1>6. CASE Reload
  <2>1. comm'.op = "init" /\ Unread' = Setting /\ UNCHANGED <<eeprom, live, ghost>>
    BY <1>6, NoneUnread DEF Reload, Job, Unread
  <2> QED
    BY <2>1 DEF SInv, ModeInv, StoredInv, Pending
<1>7. CASE Unlocked
  BY <1>7, SRestart DEF Unlocked
<1> QED
  BY <1>1, <1>2, <1>3, <1>4, <1>5, <1>6, <1>7 DEF CommTask

LEMMA SNet ==
  ASSUME AllStored, TInv, SInv, TInv',
         (\E a \in IpAddress : ChangeAddress(a)) \/ NetTask
  PROVE  SInv'
<1>1. ASSUME NEW a \in IpAddress, ChangeAddress(a)
      PROVE  SInv'
  <2>1. Members(net'.todo) = Ip /\ UNCHANGED <<comm, eeprom>>
    BY <1>1, GroupMembers DEF ChangeAddress, Job, AllStored
  <2>2. live'["mode"] = "static" /\ ghost'["mode"] = "static"
        /\ \A c \in Setting : c \notin {"mode"} \cup Ip => live'[c] = live[c]
    BY <1>1, Pieces DEF ChangeAddress, TInv, Types, SInv, ModeInv, Ip
  <2>3. net = Free /\ Members(net.todo) = {}
    BY <1>1, FreeJobs, Listed DEF ChangeAddress
  <2> QED
    BY <2>1, <2>2, <2>3
    DEF SInv, ModeInv, StoredInv, Pending, Stored, ToDo, Unread
<1>2. CASE tapdev_init
  <2>1. Members(net.todo) = {}
    BY <1>2, Listed DEF tapdev_init, TInv, JobInv
  <2> QED
    BY <1>2, <2>1 DEF tapdev_init, SInv, ModeInv, StoredInv, Pending, Stored, ToDo, Unread
<1>3. CASE NetStore
  <2> DEFINE h == Head(net.todo)
  <2>1. h \in Ip /\ Members(net.todo) = {h} \cup Members(net'.todo)
    BY <1>3, NetPiece DEF TInv
  <2>2. UNCHANGED <<live, ghost, comm>> /\ eeprom' = [eeprom EXCEPT ![h] = live[h]]
    BY <1>3 DEF NetStore
  <2>3. eeprom'[h] = live'[h] /\ \A c \in Setting : c # h => eeprom'[c] = eeprom[c]
    BY <2>1, <2>2, Pieces DEF TInv, Types
  <2>4. comm.op = "serial" => \A c \in Sn \ ToDo : eeprom'[c] = comm.value
    BY <2>1, <2>3, Pieces DEF SInv, StoredInv, Sn, Ip
  <2> QED
    BY <2>1, <2>2, <2>3, <2>4, Pieces
    DEF SInv, ModeInv, StoredInv, Pending, Stored, ToDo, Unread, Ip
<1>4. CASE Poll
  <2>1. CASE Restart
    BY <2>1, SRestart
  <2>2. CASE ~Restart
    BY <1>4, <2>2 DEF Poll, SInv, ModeInv, StoredInv, Pending, Stored, ToDo, Unread
  <2> QED
    BY <2>1, <2>2
<1> QED
  BY <1>1, <1>2, <1>3, <1>4 DEF NetTask

LEMMA SStep ==
  ASSUME AllStored
  PROVE  TInv /\ TInv' /\ SInv /\ [SettingsNext]_settingsVars => SInv'
<1> SUFFICES ASSUME TInv, TInv', SInv, [SettingsNext]_settingsVars PROVE SInv'
  OBVIOUS
<1>1. CASE UNCHANGED settingsVars
  BY <1>1 DEF settingsVars, SInv, ModeInv, StoredInv, Pending, Stored, ToDo, Unread
<1>2. CASE PowerFailure
  BY <1>2, SRestart DEF PowerFailure
<1> QED
  BY <1>1, <1>2, SMaster, SComm, SNet DEF SettingsNext, Ip

(* When both tasks are at rest the settings in use are those in EEPROM,    *)
(* whatever the two tasks changed together, when every address is stored   *)
(* and the mode is fixed.                                                  *)
THEOREM RestIsStored ==
  ASSUME AllStored PROVE SettingsSpec => []StoredIsLive
<1>1. ASSUME TInv, SInv PROVE StoredIsLive
  <2> SUFFICES ASSUME comm = Free, net = Free PROVE live = eeprom
    BY DEF StoredIsLive
  <2>1. ToDo = {} /\ Unread = {} /\ Members(net.todo) = {} /\ comm.op = "none"
    BY FreeJobs, Listed, NoneUnread DEF ToDo, Unread
  <2>2. \A c \in Setting : live[c] = eeprom[c]
    BY <1>1, <2>1 DEF SInv, StoredInv, Pending, Stored
  <2> QED
    BY <1>1, <2>2 DEF TInv, Types
<1>2. SettingsInit => SInv
  BY SInit
<1>3. TInv /\ TInv' /\ SInv /\ [SettingsNext]_settingsVars => SInv'
  BY SStep
<1> QED
  BY <1>1, <1>2, <1>3, TInvariance, PTL DEF SettingsSpec

-----------------------------------------------------------------------------
(* The serial number is locked whole.  Nothing else happens during a       *)
(* factory reset, and no serial number reads like erased memory.           *)

SafeSerial == FactoryResetAlone /\ "erased" \notin Serial

Locked == eeprom["flag"] = "locked"
Whole  == eeprom["sn1"] = eeprom["sn2"] /\ eeprom["sn1"] # "erased"

NumberInv ==
  /\ FactoryReset => net = Free /\ ~IP_Change
  /\ Locked => FactoryReset \/ Whole
  /\ comm.op = "serial" => ~Locked /\ \A c \in Sn \ ToDo : eeprom[c] = comm.value
  /\ comm.op = "flag" => Whole
  /\ comm.op = "boot" => "flag" \notin ToDo /\ (ToDo \cap Sn # {} => ~Locked)
  /\ comm.op = "unlock" => live["flag"] = "open"
  /\ "flag" \in ToDo \cup Unread \/ comm.op = "erase" \/ Stored("flag")

LEMMA NInit == SettingsInit => NumberInv
BY FreeJobs, Listed, NoneUnread
DEF SettingsInit, NumberInv, FactoryReset, Locked, ToDo, Unread, Setting

LEMMA NRestart ==
  ASSUME NumberInv, Restart, Locked => Whole
  PROVE  NumberInv'
<1>1. Unread' = Setting /\ comm'.op = "boot" /\ ToDo' = {} /\ UNCHANGED eeprom
  BY FreeJobs, Listed, NoneUnread DEF Restart, Unread, ToDo
<1> QED
  BY <1>1 DEF NumberInv, FactoryReset, Locked, Whole, Setting

LEMMA NMaster ==
  ASSUME SafeSerial, TInv, NumberInv, TInv',
         \/ \E s \in Serial : WriteSerial(s)
         \/ \E c \in Ip, a \in IpAddress : WriteGhost(c, a)
         \/ \E m \in Modes : WriteGhost("mode", m)
         \/ ApplyGhost \/ Erase
  PROVE  NumberInv'
<1>1. comm = Free /\ UNCHANGED <<net, eeprom>>
  BY DEF WriteSerial, WriteGhost, ApplyGhost, Erase, Asked
<1>2. ToDo = {} /\ Unread = {} /\ comm.op = "none"
  BY <1>1, FreeJobs, Listed, NoneUnread DEF ToDo, Unread
<1>3. (Locked => Whole) /\ Stored("flag")
  BY <1>2 DEF NumberInv, FactoryReset
<1>4. ASSUME NEW s \in Serial, WriteSerial(s)
      PROVE  NumberInv'
  <2>1. ToDo' = Sn /\ comm'.op = "serial" /\ live["flag"] = "open" /\ UNCHANGED live
    BY <1>4, GroupMembers DEF WriteSerial, Job, ToDo
  <2> QED
    BY <1>1, <1>3, <2>1 DEF NumberInv, FactoryReset, Locked, Whole, Stored
<1>5. ASSUME NEW c, NEW v, WriteGhost(c, v)
      PROVE  NumberInv'
  BY <1>1, <1>2, <1>3, <1>5
  DEF WriteGhost, NumberInv, FactoryReset, Locked, Whole, Stored, ToDo, Unread
<1>6. CASE ApplyGhost
  <2>1. comm'.op = "apply" /\ live'["flag"] = live["flag"]
    BY <1>6 DEF ApplyGhost, Job, TInv, Types, Setting
  <2> QED
    BY <1>1, <1>3, <2>1 DEF NumberInv, FactoryReset, Locked, Whole, Stored
<1>7. CASE Erase
  <2>1. comm'.op = "erase" /\ net = Free /\ ~IP_Change'
    BY <1>7 DEF Erase, Asked, Job, SafeSerial
  <2> QED
    BY <1>1, <2>1 DEF NumberInv, FactoryReset
<1> QED
  BY <1>4, <1>5, <1>6, <1>7

LEMMA NComm == ASSUME SafeSerial, TInv, NumberInv, TInv', CommTask PROVE NumberInv'
<1>1. CASE ReadGroup
  <2>1. PICK G \in SUBSET Setting : Reads(G)
    BY <1>1, GroupRead DEF TInv
  <2>2. comm.op \in {"boot", "init"} /\ comm'.op = comm.op /\ ToDo = {}
        /\ UNCHANGED <<eeprom, net, IP_Change>>
    BY <1>1, <2>1, Listed DEF ReadGroup, Reads, ToDo
  <2>3. comm.op = "boot" => "flag" \notin ToDo' /\ (ToDo' \cap Sn # {} => ~Locked)
    BY <2>1, <2>2 DEF Reads, NumberInv, FactoryReset, Whole, Sn, Ip
  <2>4. "flag" \in Unread' \/ eeprom["flag"] = live'["flag"]
    BY <2>1, <2>2 DEF Reads, NumberInv, Stored, Setting, Default
  <2> QED
    BY <2>2, <2>3, <2>4 DEF NumberInv, FactoryReset, Locked, Whole, Stored
<1>2. CASE CommStore
  <2> DEFINE h == Head(comm.todo)
  <2>1. /\ comm'.op = comm.op /\ Unread' = Unread /\ ToDo = {h} \cup ToDo'
        /\ comm'.value = comm.value /\ h \in Setting /\ comm.op # "none"
    BY <1>2, StoredPiece, FreeJobs DEF TInv, JobInv, CommStore
  <2>2. /\ eeprom' = [eeprom EXCEPT ![h] = ToStore(h)]
        /\ live' = IF comm.op = "apply" THEN [live EXCEPT ![h] = ToStore(h)] ELSE live
        /\ UNCHANGED <<net, IP_Change>>
    BY <1>2 DEF CommStore
  <2>3. /\ eeprom'[h] = ToStore(h)
        /\ \A c \in Setting : c # h => eeprom'[c] = eeprom[c] /\ live'[c] = live[c]
    BY <2>1, <2>2 DEF TInv, Types
  <2>4. (FactoryReset' <=> FactoryReset) /\ Sn \cup {"flag"} \subseteq Setting
    BY <2>1, Pieces DEF FactoryReset
  <2>5. CASE comm.op \in {"erase", "init"}
    <3>1. "flag" \in ToDo' \cup Unread' \/ comm.op = "erase" \/ eeprom'["flag"] = live'["flag"]
      BY <2>1, <2>2, <2>3, <2>4, <2>5 DEF NumberInv, Stored, ToStore
    <3> QED
      BY <2>1, <2>2, <2>4, <2>5, <3>1 DEF NumberInv, FactoryReset, Stored
  <2>6. CASE comm.op = "unlock"
    <3>1. h = "flag" /\ ToStore(h) = live["flag"]
      BY <2>1, <2>6 DEF TInv, JobInv, ToStore
    <3> QED
      BY <2>1, <2>2, <2>3, <2>4, <2>6, <3>1 DEF NumberInv, FactoryReset, Stored
  <2>7. CASE comm.op = "serial"
    <3>1. h \in Sn /\ ToStore(h) = comm.value
      BY <2>1, <2>7 DEF TInv, JobInv, ToStore, Sn
    <3>2. ~Locked' /\ \A c \in Sn \ ToDo' : eeprom'[c] = comm.value
      BY <2>1, <2>3, <2>4, <2>7, <3>1 DEF NumberInv, Locked, Sn
    <3>3. "flag" \in ToDo' \cup Unread' \/ eeprom'["flag"] = live'["flag"]
      BY <2>1, <2>3, <2>4, <2>7, <3>1 DEF NumberInv, Stored, Sn
    <3> QED
      BY <2>1, <2>7, <3>2, <3>3 DEF NumberInv, FactoryReset, Stored
  <2>8. CASE comm.op \in {"flag", "apply"}
    <3>1. h \notin Sn
      BY <2>1, <2>8 DEF TInv, JobInv, Sn, Ip
    <3>2. h = "flag" => comm.op = "flag" /\ ToStore(h) = live["flag"]
      BY <2>1, <2>8 DEF TInv, JobInv, Sn, Ip, ToStore
    <3>3. Whole' <=> Whole
      BY <2>3, <2>4, <3>1 DEF Whole, Sn
    <3>4. Locked' => Locked \/ comm.op = "flag"
      BY <2>3, <2>4, <3>2 DEF Locked
    <3>5. "flag" \in ToDo' \cup Unread' \/ eeprom'["flag"] = live'["flag"]
      BY <2>1, <2>2, <2>3, <2>4, <2>8, <3>2 DEF NumberInv, Stored
    <3> QED
      BY <2>1, <2>8, <3>3, <3>4, <3>5 DEF NumberInv, FactoryReset, Stored
  <2>9. CASE comm.op = "boot"
    <3>1. h # "flag" /\ (h \in Sn => ~Locked)
      BY <2>1, <2>9 DEF NumberInv, Sn
    <3>2. Locked' => Locked /\ h \notin Sn
      BY <2>3, <2>4, <3>1 DEF Locked
    <3>3. h \notin Sn => (Whole' <=> Whole)
      BY <2>3, <2>4 DEF Whole, Sn
    <3>4. "flag" \in ToDo' \cup Unread' \/ eeprom'["flag"] = live'["flag"]
      BY <2>1, <2>3, <2>4, <2>9, <3>1 DEF NumberInv, Stored
    <3> QED
      BY <2>1, <2>9, <3>1, <3>2, <3>3, <3>4 DEF NumberInv, FactoryReset, Stored
  <2> QED
    BY <2>1, <2>5, <2>6, <2>7, <2>8, <2>9 DEF TInv, Types, JobOf, CommOps
<1>3. CASE LockSerial
  <2>1. comm.op = "serial" /\ ToDo = {} /\ comm.value \in Serial
    BY <1>3, Listed DEF LockSerial, JobDone, ToDo, TInv, JobInv
  <2>2. comm'.op = "flag" /\ ToDo' = {"flag"} /\ UNCHANGED eeprom
    BY <1>3, GroupMembers DEF LockSerial, Job, ToDo
  <2>3. Whole
    BY <2>1 DEF NumberInv, Whole, SafeSerial, Sn
  <2> QED
    BY <2>2, <2>3 DEF NumberInv, FactoryReset, Whole
<1>4. CASE Unlock
  <2>1. comm.op = "init" /\ comm'.op = "unlock" /\ ToDo' = {"flag"}
        /\ UNCHANGED <<eeprom, net, IP_Change>>
    BY <1>4, GroupMembers DEF Unlock, JobDone, Job, ToDo
  <2>2. live'["flag"] = "open"
    BY <1>4, Pieces DEF Unlock, TInv, Types
  <2> QED
    BY <2>1, <2>2 DEF NumberInv, FactoryReset
<1>5. CASE CommDone
  <2>1. comm.op \in {"boot", "flag", "apply"} /\ ToDo = {} /\ Unread = {}
        /\ comm'.op = "none" /\ UNCHANGED <<eeprom, live>>
    BY <1>5, FreeJobs, Listed, NoneUnread DEF CommDone, JobDone, ToDo, Unread
  <2> QED
    BY <2>1 DEF NumberInv, FactoryReset, Locked, Whole, Stored
<1>6. CASE Reload
  <2>1. comm.op = "erase" /\ comm'.op = "init" /\ Unread' = Setting
        /\ UNCHANGED <<net, IP_Change>>
    BY <1>6, NoneUnread DEF Reload, JobDone, Job, Unread
  <2> QED
    BY <2>1, Pieces DEF NumberInv, FactoryReset
<1>7. CASE Unlocked
  <2>1. comm.op = "unlock" /\ ToDo = {} /\ Unread = {} /\ Restart
    BY <1>7, Listed, NoneUnread DEF Unlocked, JobDone, ToDo, Unread
  <2>2. ~Locked
    BY <2>1 DEF NumberInv, Stored, Locked
  <2> QED
    BY <2>1, <2>2, NRestart
<1> QED
  BY <1>1, <1>2, <1>3, <1>4, <1>5, <1>6, <1>7 DEF CommTask

LEMMA NNet ==
  ASSUME SafeSerial, TInv, NumberInv, TInv',
         (\E a \in IpAddress : ChangeAddress(a)) \/ NetTask
  PROVE  NumberInv'
<1>1. ASSUME NEW a \in IpAddress, ChangeAddress(a)
      PROVE  NumberInv'
  <2>1. ~FactoryReset /\ UNCHANGED <<comm, eeprom>> /\ live'["flag"] = live["flag"]
    BY <1>1, Pieces DEF ChangeAddress, SafeSerial, TInv, Types, Ip
  <2> QED
    BY <2>1 DEF NumberInv, FactoryReset, Locked, Whole, Stored, ToDo, Unread
<1>2. CASE tapdev_init
  <2>1. UNCHANGED <<comm, eeprom, live, IP_Change>> /\ net' = Free
    BY <1>2 DEF tapdev_init
  <2> QED
    BY <2>1 DEF NumberInv, FactoryReset, Locked, Whole, Stored, ToDo, Unread
<1>3. CASE NetStore
  <2>1. Head(net.todo) \in Ip
    BY <1>3, NetPiece DEF TInv
  <2>2. /\ \A c \in Sn \cup {"flag"} : eeprom'[c] = eeprom[c]
        /\ UNCHANGED <<comm, live, IP_Change>>
    BY <1>3, <2>1, Pieces DEF NetStore, TInv, Types, Sn, Ip
  <2>3. ~FactoryReset
    BY <1>3, FreeJobs DEF NetStore, NumberInv
  <2> QED
    BY <2>2, <2>3 DEF NumberInv, FactoryReset, Locked, Whole, Stored, ToDo, Unread, Sn
<1>4. CASE Poll
  <2>1. ~FactoryReset
    BY <1>4 DEF Poll, NumberInv
  <2>2. CASE Restart
    BY <2>1, <2>2, NRestart DEF NumberInv
  <2>3. CASE ~Restart
    BY <1>4, <2>1, <2>3
    DEF Poll, NumberInv, FactoryReset, Locked, Whole, Stored, ToDo, Unread
  <2> QED
    BY <2>2, <2>3
<1> QED
  BY <1>1, <1>2, <1>3, <1>4 DEF NetTask

LEMMA NStep ==
  ASSUME SafeSerial
  PROVE  TInv /\ TInv' /\ NumberInv /\ [SettingsNext]_settingsVars => NumberInv'
<1> SUFFICES ASSUME TInv, TInv', NumberInv, [SettingsNext]_settingsVars
             PROVE  NumberInv'
  OBVIOUS
<1>1. CASE UNCHANGED settingsVars
  BY <1>1
  DEF settingsVars, NumberInv, FactoryReset, Locked, Whole, Stored, ToDo, Unread
<1>2. CASE PowerFailure
  BY <1>2, NRestart DEF PowerFailure, SafeSerial, NumberInv
<1> QED
  BY <1>1, <1>2, NMaster, NComm, NNet DEF SettingsNext, Ip

(* A serial number that is locked is one that was written, both pieces of  *)
(* it, whenever the power fails.                                           *)
THEOREM LockedIsWhole ==
  ASSUME SafeSerial PROVE SettingsSpec => []SerialWhole
<1>1. NumberInv => SerialWhole
  BY DEF NumberInv, SerialWhole, Locked, Whole
<1>2. SettingsInit => NumberInv
  BY NInit
<1>3. TInv /\ TInv' /\ NumberInv /\ [SettingsNext]_settingsVars => NumberInv'
  BY NStep
<1> QED
  BY <1>1, <1>2, <1>3, TInvariance, PTL DEF SettingsSpec
=============================================================================
