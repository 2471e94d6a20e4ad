------------------------------ MODULE Settings ------------------------------
(***************************************************************************)
(* Settings that live in RAM and in EEPROM: the serial number, written     *)
(* once, and the network address, changed over Modbus by way of a ghost    *)
(* copy (USER/modbus_regOp.c) or over UDP (uIP-APP/udp_scan.c), in effect  *)
(* after a reset (USER/main.c); the factory reset (MODBUS/modbus.c).  The  *)
(* COMM and NET tasks sleep at each byte they store.  A serial number and  *)
(* an address are two pieces; for an address, ip, mask and gateway.        *)
(***************************************************************************)
EXTENDS Naturals, Sequences

CONSTANTS
  Serial, IpAddress,      \* numbers and addresses a master may write
  ZeroByte,             \* those of IpAddress that have a zero byte
  DefaultAddress,
  Modes,                \* ghost_ip_mode, "static" or "dhcp"
  Polls,                \* polls from an address change to the reset, 10
  FactoryResetAlone,    \* does nothing else happen during a factory reset?
  MaxRequests, MaxFailures

ASSUME SettingsAssumption ==
  /\ ZeroByte \subseteq IpAddress /\ "static" \in Modes /\ Modes \subseteq {"static", "dhcp"}
  /\ Polls \in Nat \ {0} /\ MaxRequests \in Nat /\ MaxFailures \in Nat
  /\ FactoryResetAlone \in BOOLEAN

VARIABLES
  eeprom,               \* the stored settings
  live,                 \* modbus: those in use
  ghost,                \* modbus.ghost_...
  comm, net,            \* what the two tasks are storing
  IP_Change, polls,
  hostaddr,             \* the address uIP was given at start-up
  disturbed,            \* history: a change met another, or a reset
  requests, failures

settingsVars == <<eeprom, live, ghost, comm, net, IP_Change, polls, hostaddr,
                  disturbed, requests, failures>>

Network == {"mode", "ip1", "ip2"}
Setting == {"sn1", "sn2", "flag"} \cup Network

\* EEP_Dat_Init reads group after group; one that is erased gets its default.
Groups == <<<<"sn1", "sn2">>, <<"flag">>, <<"ip1", "ip2">>, <<"mode">>>>
Default == [c \in Setting |->
  CASE c \in {"sn1", "sn2"} -> "zero" [] c \in {"ip1", "ip2"} -> DefaultAddress
    [] c = "mode" -> "static" [] OTHER -> "erased"]

\* A job: what is to be stored now, and the groups still to be read.
Job(op, todo, groups, value) ==
  [op |-> op, todo |-> todo, groups |-> groups, value |-> value]
Free == Job("none", << >>, << >>, "none")
Boot == Job("boot", << >>, Groups, "none")

Members(g) == {g[i] : i \in DOMAIN g}
Pair(f) == <<f["ip1"], f["ip2"]>>

SettingsInit ==         \* a new module
  /\ eeprom = [c \in Setting |-> "erased"] /\ live = Default
  /\ ghost = [c \in Network |-> Default[c]]
  /\ comm = Boot /\ net = Job("start", << >>, << >>, "none")
  /\ IP_Change = FALSE /\ polls = 0 /\ hostaddr = Pair(Default)
  /\ disturbed = FALSE /\ requests = 0 /\ failures = 0

FactoryReset == comm.op \in {"erase", "init", "unlock"}

(* Reset or power failure: main starts again, with EEP_Dat_Init.           *)
Restart ==
  /\ comm' = Boot /\ net' = Job("start", << >>, << >>, "none")
  /\ IP_Change' = FALSE /\ polls' = 0
  /\ UNCHANGED <<eeprom, live, ghost, hostaddr, requests>>

PowerFailure ==
  /\ failures < MaxFailures /\ failures' = failures + 1
  /\ FactoryResetAlone => ~FactoryReset
  /\ disturbed' = (disturbed \/ comm # Free \/ net # Free)
  /\ Restart

ReadGroup ==
  /\ comm.op \in {"boot", "init"} /\ comm.todo = << >> /\ comm.groups # << >>
  /\ LET g == Head(comm.groups)
         erased == \A c \in Members(g) : eeprom[c] = "erased"
         Read(f) == [c \in DOMAIN f |-> IF c \notin Members(g) THEN f[c]
                                        ELSE IF erased THEN Default[c] ELSE eeprom[c]]
     IN /\ live' = Read(live) /\ ghost' = Read(ghost)
        /\ comm' = [comm EXCEPT !.groups = Tail(@),
                                !.todo = IF erased /\ g # <<"flag">> THEN g ELSE << >>]
  /\ UNCHANGED <<eeprom, net, IP_Change, polls, hostaddr, disturbed, requests, failures>>

Ready == comm.op # "boot"       \* the tasks run

(* A request of the master to the COMM task.                               *)
Asked ==
  /\ comm = Free /\ requests < MaxRequests /\ requests' = requests + 1
  /\ disturbed' = (disturbed \/ net # Free \/ IP_Change)
  /\ UNCHANGED <<eeprom, net, polls, hostaddr, failures>>

\* Deviant: the flag that locks the number is stored first.
WriteSerialLockFirst(s) ==
  /\ Asked /\ live["flag"] = "open"
  /\ live' = [live EXCEPT !["flag"] = "locked"]
  /\ comm' = Job("serial", <<"flag", "sn1", "sn2">>, << >>, s)
  /\ UNCHANGED <<ghost, IP_Change>>

WriteSerial(s) ==       \* refused by checkData once it is written
  /\ Asked /\ live["flag"] = "open"
  /\ comm' = Job("serial", <<"sn1", "sn2">>, << >>, s)
  /\ UNCHANGED <<live, ghost, IP_Change>>

WriteGhost(c, v) ==     \* one register, in RAM only
  /\ Asked
  /\ ghost' = [ghost EXCEPT ![c] = v]
  /\ UNCHANGED <<live, comm, IP_Change>>

\* Deviant: the reset is asked for before the settings are stored.
ApplyGhostEarly ==
  /\ comm = Free /\ requests < MaxRequests /\ requests' = requests + 1
  /\ disturbed' = (disturbed \/ net # Free \/ IP_Change \/ ghost["ip1"] # ghost["ip2"])
  /\ live' = [live EXCEPT !["mode"] = ghost["mode"]]
  /\ IP_Change' = TRUE
  /\ comm' = Job("apply", <<"mode", "ip1", "ip2">>, << >>, "none")
  /\ UNCHANGED <<eeprom, net, polls, hostaddr, failures, ghost>>

ApplyGhost ==           \* write_ghost_system = 1
  /\ comm = Free /\ requests < MaxRequests /\ requests' = requests + 1
  /\ disturbed' = (disturbed \/ net # Free \/ IP_Change \/ ghost["ip1"] # ghost["ip2"])
  /\ live' = [live EXCEPT !["mode"] = ghost["mode"]]
  /\ comm' = Job("apply", <<"mode", "ip1", "ip2">>, << >>, "none")
  /\ UNCHANGED <<eeprom, net, polls, hostaddr, failures, ghost, IP_Change>>

Erase ==                \* modbus.update = 0x8e
  /\ Asked
  /\ FactoryResetAlone => net = Free /\ ~IP_Change
  /\ comm' = Job("erase", <<"sn1", "sn2", "flag", "mode", "ip1", "ip2">>, << >>, "erased")
  /\ UNCHANGED <<live, ghost, IP_Change>>

(* One byte (here: one piece), then the task sleeps.                       *)
ToStore(c) == CASE comm.op = "serial" -> IF c = "flag" THEN live[c] ELSE comm.value
              [] comm.op = "apply"  -> IF c = "mode" THEN live[c] ELSE ghost[c]
              [] comm.op = "erase"  -> "erased"
              [] OTHER              -> live[c]

\* Deviant: the settings in use are left to the reset that follows.
CommStoreOnly ==
  /\ comm.todo # << >>
  /\ eeprom' = [eeprom EXCEPT ![Head(comm.todo)] = ToStore(Head(comm.todo))]
  /\ comm' = [comm EXCEPT !.todo = Tail(@)]
  /\ UNCHANGED <<live, ghost, net, IP_Change, polls, hostaddr, disturbed, requests, failures>>

CommStore ==
  /\ comm.todo # << >>
  /\ LET c == Head(comm.todo)
     IN /\ eeprom' = [eeprom EXCEPT ![c] = ToStore(c)]
        /\ live' = IF comm.op = "apply" THEN [live EXCEPT ![c] = ToStore(c)] ELSE live
  /\ comm' = [comm EXCEPT !.todo = Tail(@)]
  /\ UNCHANGED <<ghost, net, IP_Change, polls, hostaddr, disturbed, requests, failures>>

JobDone(op) == comm.op = op /\ comm.todo = << >> /\ comm.groups = << >>

LockSerial ==
  /\ JobDone("serial")
  /\ live' = [live EXCEPT !["sn1"] = comm.value, !["sn2"] = comm.value, !["flag"] = "locked"]
  /\ comm' = Job("flag", <<"flag">>, << >>, "none")
  /\ UNCHANGED <<eeprom, ghost, net, IP_Change, polls, hostaddr, disturbed, requests, failures>>

CommDone ==
  /\ JobDone("boot") \/ JobDone("flag") \/ JobDone("apply")
  /\ IP_Change' = (IP_Change \/ comm.op = "apply") /\ comm' = Free
  /\ UNCHANGED <<eeprom, live, ghost, net, polls, hostaddr, disturbed, requests, failures>>

Reload ==               \* EEP_Dat_Init, with the tasks running
  /\ JobDone("erase") /\ comm' = Job("init", << >>, Groups, "none")
  /\ UNCHANGED <<eeprom, live, ghost, net, IP_Change, polls, hostaddr, disturbed, requests, failures>>

Unlock ==
  /\ JobDone("init")
  /\ live' = [live EXCEPT !["flag"] = "open"]
  /\ comm' = Job("unlock", <<"flag">>, << >>, "none")
  /\ UNCHANGED <<eeprom, ghost, net, IP_Change, polls, hostaddr, disturbed, requests, failures>>

Unlocked == JobDone("unlock") /\ Restart /\ UNCHANGED <<disturbed, failures>>

CommTask == ReadGroup \/ CommStore \/ LockSerial \/ CommDone \/ Reload \/ Unlock \/ Unlocked

(* The NET task.                                                           *)
tapdev_init ==
  /\ Ready /\ net.op = "start" /\ net' = Free
  /\ hostaddr' = IF ghost["mode"] = "static" THEN Pair(live) ELSE <<"dhcp", "dhcp">>
  /\ UNCHANGED <<eeprom, live, ghost, comm, IP_Change, polls, disturbed, requests, failures>>

\* Deviant: no reset follows.
ChangeAddressSilently(a) ==
  /\ Ready /\ net = Free /\ requests < MaxRequests /\ requests' = requests + 1
  /\ FactoryResetAlone => ~FactoryReset
  /\ disturbed' = (disturbed \/ comm # Free \/ IP_Change \/ ghost["ip1"] # ghost["ip2"])
  /\ live' = [live EXCEPT !["mode"] = "static", !["ip1"] = a, !["ip2"] = a]
  /\ ghost' = [ghost EXCEPT !["ip1"] = a, !["ip2"] = a]
  /\ net' = Job("change", <<"ip1", "ip2">>, << >>, "none")
  /\ UNCHANGED <<eeprom, comm, polls, hostaddr, IP_Change, failures>>

ChangeAddress(a) ==     \* UDP, 0x66
  /\ Ready /\ net = Free /\ requests < MaxRequests /\ requests' = requests + 1
  /\ FactoryResetAlone => ~FactoryReset
  /\ disturbed' = (disturbed \/ comm # Free \/ IP_Change \/ ghost["ip1"] # ghost["ip2"])
  /\ live' = [live EXCEPT !["mode"] = "static", !["ip1"] = a, !["ip2"] = a]
  /\ ghost' = [ghost EXCEPT !["ip1"] = a, !["ip2"] = a]
  /\ IP_Change' = TRUE
  /\ net' = IF a \in ZeroByte THEN Free ELSE Job("change", <<"ip1", "ip2">>, << >>, "none")
  /\ UNCHANGED <<eeprom, comm, polls, hostaddr, failures>>

NetStore ==
  /\ Ready /\ net.op = "change"
  /\ eeprom' = [eeprom EXCEPT ![Head(net.todo)] = live[Head(net.todo)]]
  /\ net' = IF Len(net.todo) = 1 THEN Free ELSE [net EXCEPT !.todo = Tail(@)]
  /\ UNCHANGED <<live, ghost, comm, IP_Change, polls, hostaddr, disturbed, requests, failures>>

\* Deviant: the count is compared before it is stepped.
PollLate ==
  /\ Ready /\ net = Free /\ IP_Change
  /\ IF polls < Polls
     THEN /\ polls' = polls + 1
          /\ UNCHANGED <<eeprom, live, ghost, comm, net, IP_Change, hostaddr, requests>>
     ELSE Restart
  /\ UNCHANGED <<disturbed, failures>>

Poll ==
  /\ Ready /\ net = Free /\ IP_Change
  /\ IF polls + 1 < Polls
     THEN /\ polls' = polls + 1
          /\ UNCHANGED <<eeprom, live, ghost, comm, net, IP_Change, hostaddr, requests>>
     ELSE Restart
  /\ UNCHANGED <<disturbed, failures>>

NetTask == tapdev_init \/ NetStore \/ Poll

SettingsNext ==
  \/ \E s \in Serial : WriteSerial(s)
  \/ \E c \in {"ip1", "ip2"}, a \in IpAddress : WriteGhost(c, a)
  \/ \E m \in Modes : WriteGhost("mode", m)
  \/ ApplyGhost \/ Erase \/ CommTask
  \/ \E a \in IpAddress : ChangeAddress(a)
  \/ NetTask \/ PowerFailure

SettingsSpec == SettingsInit /\ [][SettingsNext]_settingsVars
SettingsFair == WF_settingsVars(CommTask) /\ WF_settingsVars(NetTask)

-----------------------------------------------------------------------------
(* Type invariant of the settings. *)
SettingsTypeOK ==
  LET Values == Serial \cup IpAddress \cup
        {"zero", "erased", "open", "locked", "static", "dhcp", DefaultAddress}
  IN /\ eeprom \in [Setting -> Values] /\ live \in [Setting -> Values]
     /\ ghost \in [Network -> Values]
     /\ Members(comm.todo) \cup Members(net.todo) \subseteq Setting
     /\ IP_Change \in BOOLEAN /\ polls \in 0 .. Polls - 1

(* A serial number that is locked is one that was written, both pieces of it,
   whenever the power fails; a factory reset unlocks it last. *)
SerialWhole ==
  eeprom["flag"] = "locked" => FactoryReset \/ eeprom["sn1"] = eeprom["sn2"]

(* When both tasks are at rest a restart would change nothing: the settings
   in use are those in EEPROM, whatever the two tasks changed together. *)
StoredIsLive == comm = Free /\ net = Free => live = eeprom

(* The address the module comes up with is one that was asked for, not half
   of it, unless another change or a power failure came in between: the
   reset waits for all of it to be stored. *)
AddressWhole == disturbed \/ hostaddr[1] = hostaddr[2]

(* In the end the network uses the address in the settings. *)
AddressTakesEffect == []<>(hostaddr = Pair(live))
=============================================================================
