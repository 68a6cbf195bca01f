---------------------------- MODULE StartupProofs ----------------------------
(***************************************************************************)
(* Theorems about Startup, for every set of configuration files, platforms *)
(* and addresses: how the rights a process keeps, from stage to stage and  *)
(* over the exec of the daemon, relate to what its routines need.          *)
(***************************************************************************)
EXTENDS Startup, WellFoundedInduction, TLAPS

Early == {"boot", "args", "parse", "net", "detach", "fork"}
Late == {"device", "spawn", "up"}
AfterNet == {"detach", "fork"} \union Late
Parsed == {"net"} \union AfterNet

(* The type of proc[p], of TypeOK. *)
Records ==
    [pc : {"none", "boot", "args", "parse", "net", "detach", "fork", "forked",
           "device", "spawn", "up", "exited"},
     daemon : BOOLEAN,
     files : SUBSET Rights, bind : SUBSET Ports, connect : SUBSET Ports,
     stdout : {"stdout", "stderr", "null"}, output : {"none", "stdout", "stderr", "null"},
     starting : SUBSET Routines, serving : SUBSET Routines,
     reason : {"none", "done", "config", "names", "rule", "exec", "device", "routine",
               "busy", "accept", "interrupted"}]

(* Who may exist, and who is still going to fork. *)
Lineage ==
    /\ options.supervised => ~options.daemon
    /\ \A p \in Processes :
         /\ p > 2 => proc[p].pc = "none"
         /\ p # 1 /\ proc[p].pc # "none" => options.daemon /\ proc[1].pc \in {"forked", "exited"}
         /\ proc[p].pc = "forked" => p = 1 /\ options.daemon
         /\ proc[p].pc \in Early \ {"fork"} => proc[p].daemon = options.daemon
         /\ p # 1 /\ proc[p].pc = "fork" => ~proc[p].daemon
         /\ proc[p].daemon => options.daemon

Streams(p) ==
    /\ proc[p].pc \in Early => proc[p].stdout = IF p = 1 THEN "stdout" ELSE "null"
    /\ proc[p].pc \in Parsed => proc[p].output = IF p = 1 THEN "stdout" ELSE "null"
    /\ proc[p].pc \in Late => proc[p].stdout = IF p = 1 THEN "stderr" ELSE "null"

(* Whoever is going to fork can still execute; files stay where there is no *)
(* lock, and are gone after "ready" where there is one.                     *)
FilesKept(p) ==
    /\ platform.files = "none" => proc[p].files = Rights
    /\ proc[p].pc \in Early /\ proc[p].daemon => "exec" \in proc[p].files
    /\ proc[p].pc \in Late => proc[p].files \subseteq Leaves("ready")

(* A process never has less than its rules grant, and no more after the     *)
(* network was locked.                                                      *)
NetKept(p) ==
    /\ ~platform.net => proc[p].bind = Ports
    /\ Ports \intersect BindRules \subseteq proc[p].bind
    /\ Ports \intersect ConnectRules \subseteq proc[p].connect
    /\ platform.net /\ proc[p].pc \in AfterNet =>
         proc[p].bind \subseteq BindRules /\ proc[p].connect \subseteq ConnectRules

(* What a stage has checked. *)
Checked(p) ==
    /\ proc[p].pc \in Parsed => ParseConfig(file, TRUE)
    /\ proc[p].pc \in AfterNet => RulesExtractable
    /\ proc[p].pc \in {"spawn", "up"} => IpcAccepts(file) /\ device.strategy = DeviceStrategy(file)

(* What a routine that serves had: SpawnRoutine but for the other routines. *)
Able(p, i) ==
    /\ PortOf(i) \in PortNumbers
    /\ Network(i) = "tcp" => PortOf(i) \in proc[p].bind
    /\ BesideDevice(i)
    /\ Kind(i) \in {"TCPClientTunnel", "TCPServerTunnel", "STDIOTunnel"} => parseAddressPort(Target(i))
    /\ Kind(i) = "http" => CertificateLoads(p, i)
    /\ Kind(i) = "UDPProxyTunnel" => ResolveUDPAddr(p, i)

Serving(p) ==
    /\ proc[p].serving # {} => proc[p].pc = "up"
    /\ \A i \in proc[p].serving : Able(p, i)
    /\ \A i, j \in proc[p].serving : i # j => Distinct(i, j)

HostReasons == {"none", "done", "interrupted", "names", "busy", "accept"}
Reasons(p) == Startable => proc[p].reason \in HostReasons

Good(p) ==
    Streams(p) /\ FilesKept(p) /\ NetKept(p) /\ Checked(p) /\ Serving(p) /\ Reasons(p)

IInv == TypeOK /\ Lineage /\ \A p \in Processes : Good(p)

-----------------------------------------------------------------------------
(* The setting does not change, and nothing that is derived from it does. *)
LEMMA SameKinds ==
  ASSUME UNCHANGED setting, NEW i
  PROVE  /\ Kind(i)' = Kind(i) /\ Section(i)' = Section(i)
         /\ BindAddress(i)' = BindAddress(i) /\ Target(i)' = Target(i)
         /\ Network(i)' = Network(i) /\ PortOf(i)' = PortOf(i) /\ HostOf(i)' = HostOf(i)
         /\ BesideDevice(i)' = BesideDevice(i)
<1>1. Kind(i)' = Kind(i) /\ Section(i)' = Section(i)
  BY DEF setting, Kind, Section
<1>2. BindAddress(i)' = BindAddress(i) /\ Target(i)' = Target(i)
  BY <1>1 DEF setting, BindAddress, Target
<1>3. Network(i)' = Network(i)
  BY <1>1 DEF Network
<1>4. PortOf(i)' = PortOf(i) /\ HostOf(i)' = HostOf(i)
  BY <1>1, <1>2, <1>3 DEF PortOf, HostOf
<1>5. BesideDevice(i)' = BesideDevice(i)
  BY <1>3, <1>4 DEF BesideDevice, DevicePort, setting
<1>. QED
  BY <1>1, <1>2, <1>3, <1>4, <1>5

LEMMA SameRoutines ==
  ASSUME UNCHANGED setting
  PROVE  /\ Routines' = Routines
         /\ Binders' = Binders /\ ClientTunnels' = ClientTunnels /\ ServerTunnels' = ServerTunnels
         /\ OfKinds({"UDPProxyTunnel"})' = OfKinds({"UDPProxyTunnel"})
         /\ OfKinds({"http"})' = OfKinds({"http"})
         /\ OfKinds({"TCPClientTunnel", "TCPServerTunnel", "STDIOTunnel"})'
              = OfKinds({"TCPClientTunnel", "TCPServerTunnel", "STDIOTunnel"})
<1>1. Routines' = Routines
  BY DEF setting, Routines
<1>2. ASSUME NEW kinds PROVE OfKinds(kinds)' = OfKinds(kinds)
  BY <1>1, SameKinds DEF OfKinds
<1>. QED
  BY <1>1, <1>2 DEF Binders, ClientTunnels, ServerTunnels

LEMMA SameRules ==
  ASSUME UNCHANGED setting
  PROVE  /\ BindRules' = BindRules /\ ConnectRules' = ConnectRules
         /\ RulesExtractable' = RulesExtractable
         /\ \A stage : Leaves(stage)' = Leaves(stage)
         /\ \A i, j : Distinct(i, j)' = Distinct(i, j)
<1>1. BindRules' = BindRules
  BY SameKinds, SameRoutines DEF BindRules
<1>2. ConnectRules' = ConnectRules
  BY SameKinds, SameRoutines DEF ConnectRules
<1>3. RulesExtractable' = RulesExtractable
  BY SameKinds, SameRoutines DEF RulesExtractable
<1>4. ASSUME NEW stage PROVE Leaves(stage)' = Leaves(stage)
  BY DEF setting, Leaves
<1>5. ASSUME NEW i, NEW j PROVE Distinct(i, j)' = Distinct(i, j)
  BY SameKinds DEF Distinct
<1>. QED
  BY <1>1, <1>2, <1>3, <1>4, <1>5

LEMMA SameStartable ==
  ASSUME UNCHANGED setting
  PROVE  Startable' = Startable
<1>. DEFINE Targets == OfKinds({"TCPClientTunnel", "TCPServerTunnel", "STDIOTunnel"})
            Nameable(i) == \/ BindAddress(i).kind \in {"numeric", "empty"}
                           \/ BindAddress(i).kind = "named" /\ platform.files = "none"
<1>1. file' = file /\ platform' = platform
  BY DEF setting
<1>2. (\A i \in Routines : PortOf(i) \in PortNumbers)' <=> (\A i \in Routines : PortOf(i) \in PortNumbers)
  BY SameKinds, SameRoutines
<1>3. (\A i \in Binders : BindAddress(i).kind = "numeric")' <=> (\A i \in Binders : BindAddress(i).kind = "numeric")
  BY SameKinds, SameRoutines
<1>4. (\A i \in OfKinds({"UDPProxyTunnel"}) : Nameable(i))' <=> (\A i \in OfKinds({"UDPProxyTunnel"}) : Nameable(i))
  BY <1>1, SameKinds, SameRoutines
<1>5. (\A i \in Targets : parseAddressPort(Target(i)))' <=> (\A i \in Targets : parseAddressPort(Target(i)))
  BY SameKinds, SameRoutines
<1>6. (\A i, j \in Routines : i # j => Distinct(i, j))' <=> (\A i, j \in Routines : i # j => Distinct(i, j))
  BY SameRules, SameRoutines
<1>7. (\A i \in ClientTunnels : \E j \in Binders : PortOf(i) = PortOf(j))'
        <=> (\A i \in ClientTunnels : \E j \in Binders : PortOf(i) = PortOf(j))
  BY SameKinds, SameRoutines
<1>8. (\A i \in OfKinds({"http"}) : ~Section(i).tls)' <=> (\A i \in OfKinds({"http"}) : ~Section(i).tls)
  BY SameKinds, SameRoutines
<1>9. (\A i \in Routines : BesideDevice(i))' <=> (\A i \in Routines : BesideDevice(i))
  BY SameKinds, SameRoutines
<1>. QED
  BY <1>1, <1>2, <1>3, <1>4, <1>5, <1>6, <1>7, <1>8, <1>9 DEF Startable, StartableOn

(* A process that takes no step stays good. *)
LEMMA OthersStayGood ==
  ASSUME UNCHANGED setting, NEW q \in Processes, Good(q), proc'[q] = proc[q],
         \/ device' = device
         \/ device'.strategy = DeviceStrategy(file)
         \/ proc[q].pc \notin {"spawn", "up"}
  PROVE  Good(q)'
<1>1. file' = file /\ platform' = platform
  BY DEF setting
<1>2. Streams(q)'
  BY DEF Good, Streams
<1>3. FilesKept(q)'
  BY <1>1, SameRules DEF Good, FilesKept
<1>4. NetKept(q)'
  BY <1>1, SameRules DEF Good, NetKept
<1>5. Checked(q)'
  BY <1>1, SameRules DEF Good, Checked
<1>6. Serving(q)'
  <2>1. \A i : Able(q, i)' = Able(q, i)
    BY SameKinds DEF Able, CertificateLoads, ResolveUDPAddr
  <2>. QED
    BY <2>1, SameRules DEF Good, Serving
<1>7. Reasons(q)'
  BY SameStartable DEF Good, Reasons
<1>. QED
  BY <1>2, <1>3, <1>4, <1>5, <1>6, <1>7 DEF Good

-----------------------------------------------------------------------------
(* The step of one process: what is left to show is that its own new state  *)
(* is typed and in line, and that all are good.                             *)
LEMMA DeviceStep ==
  ASSUME IInv, NEW p \in Processes, UNCHANGED <<setting, world, signalled>>,
         faults' \in 0..MaxFaults,
         NEW r \in Records,
         proc' = [proc EXCEPT ![p] = r],
         r.starting \intersect r.serving = {},
         proc[p].pc # "none", proc[p].pc # "exited", r.pc # "none", r.pc # "forked",
         proc[p].pc = "forked" => r.pc = "exited",
         r.pc \in Early \ {"fork"} => r.daemon = proc[p].daemon /\ proc[p].pc \in Early \ {"fork"},
         p # 1 /\ r.pc = "fork" => ~r.daemon, r.daemon => proc[p].daemon,
         \A q \in Processes : Good(q)'
  PROVE  IInv'
<1>1. /\ proc'[p] = r
      /\ \A q \in Processes : q # p => proc'[q] = proc[q]
  BY DEF IInv, TypeOK
<1>2. TypeOK'
  <2>1. /\ file' \in Files /\ platform' \in Platforms
        /\ options' \in [mode : {"serve", "test", "print"}, daemon : BOOLEAN,
                         info : Infos, supervised : BOOLEAN]
        /\ dns' \in {"up", "tcp", "down"} /\ busy' \subseteq Held
        /\ signalled' \in BOOLEAN /\ faults' \in 0..MaxFaults
    BY DEF IInv, TypeOK, setting, world
  <2>2. \A q \in Processes : proc'[q].starting \intersect proc'[q].serving = {}
    BY <1>1 DEF IInv, TypeOK
  <2>3. Records' = Records
    BY SameRoutines DEF Records
  <2>4. proc' \in [Processes -> Records]
    BY DEF IInv, TypeOK, Records
  <2>. QED
    BY <2>1, <2>2, <2>3, <2>4 DEF TypeOK, Records
<1>3. Lineage'
  <2>1. options' = options
    BY DEF setting
  <2>2. /\ p # 1 => options.daemon /\ proc[1].pc \in {"forked", "exited"}
        /\ p = 1 /\ proc[1].pc # "forked" => \A q \in Processes : q # 1 => proc[q].pc = "none"
    BY DEF IInv, Lineage
  <2>3. ASSUME NEW q \in Processes
        PROVE  /\ q > 2 => proc'[q].pc = "none"
               /\ q # 1 /\ proc'[q].pc # "none" => options.daemon /\ proc'[1].pc \in {"forked", "exited"}
               /\ proc'[q].pc = "forked" => q = 1 /\ options.daemon
               /\ proc'[q].pc \in Early \ {"fork"} => proc'[q].daemon = options.daemon
               /\ q # 1 /\ proc'[q].pc = "fork" => ~proc'[q].daemon
               /\ proc'[q].daemon => options.daemon
    <3>1. CASE q = p
      BY <1>1, <2>2, <3>1 DEF IInv, Lineage, Processes
    <3>2. CASE q # p
      BY <1>1, <3>2 DEF IInv, Lineage, Processes
    <3>. QED
      BY <3>1, <3>2
  <2>. QED
    BY <2>1, <2>3 DEF IInv, Lineage
<1>. QED
  BY <1>2, <1>3 DEF IInv

(* A step that leaves the device alone: the others stay good. *)
LEMMA OwnStep ==
  ASSUME IInv, NEW p \in Processes, UNCHANGED <<setting, world, device, signalled>>,
         faults' \in 0..MaxFaults,
         NEW r \in Records,
         proc' = [proc EXCEPT ![p] = r],
         r.starting \intersect r.serving = {},
         proc[p].pc # "none", proc[p].pc # "exited", r.pc # "none", r.pc # "forked",
         proc[p].pc = "forked" => r.pc = "exited",
         r.pc \in Early \ {"fork"} => r.daemon = proc[p].daemon /\ proc[p].pc \in Early \ {"fork"},
         p # 1 /\ r.pc = "fork" => ~r.daemon, r.daemon => proc[p].daemon,
         Good(p)'
  PROVE  IInv'
<1>1. \A q \in Processes : q # p => proc'[q] = proc[q]
  BY DEF IInv, TypeOK
<1>2. \A q \in Processes : Good(q)'
  BY <1>1, OthersStayGood DEF IInv
<1>. QED
  BY <1>2, DeviceStep

(* What a process has does not suffer from a move to another place of the   *)
(* start.                                                                   *)
LEMMA MovesOn ==
  ASSUME UNCHANGED setting, NEW p \in Processes, Good(p), proc[p].pc # "up",
         proc'[p].serving = proc[p].serving, proc'[p].reason = proc[p].reason,
         proc'[p].bind = proc[p].bind, proc'[p].connect = proc[p].connect,
         proc'[p].pc \in AfterNet => proc[p].pc \in AfterNet
  PROVE  NetKept(p)' /\ Serving(p)' /\ Reasons(p)'
<1>1. NetKept(p)'
  BY SameRules DEF Good, NetKept, setting
<1>2. Serving(p)'
  BY DEF Good, Serving
<1>3. Reasons(p)'
  BY SameStartable DEF Good, Reasons
<1>. QED
  BY <1>1, <1>2, <1>3

LEMMA ExitStep ==
  ASSUME IInv, NEW p \in Processes, UNCHANGED <<setting, world, device, signalled>>,
         faults' \in 0..MaxFaults,
         proc[p].pc # "none", proc[p].pc # "exited",
         NEW reason \in {"done", "config", "names", "rule", "exec", "device", "routine",
                         "busy", "accept", "interrupted"},
         Startable => reason \in HostReasons,
         proc' = Exit(p, reason)
  PROVE  IInv'
<1>. DEFINE r == [proc[p] EXCEPT !.pc = "exited", !.reason = reason, !.starting = {}, !.serving = {}]
<1>1. proc' = [proc EXCEPT ![p] = r] /\ proc'[p] = r
  BY DEF Exit, IInv, TypeOK
<1>2. Good(p) /\ setting' = setting
  BY DEF IInv
<1>3. Good(p)'
  <2>1. Streams(p)'
    BY <1>1 DEF Streams, Early, Parsed, AfterNet, Late, IInv, TypeOK
  <2>2. FilesKept(p)'
    BY <1>1, <1>2 DEF Good, FilesKept, Early, Late, IInv, TypeOK, setting
  <2>3. NetKept(p)'
    BY <1>1, <1>2, SameRules DEF Good, NetKept, AfterNet, Late, IInv, TypeOK, setting
  <2>4. Checked(p)'
    BY <1>1 DEF Checked, Parsed, AfterNet, Late, IInv, TypeOK
  <2>5. Serving(p)'
    BY <1>1 DEF Serving, IInv, TypeOK
  <2>6. Reasons(p)'
    BY <1>1, SameStartable DEF Reasons, IInv, TypeOK
  <2>. QED
    BY <2>1, <2>2, <2>3, <2>4, <2>5, <2>6 DEF Good
<1>4. /\ r.starting \intersect r.serving = {} /\ r.pc = "exited"
      /\ r.daemon = proc[p].daemon /\ r \in Records
  <2>1. proc[p] \in Records
    BY DEF IInv, TypeOK, Records
  <2>. QED
    BY <2>1 DEF Records
<1>. HIDE DEF r
<1>. QED
  BY OwnStep, <1>1, <1>3, <1>4 DEF Early

(* A step that only moves process p on, with new rights to files and new    *)
(* streams.                                                                 *)
LEMMA MoveStep ==
  ASSUME IInv, NEW p \in Processes, UNCHANGED <<setting, world, device, signalled, faults>>,
         proc[p].pc \notin {"none", "up", "forked", "exited"},
         NEW r \in Records,
         proc' = [proc EXCEPT ![p] = r],
         r.pc \notin {"none", "forked", "exited"}, r.serving = proc[p].serving, r.reason = proc[p].reason,
         r.bind = proc[p].bind, r.connect = proc[p].connect,
         r.pc \in AfterNet => proc[p].pc \in AfterNet,
         r.pc \in Early \ {"fork"} => r.daemon = proc[p].daemon /\ proc[p].pc \in Early \ {"fork"},
         p # 1 /\ r.pc = "fork" => ~r.daemon, r.daemon => proc[p].daemon,
         Streams(p)', FilesKept(p)', Checked(p)'
  PROVE  IInv'
<1>1. faults' \in 0..MaxFaults /\ setting' = setting /\ Good(p)
  BY DEF IInv, TypeOK
<1>2. r.starting \intersect r.serving = {}
  BY <1>1 DEF Good, Serving
<1>3. proc'[p] = r
  BY DEF IInv, TypeOK
<1>4. NetKept(p)' /\ Serving(p)' /\ Reasons(p)'
  BY <1>1, <1>3, MovesOn
<1>5. Good(p)'
  BY <1>4 DEF Good
<1>. QED
  BY OwnStep, <1>1, <1>2, <1>5

LEMMA BootPreserves ==
  ASSUME IInv, NEW p \in Processes, Boot(p)
  PROVE  IInv'
<1>. DEFINE r == [proc[p] EXCEPT !.pc = "args", !.files = lock(p, "boot")]
<1>1. /\ proc[p].pc = "boot" /\ lock(p, "boot") \subseteq proc[p].files
      /\ proc[p] \in Records /\ Good(p) /\ UNCHANGED <<setting, world, device, signalled, faults>>
      /\ proc' = [proc EXCEPT ![p] = r] /\ proc'[p] = r
  BY DEF Boot, lock, IInv, TypeOK, Records
<1>2. r \in Records
  BY <1>1 DEF Records
<1>3. /\ r.pc = "args" /\ r.daemon = proc[p].daemon /\ r.serving = proc[p].serving
      /\ r.reason = proc[p].reason /\ r.bind = proc[p].bind /\ r.connect = proc[p].connect
      /\ r.files = lock(p, "boot") /\ r.stdout = proc[p].stdout /\ r.output = proc[p].output
  BY <1>1 DEF Records
<1>. HIDE DEF r
<1>4. Streams(p)'
  BY <1>1, <1>3 DEF Good, Streams, Early, Parsed, AfterNet, Late
<1>5. FilesKept(p)'
  BY <1>1, <1>3 DEF Good, FilesKept, Early, Late, setting, lock, Leaves, Rights
<1>6. Checked(p)'
  BY <1>1, <1>3 DEF Checked, Parsed, AfterNet, Late
<1>. QED
  BY <1>1, <1>2, <1>3, <1>4, <1>5, <1>6, MoveStep DEF AfterNet, Late, Early

LEMMA ArgumentsPreserves ==
  ASSUME IInv, NEW p \in Processes, Arguments(p)
  PROVE  IInv'
<1>. DEFINE files == IF proc[p].daemon THEN proc[p].files ELSE lock(p, "read-config")
            r == [proc[p] EXCEPT !.pc = "parse", !.files = files]
<1>1. /\ proc[p].pc = "args" /\ files \subseteq proc[p].files
      /\ proc[p] \in Records /\ Good(p) /\ UNCHANGED <<setting, world, device, signalled, faults>>
      /\ faults' \in 0..MaxFaults
  BY DEF Arguments, lock, IInv, TypeOK, Records
<1>2. CASE options.mode = "print"
  BY <1>1, <1>2, ExitStep DEF Arguments, HostReasons
<1>3. CASE options.mode # "print"
  <2>1. proc' = [proc EXCEPT ![p] = r] /\ proc'[p] = r
    BY <1>1, <1>3 DEF Arguments, IInv, TypeOK, Records
  <2>2. r \in Records
    BY <1>1 DEF Records
  <2>3. /\ r.pc = "parse" /\ r.daemon = proc[p].daemon /\ r.serving = proc[p].serving
        /\ r.reason = proc[p].reason /\ r.bind = proc[p].bind /\ r.connect = proc[p].connect
        /\ r.files = files /\ r.stdout = proc[p].stdout /\ r.output = proc[p].output
    BY <1>1 DEF Records
  <2>4. platform.files = "none" => files = proc[p].files
    BY <1>1 DEF Good, FilesKept, lock, Leaves
  <2>5. proc[p].daemon => files = proc[p].files
    OBVIOUS
  <2>. HIDE DEF r, files
  <2>6. Streams(p)'
    BY <1>1, <2>1, <2>3 DEF Good, Streams, Early, Parsed, AfterNet, Late
  <2>7. FilesKept(p)'
    BY <1>1, <2>1, <2>3, <2>4, <2>5 DEF Good, FilesKept, Early, Late, setting
  <2>8. Checked(p)'
    BY <1>1, <2>1, <2>3 DEF Checked, Parsed, AfterNet, Late
  <2>. QED
    BY <1>1, <2>1, <2>2, <2>3, <2>6, <2>7, <2>8, MoveStep DEF AfterNet, Late, Early
<1>. QED
  BY <1>2, <1>3

(* A name that a process can resolve can be resolved. *)
LEMMA ParsesWithNames ==
  ASSUME NEW f, NEW b \in BOOLEAN, ParseConfig(f, b)
  PROVE  ParseConfig(f, TRUE)
<1>1. ASSUME NEW section, ParsePeer(section, b) PROVE ParsePeer(section, TRUE)
  BY <1>1 DEF ParsePeer, resolveIPPAndPort, HostResolves
<1>2. ASSUME NEW section, ParseRoutine(section, b) PROVE ParseRoutine(section, TRUE)
  BY <1>2 DEF ParseRoutine, parseTCPClientTunnelConfig, parseTCPAddr, HostResolves
<1>. QED
  BY <1>1, <1>2 DEF ParseConfig

LEMMA ParsePreserves ==
  ASSUME IInv, NEW p \in Processes, Parse(p)
  PROVE  IInv'
<1>. DEFINE r == [proc[p] EXCEPT !.pc = "net", !.output = proc[p].stdout]
<1>1. /\ proc[p].pc = "parse"
      /\ proc[p] \in Records /\ Good(p) /\ UNCHANGED <<setting, world, device, signalled, faults>>
      /\ faults' \in 0..MaxFaults
  BY DEF Parse, IInv, TypeOK, Records
<1>2. CASE ~ParseConfig(file, NamesResolve(p))
  <2>. DEFINE reason == IF ParseConfig(file, TRUE) THEN "names" ELSE "config"
  <2>1. proc' = Exit(p, reason)
    BY <1>2 DEF Parse
  <2>2. Startable => reason \in HostReasons
    BY DEF Startable, StartableOn, HostReasons
  <2>3. reason \in {"names", "config"}
    OBVIOUS
  <2>. HIDE DEF reason
  <2>. QED
    BY <1>1, <2>1, <2>2, <2>3, ExitStep
<1>3. CASE ParseConfig(file, NamesResolve(p)) /\ options.mode = "test"
  BY <1>1, <1>3, ExitStep DEF Parse, HostReasons
<1>4. CASE ParseConfig(file, NamesResolve(p)) /\ options.mode # "test"
  <2>1. proc' = [proc EXCEPT ![p] = r] /\ proc'[p] = r
    BY <1>1, <1>4 DEF Parse, IInv, TypeOK, Records
  <2>2. r \in Records
    BY <1>1 DEF Records
  <2>3. /\ r.pc = "net" /\ r.daemon = proc[p].daemon /\ r.serving = proc[p].serving
        /\ r.reason = proc[p].reason /\ r.bind = proc[p].bind /\ r.connect = proc[p].connect
        /\ r.files = proc[p].files /\ r.stdout = proc[p].stdout /\ r.output = proc[p].stdout
    BY <1>1 DEF Records
  <2>4. ParseConfig(file, TRUE)
    BY <1>4, ParsesWithNames DEF NamesResolve
  <2>. HIDE DEF r
  <2>5. Streams(p)'
    BY <1>1, <2>1, <2>3 DEF Good, Streams, Early, Parsed, AfterNet, Late
  <2>6. FilesKept(p)'
    BY <1>1, <2>1, <2>3 DEF Good, FilesKept, Early, Late, setting
  <2>7. Checked(p)'
    BY <1>1, <2>1, <2>3, <2>4 DEF Checked, Parsed, AfterNet, Late, setting
  <2>. QED
    BY <1>1, <2>1, <2>2, <2>3, <2>5, <2>6, <2>7, MoveStep DEF AfterNet, Late, Early
<1>. QED
  BY <1>2, <1>3, <1>4

LEMMA DetachPreserves ==
  ASSUME IInv, NEW p \in Processes, Detach(p)
  PROVE  IInv'
<1>. DEFINE stdout == IF p = 1 THEN proc[p].stdout ELSE "null"
            daemon == IF p = 1 THEN proc[p].daemon ELSE FALSE
            r == [proc[p] EXCEPT !.pc = "fork", !.stdout = stdout, !.daemon = daemon]
<1>1. /\ proc[p].pc = "detach"
      /\ proc[p] \in Records /\ Good(p) /\ UNCHANGED <<setting, world, device, signalled, faults>>
  BY DEF Detach, IInv, TypeOK, Records
<1>2. proc' = [proc EXCEPT ![p] = r] /\ proc'[p] = r
  BY <1>1 DEF Detach, IInv, TypeOK, Records
<1>3. r \in Records
  BY <1>1 DEF Records
<1>4. /\ r.pc = "fork" /\ r.daemon = daemon /\ r.serving = proc[p].serving
      /\ r.reason = proc[p].reason /\ r.bind = proc[p].bind /\ r.connect = proc[p].connect
      /\ r.files = proc[p].files /\ r.stdout = stdout /\ r.output = proc[p].output
  BY <1>1 DEF Records
<1>. HIDE DEF r
<1>5. Streams(p)'
  BY <1>1, <1>2, <1>4 DEF Good, Streams, Early, Parsed, AfterNet, Late
<1>6. FilesKept(p)'
  BY <1>1, <1>2, <1>4 DEF Good, FilesKept, Early, Late, setting
<1>7. Checked(p)'
  BY <1>1, <1>2, <1>4, SameRules DEF Good, Checked, Parsed, AfterNet, Late, setting
<1>. QED
  BY <1>1, <1>2, <1>3, <1>4, <1>5, <1>6, <1>7, MoveStep DEF AfterNet, Late, Early

LEMMA ReadyPreserves ==
  ASSUME IInv, NEW p \in Processes, Ready(p)
  PROVE  IInv'
<1>. DEFINE stdout == IF p = 1 THEN "stderr" ELSE "null"
            r == [proc[p] EXCEPT !.pc = "device", !.files = lock(p, "ready"), !.stdout = stdout]
<1>1. /\ proc[p].pc = "fork" /\ lock(p, "ready") \subseteq proc[p].files
      /\ proc[p] \in Records /\ Good(p) /\ UNCHANGED <<setting, world, device, signalled, faults>>
  BY DEF Ready, lock, IInv, TypeOK, Records
<1>2. proc' = [proc EXCEPT ![p] = r] /\ proc'[p] = r
  BY <1>1 DEF Ready, IInv, TypeOK, Records
<1>3. r \in Records
  BY <1>1 DEF Records
<1>4. /\ r.pc = "device" /\ r.daemon = proc[p].daemon /\ r.serving = proc[p].serving
      /\ r.reason = proc[p].reason /\ r.bind = proc[p].bind /\ r.connect = proc[p].connect
      /\ r.files = lock(p, "ready") /\ r.stdout = stdout /\ r.output = proc[p].output
  BY <1>1 DEF Records
<1>. HIDE DEF r
<1>5. Streams(p)'
  BY <1>1, <1>2, <1>4 DEF Good, Streams, Early, Parsed, AfterNet, Late
<1>6. FilesKept(p)'
  <2>1. lock(p, "ready") \subseteq Leaves("ready")
    BY DEF lock
  <2>2. platform.files = "none" => lock(p, "ready") = Rights
    BY <1>1 DEF Good, FilesKept, lock, Leaves
  <2>. QED
    BY <1>1, <1>2, <1>4, <2>1, <2>2, SameRules DEF FilesKept, Early, Late, setting
<1>7. Checked(p)'
  BY <1>1, <1>2, <1>4, SameRules DEF Good, Checked, Parsed, AfterNet, Late, setting
<1>. QED
  BY <1>1, <1>2, <1>3, <1>4, <1>5, <1>6, <1>7, MoveStep DEF AfterNet, Late, Early

LEMMA SpawnPreserves ==
  ASSUME IInv, NEW p \in Processes, Spawn(p)
  PROVE  IInv'
<1>. DEFINE r == [proc[p] EXCEPT !.pc = "up", !.starting = Routines]
<1>1. /\ proc[p].pc = "spawn"
      /\ proc[p] \in Records /\ Good(p) /\ UNCHANGED <<setting, world, device, signalled, faults>>
  BY DEF Spawn, IInv, TypeOK, Records
<1>2. proc' = [proc EXCEPT ![p] = r] /\ proc'[p] = r
  BY <1>1 DEF Spawn, IInv, TypeOK, Records
<1>3. r \in Records
  BY <1>1 DEF Records
<1>4. /\ r.pc = "up" /\ r.daemon = proc[p].daemon /\ r.serving = proc[p].serving
      /\ r.reason = proc[p].reason /\ r.bind = proc[p].bind /\ r.connect = proc[p].connect
      /\ r.files = proc[p].files /\ r.stdout = proc[p].stdout /\ r.output = proc[p].output
  BY <1>1 DEF Records
<1>. HIDE DEF r
<1>5. Streams(p)'
  BY <1>1, <1>2, <1>4 DEF Good, Streams, Early, Parsed, AfterNet, Late
<1>6. FilesKept(p)'
  BY <1>1, <1>2, <1>4, SameRules DEF Good, FilesKept, Early, Late, setting
<1>7. Checked(p)'
  BY <1>1, <1>2, <1>4, SameRules DEF Good, Checked, Parsed, AfterNet, Late, setting
<1>. QED
  BY <1>1, <1>2, <1>3, <1>4, <1>5, <1>6, <1>7, MoveStep DEF AfterNet, Late, Early

LEMMA lockNetworkPreserves ==
  ASSUME IInv, NEW p \in Processes, lockNetwork(p)
  PROVE  IInv'
<1>. DEFINE bind == IF platform.net THEN proc[p].bind \intersect BindRules ELSE proc[p].bind
            connect == IF platform.net THEN proc[p].connect \intersect ConnectRules ELSE proc[p].connect
            r == [proc[p] EXCEPT !.pc = "detach", !.bind = bind, !.connect = connect]
<1>1. /\ proc[p].pc = "net"
      /\ proc[p] \in Records /\ Good(p) /\ UNCHANGED <<setting, world, device, signalled, faults>>
      /\ faults' \in 0..MaxFaults /\ proc[p].starting \intersect proc[p].serving = {}
  BY DEF lockNetwork, IInv, TypeOK, Records
<1>2. CASE ~RulesExtractable
  <2>1. ~Startable
    <3>1. ASSUME Startable PROVE RulesExtractable
      BY <3>1 DEF RulesExtractable, Startable, StartableOn, extractable, ServerTunnels, OfKinds,
                  parseAddressPort
    <3>. QED
      BY <1>2, <3>1
  <2>. QED
    BY <1>1, <1>2, <2>1, ExitStep DEF lockNetwork
<1>3. CASE RulesExtractable
  <2>1. proc' = [proc EXCEPT ![p] = r] /\ proc'[p] = r
    BY <1>1, <1>3 DEF lockNetwork, IInv, TypeOK, Records
  <2>2. r \in Records
    BY <1>1 DEF Records
  <2>3. /\ r.pc = "detach" /\ r.daemon = proc[p].daemon /\ r.serving = proc[p].serving
        /\ r.reason = proc[p].reason /\ r.bind = bind /\ r.connect = connect
        /\ r.files = proc[p].files /\ r.stdout = proc[p].stdout /\ r.output = proc[p].output
        /\ r.starting = proc[p].starting
    BY <1>1 DEF Records
  <2>. HIDE DEF r
  <2>4. Streams(p)'
    BY <1>1, <2>1, <2>3 DEF Good, Streams, Early, Parsed, AfterNet, Late
  <2>5. FilesKept(p)'
    BY <1>1, <2>1, <2>3 DEF Good, FilesKept, Early, Late, setting
  <2>6. NetKept(p)'
    BY <1>1, <2>1, <2>3, SameRules DEF Good, NetKept, setting
  <2>7. Checked(p)'
    BY <1>1, <1>3, <2>1, <2>3, SameRules DEF Good, Checked, Parsed, AfterNet, Late, setting
  <2>8. Serving(p)'
    BY <1>1, <2>1, <2>3 DEF Good, Serving
  <2>9. Reasons(p)'
    BY <1>1, <2>1, <2>3, SameStartable DEF Good, Reasons
  <2>10. Good(p)'
    BY <2>4, <2>5, <2>6, <2>7, <2>8, <2>9 DEF Good
  <2>. QED
    BY <1>1, <2>1, <2>2, <2>3, <2>10, OwnStep DEF Early
<1>. QED
  BY <1>2, <1>3

LEMMA StartWireguardPreserves ==
  ASSUME IInv, NEW p \in Processes, StartWireguard(p)
  PROVE  IInv'
<1>. DEFINE r == [proc[p] EXCEPT !.pc = "spawn"]
<1>1. /\ proc[p].pc = "device"
      /\ proc[p] \in Records /\ Good(p) /\ UNCHANGED <<setting, world, signalled, faults>>
      /\ faults' \in 0..MaxFaults /\ proc[p].starting \intersect proc[p].serving = {}
  BY DEF StartWireguard, IInv, TypeOK, Records
<1>2. CASE UNCHANGED device /\ proc' = Exit(p, IF IpcAccepts(file) THEN "busy" ELSE "device")
  <2>1. Startable => IpcAccepts(file)
    BY DEF Startable, StartableOn
  <2>2. PICK reason \in {"busy", "device"} :
          /\ proc' = Exit(p, reason)
          /\ Startable => reason \in HostReasons
    BY <1>2, <2>1 DEF HostReasons
  <2>. QED
    BY <1>1, <1>2, <2>2, ExitStep
<1>3. CASE /\ IpcAccepts(file) /\ device'.strategy = DeviceStrategy(file)
           /\ proc' = [proc EXCEPT ![p].pc = "spawn"]
  <2>1. proc' = [proc EXCEPT ![p] = r] /\ proc'[p] = r
    BY <1>1, <1>3 DEF IInv, TypeOK, Records
  <2>2. r \in Records
    BY <1>1 DEF Records
  <2>3. /\ r.pc = "spawn" /\ r.daemon = proc[p].daemon /\ r.serving = proc[p].serving
        /\ r.reason = proc[p].reason /\ r.bind = proc[p].bind /\ r.connect = proc[p].connect
        /\ r.files = proc[p].files /\ r.stdout = proc[p].stdout /\ r.output = proc[p].output
        /\ r.starting = proc[p].starting
    BY <1>1 DEF Records
  <2>. HIDE DEF r
  <2>4. Streams(p)'
    BY <1>1, <2>1, <2>3 DEF Good, Streams, Early, Parsed, AfterNet, Late
  <2>5. FilesKept(p)'
    BY <1>1, <2>1, <2>3, SameRules DEF Good, FilesKept, Early, Late, setting
  <2>6. Checked(p)'
    BY <1>1, <1>3, <2>1, <2>3, SameRules DEF Good, Checked, Parsed, AfterNet, Late, setting
  <2>7. NetKept(p)' /\ Serving(p)' /\ Reasons(p)'
    BY <1>1, <2>1, <2>3, MovesOn DEF AfterNet, Late
  <2>8. Good(p)'
    BY <2>4, <2>5, <2>6, <2>7 DEF Good
  <2>9. \A q \in Processes : q # p => proc'[q] = proc[q]
    BY <2>1 DEF IInv, TypeOK
  <2>10. \A q \in Processes : Good(q)'
    BY <1>1, <1>3, <2>8, <2>9, OthersStayGood DEF IInv
  <2>. QED
    BY <1>1, <2>1, <2>2, <2>3, <2>10, DeviceStep DEF Early
<1>. QED
  BY <1>1, <1>2, <1>3 DEF StartWireguard

(* The child is as its parent was before it left, but for its output.       *)
LEMMA ForkPreserves ==
  ASSUME IInv, NEW p \in Processes, Fork(p)
  PROVE  IInv'
<1>1. /\ proc[p].pc = "fork" /\ proc[p].daemon /\ p < Generations
      /\ proc[p] \in Records /\ Good(p) /\ UNCHANGED <<setting, world, device, signalled, faults>>
      /\ faults' \in 0..MaxFaults
  BY DEF Fork, IInv, TypeOK, Records
<1>2. "exec" \in proc[p].files
  BY <1>1 DEF Good, FilesKept, Early
<1>3. p = 1 /\ 2 \in Processes /\ options.daemon
  BY <1>1, GenerationsAssumption DEF IInv, Lineage, Processes
<1>. DEFINE files == IF platform.files = "landlock" THEN proc[1].files ELSE Rights
            left == [proc[1] EXCEPT !.pc = "forked"]
            child == [Process("boot", files, proc[1].bind, proc[1].connect) EXCEPT !.stdout = "null"]
<1>4. /\ left.pc = "forked" /\ left.reason = proc[1].reason
      /\ left.starting = proc[1].starting /\ left.serving = {}
      /\ left.files = proc[1].files /\ left.bind = proc[1].bind /\ left.connect = proc[1].connect
      /\ left.daemon = proc[1].daemon /\ left \in Records
  <2>1. proc[1].serving = {}
    BY <1>1, <1>3 DEF Good, Serving
  <2>. QED
    BY <1>1, <1>3, <2>1 DEF Records
<1>5. /\ child.pc = "boot" /\ child.reason = "none" /\ child.starting = {} /\ child.serving = {}
      /\ child.files = files /\ child.bind = proc[1].bind /\ child.connect = proc[1].connect
      /\ child.stdout = "null" /\ child.output = "none" /\ child.daemon = options.daemon
      /\ child \in Records
  <2>1. options.daemon \in BOOLEAN
    BY DEF IInv, TypeOK
  <2>. QED
    BY <1>1, <1>3, <2>1 DEF Process, Records, Rights
<1>6. /\ platform.files = "none" => files = Rights
      /\ "exec" \in files
  BY <1>2, <1>3 DEF Rights
<1>7. /\ proc'[1] = left /\ proc'[2] = child
      /\ \A q \in Processes \ {1, 2} : proc'[q] = proc[q]
      /\ proc' \in [Processes -> Records]
  <2>1. proc \in [Processes -> Records]
    BY DEF IInv, TypeOK, Records
  <2>2. proc' = [proc EXCEPT ![1] = left, ![2] = child]
    BY <1>2, <1>3, <2>1 DEF Fork
  <2>. HIDE DEF left, child
  <2>. QED
    BY <1>3, <1>4, <1>5, <2>1, <2>2
<1>. HIDE DEF left, child, files
<1>8. TypeOK'
  <2>1. Records' = Records
    BY <1>1, SameRoutines DEF Records
  <2>2. \A q \in Processes : proc'[q].starting \intersect proc'[q].serving = {}
    BY <1>4, <1>5, <1>7 DEF IInv, TypeOK
  <2>3. /\ file' \in Files /\ platform' \in Platforms
        /\ options' \in [mode : {"serve", "test", "print"}, daemon : BOOLEAN,
                         info : Infos, supervised : BOOLEAN]
        /\ dns' \in {"up", "tcp", "down"} /\ busy' \subseteq Held
        /\ signalled' \in BOOLEAN /\ faults' \in 0..MaxFaults
    BY <1>1 DEF IInv, TypeOK, setting, world
  <2>. QED
    BY <1>7, <2>1, <2>2, <2>3 DEF TypeOK, Records
<1>9. Lineage'
  <2>1. options' = options
    BY <1>1 DEF setting
  <2>2. \A q \in Processes : q # 1 /\ q # 2 => q > 2 /\ proc'[q].pc = "none"
    BY <1>7, GenerationsAssumption DEF IInv, Lineage, Processes
  <2>3. /\ proc'[1].pc = "forked" /\ proc'[2].pc = "boot" /\ proc'[2].daemon = options.daemon
        /\ proc'[1].daemon => options.daemon
    BY <1>3, <1>4, <1>5, <1>7
  <2>4. ASSUME NEW q \in Processes
        PROVE  /\ q > 2 => proc'[q].pc = "none"
               /\ q # 1 /\ proc'[q].pc # "none" => options.daemon /\ proc'[1].pc \in {"forked", "exited"}
               /\ proc'[q].pc = "forked" => q = 1 /\ options.daemon
               /\ proc'[q].pc \in Early \ {"fork"} => proc'[q].daemon = options.daemon
               /\ q # 1 /\ proc'[q].pc = "fork" => ~proc'[q].daemon
               /\ proc'[q].daemon => options.daemon
    <3>1. CASE q = 1
      <4>1. ~(q > 2)
        BY <3>1
      <4>2. proc'[q].pc = "forked" /\ (proc'[q].daemon => options.daemon)
        BY <2>3, <3>1
      <4>. QED
        BY <1>3, <3>1, <4>1, <4>2 DEF Early
    <3>2. CASE q = 2
      <4>1. ~(q > 2)
        BY <3>2
      <4>2. proc'[q].pc = "boot" /\ proc'[q].daemon = options.daemon
        BY <2>3, <3>2
      <4>. QED
        BY <1>3, <2>3, <4>1, <4>2 DEF Early
    <3>3. CASE q # 1 /\ q # 2
      BY <1>3, <2>2, <3>3 DEF Early
    <3>. QED
      BY <3>1, <3>2, <3>3
  <2>. QED
    BY <2>1, <2>4 DEF IInv, Lineage
<1>10. ASSUME NEW q \in Processes PROVE Good(q)'
  <2>1. CASE q \notin {1, 2}
    BY <1>1, <1>7, <2>1, OthersStayGood DEF IInv
  <2>2. CASE q \in {1, 2}
    <3>1. Streams(q)'
      BY <1>4, <1>5, <1>7, <2>2 DEF Streams, Early, Parsed, AfterNet, Late
    <3>2. FilesKept(q)'
      BY <1>1, <1>3, <1>4, <1>5, <1>6, <1>7, <2>2 DEF Good, FilesKept, Early, Late, setting
    <3>3. NetKept(q)'
      BY <1>1, <1>3, <1>4, <1>5, <1>7, <2>2, SameRules DEF Good, NetKept, AfterNet, Late, setting
    <3>4. Checked(q)'
      BY <1>4, <1>5, <1>7, <2>2 DEF Checked, Parsed, AfterNet, Late
    <3>5. Serving(q)'
      BY <1>4, <1>5, <1>7, <2>2 DEF Serving
    <3>6. Reasons(q)'
      BY <1>1, <1>3, <1>4, <1>5, <1>7, <2>2, SameStartable DEF Good, Reasons, HostReasons
    <3>. QED
      BY <3>1, <3>2, <3>3, <3>4, <3>5, <3>6 DEF Good
  <2>. QED
    BY <2>1, <2>2
<1>. QED
  BY <1>8, <1>9, <1>10 DEF IInv

LEMMA ForkReturnsPreserves ==
  ASSUME IInv, NEW p \in Processes, ForkReturns(p)
  PROVE  IInv'
<1>1. /\ UNCHANGED <<setting, world, device, signalled>> /\ faults' \in 0..MaxFaults
      /\ proc[p].pc = "forked" /\ proc' = Exit(p, "done")
  BY DEF ForkReturns, IInv, TypeOK
<1>. QED
  BY <1>1, ExitStep DEF HostReasons

LEMMA RestartPreserves ==
  ASSUME IInv, Restart
  PROVE  IInv'
<1>. DEFINE r == Process("boot", Rights, Ports, Ports)
<1>1. /\ options.supervised /\ proc[1].pc = "exited" /\ 1 \in Processes /\ options.daemon \in BOOLEAN
      /\ UNCHANGED <<setting, world, signalled, faults>>
      /\ proc \in [Processes -> Records]
  BY GenerationsAssumption DEF Restart, Failed, IInv, TypeOK, Records, Processes
<1>2. /\ r.pc = "boot" /\ r.reason = "none" /\ r.starting = {} /\ r.serving = {}
      /\ r.files = Rights /\ r.bind = Ports /\ r.connect = Ports
      /\ r.stdout = "stdout" /\ r.output = "none" /\ r.daemon = options.daemon
      /\ r \in Records
  BY <1>1 DEF Process, Records, Rights
<1>3. proc' = [proc EXCEPT ![1] = r]
  BY DEF Restart
<1>. HIDE DEF r
<1>4. /\ proc'[1] = r /\ \A q \in Processes : q # 1 => proc'[q] = proc[q]
      /\ proc' \in [Processes -> Records]
  BY <1>1, <1>2, <1>3
<1>5. \A q \in Processes : q # 1 => proc[q].pc = "none"
  BY <1>1 DEF IInv, Lineage
<1>6. TypeOK'
  <2>1. Records' = Records
    BY <1>1, SameRoutines DEF Records
  <2>2. \A q \in Processes : proc'[q].starting \intersect proc'[q].serving = {}
    BY <1>2, <1>4 DEF IInv, TypeOK
  <2>3. /\ file' \in Files /\ platform' \in Platforms
        /\ options' \in [mode : {"serve", "test", "print"}, daemon : BOOLEAN,
                         info : Infos, supervised : BOOLEAN]
        /\ dns' \in {"up", "tcp", "down"} /\ busy' \subseteq Held
        /\ signalled' \in BOOLEAN /\ faults' \in 0..MaxFaults
    BY <1>1 DEF IInv, TypeOK, setting, world
  <2>. QED
    BY <1>4, <2>1, <2>2, <2>3 DEF TypeOK, Records
<1>7. Lineage'
  BY <1>1, <1>2, <1>4, <1>5 DEF IInv, Lineage, Processes, setting, Early
<1>8. ASSUME NEW q \in Processes PROVE Good(q)'
  <2>1. CASE q # 1
    BY <1>1, <1>4, <1>5, <2>1, OthersStayGood DEF IInv
  <2>2. CASE q = 1
    <3>1. Streams(q)'
      BY <1>2, <1>4, <2>2 DEF Streams, Early, Parsed, AfterNet, Late
    <3>2. FilesKept(q)'
      BY <1>2, <1>4, <2>2 DEF FilesKept, Early, Late, Rights
    <3>3. NetKept(q)'
      BY <1>2, <1>4, <2>2 DEF NetKept, AfterNet, Late
    <3>4. Checked(q)'
      BY <1>2, <1>4, <2>2 DEF Checked, Parsed, AfterNet, Late
    <3>5. Serving(q)'
      BY <1>2, <1>4, <2>2 DEF Serving
    <3>6. Reasons(q)'
      BY <1>2, <1>4, <2>2 DEF Reasons, HostReasons
    <3>. QED
      BY <3>1, <3>2, <3>3, <3>4, <3>5, <3>6 DEF Good
  <2>. QED
    BY <2>1, <2>2
<1>. QED
  BY <1>6, <1>7, <1>8 DEF IInv

-----------------------------------------------------------------------------
(* Where something can be served, the rights that are left suffice for its  *)
(* routines.                                                                *)
LEMMA KnownKinds ==
  ASSUME ParseConfig(file, TRUE), NEW i \in Routines
  PROVE  Kind(i) \in {"info", "TCPClientTunnel", "STDIOTunnel", "TCPServerTunnel", "Socks5", "http",
                      "UDPProxyTunnel"}
<1>1. CASE i = 0
  BY <1>1 DEF Kind
<1>2. CASE i # 0
  <2>1. i \in DOMAIN file.routines
    BY <1>2 DEF Routines
  <2>2. ParseRoutine(file.routines[i], TRUE)
    BY <2>1 DEF ParseConfig
  <2>. QED
    BY <1>2, <2>2 DEF ParseRoutine, Kind, Section
<1>. QED
  BY <1>1, <1>2

(* Who listens on the host. *)
LEMMA HostListeners ==
  ASSUME ParseConfig(file, TRUE), NEW i \in Routines
  PROVE  Network(i) = "tcp" <=> i \in Binders \/ i \in ClientTunnels
BY KnownKinds DEF Network, Binders, ClientTunnels, OfKinds

LEMMA PortsAreNotWrapped ==
  ASSUME NEW n \in PortNumbers
  PROVE  n % PortRange = n
<1>1. PortRange \in Int
  BY DEF PortRange
<1>2. ASSUME NEW range \in Int, NEW m \in 0..(range - 1) PROVE m % range = m
  BY Z3
<1>. QED
  BY <1>1, <1>2 DEF PortNumbers

LEMMA PortsOfListeners ==
  ASSUME TypeOK, NEW i \in Routines, Network(i) = "tcp", PortOf(i) \in PortNumbers
  PROVE  /\ PortOf(i) \in Ports
         /\ PortOf(i) = BindAddress(i).port
         /\ extractPort(BindAddress(i)) = PortOf(i)
<1>1. PortOf(i) = BindAddress(i).port
  BY DEF PortOf
<1>2. extractPort(BindAddress(i)) = PortOf(i)
  BY <1>1, PortsAreNotWrapped DEF extractPort
<1>3. extractPort(BindAddress(i)) \in Ports
  <2>1. CASE i = 0
    BY <2>1, PortsAssumption DEF TypeOK, extractPort, BindAddress
  <2>2. CASE i # 0
    BY <2>2, PortsAssumption DEF TypeOK, extractPort, BindAddress, Section, Routines
  <2>. QED
    BY <2>1, <2>2
<1>. QED
  BY <1>1, <1>2, <1>3

LEMMA RightsSuffice ==
  ASSUME TypeOK, Startable, NEW p \in Processes, Good(p),
         NEW i \in Routines, i \notin proc[p].serving, proc[p].serving \subseteq Routines
  PROVE  SpawnRoutine(p, i)
<1>1. /\ ParseConfig(file, TRUE) /\ PortOf(i) \in PortNumbers /\ BesideDevice(i)
      /\ i \in OfKinds({"TCPClientTunnel", "TCPServerTunnel", "STDIOTunnel"}) => parseAddressPort(Target(i))
      /\ \A j \in Routines : i # j => Distinct(i, j)
      /\ platform.files # "none" /\ i \in OfKinds({"http"}) => ~Section(i).tls
  BY DEF Startable, StartableOn
<1>2. Network(i) = "tcp" => PortOf(i) \in proc[p].bind
  <2>1. SUFFICES ASSUME Network(i) = "tcp" PROVE PortOf(i) \in proc[p].bind
    OBVIOUS
  <2>2. CASE ~platform.net
    BY <1>1, <2>1, <2>2, PortsOfListeners DEF Good, NetKept
  <2>3. CASE platform.net
    <3>1. PICK j \in Binders : PortOf(j) = PortOf(i)
      BY <1>1, <2>1, <2>3, HostListeners DEF Startable, StartableOn
    <3>2. j \in Routines /\ Network(j) = "tcp"
      BY <1>1, <3>1, HostListeners DEF Binders, OfKinds
    <3>3. PortOf(j) \in Ports \intersect BindRules
      BY <1>1, <3>1, <3>2, PortsOfListeners DEF BindRules
    <3>. QED
      BY <3>1, <3>3 DEF Good, NetKept
  <2>. QED
    BY <2>2, <2>3, PlatformsAssumption DEF TypeOK
<1>3. \A j \in proc[p].serving : Distinct(i, j)
  BY <1>1
<1>4. Kind(i) \in {"TCPClientTunnel", "TCPServerTunnel", "STDIOTunnel"} => parseAddressPort(Target(i))
  BY <1>1 DEF OfKinds
<1>5. platform.files = "none" => "read" \in proc[p].files
  BY DEF Good, FilesKept, Rights
<1>6. Kind(i) = "http" => CertificateLoads(p, i)
  BY <1>1, <1>5 DEF OfKinds, CertificateLoads
<1>7. Kind(i) = "UDPProxyTunnel" => ResolveUDPAddr(p, i)
  BY <1>5 DEF OfKinds, ResolveUDPAddr, Startable, StartableOn
<1>. QED
  BY <1>1, <1>2, <1>3, <1>4, <1>6, <1>7 DEF SpawnRoutine, Bindable

LEMMA RoutineStartsPreserves ==
  ASSUME IInv, NEW p \in Processes, NEW i \in Routines, RoutineStarts(p, i)
  PROVE  IInv'
<1>. DEFINE r == [proc[p] EXCEPT !.starting = @ \ {i}, !.serving = @ \union {i}]
<1>1. /\ proc[p].pc = "up" /\ i \in proc[p].starting
      /\ proc[p] \in Records /\ Good(p) /\ UNCHANGED <<setting, world, device, signalled, faults>>
      /\ faults' \in 0..MaxFaults /\ proc[p].starting \intersect proc[p].serving = {}
      /\ proc[p].serving \subseteq Routines
  BY DEF RoutineStarts, IInv, TypeOK, Records
<1>2. CASE ~Started(p, i)
  <2>1. Startable => SpawnRoutine(p, i)
    BY <1>1, RightsSuffice DEF IInv
  <2>2. proc' = RoutineExits(p, i)
    BY <1>2 DEF RoutineStarts
  <2>3. PICK reason \in {"busy", "names", "routine"} :
          proc' = Exit(p, reason) /\ (Startable => reason \in HostReasons)
    BY <2>1, <2>2 DEF RoutineExits, HostReasons
  <2>. QED
    BY <1>1, <2>3, ExitStep
<1>3. CASE Started(p, i)
  <2>1. proc' = [proc EXCEPT ![p] = r] /\ proc'[p] = r
    BY <1>1, <1>3 DEF RoutineStarts, IInv, TypeOK, Records
  <2>2. /\ r.pc = "up" /\ r.daemon = proc[p].daemon /\ r.serving = proc[p].serving \union {i}
        /\ r.reason = proc[p].reason /\ r.bind = proc[p].bind /\ r.connect = proc[p].connect
        /\ r.files = proc[p].files /\ r.stdout = proc[p].stdout /\ r.output = proc[p].output
        /\ r.starting = proc[p].starting \ {i}
    BY <1>1 DEF Records
  <2>3. r \in Records
    BY <1>1 DEF Records
  <2>. HIDE DEF r
  <2>4. Streams(p)'
    BY <1>1, <2>1, <2>2 DEF Good, Streams, Early, Parsed, AfterNet, Late
  <2>5. FilesKept(p)'
    BY <1>1, <2>1, <2>2, SameRules DEF Good, FilesKept, Early, Late, setting
  <2>6. NetKept(p)'
    BY <1>1, <2>1, <2>2, SameRules DEF Good, NetKept, AfterNet, Late, setting
  <2>7. Checked(p)'
    BY <1>1, <2>1, <2>2, SameRules DEF Good, Checked, Parsed, AfterNet, Late, setting
  <2>8. Serving(p)'
    <3>1. Able(p, i) /\ \A j \in proc[p].serving : Distinct(i, j) /\ Distinct(j, i)
      BY <1>3 DEF Started, SpawnRoutine, Bindable, Able, Distinct
    <3>2. \A j : Able(p, j)' = Able(p, j)
      BY <1>1, <2>1, <2>2, SameKinds DEF Able, CertificateLoads, ResolveUDPAddr
    <3>. QED
      BY <1>1, <2>1, <2>2, <3>1, <3>2, SameRules DEF Good, Serving
  <2>9. Reasons(p)'
    BY <1>1, <2>1, <2>2, SameStartable DEF Good, Reasons
  <2>10. Good(p)'
    BY <2>4, <2>5, <2>6, <2>7, <2>8, <2>9 DEF Good
  <2>. QED
    BY <1>1, <2>1, <2>2, <2>3, <2>10, OwnStep DEF Early
<1>. QED
  BY <1>2, <1>3

LEMMA AcceptFailsPreserves ==
  ASSUME IInv, NEW p \in Processes, NEW i \in Routines, AcceptFails(p, i)
  PROVE  IInv'
<1>1. /\ UNCHANGED <<setting, world, device, signalled>> /\ faults' \in 0..MaxFaults
      /\ proc' = Exit(p, "accept")
  BY MaxFaultsAssumption DEF AcceptFails, IInv, TypeOK
<1>2. proc[p].pc = "up"
  BY DEF AcceptFails, IInv, Good, Serving
<1>. QED
  BY <1>1, <1>2, ExitStep DEF HostReasons

LEMMA ReturnPreserves ==
  ASSUME IInv, NEW p \in Processes, Return(p)
  PROVE  IInv'
<1>1. /\ UNCHANGED <<setting, world, device, signalled>> /\ faults' \in 0..MaxFaults
      /\ proc' = Exit(p, "interrupted") /\ proc[p].pc = "up"
  BY DEF Return, IInv, TypeOK
<1>. QED
  BY <1>1, ExitStep DEF HostReasons

(* What the host and the user do leaves the processes as they are. *)
LEMMA WorldPreserves ==
  ASSUME IInv, UNCHANGED <<setting, proc, device>>,
         dns' \in {"up", "tcp", "down"}, busy' \subseteq Held,
         signalled' \in BOOLEAN, faults' \in 0..MaxFaults
  PROVE  IInv'
<1>1. TypeOK'
  <2>1. Records' = Records
    BY SameRoutines DEF Records
  <2>2. proc \in [Processes -> Records]
    BY DEF IInv, TypeOK, Records
  <2>3. /\ file' \in Files /\ platform' \in Platforms
        /\ options' \in [mode : {"serve", "test", "print"}, daemon : BOOLEAN,
                         info : Infos, supervised : BOOLEAN]
    BY DEF IInv, TypeOK, setting
  <2>4. \A p \in Processes : proc'[p].starting \intersect proc'[p].serving = {}
    BY DEF IInv, TypeOK
  <2>. QED
    BY <2>1, <2>2, <2>3, <2>4 DEF TypeOK, Records
<1>2. Lineage'
  BY DEF IInv, Lineage, setting
<1>3. \A p \in Processes : Good(p)'
  BY OthersStayGood DEF IInv
<1>. QED
  BY <1>1, <1>2, <1>3 DEF IInv

LEMMA InitIInv ==
  ASSUME Init
  PROVE  IInv
<1>1. options.daemon \in BOOLEAN /\ 1 \in Processes
  BY GenerationsAssumption DEF Init, Processes
<1>. DEFINE r(p) == Process(IF p = 1 THEN "boot" ELSE "none", Rights, Ports, Ports)
<1>2. ASSUME NEW p \in Processes
      PROVE  /\ proc[p].pc = (IF p = 1 THEN "boot" ELSE "none") /\ proc[p].daemon = options.daemon
             /\ proc[p].files = Rights /\ proc[p].bind = Ports /\ proc[p].connect = Ports
             /\ proc[p].stdout = "stdout" /\ proc[p].starting = {} /\ proc[p].serving = {}
             /\ proc[p].reason = "none"
             /\ r(p) \in Records
  BY <1>1 DEF Init, Process, Records, Rights
<1>3. TypeOK
  <2>1. proc \in [Processes -> Records]
    BY <1>2 DEF Init
  <2>2. \A p \in Processes : proc[p].starting \intersect proc[p].serving = {}
    BY <1>2
  <2>3. /\ file \in Files /\ platform \in Platforms
        /\ options \in [mode : {"serve", "test", "print"}, daemon : BOOLEAN,
                        info : Infos, supervised : BOOLEAN]
        /\ dns \in {"up", "tcp", "down"} /\ busy \subseteq Held
    BY DEF Init
  <2>4. signalled \in BOOLEAN
    BY DEF Init
  <2>5. faults \in 0..MaxFaults
    BY MaxFaultsAssumption DEF Init
  <2>. QED
    BY <2>1, <2>2, <2>3, <2>4, <2>5 DEF TypeOK, Records
<1>4. Lineage
  BY <1>2 DEF Init, Lineage, Processes, Early
<1>5. ASSUME NEW p \in Processes PROVE Good(p)
  <2>1. Streams(p) /\ Checked(p)
    BY <1>2 DEF Streams, Checked, Early, Parsed, AfterNet, Late
  <2>2. FilesKept(p)
    BY <1>2 DEF FilesKept, Early, Late, Rights
  <2>3. NetKept(p)
    BY <1>2 DEF NetKept, AfterNet, Late
  <2>4. Serving(p) /\ Reasons(p)
    BY <1>2 DEF Serving, Reasons, HostReasons
  <2>. QED
    BY <2>1, <2>2, <2>3, <2>4 DEF Good
<1>. QED
  BY <1>3, <1>4, <1>5 DEF IInv

LEMMA NextIInv ==
  ASSUME IInv, [Next]_vars
  PROVE  IInv'
<1>0. /\ dns \in {"up", "tcp", "down"} /\ busy \subseteq Held
      /\ signalled \in BOOLEAN /\ faults \in 0..MaxFaults
  BY DEF IInv, TypeOK
<1>1. ASSUME NEW p \in Processes, Step(p) PROVE IInv'
  BY <1>1, BootPreserves, ArgumentsPreserves, ParsePreserves, lockNetworkPreserves,
     DetachPreserves, ForkPreserves, ForkReturnsPreserves, ReadyPreserves, StartWireguardPreserves,
     SpawnPreserves, ReturnPreserves, RoutineStartsPreserves DEF Step
<1>2. ASSUME NEW p \in Processes, NEW i \in Routines, AcceptFails(p, i) PROVE IInv'
  BY <1>2, AcceptFailsPreserves
<1>3. CASE Interrupt
  BY <1>0, <1>3, WorldPreserves DEF Interrupt, world
<1>4. CASE HostRecovers
  BY <1>0, <1>4, WorldPreserves DEF HostRecovers
<1>5. CASE Restart
  BY <1>5, RestartPreserves
<1>6. CASE UNCHANGED vars
  BY <1>0, <1>6, WorldPreserves DEF vars, world
<1>. QED
  BY <1>1, <1>2, <1>3, <1>4, <1>5, <1>6 DEF Next

THEOREM Invariant == Spec => []IInv
BY InitIInv, NextIInv, PTL DEF Spec

(* The state of a start is always typed, and no routine is both starting    *)
(* and serving (main.go:157-270).                                           *)
THEOREM TypeCorrect == Spec => []TypeOK
<1>1. IInv => TypeOK
  BY DEF IInv
<1>. QED
  BY Invariant, <1>1, PTL

(* However often it is restarted, wireproxy is one process: the daemon's    *)
(* child, started with the arguments of its parent, starts no child of its  *)
(* own, and the parent, which may be there while the child already runs,    *)
(* does nothing but return (main.go:222-236).                               *)
THEOREM OneServerHolds == Spec => []OneServer
<1>1. IInv => OneServer
  <2>1. SUFFICES ASSUME IInv PROVE OneServer
    OBVIOUS
  <2>2. ASSUME NEW p \in Processes, NEW q \in Processes, Running(p), Running(q) PROVE p = q
    <3>1. p \in {1, 2} /\ q \in {1, 2}
      BY <2>1, <2>2, GenerationsAssumption DEF IInv, Lineage, Running, Processes
    <3>2. p # 1 => proc[1].pc \in {"forked", "exited"}
      BY <2>1, <2>2 DEF IInv, Lineage, Running
    <3>3. q # 1 => proc[1].pc \in {"forked", "exited"}
      BY <2>1, <2>2 DEF IInv, Lineage, Running
    <3>. QED
      BY <2>2, <3>1, <3>2, <3>3 DEF Running
  <2>. QED
    BY <2>1, <2>2 DEF IInv, Lineage, OneServer
<1>. QED
  BY Invariant, <1>1, PTL

-----------------------------------------------------------------------------
(* What a process that serves with all its routines has. *)
LEMMA ServesAble ==
  ASSUME IInv, NEW p \in Processes, Serves(p)
  PROVE  /\ TypeOK /\ ParseConfig(file, TRUE) /\ RulesExtractable /\ IpcAccepts(file)
         /\ \A i \in Routines : Able(p, i)
         /\ \A i, j \in Routines : i # j => Distinct(i, j)
         /\ platform.files # "none" => proc[p].files = {}
         /\ Ports \intersect BindRules \subseteq proc[p].bind
         /\ Ports \intersect ConnectRules \subseteq proc[p].connect
         /\ platform.net => proc[p].bind \subseteq BindRules /\ proc[p].connect \subseteq ConnectRules
<1>1. Good(p) /\ proc[p].pc = "up" /\ proc[p].serving = Routines /\ TypeOK
  BY DEF IInv, Serves
<1>2. ParseConfig(file, TRUE) /\ RulesExtractable /\ IpcAccepts(file)
  BY <1>1 DEF Good, Checked, Parsed, AfterNet, Late
<1>3. \A i \in Routines : Able(p, i)
  BY <1>1 DEF Good, Serving
<1>4. \A i, j \in Routines : i # j => Distinct(i, j)
  BY <1>1 DEF Good, Serving
<1>5. platform.files # "none" => proc[p].files = {}
  BY <1>1 DEF Good, FilesKept, Late, Leaves
<1>6. /\ Ports \intersect BindRules \subseteq proc[p].bind
      /\ Ports \intersect ConnectRules \subseteq proc[p].connect
      /\ platform.net => proc[p].bind \subseteq BindRules /\ proc[p].connect \subseteq ConnectRules
  BY <1>1 DEF Good, NetKept, AfterNet, Late
<1>. QED
  BY <1>1, <1>2, <1>3, <1>4, <1>5, <1>6

(* Under a lock of the network, what a client tunnel listens on is the port *)
(* of another section.                                                      *)
LEMMA TunnelsBorrow ==
  ASSUME IInv, NEW p \in Processes, Serves(p), platform.net, NEW i \in Routines, Network(i) = "tcp"
  PROVE  \E j \in Binders : Network(j) = "tcp" /\ PortOf(i) = PortOf(j)
<1>1. PortOf(i) \in BindRules
  BY ServesAble DEF Able
<1>2. PICK j \in Binders : PortOf(i) = extractPort(BindAddress(j))
  BY <1>1 DEF BindRules
<1>3. j \in Routines /\ Network(j) = "tcp"
  BY ServesAble, HostListeners DEF Binders, OfKinds
<1>4. PortOf(j) = extractPort(BindAddress(j))
  BY <1>3, ServesAble, PortsOfListeners DEF Able
<1>. QED
  BY <1>2, <1>3, <1>4

LEMMA TargetsOfServers ==
  ASSUME TypeOK, NEW i \in ServerTunnels, parseAddressPort(Target(i))
  PROVE  extractPort(Target(i)) = Target(i).port /\ Target(i).port \in Ports
<1>1. extractPort(Target(i)) = Target(i).port
  BY PortsAreNotWrapped DEF extractPort, parseAddressPort
<1>2. i # 0 /\ i \in DOMAIN file.routines
  BY DEF ServerTunnels, OfKinds, Kind, Routines
<1>3. extractPort(Target(i)) \in Ports
  BY <1>2, PortsAssumption DEF TypeOK, extractPort, Target, Section
<1>. QED
  BY <1>1, <1>3

(* From the moment WireGuard can log, its log does not get into the stream  *)
(* of a STDIO tunnel, in the daemon either (main.go:238-241).               *)
THEOREM StdoutHolds == Spec => []StdoutIsTunnels
<1>1. IInv => StdoutIsTunnels
  BY DEF IInv, Good, Streams, StdoutIsTunnels, Parsed, AfterNet, Late
<1>. QED
  BY Invariant, <1>1, PTL

(* For every file, platform and address of --info: of the ports to bind,    *)
(* what lockNetwork derives from the sections is what the routines need     *)
(* once they serve, no less and no more; of the ports to connect to, it is  *)
(* the targets of the server tunnels and, beyond what they need, the ports  *)
(* client tunnels listen on (main.go:135-155).                              *)
THEOREM ExactRightsHold == Spec => []ExactRights
<1>1. ASSUME IInv, NEW p \in Processes, platform.net, Serves(p)
      PROVE  /\ proc[p].bind = {PortOf(i) : i \in {j \in Routines : Network(j) = "tcp"}}
             /\ {Target(i).port : i \in ServerTunnels} \subseteq proc[p].connect
             /\ proc[p].connect \subseteq {Target(i).port : i \in ServerTunnels}
                                     \union {PortOf(i) : i \in ClientTunnels}
  <2>. DEFINE Listened == {PortOf(i) : i \in {j \in Routines : Network(j) = "tcp"}}
              Targeted == {Target(i).port : i \in ServerTunnels}
  <2>1. ASSUME NEW port \in proc[p].bind PROVE port \in Listened
    <3>1. PICK i \in Binders : port = extractPort(BindAddress(i))
      BY <1>1, ServesAble DEF BindRules
    <3>2. i \in Routines /\ Network(i) = "tcp"
      BY <1>1, ServesAble, HostListeners DEF Binders, OfKinds
    <3>3. PortOf(i) = port
      BY <1>1, <3>1, <3>2, ServesAble, PortsOfListeners DEF Able
    <3>. QED
      BY <3>2, <3>3
  <2>2. ASSUME NEW port \in Listened PROVE port \in proc[p].bind
    BY <1>1, ServesAble DEF Able
  <2>3. ASSUME NEW port \in proc[p].connect
        PROVE  port \in Targeted \union {PortOf(i) : i \in ClientTunnels}
    <3>1. port \in ConnectRules
      BY <1>1, ServesAble
    <3>2. CASE \E i \in ServerTunnels : port = extractPort(Target(i))
      <4>1. PICK i \in ServerTunnels : port = extractPort(Target(i))
        BY <3>2
      <4>2. parseAddressPort(Target(i))
        BY <1>1, ServesAble DEF Able, ServerTunnels, OfKinds
      <4>. QED
        BY <1>1, <4>1, <4>2, ServesAble, TargetsOfServers
    <3>3. CASE \E i \in ClientTunnels : port = BindAddress(i).port
      <4>1. PICK i \in ClientTunnels : port = BindAddress(i).port
        BY <3>3
      <4>2. PortOf(i) = port
        BY <4>1 DEF ClientTunnels, OfKinds, Network, PortOf
      <4>. QED
        BY <4>1, <4>2
    <3>. QED
      BY <3>1, <3>2, <3>3 DEF ConnectRules
  <2>4. ASSUME NEW port \in Targeted PROVE port \in proc[p].connect
    <3>1. PICK i \in ServerTunnels : port = Target(i).port
      OBVIOUS
    <3>2. parseAddressPort(Target(i))
      BY <1>1, ServesAble DEF Able, ServerTunnels, OfKinds
    <3>3. port = extractPort(Target(i)) /\ port \in Ports
      BY <1>1, <3>1, <3>2, ServesAble, TargetsOfServers
    <3>. QED
      BY <1>1, <3>3, ServesAble DEF ConnectRules
  <2>. QED
    BY <2>1, <2>2, <2>3, <2>4
<1>2. IInv => ExactRights
  BY <1>1 DEF ExactRights
<1>. QED
  BY Invariant, <1>2, PTL

(* For every file and platform, along all stages, locks and the exec of the *)
(* daemon: what can be served fails only for what the host does, and what   *)
(* cannot is never served.                                                  *)
THEOREM StartableStartsHolds == Spec => []StartableStarts
<1>1. ASSUME IInv, NEW p \in Processes, Serves(p)
      PROVE  Startable
  <2>1. /\ ParseConfig(file, TRUE) /\ IpcAccepts(file)
        /\ \A i, j \in Routines : i # j => Distinct(i, j)
    BY <1>1, ServesAble
  <2>2. \A i \in Routines : PortOf(i) \in PortNumbers
    BY <1>1, ServesAble DEF Able
  <2>3. \A i \in Binders : BindAddress(i).kind = "numeric"
    BY <1>1, ServesAble DEF RulesExtractable, extractable
  <2>4. platform.files = "none" \/ "read" \notin proc[p].files
    BY <1>1, ServesAble
  <2>5. \A i \in OfKinds({"UDPProxyTunnel"}) :
          \/ BindAddress(i).kind \in {"numeric", "empty"}
          \/ BindAddress(i).kind = "named" /\ platform.files = "none"
    BY <1>1, <2>4, ServesAble DEF Able, ResolveUDPAddr, OfKinds
  <2>6. \A i \in OfKinds({"TCPClientTunnel", "TCPServerTunnel", "STDIOTunnel"}) :
          parseAddressPort(Target(i))
    BY <1>1, ServesAble DEF Able, OfKinds
  <2>7. platform.net => \A i \in ClientTunnels : \E j \in Binders : PortOf(i) = PortOf(j)
    BY <1>1, TunnelsBorrow DEF ClientTunnels, OfKinds, Network
  <2>8. platform.files = "none" \/ \A i \in OfKinds({"http"}) : ~Section(i).tls
    BY <1>1, <2>4, ServesAble DEF Able, CertificateLoads, OfKinds
  <2>9. \A i \in Routines : BesideDevice(i)
    BY <1>1, ServesAble DEF Able
  <2>. QED
    BY <2>1, <2>2, <2>3, <2>5, <2>6, <2>7, <2>8, <2>9 DEF Startable, StartableOn
<1>2. IInv => StartableStarts
  BY <1>1 DEF IInv, Good, Reasons, HostReasons, StartableStarts
<1>. QED
  BY Invariant, <1>2, PTL

(* Whoever serves looks names up with a strategy that finds an address of a *)
(* name that has one, and for a device with IPv4 only an IPv4 address where *)
(* there is one (routine.go:84-119, wireguard.go:85-102).                   *)
THEOREM StrategyResolvesHolds == Spec => []StrategyResolves
<1>1. IInv => StrategyResolves
  <2>1. SUFFICES ASSUME IInv, NEW p \in Processes, NEW families \in SUBSET {"v4", "v6"},
                        Serves(p), dns = "up", families # {},
                        ParsedStrategy(file) \in {"auto", "ipv4", "ipv6"}
                 PROVE  /\ ResolveAddrWithContext(p, families) # {}
                        /\ ParsedStrategy(file) = "auto" /\ DeviceFamilies(file) = {"v4"}
                           /\ "v4" \in families
                             => ResolveAddrWithContext(p, families) = {"v4"}
    BY DEF StrategyResolves
  <2>2. device.strategy = DeviceStrategy(file)
    BY <2>1 DEF IInv, Good, Checked, Serves
  <2>3. ResolveAddrWithContext(p, families) = ResolveAddr(DeviceStrategy(file), families)
    BY <2>1, <2>2 DEF ResolveAddrWithContext, NamesResolve
  <2>. QED
    BY <2>1, <2>3 DEF ResolveAddr, DeviceStrategy
<1>. QED
  BY Invariant, <1>1, PTL

-----------------------------------------------------------------------------
(* Induction, from the least element of a set of naturals. *)
LEMMA Least ==
  ASSUME NEW T, T \subseteq Nat, T # {}
  PROVE  \E n \in T : \A m \in T : n <= m
<1> DEFINE R == OpToRel(<, Nat)
<1>1. IsWellFoundedOn(R, Nat)
  BY NatLessThanWellFounded
<1>2. \A m, n \in Nat : m < n => <<m, n>> \in R
  BY DEF OpToRel
<1> HIDE DEF R
<1>3. PICK n \in T : \A m \in T : <<m, n>> \notin R
  BY <1>1, WFMin
<1>4. \A m \in T : ~(m < n)
  BY <1>2, <1>3
<1>5. \A m \in T : n <= m
  BY <1>4
<1> QED
  BY <1>5

LEMMA Induction ==
  ASSUME NEW S, 0 \in S, \A n \in Nat : n \in S => n + 1 \in S
  PROVE  Nat \subseteq S
<1> SUFFICES ASSUME Nat \ S # {} PROVE FALSE
  OBVIOUS
<1>1. PICK n \in Nat \ S : \A m \in Nat \ S : n <= m
  BY Least
<1>2. n - 1 \in Nat /\ (n - 1) + 1 = n
  BY <1>1
<1>3. n - 1 \in S
  BY <1>1, <1>2
<1> QED
  BY <1>1, <1>2, <1>3

LEMMA Greatest ==
  ASSUME NEW n \in Nat, NEW T, T \subseteq 1..n, T # {}
  PROVE  \E m \in T : \A l \in T : l <= m
<1>. DEFINE S == {n - l : l \in T}
<1>1. S \subseteq Nat /\ S # {}
  <2>1. \A l \in T : n - l \in Nat
    OBVIOUS
  <2>. QED
    BY <2>1
<1>2. PICK d \in S : \A e \in S : d <= e
  <2>. HIDE DEF S
  <2>. QED
    BY <1>1, Least
<1>3. PICK m \in T : d = n - m
  BY <1>2
<1>4. ASSUME NEW l \in T PROVE l <= m
  <2>1. n - m <= n - l
    BY <1>2, <1>3
  <2>. QED
    BY <2>1
<1>. QED
  BY <1>4

(* The lists after the first elements, of which Without takes the last. *)
Steps(s, x, n, g) ==
    g = [i \in 0..n |-> IF i = 0 THEN <<>>
                        ELSE IF s[i] = x THEN g[i - 1] ELSE Append(g[i - 1], s[i])]

(* They exist: the recursive function of Without is one. *)
LEMMA StepsExist ==
  ASSUME NEW s, NEW x
  PROVE \A n \in Nat : \E g : Steps(s, x, n, g)
<1> DEFINE T == {n \in Nat : \E g : Steps(s, x, n, g)}
<1>1. 0 \in T
  <2>1. Steps(s, x, 0, [i \in 0..0 |-> <<>>])
    BY DEF Steps
  <2> QED BY <2>1
<1>2. ASSUME NEW n \in Nat, n \in T PROVE n + 1 \in T
  <2>1. PICK g : Steps(s, x, n, g)
    BY <1>2
  <2> DEFINE h == [i \in 0..n + 1 |-> IF i = n + 1 THEN (IF s[i] = x THEN g[i - 1] ELSE Append(g[i - 1], s[i])) ELSE g[i]]
  <2>2. \A i \in 0..n : h[i] = g[i]
    OBVIOUS
  <2>3. \A i \in 0..n + 1 : h[i] = IF i = 0 THEN <<>>
            ELSE IF s[i] = x THEN h[i - 1] ELSE Append(h[i - 1], s[i])
    <3>0. h[0] = <<>>
      <4>1. g[0] = <<>> /\ 0 \in 0..n
        BY <2>1 DEF Steps
      <4> QED BY <4>1, <2>2
    <3> SUFFICES ASSUME NEW i \in 0..n + 1, i # 0
                 PROVE  h[i] = IF s[i] = x THEN h[i - 1] ELSE Append(h[i - 1], s[i])
      <4> HIDE DEF h
      <4> QED BY <3>0
    <3>1. i - 1 \in 0..n /\ h[i - 1] = g[i - 1]
      BY <2>2
    <3>2. CASE i = n + 1
      BY <3>1, <3>2
    <3>3. CASE i \in 0..n
      <4>1. g[i] = IF s[i] = x THEN g[i - 1] ELSE Append(g[i - 1], s[i])
        BY <2>1, <3>3 DEF Steps
      <4>2. h[i] = g[i]
        BY <2>2, <3>3
      <4> QED BY <3>1, <4>1, <4>2
    <3> QED BY <3>2, <3>3
  <2>4. Steps(s, x, n + 1, h)
    BY <2>3 DEF Steps
  <2> QED BY <2>4
<1> QED
  <2> HIDE DEF T
  <2>1. Nat \subseteq T
    BY <1>1, <1>2, Induction
  <2> QED BY <2>1 DEF T

LEMMA WithoutSteps ==
  ASSUME NEW S, NEW s \in Seq(S), NEW x
  PROVE  \E g : Steps(s, x, Len(s), g) /\ Without(s, x) = g[Len(s)]
<1>1. \E g : Steps(s, x, Len(s), g)
  <2>1. Len(s) \in Nat
    OBVIOUS
  <2> QED BY <2>1, StepsExist
<1> QED BY <1>1 DEF Without, Steps

(* What is left are elements of the list, none of them the one dropped. *)
LEMMA WithoutSeq ==
  ASSUME NEW S, NEW s \in Seq(S), NEW x
  PROVE  Without(s, x) \in Seq(S \ {x})
<1>1. PICK g : Steps(s, x, Len(s), g) /\ Without(s, x) = g[Len(s)]
  BY WithoutSteps
<1> DEFINE T == {n \in Nat : n <= Len(s) => g[n] \in Seq(S \ {x})}
<1>2. 0 \in T
  BY <1>1 DEF Steps
<1>3. ASSUME NEW n \in Nat, n \in T PROVE n + 1 \in T
  <2> SUFFICES ASSUME n + 1 <= Len(s) PROVE g[n + 1] \in Seq(S \ {x})
    OBVIOUS
  <2>1. g[n] \in Seq(S \ {x}) /\ s[n + 1] \in S
    BY <1>3
  <2>2. n + 1 \in 0..Len(s) /\ n + 1 # 0 /\ (n + 1) - 1 = n
    OBVIOUS
  <2>3. g[n + 1] = IF s[n + 1] = x THEN g[(n + 1) - 1] ELSE Append(g[(n + 1) - 1], s[n + 1])
    <3> HIDE DEF T
    <3> QED BY <1>1, <2>2 DEF Steps
  <2> QED BY <2>1, <2>2, <2>3
<1> QED
  <2> HIDE DEF T
  <2>1. Nat \subseteq T
    BY <1>2, <1>3, Induction
  <2>2. Len(s) \in T
    BY <2>1
  <2> QED BY <1>1, <2>2 DEF T

-----------------------------------------------------------------------------
(* The request, peer by peer.  The sequences FlattenSeq builds: *)
Joined(seqs, n, g) ==
    g = [i \in 1..n |-> IF i = 1 THEN seqs[i] ELSE g[i - 1] \o seqs[i]]

LEMMA JoinedExist ==
  ASSUME NEW seqs
  PROVE  \A n \in Nat : \E g : Joined(seqs, n, g)
<1>. DEFINE T == {n \in Nat : \E g : Joined(seqs, n, g)}
<1>1. 0 \in T
  <2>1. Joined(seqs, 0, [i \in 1..0 |-> <<>>])
    BY DEF Joined
  <2>. QED
    BY <2>1
<1>2. ASSUME NEW n \in Nat, n \in T PROVE n + 1 \in T
  <2>1. PICK g : Joined(seqs, n, g)
    BY <1>2
  <2>. DEFINE h == [i \in 1..n + 1 |-> IF i \in 1..n THEN g[i]
                                      ELSE IF i = 1 THEN seqs[i] ELSE g[i - 1] \o seqs[i]]
  <2>2. \A i \in 1..n : h[i] = g[i]
    OBVIOUS
  <2>3. ASSUME NEW i \in 1..n + 1
        PROVE  h[i] = IF i = 1 THEN seqs[i] ELSE h[i - 1] \o seqs[i]
    <3>1. i # 1 => i - 1 \in 1..n /\ h[i - 1] = g[i - 1]
      BY <2>2
    <3>2. CASE i \in 1..n
      <4>1. g[i] = IF i = 1 THEN seqs[i] ELSE g[i - 1] \o seqs[i]
        BY <2>1, <3>2 DEF Joined
      <4>. HIDE DEF h
      <4>. QED
        BY <2>2, <3>1, <3>2, <4>1
    <3>3. CASE i \notin 1..n
      <4>1. h[i] = IF i = 1 THEN seqs[i] ELSE g[i - 1] \o seqs[i]
        BY <3>3
      <4>. HIDE DEF h
      <4>. QED
        BY <3>1, <4>1
    <3>. QED
      BY <3>2, <3>3
  <2>4. Joined(seqs, n + 1, h)
    <3>1. h = [i \in 1..n + 1 |-> h[i]]
      OBVIOUS
    <3>. HIDE DEF h
    <3>. QED
      BY <2>3, <3>1 DEF Joined
  <2>. QED
    BY <2>4
<1>. QED
  <2>. HIDE DEF T
  <2>1. Nat \subseteq T
    BY <1>1, <1>2, Induction
  <2>. QED
    BY <2>1 DEF T

LEMMA FlattenJoins ==
  ASSUME NEW seqs, Len(seqs) \in Nat, Len(seqs) # 0
  PROVE  \E g : Joined(seqs, Len(seqs), g) /\ FlattenSeq(seqs) = g[Len(seqs)]
<1>1. \E g : Joined(seqs, Len(seqs), g)
  BY JoinedExist
<1>. QED
  BY <1>1 DEF FlattenSeq, Joined

RouteNames == STRING \union {"none", "v4/0", "v6/0"}
Lines == [key : {"public_key", "allowed_ip"}, peer : Nat, route : RouteNames]

(* The last line with the route is below the public_key of peer c. *)
Routed(request, route, c) ==
    \E m \in DOMAIN request : \E h \in 1..m :
        /\ request[m] = AllowedIP(route)
        /\ \A l \in DOMAIN request : request[l] = AllowedIP(route) => l <= m
        /\ request[h] = PublicKey(c)
        /\ \A l \in (h + 1)..m : request[l].key # "public_key"

(* A request that routes as the first k peers claim. *)
Follows(request, k) ==
    /\ request \in Seq(Lines)
    /\ \A route \in Routes :
         \/ /\ \A l \in DOMAIN request : request[l] # AllowedIP(route)
            /\ \A c \in 1..k : route \notin Claims(c)
         \/ \E c \in 1..k :
              /\ route \in Claims(c) /\ \A d \in (c + 1)..k : route \notin Claims(d)
              /\ Routed(request, route, c)

(* The lines of a peer: its public_key, and what it claims. *)
LEMMA PeerLinesFacts ==
  ASSUME file \in Files, NEW i \in DOMAIN file.peers
  PROVE  /\ PeerLines(file, i) \in Seq(Lines)
         /\ Len(PeerLines(file, i)) >= 1
         /\ PeerLines(file, i)[1] = PublicKey(i)
         /\ \A l \in 2..Len(PeerLines(file, i)) : PeerLines(file, i)[l].key = "allowed_ip"
         /\ \A route : route \in Claims(i)
              <=> \E l \in 2..Len(PeerLines(file, i)) : PeerLines(file, i)[l] = AllowedIP(route)
<1>. DEFINE ips == ListOf(file.peers[i].allowedIPs)
            tail == IF ips # <<>> THEN [j \in DOMAIN ips |-> AllowedIP(ips[j])] ELSE DefaultRoutes
<1>1. ips \in Seq(STRING)
  <2>1. file.peers[i].allowedIPs.value \in Seq(STRING)
    BY FilesAssumption
  <2>2. ips \in Seq(STRING \ {"blank"})
    BY <2>1, WithoutSeq DEF ListOf
  <2>. QED
    BY <2>2
<1>2. i \in Nat
  BY FilesAssumption
<1>3. \A route \in RouteNames : AllowedIP(route) \in Lines /\ AllowedIP(route).key = "allowed_ip"
  BY DEF AllowedIP, Lines
<1>4. PublicKey(i) \in Lines
  BY <1>2 DEF PublicKey, Lines, RouteNames
<1>5. tail \in Seq(Lines) /\ \A l \in 1..Len(tail) : tail[l].key = "allowed_ip"
  <2>1. CASE ips # <<>>
    <3>1. tail = [j \in 1..Len(ips) |-> AllowedIP(ips[j])]
      BY <1>1, <2>1
    <3>2. \A j \in 1..Len(ips) : ips[j] \in RouteNames
      BY <1>1 DEF RouteNames
    <3>. HIDE DEF ips, tail
    <3>. QED
      BY <1>1, <1>3, <3>1, <3>2
  <2>2. CASE ips = <<>>
    <3>1. tail = <<AllowedIP("v4/0"), AllowedIP("v6/0")>>
      BY <2>2 DEF DefaultRoutes
    <3>2. "v4/0" \in RouteNames /\ "v6/0" \in RouteNames
      BY DEF RouteNames
    <3>. HIDE DEF tail
    <3>. QED
      BY <1>3, <3>1, <3>2
  <2>. QED
    BY <2>1, <2>2
<1>6. \A route : route \in Claims(i) <=> \E l \in 1..Len(tail) : tail[l] = AllowedIP(route)
  <2>1. \A r, t : AllowedIP(r) = AllowedIP(t) <=> r = t
    BY DEF AllowedIP
  <2>2. CASE ips # <<>>
    <3>1. Claims(i) = {ips[j] : j \in 1..Len(ips)}
      BY <1>1, <2>2 DEF Claims, ToSet
    <3>2. Len(tail) = Len(ips) /\ \A l \in 1..Len(ips) : tail[l] = AllowedIP(ips[l])
      BY <1>1, <2>2
    <3>. HIDE DEF ips, tail
    <3>. QED
      BY <2>1, <3>1, <3>2
  <2>3. CASE ips = <<>>
    <3>1. Claims(i) = {"v4/0", "v6/0"}
      BY <2>3 DEF Claims
    <3>2. Len(tail) = 2 /\ tail[1] = AllowedIP("v4/0") /\ tail[2] = AllowedIP("v6/0")
      BY <2>3 DEF DefaultRoutes
    <3>. HIDE DEF ips, tail
    <3>. QED
      BY <2>1, <3>1, <3>2
  <2>. QED
    BY <2>2, <2>3
<1>7. PeerLines(file, i) = <<PublicKey(i)>> \o tail
  BY DEF PeerLines
<1>. HIDE DEF tail
<1>8. /\ <<PublicKey(i)>> \o tail \in Seq(Lines)
      /\ Len(<<PublicKey(i)>> \o tail) = Len(tail) + 1
      /\ (<<PublicKey(i)>> \o tail)[1] = PublicKey(i)
      /\ \A l \in 1..Len(tail) : (<<PublicKey(i)>> \o tail)[l + 1] = tail[l]
  BY <1>4, <1>5
<1>9. \A l \in 2..Len(tail) + 1 : l - 1 \in 1..Len(tail) /\ (<<PublicKey(i)>> \o tail)[l] = tail[l - 1]
  <2>1. Len(tail) \in Nat
    BY <1>5
  <2>2. ASSUME NEW l \in 2..Len(tail) + 1
        PROVE  l - 1 \in 1..Len(tail) /\ (l - 1) + 1 = l
    BY <2>1
  <2>. QED
    BY <1>8, <2>2
<1>10. \A l \in 1..Len(tail) : l + 1 \in 2..Len(tail) + 1
  BY <1>5
<1>. QED
  BY <1>5, <1>6, <1>7, <1>8, <1>9, <1>10

(* The lines of one more peer take over what it claims, and leave the rest. *)
LEMMA FollowsNext ==
  ASSUME file \in Files, NEW k \in Nat, k + 1 \in DOMAIN file.peers,
         NEW request, Follows(request, k)
  PROVE  Follows(request \o PeerLines(file, k + 1), k + 1)
<1>. DEFINE a == Len(request)
            b == Len(PeerLines(file, k + 1))
            longer == request \o PeerLines(file, k + 1)
<1>1. /\ PeerLines(file, k + 1) \in Seq(Lines) /\ b >= 1
      /\ PeerLines(file, k + 1)[1] = PublicKey(k + 1)
      /\ \A l \in 2..b : PeerLines(file, k + 1)[l].key = "allowed_ip"
      /\ \A route : route \in Claims(k + 1)
           <=> \E l \in 2..b : PeerLines(file, k + 1)[l] = AllowedIP(route)
  BY PeerLinesFacts
<1>2. request \in Seq(Lines) /\ a \in Nat /\ b \in Nat
  BY <1>1 DEF Follows
<1>3. /\ longer \in Seq(Lines) /\ Len(longer) = a + b
      /\ \A l \in 1..a : longer[l] = request[l]
      /\ \A l \in 1..b : longer[a + l] = PeerLines(file, k + 1)[l]
  BY <1>1, <1>2
<1>4. longer[a + 1] = PublicKey(k + 1)
  BY <1>1, <1>2, <1>3
<1>5. \A l \in 2..b : a + l \in (a + 2)..(a + b) /\ longer[a + l] = PeerLines(file, k + 1)[l]
  BY <1>2, <1>3
<1>6. \A l \in (a + 2)..(a + b) : l - a \in 2..b /\ longer[l] = PeerLines(file, k + 1)[l - a]
  <2>1. ASSUME NEW l \in (a + 2)..(a + b) PROVE l - a \in 2..b /\ a + (l - a) = l
    BY <1>2
  <2>. QED
    BY <1>5, <2>1
<1>7. \A l \in (a + 2)..(a + b) : longer[l].key = "allowed_ip"
  BY <1>1, <1>6
<1>8. \A route : route \in Claims(k + 1)
        <=> \E l \in (a + 2)..(a + b) : longer[l] = AllowedIP(route)
  BY <1>1, <1>5, <1>6
<1>9. DOMAIN longer = 1..(a + b) /\ DOMAIN request = 1..a
  BY <1>2, <1>3
<1>. HIDE DEF a, b, longer
<1>10. \A route : longer[a + 1] # AllowedIP(route)
  BY <1>4 DEF PublicKey, AllowedIP
<1>11. \A l \in 1..(a + b) : l \in 1..a \/ l = a + 1 \/ l \in (a + 2)..(a + b)
  BY <1>2
<1>12. 1..(k + 1) = (1..k) \union {k + 1}
  OBVIOUS
<1>13. ASSUME NEW route \in Routes
       PROVE \/ /\ \A l \in DOMAIN longer : longer[l] # AllowedIP(route)
                /\ \A c \in 1..(k + 1) : route \notin Claims(c)
             \/ \E c \in 1..(k + 1) :
                  /\ route \in Claims(c) /\ \A d \in (c + 1)..(k + 1) : route \notin Claims(d)
                  /\ Routed(longer, route, c)
  <2>1. CASE route \in Claims(k + 1)
    <3>. DEFINE T == {l \in (a + 2)..(a + b) : longer[l] = AllowedIP(route)}
    <3>1. T # {} /\ T \subseteq 1..(a + b) /\ a + b \in Nat
      BY <1>2, <1>8, <2>1
    <3>2. PICK m \in T : \A l \in T : l <= m
      <4>. HIDE DEF T
      <4>. QED
        BY <3>1, Greatest
    <3>3. m \in 1..(a + b) /\ a + 1 \in 1..m /\ longer[m] = AllowedIP(route)
      BY <1>2, <3>2
    <3>4. \A l \in 1..(a + b) : longer[l] = AllowedIP(route) => l <= m
      BY <1>2, <1>10, <1>11, <3>2
    <3>5. \A l \in (a + 1 + 1)..m : longer[l].key # "public_key"
      BY <1>2, <1>7, <3>3
    <3>6. Routed(longer, route, k + 1)
      BY <1>4, <1>9, <3>3, <3>4, <3>5 DEF Routed
    <3>7. \A d \in (k + 1 + 1)..(k + 1) : route \notin Claims(d)
      OBVIOUS
    <3>. QED
      BY <1>12, <2>1, <3>6, <3>7
  <2>2. CASE route \notin Claims(k + 1)
    <3>1. \A l \in 1..(a + b) : longer[l] = AllowedIP(route) => l \in 1..a /\ request[l] = AllowedIP(route)
      BY <1>3, <1>8, <1>10, <1>11, <2>2
    <3>2. CASE /\ \A l \in DOMAIN request : request[l] # AllowedIP(route)
               /\ \A c \in 1..k : route \notin Claims(c)
      BY <1>9, <1>12, <2>2, <3>1, <3>2
    <3>3. CASE \E c \in 1..k :
                 /\ route \in Claims(c) /\ \A d \in (c + 1)..k : route \notin Claims(d)
                 /\ Routed(request, route, c)
      <4>1. PICK c \in 1..k :
                 /\ route \in Claims(c) /\ \A d \in (c + 1)..k : route \notin Claims(d)
                 /\ Routed(request, route, c)
        BY <3>3
      <4>2. PICK m \in 1..a : \E h \in 1..m :
              /\ request[m] = AllowedIP(route)
              /\ \A l \in 1..a : request[l] = AllowedIP(route) => l <= m
              /\ request[h] = PublicKey(c)
              /\ \A l \in (h + 1)..m : request[l].key # "public_key"
        BY <1>9, <4>1 DEF Routed
      <4>. PICK h \in 1..m :
              /\ request[m] = AllowedIP(route)
              /\ \A l \in 1..a : request[l] = AllowedIP(route) => l <= m
              /\ request[h] = PublicKey(c)
              /\ \A l \in (h + 1)..m : request[l].key # "public_key"
        BY <4>2
      <4>3. h \in 1..a /\ m \in 1..(a + b) /\ \A l \in (h + 1)..m : l \in 1..a
        BY <1>2
      <4>4. Routed(longer, route, c)
        BY <1>3, <1>9, <3>1, <4>3 DEF Routed, a, b
      <4>5. \A d \in (c + 1)..(k + 1) : d \in (c + 1)..k \/ d = k + 1
        OBVIOUS
      <4>. QED
        BY <1>12, <2>2, <4>1, <4>4, <4>5
    <3>. QED
      BY <3>2, <3>3 DEF Follows
  <2>. QED
    BY <2>1, <2>2
<1>. QED
  BY <1>3, <1>13 DEF Follows, longer

(* So does the whole request for all the peers. *)
LEMMA RequestFollows ==
  ASSUME file \in Files, Len(file.peers) # 0
  PROVE  Follows(CreateIPCRequest(file), Len(file.peers))
<1>. DEFINE n == Len(file.peers)
            seqs == [i \in DOMAIN file.peers |-> PeerLines(file, i)]
<1>1. n \in Nat /\ DOMAIN file.peers = 1..n
  BY FilesAssumption
<1>2. Len(seqs) = n
  BY <1>1
<1>3. PICK g : Joined(seqs, n, g) /\ CreateIPCRequest(file) = g[n]
  <2>1. CreateIPCRequest(file) = FlattenSeq(seqs)
    BY DEF CreateIPCRequest
  <2>. HIDE DEF n, seqs
  <2>. QED
    BY <1>1, <1>2, <2>1, FlattenJoins DEF n
<1>. HIDE DEF n
<1>4. \A i \in 1..n : g[i] = IF i = 1 THEN PeerLines(file, i) ELSE g[i - 1] \o PeerLines(file, i)
  BY <1>1, <1>3 DEF Joined
<1>5. Follows(<<>>, 0)
  BY DEF Follows
<1>. DEFINE T == {k \in Nat : k \in 1..n => Follows(g[k], k)}
<1>6. 0 \in T
  OBVIOUS
<1>7. ASSUME NEW k \in Nat, k \in T PROVE k + 1 \in T
  <2>. SUFFICES ASSUME k + 1 \in 1..n PROVE Follows(g[k + 1], k + 1)
    OBVIOUS
  <2>1. CASE k = 0
    <3>1. Follows(<<>> \o PeerLines(file, k + 1), k + 1)
      BY <1>1, <1>5, <2>1, FollowsNext
    <3>2. PeerLines(file, k + 1) \in Seq(Lines)
      BY <1>1, PeerLinesFacts
    <3>3. <<>> \o PeerLines(file, k + 1) = PeerLines(file, k + 1)
      BY <3>2
    <3>. QED
      BY <1>4, <2>1, <3>1, <3>3
  <2>2. CASE k # 0
    <3>1. k \in 1..n /\ (k + 1) - 1 = k /\ k + 1 # 1
      BY <1>1, <2>2
    <3>2. Follows(g[k] \o PeerLines(file, k + 1), k + 1)
      BY <1>1, <1>7, <3>1, FollowsNext
    <3>3. g[k + 1] = g[(k + 1) - 1] \o PeerLines(file, k + 1)
      <4>. HIDE DEF T
      <4>. QED
        BY <1>4, <3>1
    <3>. QED
      BY <3>1, <3>2, <3>3
  <2>. QED
    BY <2>1, <2>2
<1>. QED
  <2>. HIDE DEF T
  <2>1. Nat \subseteq T
    BY <1>6, <1>7, Induction
  <2>2. n \in T /\ n \in 1..n
    BY <1>1, <2>1 DEF n
  <2>. QED
    BY <1>3, <2>2 DEF T, n

LEMMA MaxIs ==
  ASSUME NEW S \in SUBSET Nat, NEW m \in S, \A l \in S : l <= m
  PROVE  Max(S) = m
<1>1. m \in S /\ \A l \in S : m >= l
  OBVIOUS
<1>2. Max(S) \in S /\ \A l \in S : Max(S) >= l
  BY <1>1, Zenon DEF Max
<1>3. m \in Nat /\ Max(S) \in Nat /\ Max(S) >= m /\ m >= Max(S)
  BY <1>1, <1>2
<1>. QED
  BY <1>3

(* What the device makes of the request. *)
LEMMA RequestRoutes ==
  ASSUME file \in Files, NEW route \in Routes
  PROVE  IpcSet(CreateIPCRequest(file))[route]
           = Max({0} \union {i \in DOMAIN file.peers : route \in Claims(i)})
<1>. DEFINE n == Len(file.peers)
            request == CreateIPCRequest(file)
            lines == {l \in DOMAIN request : request[l] = AllowedIP(route)}
            claimers == {i \in DOMAIN file.peers : route \in Claims(i)}
<1>1. n \in Nat /\ DOMAIN file.peers = 1..n
  BY FilesAssumption
<1>2. IpcSet(request)[route] = IF lines = {} THEN 0 ELSE PeerOfLine(request, Max(lines))
  BY DEF IpcSet
<1>3. claimers = {} => Max({0} \union claimers) = 0
  <2>. HIDE DEF claimers
  <2>. QED
    BY MaxIs
<1>4. CASE n = 0
  <2>1. DOMAIN file.peers = {}
    BY <1>1, <1>4
  <2>2. request = [i \in DOMAIN file.peers |-> PeerLines(file, i)]
    <3>. DEFINE seqs == [i \in DOMAIN file.peers |-> PeerLines(file, i)]
    <3>1. Len(seqs) = 0
      BY <1>1, <1>4
    <3>. HIDE DEF seqs
    <3>2. FlattenSeq(seqs) = seqs
      BY <3>1 DEF FlattenSeq
    <3>. QED
      BY <3>2 DEF CreateIPCRequest, seqs
  <2>3. lines = {} /\ claimers = {}
    BY <2>1, <2>2
  <2>. QED
    BY <1>2, <1>3, <2>3
<1>5. CASE n # 0
  <2>1. Follows(request, n)
    BY <1>5, RequestFollows
  <2>2. request \in Seq(Lines)
    BY <2>1 DEF Follows
  <2>3. CASE /\ \A l \in DOMAIN request : request[l] # AllowedIP(route)
             /\ \A c \in 1..n : route \notin Claims(c)
    <3>1. lines = {} /\ claimers = {}
      BY <1>1, <2>3
    <3>. QED
      BY <1>2, <1>3, <3>1
  <2>4. CASE \E c \in 1..n :
              /\ route \in Claims(c) /\ \A d \in (c + 1)..n : route \notin Claims(d)
              /\ Routed(request, route, c)
    <3>1. PICK c \in 1..n :
              /\ route \in Claims(c) /\ \A d \in (c + 1)..n : route \notin Claims(d)
              /\ Routed(request, route, c)
      BY <2>4
    <3>2. Max({0} \union claimers) = c
      <4>1. {0} \union claimers \in SUBSET Nat /\ c \in {0} \union claimers
        BY <1>1, <3>1
      <4>2. \A l \in {0} \union claimers : l <= c
        BY <1>1, <3>1
      <4>. HIDE DEF claimers
      <4>. QED
        BY <4>1, <4>2, MaxIs
    <3>. HIDE DEF n
    <3>3. PICK m \in DOMAIN request : \E h \in 1..m :
              /\ request[m] = AllowedIP(route)
              /\ \A l \in DOMAIN request : request[l] = AllowedIP(route) => l <= m
              /\ request[h] = PublicKey(c)
              /\ \A l \in (h + 1)..m : request[l].key # "public_key"
      BY <3>1 DEF Routed
    <3>4. PICK h \in 1..m :
              /\ request[m] = AllowedIP(route)
              /\ \A l \in DOMAIN request : request[l] = AllowedIP(route) => l <= m
              /\ request[h] = PublicKey(c)
              /\ \A l \in (h + 1)..m : request[l].key # "public_key"
      BY <3>3
    <3>5. Max(lines) = m
      <4>. HIDE DEF request
      <4>1. lines \in SUBSET Nat /\ m \in lines /\ \A l \in lines : l <= m
        BY <2>2, <3>4 DEF request
      <4>. HIDE DEF lines
      <4>. QED
        BY <4>1, MaxIs
    <3>6. PeerOfLine(request, m) = c
      <4>. DEFINE keys == {l \in 1..m : request[l].key = "public_key"}
      <4>1. m \in Nat
        BY <2>2
      <4>2. h \in keys /\ request[h].peer = c
        BY <3>4 DEF PublicKey
      <4>3. keys \in SUBSET Nat /\ \A l \in keys : l <= h
        <5>. HIDE DEF request
        <5>. QED
          BY <3>4, <4>1 DEF request
      <4>4. PeerOfLine(request, m) = request[Max(keys)].peer
        BY DEF PeerOfLine
      <4>. HIDE DEF keys
      <4>5. Max(keys) = h
        BY <4>2, <4>3, MaxIs
      <4>. QED
        BY <4>2, <4>4, <4>5
    <3>. HIDE DEF request
    <3>7. lines # {}
      BY <3>4 DEF request
    <3>. QED
      BY <1>2, <3>2, <3>5, <3>6, <3>7 DEF request
  <2>. QED
    BY <2>1, <2>3, <2>4 DEF Follows
<1>. QED
  BY <1>4, <1>5

(* The device that is set up has the routes of the request for the file. *)
DeviceRouted == device # NoDevice => device.routes = IpcSet(CreateIPCRequest(file))

LEMMA DeviceRoutedInvariant == Spec => []DeviceRouted
<1>1. Init => DeviceRouted
  BY DEF Init, DeviceRouted
<1>2. ASSUME DeviceRouted, [Next]_vars PROVE DeviceRouted'
  <2>1. CASE UNCHANGED <<file, device>>
    BY <1>2, <2>1 DEF DeviceRouted, NoDevice
  <2>2. CASE \E p \in Processes : StartWireguard(p)
    BY <1>2, <2>2 DEF StartWireguard, setting, DeviceRouted, NoDevice
  <2>3. CASE Restart
    BY <2>3 DEF Restart, DeviceRouted, NoDevice
  <2>4. ASSUME NEW p \in Processes, Step(p) PROVE StartWireguard(p) \/ UNCHANGED <<file, device>>
    BY <2>4 DEF Step, setting, Boot, Arguments, Parse, lockNetwork, Detach, Fork, ForkReturns,
                Ready, Spawn, Return, RoutineStarts
  <2>5. ASSUME NEW p \in Processes, NEW i \in Routines, AcceptFails(p, i) PROVE UNCHANGED <<file, device>>
    BY <2>5 DEF AcceptFails, setting
  <2>6. ASSUME Interrupt \/ HostRecovers \/ UNCHANGED vars PROVE UNCHANGED <<file, device>>
    BY <2>6 DEF Interrupt, HostRecovers, vars, setting
  <2>. QED
    BY <1>2, <2>1, <2>2, <2>3, <2>4, <2>5, <2>6 DEF Next
<1>. QED
  BY <1>1, <1>2, PTL DEF Spec

(* For every list of peers, of any length and with any overlap of their     *)
(* AllowedIPs: the request CreateIPCRequest writes line by line makes the   *)
(* device send each route to the last peer that claims it, and to no peer   *)
(* if none does (wireguard.go:25-61).                                       *)
THEOREM RoutesHold == Spec => []RoutesAsConfigured
<1>1. IInv /\ DeviceRouted => RoutesAsConfigured
  BY RequestRoutes DEF IInv, TypeOK, DeviceRouted, RoutesAsConfigured
<1>. QED
  BY <1>1, Invariant, DeviceRoutedInvariant, PTL
-----------------------------------------------------------------------------
(* Why a supervised start recovers.  Supervision: process 1 exists, spawns  *)
(* all of its routines, and ends only with what systemd sees as a failure   *)
(* unless it was interrupted.                                               *)
Supervision ==
    /\ options.supervised => options.mode = "serve"
    /\ proc[1].pc # "none"
    /\ options.supervised /\ ~signalled => proc[1].reason \notin {"done", "interrupted"}
    /\ proc[1].pc = "up" => proc[1].starting \union proc[1].serving = Routines

(* The host is in order, and so is the configuration. *)
Orderly == options.supervised /\ Startable /\ dns = "up" /\ busy = {} /\ ~signalled

NextStage ==
    {<<"boot", "args">>, <<"args", "parse">>, <<"parse", "net">>, <<"net", "detach">>,
     <<"detach", "fork">>, <<"fork", "device">>, <<"device", "spawn">>, <<"spawn", "up">>}

(* The next stage, or one more routine that serves. *)
Advances(p) ==
    \/ <<proc[p].pc, proc'[p].pc>> \in NextStage
    \/ /\ proc[p].pc = "up" /\ proc'[p].pc = "up"
       /\ \E i \in proc[p].starting :
            /\ proc'[p].starting = proc[p].starting \ {i}
            /\ proc'[p].serving = proc[p].serving \union {i}

(* In an orderly host the server serves, or it can go on, or systemd can    *)
(* start it again.                                                          *)
GoesOn ==
    Orderly =>
        \/ Serves(1)
        \/ \E pair \in NextStage : proc[1].pc = pair[1]
        \/ proc[1].pc = "up" /\ proc[1].starting # {}
        \/ Failed(1)

(* Every step it takes then is one ahead: no exit is taken any more.  Only  *)
(* an error of Accept, of which there are MaxFaults, throws it back, and a  *)
(* restart brings it back to the beginning.                                 *)
OnlyForward ==
    Orderly =>
        /\ Step(1) => Advances(1)
        /\ ~Step(1) => \/ proc'[1] = proc[1]
                       \/ faults' = faults + 1
                       \/ Failed(1) /\ proc'[1].pc = "boot"

LEMMA OneIsFirst == 1 \in Processes
BY GenerationsAssumption DEF Processes

LEMMA StepKeeps ==
  ASSUME NEW p \in Processes, Step(p)
  PROVE  UNCHANGED <<setting, world, signalled, faults>> /\ proc[p].pc \notin {"none", "exited"}
BY DEF Step, Boot, Arguments, Parse, lockNetwork, Detach, Fork, ForkReturns, Ready, StartWireguard,
       Spawn, Return, RoutineStarts

(* The steps of the others do not touch process 1. *)
LEMMA OthersStep ==
  ASSUME IInv, NEW p \in Processes, p # 1, Step(p)
  PROVE  proc'[1] = proc[1]
<1>1. 1 \in Processes /\ p + 1 # 1 /\ proc \in [Processes -> Records]
  BY OneIsFirst DEF Processes, IInv, TypeOK, Records
<1>2. CASE Fork(p)
  BY <1>1, <1>2 DEF Fork, Exit
<1>3. CASE ~Fork(p)
  BY <1>1, <1>3 DEF Step, Boot, Arguments, Parse, lockNetwork, Detach, ForkReturns, Ready,
                    StartWireguard, Spawn, Return, RoutineStarts, RoutineExits, Exit
<1>. QED
  BY <1>2, <1>3

(* The stages of process 1 one by one: it exits for one of these reasons or *)
(* goes on.                                                                 *)
LEMMA OwnStage ==
  ASSUME IInv, Step(1)
  PROVE  \/ /\ Advances(1) /\ proc'[1].reason = proc[1].reason
            /\ proc[1].pc # "up" /\ proc'[1].pc = "up" => proc'[1].starting = Routines
         \/ /\ proc'[1].pc = "forked" /\ proc'[1].reason = proc[1].reason
            /\ options.daemon
         \/ \E reason \in {"done", "config", "names", "rule", "exec", "device", "routine", "busy",
                           "interrupted"} :
              /\ proc'[1].pc = "exited" /\ proc'[1].reason = reason
              /\ reason = "done" => options.mode # "serve" \/ options.daemon
              /\ reason = "interrupted" => signalled
              /\ reason = "names" => ~NamesResolve(1)
              /\ reason = "busy" => busy # {}
<1>0. /\ 1 \in Processes /\ proc \in [Processes -> Records]
      /\ proc[1].daemon \/ proc[1].pc = "forked" => options.daemon
  BY OneIsFirst DEF IInv, TypeOK, Records, Lineage
<1>. USE <1>0 DEF Advances, NextStage, Exit, Records
<1>1. CASE Boot(1) \/ Detach(1) \/ Ready(1) \/ Spawn(1)
  BY <1>1 DEF Boot, Detach, Ready, Spawn
<1>2. CASE Arguments(1)
  BY <1>2 DEF Arguments
<1>3. CASE Parse(1)
  <2>1. proc[1].pc = "parse"
    BY <1>3 DEF Parse
  <2>2. CASE ~ParseConfig(file, NamesResolve(1)) /\ ~ParseConfig(file, TRUE)
    <3>1. proc' = Exit(1, "config")
      BY <1>3, <2>2 DEF Parse
    <3>. QED
      BY <3>1
  <2>3. CASE ~ParseConfig(file, NamesResolve(1)) /\ ParseConfig(file, TRUE)
    <3>1. proc' = Exit(1, "names")
      BY <1>3, <2>3 DEF Parse
    <3>2. NamesResolve(1) => NamesResolve(1) = TRUE
      BY DEF NamesResolve
    <3>3. ~NamesResolve(1)
      BY <2>3, <3>2
    <3>. QED
      BY <3>1, <3>3
  <2>4. CASE ParseConfig(file, NamesResolve(1)) /\ options.mode = "test"
    <3>1. proc' = Exit(1, "done")
      BY <1>3, <2>4 DEF Parse
    <3>. QED
      BY <2>4, <3>1
  <2>5. CASE ParseConfig(file, NamesResolve(1)) /\ options.mode # "test"
    <3>1. proc' = [proc EXCEPT ![1].pc = "net", ![1].output = proc[1].stdout]
      BY <1>3, <2>5 DEF Parse
    <3>. QED
      BY <2>1, <3>1
  <2>. QED
    BY <2>2, <2>3, <2>4, <2>5
<1>4. CASE lockNetwork(1)
  BY <1>4 DEF lockNetwork
<1>5. CASE Fork(1)
  <2>1. 2 \in Processes /\ 1 + 1 = 2
    BY GenerationsAssumption DEF Processes
  <2>2. CASE "exec" \notin proc[1].files
    BY <1>5, <2>1, <2>2 DEF Fork
  <2>3. CASE "exec" \in proc[1].files
    <3>1. proc[1].daemon
      BY <1>5 DEF Fork
    <3>2. PICK child :
            proc' = [proc EXCEPT ![1].pc = "forked", ![2] = child]
      BY <1>5, <2>1, <2>3 DEF Fork
    <3>. QED
      BY <3>1, <3>2
  <2>. QED
    BY <2>2, <2>3
<1>9. CASE ForkReturns(1)
  BY <1>9 DEF ForkReturns
<1>6. CASE StartWireguard(1)
  BY <1>6 DEF StartWireguard, ListenPortBusy
<1>7. CASE Return(1)
  BY <1>7 DEF Return
<1>8. ASSUME NEW i \in Routines, RoutineStarts(1, i)
      PROVE  \/ Advances(1) /\ proc'[1].reason = proc[1].reason /\ proc[1].pc = "up"
             \/ /\ proc'[1].pc = "exited" /\ proc'[1].reason \in {"busy", "names", "routine"}
                /\ proc'[1].reason = "busy" => busy # {}
                /\ proc'[1].reason = "names" => ~NamesResolve(1)
  <2>1. proc[1].pc = "up" /\ i \in proc[1].starting
    BY <1>8 DEF RoutineStarts
  <2>2. CASE Started(1, i)
    <3>1. proc' = [proc EXCEPT ![1].starting = @ \ {i}, ![1].serving = @ \union {i}]
      BY <1>8, <2>2 DEF RoutineStarts
    <3>. QED
      BY <2>1, <3>1
  <2>3. CASE ~Started(1, i)
    <3>1. proc' = RoutineExits(1, i)
      BY <1>8, <2>3 DEF RoutineStarts
    <3>2. CASE ~SpawnRoutine(1, i)
      <4>1. proc' = Exit(1, "routine")
        BY <3>1, <3>2 DEF RoutineExits
      <4>. QED
        BY <4>1
    <3>3. CASE SpawnRoutine(1, i) /\ HostFound(1, i)
      <4>1. proc' = Exit(1, "busy") /\ busy # {}
        BY <2>3, <3>1, <3>3 DEF RoutineExits, Started, PortBusy
      <4>. QED
        BY <4>1
    <3>4. CASE SpawnRoutine(1, i) /\ ~HostFound(1, i)
      <4>1. proc' = Exit(1, "names") /\ ~NamesResolve(1)
        BY <3>1, <3>4 DEF RoutineExits, HostFound, HostResolves
      <4>. QED
        BY <4>1
    <3>. QED
      BY <3>2, <3>3, <3>4
  <2>. QED
    BY <2>2, <2>3
<1>. QED
  BY <1>1, <1>2, <1>3, <1>4, <1>5, <1>6, <1>7, <1>8, <1>9 DEF Step

LEMMA SupervisionInit == Init => Supervision
<1>. SUFFICES ASSUME Init PROVE Supervision
  OBVIOUS
<1>1. proc[1].pc = "boot" /\ proc[1].reason = "none"
  BY OneIsFirst DEF Init, Process
<1>. QED
  BY <1>1 DEF Init, Supervision

LEMMA SupervisionNext ==
  ASSUME IInv, Supervision, [Next]_vars
  PROVE  Supervision'
<1>0. 1 \in Processes /\ proc \in [Processes -> Records] /\ (options.supervised => ~options.daemon)
  BY OneIsFirst DEF IInv, TypeOK, Records, Lineage
<1>1. ASSUME UNCHANGED setting, proc'[1] = proc[1], signalled => signalled' PROVE Supervision'
  BY <1>1, SameRoutines DEF setting, Supervision
<1>2. ASSUME NEW p \in Processes, p # 1, Step(p) PROVE Supervision'
  BY <1>1, <1>2, OthersStep, StepKeeps
<1>3. CASE Step(1)
  <2>1. UNCHANGED <<setting, signalled>> /\ Routines' = Routines /\ options' = options
    BY <1>0, <1>3, StepKeeps, SameRoutines DEF setting
  <2>2. CASE /\ Advances(1) /\ proc'[1].reason = proc[1].reason
             /\ proc[1].pc # "up" /\ proc'[1].pc = "up" => proc'[1].starting = Routines
    <3>1. proc'[1].pc # "none"
      BY <2>2 DEF Advances, NextStage
    <3>2. proc'[1].serving \subseteq Routines
      BY <1>3, <2>1, OneIsFirst, NextIInv DEF IInv, TypeOK, Next
    <3>3. ASSUME proc'[1].pc = "up" PROVE proc'[1].starting \union proc'[1].serving = Routines
      <4>1. CASE proc[1].pc = "up"
        BY <2>2, <3>3, <4>1 DEF Advances, NextStage, Supervision
      <4>2. CASE proc[1].pc # "up"
        BY <2>2, <3>2, <3>3, <4>2
      <4>. QED
        BY <4>1, <4>2
    <3>. QED
      BY <2>1, <2>2, <3>1, <3>3 DEF Supervision
  <2>3. CASE ~(Advances(1) /\ proc'[1].reason = proc[1].reason
               /\ (proc[1].pc # "up" /\ proc'[1].pc = "up" => proc'[1].starting = Routines))
    BY <1>0, <1>3, <2>1, <2>3, OwnStage DEF Supervision
  <2>. QED
    BY <2>2, <2>3
<1>4. ASSUME NEW p \in Processes, NEW i \in Routines, AcceptFails(p, i) PROVE Supervision'
  <2>1. UNCHANGED <<setting, signalled>> /\ options' = options /\ Routines' = Routines
    BY <1>4, SameRoutines DEF AcceptFails, setting
  <2>2. CASE p = 1
    <3>1. proc'[1].pc = "exited" /\ proc'[1].reason = "accept"
      BY <1>0, <1>4, <2>2 DEF AcceptFails, Exit, Records
    <3>. QED
      BY <2>1, <3>1 DEF Supervision
  <2>3. CASE p # 1
    BY <1>0, <1>1, <1>4, <2>1, <2>3 DEF AcceptFails, Exit
  <2>. QED
    BY <2>2, <2>3
<1>5. CASE Interrupt \/ HostRecovers \/ UNCHANGED vars
  BY <1>1, <1>5 DEF Interrupt, HostRecovers, vars
<1>6. CASE Restart
  <2>1. proc'[1].pc = "boot" /\ proc'[1].reason = "none"
    BY <1>0, <1>6 DEF Restart, Process
  <2>. QED
    BY <1>6, <2>1 DEF Restart, setting, Supervision
<1>. QED
  BY <1>2, <1>3, <1>4, <1>5, <1>6 DEF Next

(* No exit is taken in an orderly host: neither for a reason of the host's  *)
(* nor, by the invariant of the next state, for one of the file's.          *)
LEMMA StepAdvances ==
  ASSUME IInv, Orderly, Supervision, Step(1)
  PROVE  Advances(1)
<1>1. /\ options.mode = "serve" /\ ~options.daemon /\ ~signalled /\ busy = {} /\ NamesResolve(1)
      /\ Startable
  BY DEF Orderly, Supervision, IInv, Lineage, NamesResolve
<1>2. Startable' /\ IInv'
  <2>1. 1 \in Processes /\ setting' = setting
    BY OneIsFirst, StepKeeps
  <2>2. [Next]_vars
    BY <2>1 DEF Next
  <2>. QED
    BY <1>1, <2>1, <2>2, NextIInv, SameStartable
<1>3. proc'[1].reason \in HostReasons
  BY <1>2, OneIsFirst DEF IInv, Good, Reasons
<1>. QED
  BY <1>1, <1>3, OwnStage DEF HostReasons

LEMMA OthersWait ==
  ASSUME IInv, Orderly, [Next]_vars, ~Step(1)
  PROVE  \/ proc'[1] = proc[1] \/ faults' = faults + 1
         \/ Failed(1) /\ proc'[1].pc = "boot"
<1>1. ASSUME NEW p \in Processes, Step(p) PROVE proc'[1] = proc[1]
  BY <1>1, OthersStep
<1>2. ASSUME NEW p \in Processes, NEW i \in Routines, AcceptFails(p, i) PROVE faults' = faults + 1
  BY <1>2 DEF AcceptFails
<1>3. CASE Restart
  BY <1>3, OneIsFirst DEF Restart, Process, IInv, TypeOK
<1>4. CASE Interrupt \/ HostRecovers \/ UNCHANGED vars
  BY <1>4 DEF Interrupt, HostRecovers, vars
<1>. QED
  BY <1>1, <1>2, <1>3, <1>4 DEF Next

(* What Recovers rests on, for every file, platform and number of errors of *)
(* Accept: once the host is in order, a supervised server that can be       *)
(* served is never at an end, and every step takes it nearer to serving     *)
(* with all its routines, from wherever it stood (main.go:157-270,          *)
(* systemd/wireproxy.service:11).                                           *)
THEOREM SupervisedRecovers == Spec => []GoesOn /\ [][OnlyForward]_vars
<1>1. IInv /\ Supervision => GoesOn
  <2>. SUFFICES ASSUME IInv, Supervision, Orderly, ~Serves(1), ~Failed(1)
                PROVE  \/ \E pair \in NextStage : proc[1].pc = pair[1]
                       \/ proc[1].pc = "up" /\ proc[1].starting # {}
    BY DEF GoesOn
  <2>1. proc[1] \in Records
    BY OneIsFirst DEF IInv, TypeOK, Records
  <2>2. proc[1].pc \notin {"none", "forked", "exited"}
    BY OneIsFirst DEF Supervision, Orderly, Failed, IInv, Lineage
  <2>3. CASE proc[1].pc = "up"
    BY <2>3 DEF Supervision, Serves
  <2>4. CASE proc[1].pc # "up"
    BY <2>1, <2>2, <2>4 DEF Records, NextStage
  <2>. QED
    BY <2>3, <2>4
<1>2. IInv /\ Supervision /\ [Next]_vars => [OnlyForward]_vars
  BY StepAdvances, OthersWait DEF OnlyForward
<1>3. IInv /\ Supervision /\ [Next]_vars => Supervision'
  BY SupervisionNext
<1>. QED
  BY <1>1, <1>2, <1>3, SupervisionInit, Invariant, PTL DEF Spec
=============================================================================
