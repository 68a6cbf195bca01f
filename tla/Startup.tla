-------------------------------- MODULE Startup --------------------------------
(***************************************************************************)
(* How wireproxy starts: main() of cmd/wireproxy/main.go, StartWireguard   *)
(* and the SpawnRoutine methods, with the rights the process gives up on   *)
(* the way, the daemon it may become, and the supervisor that starts it    *)
(* again (Restart=on-failure of systemd/wireproxy.service).                *)
(*                                                                         *)
(* Process 1 is the one the user starts, p + 1 the one p executes.  The    *)
(* routines of a process are the numbers of its sections; 0 is the health  *)
(* endpoint of --info.  A right is dropped for good: Landlock domains only *)
(* shrink and are inherited, pledge and unveil do not outlive exec.        *)
(***************************************************************************)
EXTENDS Device

CONSTANTS
    Files,        \* configuration files
    Platforms,    \* [files |-> "none", "landlock" or "pledge", net |-> BOOLEAN]
    Infos,        \* addresses of --info; Empty is none
    Ports,        \* every port that occurs
    Held,         \* ports that other programs may hold when it starts
    Generations,  \* bound: processes
    MaxFaults     \* bound: errors of Accept

ASSUME GenerationsAssumption == Generations \in Nat /\ Generations >= 2
ASSUME MaxFaultsAssumption == MaxFaults \in Nat
ASSUME PlatformsAssumption ==
    Platforms \subseteq [files : {"none", "landlock", "pledge"}, net : BOOLEAN]
ASSUME FilesAssumption ==
    \A f \in Files :
        /\ f.peers \in Seq(ToSet(f.peers))
        /\ \A i \in DOMAIN f.peers : f.peers[i].allowedIPs.value \in Seq(STRING)
ASSUME PortsAssumption ==
    /\ \A f \in Files : \A i \in DOMAIN f.routines :
         {f.routines[i].bind.value.port % PortRange, f.routines[i].target.value.port % PortRange} \subseteq Ports
    /\ \A address \in Infos : address.port % PortRange \in Ports

Processes == 1..Generations
Rights == {"read", "write", "exec"}
DNSPort == 53

VARIABLES
    file, platform,
    options,    \* the command line, and whether a supervisor restarts process 1
    dns,        \* the system's resolver: "up", "tcp" (answers need TCP) or "down"
    busy,       \* ports that other programs hold
    proc,       \* the processes
    device,     \* what StartWireguard has set up
    signalled,  \* SIGINT was sent
    faults      \* how often Accept has failed

setting == <<file, platform, options>>
world == <<dns, busy>>
vars == <<setting, world, proc, device, signalled, faults>>

NoDevice == [strategy |-> "none", routes |-> [route \in Routes |-> 0]]

Process(pc, files, bind, connect) ==
    [pc |-> pc, daemon |-> options.daemon,
     files |-> files, bind |-> bind, connect |-> connect,
     stdout |-> "stdout", output |-> "none",
     starting |-> {}, serving |-> {}, reason |-> "none"]

-----------------------------------------------------------------------------
(* The routines. *)
Section(i) == file.routines[i]
Kind(i) == IF i = 0 THEN "info" ELSE Section(i).kind

Routines == (DOMAIN file.routines) \union (IF options.info = Empty THEN {} ELSE {0})

OfKinds(kinds) == {i \in Routines : Kind(i) \in kinds}
ClientTunnels == OfKinds({"TCPClientTunnel"})
ServerTunnels == OfKinds({"TCPServerTunnel"})
Binders == OfKinds({"info", "Socks5", "http"})

BindAddress(i) == IF i = 0 THEN options.info ELSE Section(i).bind.value
Target(i) == Section(i).target.value

(* Where a routine listens: on the host, or inside the tunnel, there on any *)
(* address.                                                                 *)
Network(i) ==
    CASE Kind(i) = "TCPServerTunnel" -> "tunnel"
      [] Kind(i) = "UDPProxyTunnel" -> "udp"
      [] Kind(i) = "STDIOTunnel" -> "none"
      [] OTHER -> "tcp"

PortOf(i) ==
    CASE Network(i) = "tunnel" -> Section(i).listenPort.value
      [] Network(i) = "none" -> 0
      [] OTHER -> BindAddress(i).port

HostOf(i) == IF Network(i) = "tunnel" THEN "any" ELSE BindAddress(i).host

(* The UDP port of the device; 0 is a free one. *)
DevicePort ==
    IF file.interfaces[1].listenPort.form = "plain" THEN file.interfaces[1].listenPort.value ELSE 0

-----------------------------------------------------------------------------
(* lock(stage): the access to files that is left.  pledge has a stage of    *)
(* its own for the configuration; "ready" leaves a few files of the system. *)
Leaves(stage) ==
    IF platform.files = "none" THEN Rights
    ELSE IF stage = "ready" THEN {}
    ELSE IF stage = "read-config" /\ platform.files = "pledge" THEN {"read"}
    ELSE {"read", "exec"}

lock(p, stage) == proc[p].files \intersect Leaves(stage)

(* Atoi and uint16(): the port wraps; anything but a number is a panic. *)
extractable(address) == address.kind = "numeric"
extractPort(address) == address.port % PortRange

(* Mutant: the port a server tunnel listens on is granted as well. *)
BindRulesOfTunnels ==
    {extractPort(BindAddress(i)) : i \in Binders} \union {Section(i).listenPort.value : i \in ServerTunnels}

BindRules == {extractPort(BindAddress(i)) : i \in Binders}

ConnectRules ==
    {extractPort(Target(i)) : i \in ServerTunnels} \union {BindAddress(i).port : i \in ClientTunnels}

RulesExtractable ==
    /\ \A i \in Binders : extractable(BindAddress(i))
    /\ \A i \in ServerTunnels : extractable(Target(i))

(* The system's resolver turns to TCP for an answer that was truncated. *)
NamesResolve(p) == dns = "up" \/ (dns = "tcp" /\ DNSPort \in proc[p].connect)

-----------------------------------------------------------------------------
Exit(p, reason) ==
    [proc EXCEPT ![p].pc = "exited", ![p].reason = reason, ![p].starting = {}, ![p].serving = {}]

Boot(p) ==
    /\ proc[p].pc = "boot"
    /\ proc' = [proc EXCEPT ![p].pc = "args", ![p].files = lock(p, "boot")]
    /\ UNCHANGED <<setting, world, device, signalled, faults>>

(* Mutant: the stage is entered on the way to the daemon too. *)
ArgumentsLockAlways(p) ==
    /\ proc[p].pc = "args"
    /\ proc' = IF options.mode = "print" THEN Exit(p, "done")
               ELSE [proc EXCEPT ![p].pc = "parse", ![p].files = lock(p, "read-config")]
    /\ UNCHANGED <<setting, world, device, signalled, faults>>

(* Usage, version and a missing path only print.  The arguments of the      *)
(* daemon's child still hold -d, so that it skips this stage too.           *)
Arguments(p) ==
    /\ proc[p].pc = "args"
    /\ proc' = IF options.mode = "print" THEN Exit(p, "done")
               ELSE [proc EXCEPT ![p].pc = "parse",
                        ![p].files = IF proc[p].daemon THEN @ ELSE lock(p, "read-config")]
    /\ UNCHANGED <<setting, world, device, signalled, faults>>

(* Mutant: standard output is redirected before the file is parsed. *)
ParseRedirected(p) ==
    /\ proc[p].pc = "parse"
    /\ proc' = IF ~ParseConfig(file, NamesResolve(p))
               THEN Exit(p, IF ParseConfig(file, TRUE) THEN "names" ELSE "config")
               ELSE IF options.mode = "test" THEN Exit(p, "done")
               ELSE [proc EXCEPT ![p].pc = "net", ![p].stdout = "stderr", ![p].output = "stderr"]
    /\ UNCHANGED <<setting, world, device, signalled, faults>>

(* A STDIO tunnel takes the os.Stdout of this moment for its output.        *)
Parse(p) ==
    /\ proc[p].pc = "parse"
    /\ proc' = IF ~ParseConfig(file, NamesResolve(p))
               THEN Exit(p, IF ParseConfig(file, TRUE) THEN "names" ELSE "config")
               ELSE IF options.mode = "test" THEN Exit(p, "done")
               ELSE [proc EXCEPT ![p].pc = "net", ![p].output = proc[p].stdout]
    /\ UNCHANGED <<setting, world, device, signalled, faults>>

(* The rules are made on every platform, and enforced where Landlock has    *)
(* rules for TCP.                                                           *)
lockNetwork(p) ==
    /\ proc[p].pc = "net"
    /\ proc' = IF ~RulesExtractable THEN Exit(p, "rule")
               ELSE IF ~platform.net THEN [proc EXCEPT ![p].pc = "detach"]
               ELSE [proc EXCEPT ![p].pc = "detach",
                        ![p].bind = @ \intersect BindRules,
                        ![p].connect = @ \intersect ConnectRules]
    /\ UNCHANGED <<setting, world, device, signalled, faults>>

(* Mutant: the child keeps -d. *)
DetachKeepsFlag(p) ==
    /\ proc[p].pc = "detach"
    /\ proc' = IF p = 1 THEN [proc EXCEPT ![p].pc = "fork"]
               ELSE [proc EXCEPT ![p].pc = "fork", ![p].stdout = "null"]
    /\ UNCHANGED <<setting, world, device, signalled, faults>>

(* isDaemonProcess: the child forgets -d and writes to /dev/null. *)
Detach(p) ==
    /\ proc[p].pc = "detach"
    /\ proc' = IF p = 1 THEN [proc EXCEPT ![p].pc = "fork"]
               ELSE [proc EXCEPT ![p].pc = "fork", ![p].stdout = "null", ![p].daemon = FALSE]
    /\ UNCHANGED <<setting, world, device, signalled, faults>>

(* Start of the daemon; os/exec gives it /dev/null, and it runs before its  *)
(* parent has returned.  When it cannot be executed, main() returns all the *)
(* same, or pledge kills the process.                                       *)
Fork(p) ==
    /\ proc[p].pc = "fork" /\ proc[p].daemon /\ p < Generations
    /\ proc' = IF "exec" \notin proc[p].files THEN Exit(p, "exec")
               ELSE LET landlock == platform.files = "landlock"
                        child == Process("boot", IF landlock THEN proc[p].files ELSE Rights,
                                         proc[p].bind, proc[p].connect)
                    IN [proc EXCEPT ![p].pc = "forked", ![p + 1] = [child EXCEPT !.stdout = "null"]]
    /\ UNCHANGED <<setting, world, device, signalled, faults>>

ForkReturns(p) ==
    /\ proc[p].pc = "forked"
    /\ proc' = Exit(p, "done")
    /\ UNCHANGED <<setting, world, device, signalled, faults>>

(* os.Stdout = os.Stderr, for the logger of WireGuard, and lock("ready"). *)
Ready(p) ==
    /\ proc[p].pc = "fork" /\ ~proc[p].daemon
    /\ proc' = [proc EXCEPT ![p].pc = "device", ![p].files = lock(p, "ready"),
                            ![p].stdout = IF p = 1 THEN "stderr" ELSE "null"]
    /\ UNCHANGED <<setting, world, device, signalled, faults>>

ListenPortBusy == DevicePort # 0 /\ DevicePort \in busy

StartWireguard(p) ==
    /\ proc[p].pc = "device"
    /\ \/ /\ ~IpcAccepts(file) \/ ListenPortBusy
          /\ proc' = Exit(p, IF IpcAccepts(file) THEN "busy" ELSE "device")
          /\ UNCHANGED device
       \/ /\ IpcAccepts(file) /\ ~ListenPortBusy
          /\ device' = [strategy |-> DeviceStrategy(file), routes |-> IpcSet(CreateIPCRequest(file))]
          /\ proc' = [proc EXCEPT ![p].pc = "spawn"]
    /\ UNCHANGED <<setting, world, signalled, faults>>

(* One goroutine per routine; the health endpoint comes last. *)
Spawn(p) ==
    /\ proc[p].pc = "spawn"
    /\ proc' = [proc EXCEPT ![p].pc = "up", ![p].starting = Routines]
    /\ UNCHANGED <<setting, world, device, signalled, faults>>

-----------------------------------------------------------------------------
(* net.Listen, and ListenTCP of the network inside the tunnel: port 0 is    *)
(* any free one.  A port can be had once on every address, and only once    *)
(* when somebody listens on all of them (external: so it is on Linux).      *)
Distinct(i, j) ==
    Network(i) = Network(j) =>
        \/ PortOf(i) # PortOf(j) \/ PortOf(i) = 0
        \/ HostOf(i) # HostOf(j) /\ "any" \notin {HostOf(i), HostOf(j)}

(* The device has its UDP port on all addresses, before any routine starts. *)
BesideDevice(i) == Network(i) = "udp" => PortOf(i) # DevicePort \/ PortOf(i) = 0

Bindable(p, i) ==
    /\ PortOf(i) \in PortNumbers
    /\ Network(i) = "tcp" => PortOf(i) \in proc[p].bind
    /\ BesideDevice(i)
    /\ \A j \in proc[p].serving : Distinct(i, j)

PortBusy(i) == Network(i) \in {"tcp", "udp"} /\ PortOf(i) \in busy

(* The certificate of an HTTPS proxy is a file. *)
CertificateLoads(p, i) == Section(i).tls => "read" \in proc[p].files

(* So is the list of the services that the address of a UDP tunnel may name. *)
ResolveUDPAddr(p, i) ==
    \/ BindAddress(i).kind \in {"numeric", "empty"}
    \/ BindAddress(i).kind = "named" /\ "read" \in proc[p].files

(* A client tunnel has its address from ParseConfig; the others look their  *)
(* host up now, as far as it is a name.                                     *)
HostFound(p, i) ==
    i \in Binders \union OfKinds({"UDPProxyTunnel"}) => HostResolves(BindAddress(i), NamesResolve(p))

(* SpawnRoutine up to its loop. *)
SpawnRoutine(p, i) ==
    /\ Bindable(p, i)
    /\ Kind(i) \in {"TCPClientTunnel", "TCPServerTunnel", "STDIOTunnel"} => parseAddressPort(Target(i))
    /\ Kind(i) = "http" => CertificateLoads(p, i)
    /\ Kind(i) = "UDPProxyTunnel" => ResolveUDPAddr(p, i)

Started(p, i) == SpawnRoutine(p, i) /\ HostFound(p, i) /\ ~PortBusy(i)

(* log.Fatal or a panic. *)
RoutineExits(p, i) ==
    Exit(p, IF ~SpawnRoutine(p, i) THEN "routine" ELSE IF HostFound(p, i) THEN "busy" ELSE "names")

(* Mutant: SpawnRoutine is called without "go": the first one that serves   *)
(* keeps main() from the others.                                            *)
RoutineStartsInMain(p, i) ==
    /\ proc[p].pc = "up" /\ i \in proc[p].starting
    /\ \A j \in proc[p].serving : Network(j) = "none"
    /\ proc' = IF Started(p, i)
               THEN [proc EXCEPT ![p].starting = @ \ {i}, ![p].serving = @ \union {i}]
               ELSE RoutineExits(p, i)
    /\ UNCHANGED <<setting, world, device, signalled, faults>>

(* Mutant: a routine that serves is still counted as starting. *)
RoutineStartsTwice(p, i) ==
    /\ proc[p].pc = "up" /\ i \in proc[p].starting
    /\ proc' = IF Started(p, i)
               THEN [proc EXCEPT ![p].serving = @ \union {i}]
               ELSE RoutineExits(p, i)
    /\ UNCHANGED <<setting, world, device, signalled, faults>>

(* The error of any routine ends the program. *)
RoutineStarts(p, i) ==
    /\ proc[p].pc = "up" /\ i \in proc[p].starting
    /\ proc' = IF Started(p, i)
               THEN [proc EXCEPT ![p].starting = @ \ {i}, ![p].serving = @ \union {i}]
               ELSE RoutineExits(p, i)
    /\ UNCHANGED <<setting, world, device, signalled, faults>>

(* So does an error of Accept, of whichever routine. *)
AcceptFails(p, i) ==
    /\ faults < MaxFaults
    /\ i \in proc[p].serving /\ Network(i) \in {"tcp", "tunnel"}
    /\ faults' = faults + 1
    /\ proc' = Exit(p, "accept")
    /\ UNCHANGED <<setting, world, device, signalled>>

(* SIGINT cancels a context, which main() waits for at its end only. *)
Interrupt ==
    /\ ~signalled /\ signalled' = TRUE
    /\ UNCHANGED <<setting, world, proc, device, faults>>

Return(p) ==
    /\ proc[p].pc = "up" /\ signalled
    /\ proc' = Exit(p, "interrupted")
    /\ UNCHANGED <<setting, world, device, signalled, faults>>

-----------------------------------------------------------------------------
(* The host: its network comes up, other programs let go of their ports.    *)
HostRecovers ==
    /\ world # <<"up", {}>>
    /\ dns' = "up" /\ busy' = {}
    /\ UNCHANGED <<setting, proc, device, signalled, faults>>

Failed(p) == proc[p].pc = "exited" /\ proc[p].reason \notin {"done", "interrupted"}

Restart ==
    /\ options.supervised /\ Failed(1) /\ ~signalled
    /\ proc' = [proc EXCEPT ![1] = Process("boot", Rights, Ports, Ports)]
    /\ device' = NoDevice
    /\ UNCHANGED <<setting, world, signalled, faults>>

Init ==
    /\ file \in Files /\ platform \in Platforms
    /\ options \in [mode : {"serve", "test", "print"}, daemon : BOOLEAN,
                    info : Infos, supervised : BOOLEAN]
    /\ options.supervised => options.mode = "serve" /\ ~options.daemon
    /\ dns \in {"up", "tcp", "down"}
    /\ busy \in SUBSET Held
    /\ proc = [p \in Processes |-> Process(IF p = 1 THEN "boot" ELSE "none", Rights, Ports, Ports)]
    /\ device = NoDevice
    /\ signalled = FALSE /\ faults = 0

Step(p) ==
    \/ Boot(p) \/ Arguments(p) \/ Parse(p) \/ lockNetwork(p) \/ Detach(p) \/ Fork(p)
    \/ ForkReturns(p)    \/ Ready(p) \/ StartWireguard(p) \/ Spawn(p) \/ Return(p)
    \/ \E i \in Routines : RoutineStarts(p, i)

Next ==
    \/ \E p \in Processes : Step(p) \/ \E i \in Routines : AcceptFails(p, i)
    \/ Interrupt \/ HostRecovers \/ Restart

Spec == Init /\ [][Next]_vars

Fairness == (\A p \in Processes : WF_vars(Step(p))) /\ WF_vars(Restart)

FairSpec == Spec /\ Fairness

-----------------------------------------------------------------------------
TypeOK ==
    /\ file \in Files /\ platform \in Platforms
    /\ options \in [mode : {"serve", "test", "print"}, daemon : BOOLEAN,
                    info : Infos, supervised : BOOLEAN]
    /\ dns \in {"up", "tcp", "down"} /\ busy \subseteq Held
    /\ signalled \in BOOLEAN /\ faults \in 0..MaxFaults
    /\ proc \in [Processes ->
          [pc : {"none", "boot", "args", "parse", "net", "detach", "fork", "forked", "device",
                 "spawn", "up", "exited"},
           daemon : BOOLEAN,
           files : SUBSET Rights, bind : SUBSET Ports, connect : SUBSET Ports,
           stdout : {"stdout", "stderr", "null"}, output : {"none", "stdout", "stderr", "null"},
           starting : SUBSET Routines, serving : SUBSET Routines,
           reason : {"none", "done", "config", "names", "rule", "exec", "device", "routine",
                     "busy", "accept", "interrupted"}]]
    /\ \A p \in Processes : proc[p].starting \intersect proc[p].serving = {}

(* On its way through main(), or serving; not on its way out.               *)
Running(p) == proc[p].pc \notin {"none", "forked", "exited"}

(* A daemon is one process: the child never becomes a parent, and the       *)
(* parent, which may outlive the beginning of the child, does nothing but   *)
(* return (main.go:222-236).                                                *)
OneServer ==
    /\ \A p \in Processes : p > 2 => proc[p].pc = "none"
    /\ \A p, q \in Processes : Running(p) /\ Running(q) => p = q

Serves(p) == proc[p].pc = "up" /\ proc[p].serving = Routines

(* Where the network is locked, a process that serves with all its routines *)
(* may bind the ports it listens on and no other, and connect to the        *)
(* targets of its server tunnels and no other, but for the ports of its own *)
(* client tunnels (main.go:148): what lockNetwork derives from the sections *)
(* is what SpawnRoutine later needs.                                        *)
ExactRights ==
    \A p \in Processes : platform.net /\ Serves(p) =>
        /\ proc[p].bind = {PortOf(i) : i \in {j \in Routines : Network(j) = "tcp"}}
        /\ {Target(i).port : i \in ServerTunnels} \subseteq proc[p].connect
        /\ proc[p].connect \subseteq {Target(i).port : i \in ServerTunnels}
                                \union {PortOf(i) : i \in ClientTunnels}

(* What a configuration needs to be served on a platform, beyond a          *)
(* "Config OK" of -n.  Under a lock of the network a TCP client tunnel gets *)
(* to listen only on a port that another section was granted: on another    *)
(* address, or port 0.                                                      *)
StartableOn(locks) ==
    /\ ParseConfig(file, TRUE) /\ IpcAccepts(file)
    /\ \A i \in Routines : PortOf(i) \in PortNumbers
    /\ \A i \in Binders : BindAddress(i).kind = "numeric"
    /\ \A i \in OfKinds({"UDPProxyTunnel"}) :
         \/ BindAddress(i).kind \in {"numeric", "empty"}
         \/ BindAddress(i).kind = "named" /\ locks.files = "none"
    /\ \A i \in OfKinds({"TCPClientTunnel", "TCPServerTunnel", "STDIOTunnel"}) : parseAddressPort(Target(i))
    /\ \A i \in Routines : BesideDevice(i)
    /\ \A i, j \in Routines : i # j => Distinct(i, j)
    /\ locks.net => \A i \in ClientTunnels : \E j \in Binders : PortOf(i) = PortOf(j)
    /\ locks.files = "none" \/ \A i \in OfKinds({"http"}) : ~Section(i).tls

Startable == StartableOn(platform)

(* Along all stages, locks and the exec of the daemon, a configuration that *)
(* can be served fails only for what the host does, and one that cannot is  *)
(* never served: the rights that are left at each stage suffice for the     *)
(* rest of the start.                                                       *)
StartableStarts ==
    \A p \in Processes :
        /\ Startable => proc[p].reason \in {"none", "done", "interrupted", "names", "busy", "accept"}
        /\ Serves(p) => Startable

(* The log of WireGuard never gets into the stream of a STDIO tunnel, whose *)
(* output is the standard output the process was given (main.go:238-241).   *)
StdoutIsTunnels ==
    \A p \in Processes : proc[p].pc \in {"device", "spawn", "up"} =>
        /\ proc[p].stdout # "stdout"
        /\ proc[p].output = IF p = 1 THEN "stdout" ELSE "null"

(* What a lookup by process p chooses from: the system's resolver, when the *)
(* device has no DNS, is used with the rights of the process.               *)
ResolveAddrWithContext(p, families) ==
    IF SystemDNS(file) /\ ~NamesResolve(p) THEN {} ELSE ResolveAddr(device.strategy, families)

(* With a strategy the README knows, a name that has an address resolves,   *)
(* and to one the device can reach when the device has IPv4 only (README,   *)
(* ResolveStrategy): "auto" of the file is settled before anybody looks up. *)
StrategyResolves ==
    \A p \in Processes, families \in SUBSET {"v4", "v6"} :
        Serves(p) /\ dns = "up" /\ families # {} /\ ParsedStrategy(file) \in {"auto", "ipv4", "ipv6"} =>
            /\ ResolveAddrWithContext(p, families) # {}
            /\ ParsedStrategy(file) = "auto" /\ DeviceFamilies(file) = {"v4"} /\ "v4" \in families
                 => ResolveAddrWithContext(p, families) = {"v4"}

(* The routes a peer's section claims: its AllowedIPs, or everything. *)
Claims(i) ==
    LET ips == ListOf(file.peers[i].allowedIPs)
    IN IF ips = <<>> THEN {"v4/0", "v6/0"} ELSE ToSet(ips)

(* A route leads to the last peer that claims it: the lines of the request  *)
(* leave no peer out, and give none a route it did not claim.  Which of two *)
(* routes of different length a packet takes is the device's affair.        *)
RoutesAsConfigured ==
    device # NoDevice =>
        \A route \in Routes :
            device.routes[route] = Max({0} \union {i \in DOMAIN file.peers : route \in Claims(i)})

(* Under the supervisor, what can be served is served in the end, once the  *)
(* host is in order, whatever failed before: every failure is one the       *)
(* supervisor sees, and one that is over after a restart.                   *)
Recovers ==
    /\ options.supervised /\ Startable
    /\ <>[](dns = "up" /\ busy = {})
    => <>[](signalled \/ Serves(1))

-----------------------------------------------------------------------------
(* What the README of wireproxy says and the code does not do.              *)

(* "TCPClientTunnel is a tunnel listening on your machine" (line 110), also *)
(* where the network is locked.                                             *)
TunnelListens ==
    \A p \in Processes :
        ClientTunnels # {} /\ StartableOn([platform EXCEPT !.net = FALSE]) => proc[p].reason # "routine"
=============================================================================
