------------------------------ MODULE MCStartup ------------------------------
(* An instance of Startup: configuration files that differ in what the     *)
(* stages of the start look at.                                            *)
EXTENDS Startup

Plain(value) == [form |-> "plain", value |-> value]
Absent(value) == [form |-> "absent", value |-> value]

Interface == [address |-> Plain(<<"v4">>), privateKey |-> Plain("32 bytes"),
              dns |-> Absent(<<>>), mtu |-> Absent(0), listenPort |-> Absent(0),
              checkAlive |-> Absent(<<>>), checkAliveInterval |-> Absent(0)]

Peer == [publicKey |-> Plain("32 bytes"), preSharedKey |-> Absent(""), keepAlive |-> Absent(0),
         endpoint |-> Plain(At("name", 51820)), allowedIPs |-> Absent(<<>>)]

NoResolve == [section |-> FALSE, strategy |-> Absent("")]
Resolve(key) == [section |-> TRUE, strategy |-> key]

Routine(kind, bind, target, listenPort) ==
    [kind |-> kind, bind |-> bind, target |-> target, listenPort |-> Plain(listenPort),
     timeout |-> Absent(0), tls |-> FALSE]

None == Absent(Empty)
Socks5(address) == Routine("Socks5", Plain(address), None, 0)
Http(address) == Routine("http", Plain(address), None, 0)
Https(address) == [Http(address) EXCEPT !.tls = TRUE]
Client(address, target) == Routine("TCPClientTunnel", Plain(address), Plain(target), 0)
Server(port, target) == Routine("TCPServerTunnel", None, Plain(target), port)
Stdio(target) == Routine("STDIOTunnel", None, Plain(target), 0)
Udp(address) == Routine("UDPProxyTunnel", Plain(address), Plain(Numeric(53)), 0)

File(interface, peers, resolve, routines) ==
    [loads |-> TRUE, interfaces |-> <<interface>>, peers |-> peers,
     resolve |-> resolve, routines |-> routines]

(* Files that differ in their routines. *)
Served ==
    { <<Socks5(Numeric(1080)), Http(Numeric(8080))>>,
      <<Socks5(Numeric(1080)), Server(8080, Numeric(80)), Udp(Numeric(1080))>>,
      <<Stdio(Numeric(80)), Udp(Empty)>>,
      <<Socks5(Numeric(0)), Client(Empty, Numeric(80))>>,
      <<Socks5(At("ip", 1080)), Client(At("ip2", 1080), Numeric(80))>>,
      <<Socks5(At("name", 8080)), Client(At("name", 53), Numeric(80))>> }

Locked == { <<Https(Numeric(8080))>>, <<Client(Numeric(1080), Numeric(80))>> }

Refused ==
    { <<Socks5(At("ip", 1080)), Http(At("any", 1080))>>, <<Server(80, Numeric(80)), Server(80, Numeric(80))>>,
      <<Socks5(Named(1080))>>, <<Socks5(Numeric(66616))>>, <<Server(80, NoPort)>>,
      <<Stdio(Named(80))>>, <<Udp(Named(1080))>>,
      <<[Socks5(Empty) EXCEPT !.bind.form = "unset"]>> }

RoutineFiles == {File(Interface, <<Peer>>, NoResolve, routines) : routines \in Served \union Locked \union Refused}

(* Files that differ in the device. *)
V6 == [Interface EXCEPT !.address = Plain(<<"v4/n", "blank", "v6">>), !.dns = Plain(<<"v4">>)]
Half == [Peer EXCEPT !.allowedIPs = Plain(<<"v4/n">>), !.endpoint = Plain(At("ip", 51820))]
Both == [Peer EXCEPT !.allowedIPs = [form |-> "ref", value |-> <<"v6/n", "v4/n">>]]
BadKey == [Peer EXCEPT !.preSharedKey = [form |-> "ref", value |-> "short"]]
NamedEndpoint == [Peer EXCEPT !.endpoint = Plain(Named(51820))]
Checked == [Interface EXCEPT !.checkAlive = Plain(<<"v4">>), !.checkAliveInterval = Plain(3)]
Unchecked == [Interface EXCEPT !.checkAliveInterval = Plain(3)]

Devices ==
    { <<V6, <<Half, Peer>>, NoResolve>>, <<Checked, <<Half, Both>>, Resolve(Plain("ipv6"))>>,
      <<[Interface EXCEPT !.listenPort = Plain(1080)], <<Peer>>, Resolve(Plain("auto"))>>,
      <<Unchecked, <<Peer>>, NoResolve>>, <<Interface, <<BadKey>>, NoResolve>>,
      <<Interface, <<NamedEndpoint>>, NoResolve>>, <<Interface, <<>>, NoResolve>>,
      <<[Interface EXCEPT !.listenPort = Plain(70000)], <<Peer>>, Resolve(Absent(""))>> }

DeviceFiles ==
    {File(d[1], d[2], d[3], <<Socks5(Numeric(8080))>>) : d \in Devices}
    \union {File([Interface EXCEPT !.listenPort = Plain(53)], <<Half>>, NoResolve, <<Udp(At("ip", 53))>>)}

MCFiles == RoutineFiles \union DeviceFiles \union {[File(Interface, <<Peer>>, NoResolve, <<>>) EXCEPT !.loads = FALSE]}

MCPlatforms ==
    {[files |-> "none", net |-> FALSE], [files |-> "pledge", net |-> FALSE],
     [files |-> "landlock", net |-> FALSE], [files |-> "landlock", net |-> TRUE]}

MCInfos == {Empty, Numeric(9080)}

MCPorts == {0, 53, 80, 1080, 8080, 9080}

(* Only a TCP client tunnel. *)
TunnelFiles == {File(Interface, <<Peer>>, NoResolve, <<Client(Numeric(1080), Numeric(80))>>)}
=============================================================================
