-------------------------------- MODULE Device --------------------------------
(***************************************************************************)
(* The WireGuard device of wireproxy: what CreateIPCRequest of             *)
(* wireguard.go writes for it, what the device makes of that (its          *)
(* configuration protocol, which is not in the repository), and the names  *)
(* that are resolved with it (routine.go).                                 *)
(***************************************************************************)
EXTENDS Configuration, SequencesExt

parseAddressPort(address) == address.kind = "numeric" /\ address.port \in PortNumbers

(* Lines of the request: of a peer, here by its number, and of a route. *)
PublicKey(i) == [key |-> "public_key", peer |-> i, route |-> "none"]
AllowedIP(route) == [key |-> "allowed_ip", peer |-> 0, route |-> route]

DefaultRoutes == <<AllowedIP("v4/0"), AllowedIP("v6/0")>>

Routes == Networks \union {"v4/0", "v6/0"}

PeerLines(file, i) ==
    LET ips == ListOf(file.peers[i].allowedIPs) IN
    <<PublicKey(i)>>
    \o IF ips # <<>> THEN [j \in DOMAIN ips |-> AllowedIP(ips[j])] ELSE DefaultRoutes

(* Mutant: the default routes are meant for a file without any AllowedIPs. *)
RequestDefaultsOnce(file) ==
    FlattenSeq([i \in DOMAIN file.peers |->
        <<PublicKey(i)>>
        \o LET ips == ListOf(file.peers[i].allowedIPs)
           IN [j \in DOMAIN ips |-> AllowedIP(ips[j])]])
    \o IF \A i \in DOMAIN file.peers : ListOf(file.peers[i].allowedIPs) = <<>>
       THEN DefaultRoutes ELSE <<>>

CreateIPCRequest(file) == FlattenSeq([i \in DOMAIN file.peers |-> PeerLines(file, i)])

(* The device: an allowed_ip is given to the peer of the last public_key,   *)
(* and taken from the peer that had it.  0 is no peer.                      *)
PeerOfLine(request, n) ==
    request[Max({m \in 1..n : request[m].key = "public_key"})].peer

IpcSet(request) ==
    [route \in Routes |->
        LET lines == {n \in DOMAIN request : request[n] = AllowedIP(route)}
        IN IF lines = {} THEN 0 ELSE PeerOfLine(request, Max(lines))]

(* Numbers and endpoints are checked by the device, not by ParseConfig. *)
IpcAccepts(file) ==
    /\ file.interfaces[1].listenPort.form = "plain"
         => file.interfaces[1].listenPort.value \in PortNumbers
    /\ \A i \in DOMAIN file.peers :
         /\ file.peers[i].endpoint.form # "absent" => parseAddressPort(file.peers[i].endpoint.value)
         /\ file.peers[i].keepAlive.form = "plain" => file.peers[i].keepAlive.value \in PortNumbers

-----------------------------------------------------------------------------
(* StartWireguard: "auto" becomes the family of the device's addresses. *)
DeviceFamilies(file) ==
    LET address == ListOf(file.interfaces[1].address)
    IN {Family(address[i]) : i \in DOMAIN address}

(* Mutant: "auto" is left for the lookup to deal with. *)
StrategyKept(file) == ParsedStrategy(file)

DeviceStrategy(file) ==
    IF ParsedStrategy(file) # "auto" THEN ParsedStrategy(file)
    ELSE IF DeviceFamilies(file) = {"v4"} THEN "ipv4"
    ELSE "ipv6"

SystemDNS(file) == ListOf(file.interfaces[1].dns) = <<>>

(* ResolveAddrWithContext: the families of the address it may choose when   *)
(* the lookup gave addresses of these families; none is an error.           *)
ResolveAddr(strategy, families) ==
    LET first == IF strategy = "ipv4" THEN "v4" ELSE "v6"
    IN IF strategy \notin {"ipv4", "ipv6"} THEN {}
       ELSE IF first \in families THEN {first} ELSE families
=============================================================================
