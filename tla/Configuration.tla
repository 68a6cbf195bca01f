---------------------------- MODULE Configuration ----------------------------
(***************************************************************************)
(* What wireproxy/config.go makes of a configuration file: which files     *)
(* ParseConfig accepts, and what a key stands for.                         *)
(*                                                                         *)
(* A key is [form, value].  The forms are those the parse functions tell   *)
(* apart: "absent" (the key is not in the section), "plain", "ref" ("$VAR" *)
(* where VAR is set to the value), "unset" ("$VAR" where it is not set) and *)
(* "junk" (it cannot be read as a number).  The value of an absent key is  *)
(* that of the empty text.                                                 *)
(***************************************************************************)
EXTENDS Lists

(* Addresses host:port as net.SplitHostPort, strconv.Atoi and the resolver  *)
(* of service names see them; the port of a named one is the service's.     *)
(* The host is "any" (all interfaces), "name" (to be resolved) or an IP.    *)
At(host, port) == [kind |-> "numeric", host |-> host, port |-> port]
Numeric(port)  == At("any", port)
Named(port)    == [kind |-> "named", host |-> "any", port |-> port]
NoPort         == [kind |-> "noport", host |-> "any", port |-> 0]
Empty          == [kind |-> "empty", host |-> "any", port |-> 0]

HostResolves(address, namesResolve) == address.host = "name" => namesResolve

PortRange == 65536
PortNumbers == 0..(PortRange - 1)

(* Elements of a comma-separated list. *)
Addresses == {"v4", "v6"}
Networks == {"v4/n", "v6/n"}
Family(element) == IF element \in {"v4", "v4/n"} THEN "v4" ELSE "v6"

-----------------------------------------------------------------------------
(* Section.Key() makes up a key that is absent, so that the only error of   *)
(* parseString is a reference to an unset variable.                         *)
parseString(key) == key.form # "unset"

(* Keys that are read as an integer, if they are there. *)
OptionalInt(key) == key.form \in {"absent", "plain"}

parsePort(key) == key.form = "plain" /\ key.value \in PortNumbers

(* net.ResolveTCPAddr takes an empty address for port 0 of any interface,   *)
(* and looks a host up that is a name.                                      *)
parseTCPAddr(key, namesResolve) ==
    /\ parseString(key)
    /\ key.value.kind # "noport" /\ key.value.port \in PortNumbers
    /\ HostResolves(key.value, namesResolve)

encodeBase64ToHex(text) == text = "32 bytes"

parseBase64KeyToHex(key) == parseString(key) /\ encodeBase64ToHex(key.value)

(* parseNetIP takes addresses, parseAllowedIPs prefixes, parseCIDRNetIP     *)
(* both; elements that are blank are dropped.                               *)
ParseList(key, elements) ==
    parseString(key) /\ \A i \in DOMAIN key.value : key.value[i] \in elements \union {"blank"}

ListOf(key) == Without(key.value, "blank")

parseNetIP(key) == ParseList(key, Addresses)
parseCIDRNetIP(key) == ParseList(key, Addresses \union Networks)
parseAllowedIPs(key) == ParseList(key, Networks)

(* The endpoint of a peer: a name is resolved at once, the port is not      *)
(* looked at.                                                               *)
resolveIPPAndPort(key, namesResolve) ==
    /\ key.value.kind \in {"numeric", "named"}
    /\ HostResolves(key.value, namesResolve)

-----------------------------------------------------------------------------
ParseInterface(section) ==
    /\ parseCIDRNetIP(section.address)
    /\ parseBase64KeyToHex(section.privateKey)
    /\ parseNetIP(section.dns)
    /\ OptionalInt(section.mtu) /\ OptionalInt(section.listenPort)
    /\ parseNetIP(section.checkAlive)
    /\ OptionalInt(section.checkAliveInterval)
    /\ section.checkAliveInterval.form # "absent" => ListOf(section.checkAlive) # <<>>

(* Only the public key is read by parseString: a reference in the others is *)
(* taken literally.                                                         *)
ParsePeer(section, namesResolve) ==
    /\ parseBase64KeyToHex(section.publicKey)
    /\ \/ section.preSharedKey.form = "absent"
       \/ section.preSharedKey.form = "plain" /\ encodeBase64ToHex(section.preSharedKey.value)
    /\ \/ section.endpoint.form = "absent"
       \/ resolveIPPAndPort(section.endpoint, namesResolve)
    /\ OptionalInt(section.keepAlive)
    /\ parseAllowedIPs(section.allowedIPs)

parseTCPClientTunnelConfig(section, namesResolve) ==
    parseTCPAddr(section.bind, namesResolve) /\ parseString(section.target)

parseSTDIOTunnelConfig(section) == parseString(section.target)

parseTCPServerTunnelConfig(section) ==
    parsePort(section.listenPort) /\ parseString(section.target)

(* The errors of Username, Password, CertFile and KeyFile are dropped. *)
parseSocks5Config(section) == parseString(section.bind)
parseHTTPConfig(section) == parseString(section.bind)

parseUDPProxyTunnelConfig(section) ==
    parseString(section.bind) /\ parseString(section.target) /\ OptionalInt(section.timeout)

ParseRoutine(section, namesResolve) ==
    \/ section.kind = "TCPClientTunnel" /\ parseTCPClientTunnelConfig(section, namesResolve)
    \/ section.kind = "STDIOTunnel" /\ parseSTDIOTunnelConfig(section)
    \/ section.kind = "TCPServerTunnel" /\ parseTCPServerTunnelConfig(section)
    \/ section.kind = "Socks5" /\ parseSocks5Config(section)
    \/ section.kind = "http" /\ parseHTTPConfig(section)
    \/ section.kind = "UDPProxyTunnel" /\ parseUDPProxyTunnelConfig(section)

(* A file, with the one it imports by WGConfig put in: "loads" says that    *)
(* both can be read.                                                        *)
ParseConfig(file, namesResolve) ==
    /\ file.loads
    /\ Len(file.interfaces) = 1 /\ ParseInterface(file.interfaces[1])
    /\ Len(file.peers) >= 1
    /\ \A i \in DOMAIN file.peers : ParsePeer(file.peers[i], namesResolve)
    /\ \A i \in DOMAIN file.routines : ParseRoutine(file.routines[i], namesResolve)

(* ResolveStrategy of the configuration: a [Resolve] section replaces the   *)
(* default, whether or not it has the key, and its error is dropped.        *)
ParsedStrategy(file) ==
    IF ~file.resolve.section THEN "auto"
    ELSE IF file.resolve.strategy.form \in {"plain", "ref"} THEN file.resolve.strategy.value
    ELSE ""
=============================================================================
