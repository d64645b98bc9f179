------------------------------- MODULE Targets -------------------------------
(* The names of devices: what "adb connect" calls a transport                *)
(* (client/transport_emulator.cpp, socket_spec.cpp), what the server lists   *)
(* it by and finds it by (transport.cpp), how a request that names one is    *)
(* taken apart (sockets.cpp), and "adb disconnect" (adb.cpp).                *)
(* A string is the sequence of its ":", "[", "]" and the words between them. *)
EXTENDS Integers, SequencesExt
CONSTANTS
    Digits,         \* the words that are numbers
    Ports,          \* those in 1 .. 65535
    Dotted,         \* the words with a "."
    Sanitized,      \* a word that is not alphanumeric -> it with "_" instead
    Instance,       \* a name of an mDNS service -> that name as adb writes it
    Devices,        \* USB devices: name and devpath
    Banners,        \* what a device says of itself: product, model, device
    Addresses,      \* what "adb connect" and "adb disconnect" are given
    Targets,        \* what "adb -s" is given
    Commands,       \* the commands of a request
    Specs,          \* what a server is told to listen at, and its clients to connect to
    ADB_HOST, ADB_LINUX, ADB_WINDOWS,   \* the build
    gListenAll,     \* "adb -a"
    HasIPv4         \* of the loopback interface

VARIABLE tg

DEFAULT_ADB_LOCAL_TRANSPORT_PORT == "5555"
VMADDR_CID_HOST == "2"
Minus1 == "-1"
StartsWith(s, word) == IsPrefix(<<word, ":">>, s)
After(s, n) == SubSeq(s, n + 1, Len(s))
Find(s, token) == SelectInSeq(s, LAMBDA x : x = token)
Count(s, tokens) == Cardinality({i \in DOMAIN s : s[i] \in tokens})

-----------------------------------------------------------------------------
(* android::base::ParseNetAddress, with the port it is given as default.     *)
No == [ok |-> FALSE]
Net(host, port, ipv6) ==
    IF host = <<>> THEN No
    ELSE [ok |-> TRUE, host |-> host, port |-> port,
          name |-> IF ipv6 THEN <<"[">> \o host \o <<"]", ":", port>> ELSE host \o <<":", port>>]
WithPort(host, port, ipv6) ==
    IF Len(port) = 1 /\ port[1] \in Ports THEN Net(host, port[1], ipv6) ELSE No
ParseNetAddress(s, port) ==
    LET colons == Count(s, {":"})
        close == Find(s, "]")
    IN  IF s # <<>> /\ s[1] = "["
        THEN IF close > 0 /\ IsPrefix(<<"]", ":">>, After(s, close - 1))
             THEN WithPort(SubSeq(s, 2, close - 1), After(s, close + 1), TRUE) ELSE No
        ELSE IF Count(s, Dotted) = 0 /\ colons \in 2 .. 7 THEN Net(s, port, TRUE)
        ELSE IF colons = 1 THEN WithPort(SubSeq(s, 1, Find(s, ":") - 1), After(s, Find(s, ":")), FALSE)
        ELSE IF colons = 0 THEN Net(s, port, FALSE)
        ELSE No

(* A number alone is a port, of no host, and leaves no name.                 *)
parse_tcp_socket_spec(spec) ==
    LET s == After(spec, 2)
    IN  IF ~StartsWith(spec, "tcp") \/ s = <<>> THEN No
        ELSE IF Len(s) = 1 /\ s[1] \in Digits
        THEN IF s[1] \in Ports \cup {"0"} THEN [ok |-> TRUE, host |-> <<>>, port |-> s[1], name |-> <<>>] ELSE No
        ELSE ParseNetAddress(s, DEFAULT_ADB_LOCAL_TRANSPORT_PORT)
tcp_host_is_local(host) == host \in {<<>>, <<"localhost">>}

-----------------------------------------------------------------------------
(* The types of local sockets of the build.                                  *)
LocalSocketTypes ==
    [local |-> [namespace |-> IF ADB_HOST THEN "filesystem" ELSE "reserved", available |-> ~ADB_WINDOWS],
     localreserved |-> [namespace |-> "reserved", available |-> ~ADB_HOST],
     localabstract |-> [namespace |-> "abstract", available |-> ADB_LINUX],
     localfilesystem |-> [namespace |-> "filesystem", available |-> ~ADB_WINDOWS]]
is_local_type(s) == \E type \in DOMAIN LocalSocketTypes : StartsWith(s, type)

(* socket_spec_connect: where it connects to and what it calls the transport. *)
(* port is the one it was called with, which stands in for that of a vsock    *)
(* address that has none.                                                     *)
To(kind, host, port, name) ==
    [ok |-> TRUE, to |-> [kind |-> kind, host |-> host, port |-> port], name |-> name]
check_adb_vsock_cid_port(cid, port) ==
    ADB_HOST \/ cid = VMADDR_CID_HOST \/ port = DEFAULT_ADB_LOCAL_TRANSPORT_PORT
vsock_connect(s, port) ==
    LET p == IF Len(s) = 5 THEN s[5] ELSE port
    IN  IF /\ ADB_LINUX /\ Len(s) \in {3, 5}
           /\ s[3] \in Digits /\ p \in Digits \ {"0"}
           /\ check_adb_vsock_cid_port(s[3], p)
        THEN To("vsock", <<s[3]>>, p, <<"vsock", ":", s[3], ":", p>>) ELSE No
mdns_get_connect_service_info(s, services) ==
    {i \in services : \E w \in DOMAIN Instance : s = <<w>> /\ Instance[w] = i}
tcp_connect(s, services) ==
    LET p == parse_tcp_socket_spec(s)
        info == mdns_get_connect_service_info(After(s, 2), services)
    IN  IF ~p.ok THEN No
        ELSE IF tcp_host_is_local(p.host) THEN To("tcp", <<"localhost">>, p.port, p.name)
        ELSE IF ~ADB_HOST THEN No
        ELSE IF info # {} THEN LET i == CHOOSE i \in info : TRUE IN To("mdns", <<i>>, Minus1, <<i>>)
        ELSE To("tcp", p.host, p.port, p.name)
socket_spec_connect(s, port, services) ==
    IF StartsWith(s, "tcp") THEN tcp_connect(s, services)
    ELSE IF StartsWith(s, "vsock") THEN vsock_connect(s, port)
    ELSE IF is_local_type(s) /\ LocalSocketTypes[s[1]].available
    THEN To(LocalSocketTypes[s[1]].namespace, After(s, 2), Minus1, s)
    ELSE No

(* socket_spec_listen: the addresses at which it listens.                    *)
Loopback4 == <<"127.0.0.1">>
Loopback6 == <<":", ":", "1">>
Listens(kind, hosts, port) == [ok |-> TRUE, kind |-> kind, hosts |-> hosts, port |-> port]
network_loopback_server(prefer_ipv4) == {IF prefer_ipv4 /\ HasIPv4 THEN Loopback4 ELSE Loopback6}
any_host_listens(s) ==
    LET p == parse_tcp_socket_spec(s)
    IN  IF p.ok THEN Listens("tcp", network_loopback_server(TRUE), p.port) ELSE No
tcp_listen(s) ==
    LET p == parse_tcp_socket_spec(s)
    IN  IF ~p.ok THEN No
        ELSE IF p.host = <<>> /\ (~ADB_HOST \/ gListenAll)
        THEN Listens("tcp", {Loopback4, Loopback6}, p.port)
        ELSE IF tcp_host_is_local(p.host) THEN Listens("tcp", network_loopback_server(TRUE), p.port)
        ELSE IF p.host = Loopback6 THEN Listens("tcp", network_loopback_server(FALSE), p.port)
        ELSE No
socket_spec_listen(s) ==
    IF StartsWith(s, "tcp") THEN tcp_listen(s)
    ELSE IF StartsWith(s, "vsock")
    THEN IF ADB_LINUX /\ Len(s) = 3 /\ s[3] \in Digits
         THEN Listens("vsock", {<<cid>> : cid \in Digits}, s[3]) ELSE No
    ELSE IF StartsWith(s, "acceptfd")
    THEN IF ~ADB_WINDOWS /\ Len(s) = 3 /\ s[3] \in Digits THEN Listens("inherited", {}, s[3]) ELSE No
    ELSE IF is_local_type(s) /\ LocalSocketTypes[s[1]].available
    THEN Listens(LocalSocketTypes[s[1]].namespace, {After(s, 2)}, Minus1)
    ELSE No
(* The port that adbd advertises.                                            *)
get_host_socket_spec_port(s) ==
    IF StartsWith(s, "tcp") THEN IF parse_tcp_socket_spec(s).ok THEN parse_tcp_socket_spec(s).port ELSE Minus1
    ELSE IF StartsWith(s, "vsock") /\ ADB_LINUX /\ Len(s) = 3 /\ s[3] \in Digits THEN s[3]
    ELSE Minus1
is_local_socket_spec(s) ==
    is_local_type(s) \/ (parse_tcp_socket_spec(s).ok /\ tcp_host_is_local(parse_tcp_socket_spec(s).host))

-----------------------------------------------------------------------------
(* parse_host_service: n is how much of the service is in the serial, with   *)
(* the colon after it.                                                       *)
no_vsock(command) == 0
Vsock(command) == IF StartsWith(command, "vsock") THEN 2 ELSE 0
parse_host_service(service) ==
    LET Command(n) == After(service, n)
        Colon(n) == Find(Command(n), ":")
        Finish(n) == IF n = 0 \/ Command(n) = <<>> THEN No
                     ELSE [ok |-> TRUE, serial |-> SubSeq(service, 1, n - 1), command |-> Command(n)]
        Prefixed == \E p \in {"usb", "product", "model", "device", "localfilesystem"} : StartsWith(service, p)
        protocol == IF StartsWith(service, "tcp") \/ StartsWith(service, "udp") THEN 2 ELSE 0
        start == protocol + Vsock(Command(protocol))
        ipv6_end == IF IsPrefix(<<"[">>, Command(start)) THEN Find(Command(start), "]") ELSE 0
        address == start + (IF ipv6_end > 0 THEN ipv6_end + 1 ELSE Colon(start))
        port == SubSeq(Command(address), 1, Colon(address) - 1)
    IN  IF Prefixed THEN IF Colon(2) = 0 THEN No ELSE Finish(2 + Colon(2))
        ELSE IF address = start \/ address > Len(service) \/ service[address] # ":" THEN No
        ELSE IF Colon(address) > 0 /\ ToSet(port) \subseteq Digits THEN Finish(address + Colon(address))
        ELSE Finish(address)

(* atransport::MatchesTarget.  A qualifier is of one word.                   *)
sanitize(qual) == [i \in DOMAIN qual |-> IF qual[i] \in DOMAIN Sanitized THEN Sanitized[qual[i]] ELSE qual[i]]
qual_match(target, prefix, qual) ==
    IF target = <<>> THEN qual = <<>> ELSE qual # <<>> /\ target = <<prefix, ":">> \o qual
WithoutProtocol(target) ==
    IF StartsWith(target, "tcp") \/ StartsWith(target, "udp") THEN After(target, 2) ELSE target
hosts_match(t, target) ==
    LET ours == ParseNetAddress(t.name, Minus1)
        theirs == ParseNetAddress(WithoutProtocol(target), ours.port)
    IN  ours.ok /\ theirs.ok /\ ours.host = theirs.host
AddressesMatch(t, target) ==
    LET ours == ParseNetAddress(t.name, Minus1)
        theirs == ParseNetAddress(WithoutProtocol(target), ours.port)
    IN  ours.ok /\ theirs.ok /\ ours.host = theirs.host /\ ours.port = theirs.port
MatchesTarget(t, target) ==
    \/ t.name # <<>> /\ (target = t.name \/ (t.type = "local" /\ AddressesMatch(t, target)))
    \/ target = t.devpath
    \/ qual_match(target, "product", t.product)
    \/ qual_match(target, "model", sanitize(t.model))
    \/ qual_match(target, "device", t.device)

(* The transport that a request with a serial goes to: one, or none.         *)
acquire_one_transport(serial) ==
    LET matching == {t \in tg.list : MatchesTarget(t, serial)}
    IN  IF Cardinality(matching) = 1 THEN matching ELSE {}
format_host_command(target, command) == target \o <<":">> \o command
smart_socket_enqueue(target, command) ==
    LET parsed == parse_host_service(format_host_command(target, command))
    IN  IF parsed.ok THEN [on |-> acquire_one_transport(parsed.serial), command |-> parsed.command]
        ELSE [on |-> {}, command |-> <<>>]

(* What "adb devices -l" says of a transport that "adb -s" takes.            *)
append_transport(t) ==
    ({t.name, t.devpath} \ {<<>>})
    \cup {<<"product", ":">> \o q : q \in {t.product} \ {<<>>}}
    \cup {<<"model", ":">> \o sanitize(q) : q \in {t.model} \ {<<>>}}
    \cup {<<"device", ":">> \o q : q \in {t.device} \ {<<>>}}

-----------------------------------------------------------------------------
Init == tg = [list |-> {}, services |-> {}]

(* connect_device, where the network lets it.  Its int port is not           *)
(* initialized: any number may be in it.                                     *)
Unresolvable(to) == to.kind = "tcp" /\ to.host \in {<<w>> : w \in DOMAIN Instance}
Transport(type, name, devpath, via) ==
    [type |-> type, name |-> name, devpath |-> devpath, product |-> <<>>, model |-> <<>>, device |-> <<>>,
     via |-> via, kicked |-> FALSE]
register_socket_transport(name, address) ==
    LET Same(t) == t.name = name
    IN  IF \E t \in tg.list : Same(t)
        THEN {IF Same(t) THEN [t EXCEPT !.via = @ \cup {address}] ELSE t : t \in tg.list}
        ELSE tg.list \cup {Transport("local", name, <<>>, {address})}
connect_device(address) ==
    LET prefix_addr == IF StartsWith(address, "vsock") \/ StartsWith(address, "localfilesystem")
                       THEN address ELSE <<"tcp", ":">> \o address
    IN  \E port \in IF StartsWith(address, "vsock") THEN Digits ELSE {"0"} :
            LET c == socket_spec_connect(prefix_addr, port, tg.services)
            IN  /\ c.ok /\ ~Unresolvable(c.to)
                /\ tg' = [tg EXCEPT !.list = register_socket_transport(c.name, address)]

(* handle_host_request, "disconnect:".                                       *)
find_transport(name) == {t \in tg.list : t.name = name}
disconnect_by_name(address) == find_transport(address)
Disconnected(address) ==
    LET parsed == ParseNetAddress(address, DEFAULT_ADB_LOCAL_TRANSPORT_PORT)
    IN  IF find_transport(address) # {} THEN find_transport(address)
        ELSE IF StartsWith(address, "vsock") \/ StartsWith(address, "localfilesystem") \/ ~parsed.ok THEN {}
        ELSE find_transport(parsed.name)
Kicked(ts) == {IF t \in ts THEN [t EXCEPT !.kicked = TRUE] ELSE t : t \in tg.list}
disconnect(address) ==
    /\ Disconnected(address) # {}
    /\ tg' = [tg EXCEPT !.list = Kicked({CHOOSE t \in Disconnected(address) : TRUE})]
kick_all_tcp_devices == tg' = [tg EXCEPT !.list = Kicked({t \in tg.list : t.type = "local"})]

(* USB devices come; what a device says of itself is taken over; transports  *)
(* go when they were kicked, or lost.                                        *)
register_usb_transport(d) ==
    /\ \A t \in tg.list : t.devpath # d.devpath
    /\ tg' = [tg EXCEPT !.list = @ \cup {Transport("usb", d.name, d.devpath, {})}]
parse_banner(t, b) ==
    tg' = [tg EXCEPT !.list = (@ \ {t})
              \cup {[t EXCEPT !.product = b.product, !.model = b.model, !.device = b.device]}]
transport_destroy(t) == tg' = [tg EXCEPT !.list = @ \ {t}]
Discover(i) == tg' = [tg EXCEPT !.services = @ \cup {i}]
Forget(i) == tg' = [tg EXCEPT !.services = @ \ {i}]

Next ==
    \/ \E a \in Addresses : connect_device(a) \/ disconnect(a)
    \/ kick_all_tcp_devices
    \/ \E d \in Devices : register_usb_transport(d)
    \/ \E t \in tg.list : transport_destroy(t) \/ \E b \in Banners : parse_banner(t, b)
    \/ \E i \in {Instance[w] : w \in DOMAIN Instance} : Discover(i) \/ Forget(i)

Spec == Init /\ [][Next]_tg

-----------------------------------------------------------------------------
\* The shapes of the transports and of the services.
TypeOK ==
    /\ tg.services \subseteq {Instance[w] : w \in DOMAIN Instance}
    /\ \A t \in tg.list : t.type \in {"usb", "local"} /\ t.via \subseteq Addresses /\ t.kicked \in BOOLEAN

\* Whatever "adb devices -l" says of one transport, given to "adb -s", has a
\* command reach that transport as it was given (parse_host_service,
\* atransport::MatchesTarget); what is said of several reaches none of them, and a
\* command that reaches a transport at all is the one that was given.
ListedIsReached ==
    \A target \in Targets, command \in Commands :
        LET listed == {t \in tg.list : target \in append_transport(t)}
            request == smart_socket_enqueue(target, command)
        IN  /\ Cardinality(listed) = 1 => request.on = listed
            /\ Cardinality(listed) > 1 => request.on = {}
            /\ request.on # {} => request.command = command

\* "adb disconnect" of an address finds the transport that "adb connect" of that
\* address made or found (connect_device, handle_host_request), however many
\* others there are by now: unless the address is a port alone, vsock without
\* a port, or another spelling of the name of a service.
DisconnectsWhatItConnected ==
    \A t \in tg.list : \A address \in t.via :
        \/ Len(address) = 1 /\ address[1] \in Digits
        \/ StartsWith(address, "vsock") /\ Len(address) = 3
        \/ address[1] \in DOMAIN Instance /\ Instance[address[1]] # address[1]
        \/ Disconnected(address) = {t}

\* Who connects to a socket specification is served by who listens at the same one
\* (socket_spec_connect, socket_spec_listen), a client that starts a server
\* because the specification is local can connect to it (is_local_socket_spec,
\* __adb_check_server_version), unless it asks for any free port, and adbd
\* advertises the port it listens at (get_host_socket_spec_port, setup_adb).
SpecsAgree ==
    \A spec \in Specs :
        LET client == socket_spec_connect(spec, "0", {})
            server == socket_spec_listen(spec)
            tried == IF client.to.host = <<"localhost">> THEN {Loopback4, Loopback6} ELSE {client.to.host}
        IN  server.ok /\ server.port # "0" =>
            /\ client.ok => /\ client.to.kind = server.kind /\ client.to.port = server.port
                            /\ tried \cap server.hosts # {}
            /\ is_local_socket_spec(spec) => client.ok
            /\ server.kind \in {"tcp", "vsock"} => get_host_socket_spec_port(spec) = server.port
====
