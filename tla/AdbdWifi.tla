------------------------------ MODULE AdbdWifi ------------------------------
(***************************************************************************)
(* Wireless debugging on the device: the thread that starts and stops the  *)
(* TLS server, whose listening socket belongs to the looper                *)
(* (daemon/adb_wifi.cpp), and who advertises the server over mDNS          *)
(* (daemon/mdns.cpp).  Without Lifecycle that thread observes the property *)
(* of the settings switch, and a worker thread registers with mdnsd.  With *)
(* Lifecycle (use_tls_lifecycle on API 37) the thread of adbd_auth calls   *)
(* what the framework asks for, one request after the other, and the       *)
(* framework advertises.                                                   *)
(*                                                                         *)
(* A server is known by the port it listens on; ports are handed out in    *)
(* order and 0 is no server.  Posted work is a pair of what to do and the  *)
(* port it is about.                                                       *)
(***************************************************************************)
EXTENDS Integers, Sequences, FiniteSets

CONSTANTS Lifecycle, MaxToggles, MaxConnections

VARIABLE wf

Ports == 1 .. MaxToggles

(* Type invariant. *)
TypeOK ==
    /\ wf.prop \in BOOLEAN /\ wf.wifi_enabled \in BOOLEAN /\ wf.toggles \in 0 .. MaxToggles
    /\ wf.pc \in {"wait", "starting", "created", "stopping"} /\ wf.last \in 0 .. MaxToggles
    /\ wf.sTlsServer \in {0} \cup Ports /\ wf.port \in {0} \cup Ports
    /\ wf.looper \in Seq({"create", "destroy"} \X Ports) /\ wf.fdevents \subseteq Ports
    /\ wf.tasks \in Seq({"register", "unregister"} \X ({0} \cup Ports))
    /\ wf.mdns_ref \in {0} \cup Ports /\ wf.clients \in 0 .. MaxConnections
    /\ wf.accepted \in 0 .. MaxConnections /\ wf.failed \in BOOLEAN
    /\ wf.asked \in Seq(BOOLEAN) /\ wf.refused \in BOOLEAN

Init ==
    wf = [prop |-> FALSE, wifi_enabled |-> FALSE, toggles |-> 0, pc |-> "wait", last |-> 0,
          sTlsServer |-> 0, port |-> 0, looper |-> <<>>, fdevents |-> {}, tasks |-> <<>>,
          mdns_ref |-> 0, clients |-> 0, accepted |-> 0, failed |-> FALSE,
          asked |-> <<>>, refused |-> FALSE]

\* The switch in the settings, or a request of the framework, which may repeat one
Toggle ==
    /\ wf.toggles < MaxToggles
    /\ \E on \in IF Lifecycle THEN BOOLEAN ELSE {~wf.prop} :
         wf' = [wf EXCEPT !.prop = on, !.toggles = @ + 1,
                          !.asked = IF Lifecycle THEN Append(@, on) ELSE @]

\* start_wifi_enabled_observer waits for the property to differ from what it
\* last did; the callbacks start_adbd_wifi and stop_adbd_wifi come in order.
Called(on) ==
    /\ wf.pc = "wait"
    /\ IF Lifecycle THEN wf.asked # <<>> /\ Head(wf.asked) = on
                    ELSE wf.prop = on /\ wf.wifi_enabled # on
Taken(on) == [wf EXCEPT !.wifi_enabled = on, !.asked = IF Lifecycle THEN Tail(@) ELSE @]

\* TlsServer::Start: bind, have the looper watch the socket, and wait until it does
Start(s, p) ==
    [s EXCEPT !.last = p, !.sTlsServer = p, !.pc = "starting", !.looper = Append(@, <<"create", p>>)]

adbd_send_tls_server_port(s, p) == [s EXCEPT !.port = p]

\* A server that is already up only has its port sent again. The socket may not
\* be bound: then there is no server
enable_wifi_debugging ==
    /\ Called(TRUE)
    /\ wf' \in IF wf.sTlsServer # 0 THEN {adbd_send_tls_server_port(Taken(TRUE), wf.sTlsServer)}
                ELSE {Start(Taken(TRUE), wf.last + 1), [Taken(TRUE) EXCEPT !.failed = TRUE]}

register_adb_tls_service(s) == [s EXCEPT !.tasks = Append(@, <<"register", s.sTlsServer>>)]
unregister_adb_tls_service(s) == [s EXCEPT !.tasks = Append(@, <<"unregister", 0>>)]

\* ... the looper has: the socket is read, the server is advertised and its port
\* is published
Started ==
    /\ wf.pc = "created"
    /\ wf' = register_adb_tls_service(
                adbd_send_tls_server_port([wf EXCEPT !.pc = "wait", !.failed = FALSE], wf.sTlsServer))

\* delete sTlsServer
Stopped(s) ==
    [s EXCEPT !.pc = "stopping", !.sTlsServer = 0, !.failed = FALSE,
              !.looper = IF s.sTlsServer = 0 THEN @ ELSE Append(@, <<"destroy", s.sTlsServer>>)]

\* A plausible slip: the advertisement is withdrawn at once, before the worker's tasks
DisableAtOnce == Called(FALSE) /\ wf' = [Stopped(Taken(FALSE)) EXCEPT !.mdns_ref = 0]

\* disable_wifi_debugging: the server is deleted, its fdevent by the looper,
\* later; its advertisement is withdrawn ...
disable_wifi_debugging ==
    Called(FALSE) /\ wf' = unregister_adb_tls_service(Stopped(Taken(FALSE)))

\* ... and the connections over TLS are kicked
kick_all_tcp_tls_transports ==
    /\ wf.pc = "stopping"
    /\ wf' = adbd_send_tls_server_port([wf EXCEPT !.pc = "wait", !.clients = 0], 0)

\* The looper creates or destroys the fdevent of a server
LooperTask ==
    /\ wf.looper # <<>>
    /\ LET t == Head(wf.looper)
       IN wf' = [wf EXCEPT !.looper = Tail(@),
                    !.fdevents = IF t[1] = "create" THEN @ \cup {t[2]} ELSE @ \ {t[2]},
                    !.pc = IF t[1] = "create" THEN "created" ELSE @]

\* OnFdEvent: a connection is accepted for the server the fdevent was made for.
\* That server may have been deleted, its fdevent not yet: what is then read of it
\* is undefined, and the connection is accepted or left waiting.
OnFdEvent(p) ==
    /\ p \in wf.fdevents /\ (wf.pc = "created" => p # wf.sTlsServer)
    /\ wf.accepted < MaxConnections
    /\ wf' = [wf EXCEPT !.accepted = @ + 1, !.clients = @ + 1]

\* An occupied slot is an error. DNSServiceRegister may fail, as it does when
\* EnsureMdnsdStarted could not start mdnsd: this is logged and not tried again.
register_mdns_service(s, p) ==
    IF s.mdns_ref # 0 THEN {s}
    ELSE {[s EXCEPT !.mdns_ref = p, !.refused = FALSE], [s EXCEPT !.refused = TRUE]}
unregister_mdns_service(s) == [s EXCEPT !.mdns_ref = 0, !.refused = FALSE]

\* The worker of mdns.cpp: registrations and withdrawals in the order they came
WorkerTask ==
    /\ ~Lifecycle /\ wf.tasks # <<>>
    /\ LET t == Head(wf.tasks)
           s == [wf EXCEPT !.tasks = Tail(@)]
       IN wf' \in IF t[1] = "register" THEN register_mdns_service(s, t[2]) ELSE {unregister_mdns_service(s)}

\* The framework does what adbd_auth_register_service and
\* adbd_auth_unregister_service asked for, in order
FrameworkTask ==
    /\ Lifecycle /\ wf.tasks # <<>>
    /\ wf' = [wf EXCEPT !.tasks = Tail(@), !.mdns_ref = Head(wf.tasks)[2]]

Observer == enable_wifi_debugging \/ Started \/ disable_wifi_debugging \/ kick_all_tcp_tls_transports

Next ==
    \/ Toggle
    \/ Observer
    \/ LooperTask
    \/ \E p \in Ports : OnFdEvent(p)
    \/ WorkerTask
    \/ FrameworkTask

Spec == Init /\ [][Next]_wf

\* --------------------------------------------------------------- properties

\* When all threads have caught up, what is advertised and what is published
\* is the port of the server that runs, and it runs if the switch is on and it
\* could be started, however fast the switch was toggled or a request repeated.
\* The exception: a registration mdnsd refused is not tried again, and the server
\* runs without being advertised, until it is stopped (mdns.cpp:157)
\* (enable_wifi_debugging, disable_wifi_debugging, MdnsWorkerThread::Run).
AdvertisedIsRunning ==
    wf.pc = "wait" /\ wf.prop = wf.wifi_enabled /\ wf.asked = <<>> /\ wf.tasks = <<>> /\ wf.looper = <<>> =>
        /\ wf.mdns_ref = (IF wf.refused THEN 0 ELSE wf.sTlsServer) /\ wf.port = wf.sTlsServer
        /\ wf.fdevents = {wf.sTlsServer} \ {0}
        /\ (wf.sTlsServer # 0) <=> (wf.prop /\ ~wf.failed)
=============================================================================
