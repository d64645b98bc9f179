----------------------------- MODULE HostServer -----------------------------
(***************************************************************************)
(* The adb server: the list of transports, the clients that speak to it    *)
(* through smart sockets, the listeners of "adb forward", the trackers of  *)
(* "adb track-devices", the wait-for threads and the wait for the first    *)
(* scan of devices.                                                        *)
(*                                                                         *)
(* Everything but the reader threads, the reconnect thread, the device     *)
(* scan and the wait-for threads runs on the looper: a closure of the run  *)
(* queue or one file descriptor event.  The loop empties the run queue     *)
(* before it polls again, so a client's request is never handled while     *)
(* closures are queued.                                                    *)
(***************************************************************************)
EXTENDS Naturals, Sequences, FiniteSets, FiniteSetsExt

CONSTANTS
    Transports,   \* the transports that may appear, numbered from 1
    Usb,          \* those of type kTransportUsb; the others are TCP devices
    NoPerm,       \* those of Usb that the server may not open
    Clients,      \* the connections to the server
    Names,        \* the local names of forwards
    MaxPackets    \* bound: A_CNXN and A_AUTH packets a device sends

VARIABLE hs

Absent == [list |-> "none", state |-> "offline", online |-> FALSE,
           kicked |-> FALSE, running |-> FALSE, posted |-> FALSE,
           tracked |-> FALSE, packets |-> 0,
           revived |-> FALSE]     \* an A_CNXN was handled after its connection ended

(* due: the statuses a success of the last request has; got: those sent.   *)
NoClient == [pc |-> "none", transport |-> 0, due |-> 1, got |-> <<>>, hup |-> FALSE,
             seen |-> <<>>, sel |-> {}, wait |-> "none", found |-> 0,
             verdict |-> "none"]

Init ==
    hs = [tr |-> [t \in Transports |->
                    [Absent EXCEPT !.state = IF t \in NoPerm THEN "noperm"
                                                             ELSE "offline"]],
          cl |-> [c \in Clients |-> NoClient],
          listeners |-> [n \in Names |-> 0],
          queue |-> <<>>, scan |-> FALSE, ready |-> FALSE, up |-> FALSE]

Post(h, op, t) == [h EXCEPT !.queue = Append(@, [op |-> op, t |-> t])]

Listed(h) == {t \in Transports : h.tr[t].list = "listed"}

(* list_transports: every transport of the list with its state. *)
list_transports(h) == [t \in Listed(h) |-> h.tr[t].state]

-----------------------------------------------------------------------------
(* Clients.  pc is the kind of socket the client's socket is joined to:    *)
(* "smart" a smart socket, "notify" none yet, the device is asked to open  *)
(* a stream, "stream" a remote socket, "tracker", "wait", "closed" none.   *)

Status(h, c, s) == [h EXCEPT !.cl[c].got = Append(@, s)]

(* local_socket_close, and local_socket_close_notify while the stream is   *)
(* not open yet.                                                           *)
CloseQuietly(h, c) == [h EXCEPT !.cl[c].pc = "closed", !.cl[c].transport = 0]

CloseSocket(h, c) ==
    CloseQuietly(IF h.cl[c].pc = "notify" THEN Status(h, c, "FAIL") ELSE h, c)

(* close_all_sockets: also those whose smart socket has chosen t. *)
close_only_streams(h, t) ==
    [h EXCEPT !.cl = [c \in Clients |->
        IF h.cl[c].transport = t /\ h.cl[c].pc # "smart"
        THEN CloseSocket(h, c).cl[c] ELSE h.cl[c]]]

close_all_sockets(h, t) ==
    [h EXCEPT !.cl = [c \in Clients |->
        IF h.cl[c].transport = t THEN CloseSocket(h, c).cl[c] ELSE h.cl[c]]]

-----------------------------------------------------------------------------
(* Transports. *)

(* update_transport_status: ready when every USB transport is online. *)
update_transport_status(h) ==
    [h EXCEPT !.ready = \A t \in Usb :
        h.tr[t].list \in {"pending", "listed"} => h.tr[t].online]

(* update_transports: the status, and the list to every tracker; sending   *)
(* to one whose client has hung up destroys it.                            *)
update_transports(h) ==
    LET tell(c) == IF h.cl[c].pc # "tracker" THEN h.cl[c]
                   ELSE IF h.cl[c].hup THEN CloseQuietly(h, c).cl[c]
                   ELSE [h.cl[c] EXCEPT !.seen = list_transports(h)]
    IN  [update_transport_status(h) EXCEPT !.cl = [c \in Clients |-> tell(c)]]

SetConnectionState(h, t, s) == update_transports([h EXCEPT !.tr[t].state = s])

(* RunDisconnects: listener_disconnect erases the listener. *)
RunDisconnects(h, t) ==
    [h EXCEPT !.listeners = [n \in Names |-> IF @[n] = t THEN 0 ELSE @[n]]]

handle_offline(h, t) ==
    IF h.tr[t].state = "offline" THEN h
    ELSE LET g == SetConnectionState(h, t, "offline")
         IN  RunDisconnects(
                 close_all_sockets([g EXCEPT !.tr[t].online = FALSE], t), t)

(* handle_new_connection: parse_banner, then handle_online. *)
handle_new_connection(h, t) ==
    LET g == SetConnectionState(handle_offline(h, t), t, "device")
    IN  [g EXCEPT !.tr[t].online = TRUE, !.tr[t].revived = @ \/ ~h.tr[t].running]

(* register_usb_transport and register_socket_transport, on their threads. *)
Arrive(t) ==
    /\ hs.tr[t].list = "none"
    /\ hs' = Post([hs EXCEPT !.tr[t].list = "pending"], "register", t)

(* fdevent_register_transport.  A connection of a USB device may fail to   *)
(* start, which leaves the transport where it is.                          *)
register_quietly(h, t, started) ==
    IF t \notin NoPerm /\ ~started THEN h
    ELSE [h EXCEPT !.tr[t].list = "listed",
                   !.tr[t].running = t \notin NoPerm]

fdevent_register_transport(h, t, started) ==
    IF t \notin NoPerm /\ ~started THEN h
    ELSE update_transports([h EXCEPT !.tr[t].list = "listed",
                                     !.tr[t].running = t \notin NoPerm])

(* fdevent_unregister_transport *)
fdevent_unregister_transport(h, t) ==
    update_transports([h EXCEPT !.tr[t].list = "deleted"])

(* Connection::Stop: the threads are joined, and the first to report ends  *)
(* the connection.                                                         *)
Stop(h, t) ==
    LET g == [h EXCEPT !.tr[t].running = FALSE, !.tr[t].posted = TRUE]
    IN  IF h.tr[t].posted \/ ~h.tr[t].running THEN g ELSE Post(g, "error", t)

(* HandleError's closure: handle_offline, then transport_destroy. *)
HandleError(h, t) ==
    LET g == Stop(handle_offline(h, t), t)
    IN  IF t \notin Usb /\ ~h.tr[t].kicked
        THEN [g EXCEPT !.tr[t].tracked = TRUE]
        ELSE Post(g, "remove", t)

(* kick_transport *)
kick_transport(h, t) ==
    IF h.tr[t].list # "listed" \/ h.tr[t].kicked THEN h
    ELSE Stop([h EXCEPT !.tr[t].kicked = TRUE], t)

(* The looper runs the next closure of its queue. *)
RunClosure ==
    /\ hs.queue # <<>>
    /\ LET f == Head(hs.queue)
           h == [hs EXCEPT !.queue = Tail(@)]
       IN  \/ /\ f.op = "register"
              /\ \E started \in {TRUE} \cup {f.t \notin Usb} :
                     hs' = fdevent_register_transport(h, f.t, started)
           \/ /\ f.op = "cnxn"
              /\ hs' = handle_new_connection(h, f.t)
           \/ /\ f.op = "auth"
              /\ hs' = SetConnectionState(h, f.t, "authorizing")
           \/ /\ f.op = "error"
              /\ hs' = HandleError(h, f.t)
           \/ /\ f.op = "remove"
              /\ hs' = fdevent_unregister_transport(h, f.t)

(* The reader thread hands over a packet; it does so until it is joined,   *)
(* also after the writer has reported an error.                            *)
Packet(t, op) ==
    /\ hs.tr[t].running
    /\ hs.tr[t].packets < MaxPackets
    /\ hs' = Post([hs EXCEPT !.tr[t].packets = @ + 1], op, t)

(* A thread of the connection fails. *)
ConnectionError(t) ==
    /\ hs.tr[t].running
    /\ ~hs.tr[t].posted
    /\ hs' = Post([hs EXCEPT !.tr[t].posted = TRUE], "error", t)

(* The reconnect thread opens a new connection, or gives up. *)
Reconnect(t) ==
    /\ hs.tr[t].tracked
    /\ LET h == [hs EXCEPT !.tr[t].tracked = FALSE]
       IN  \/ hs' = Post([h EXCEPT !.tr[t].posted = FALSE], "register", t)
           \/ hs' = Post(h, "remove", t)

(* unregister_usb_transport, on the thread that scans for devices. *)
Unplug(t) ==
    /\ hs.tr[t].list = "listed"
    /\ hs.tr[t].state = "noperm"
    /\ hs' = [hs EXCEPT !.tr[t].list = "dropped"]

(* adb_notify_device_scan_complete *)
ScanComplete ==
    /\ ~hs.scan
    /\ hs' = update_transport_status([hs EXCEPT !.scan = TRUE])

(* adb_wait_for_device_initialization returns, when everything is ready or *)
(* after three seconds, and the smart socket listener is enabled.          *)
Initialized ==
    /\ ~hs.up
    /\ hs' = [hs EXCEPT !.up = TRUE]

-----------------------------------------------------------------------------
(* Requests.  A client's bytes are handled by smart_socket_enqueue, on an  *)
(* event of its file descriptor.                                           *)

Idle == hs.queue = <<>>

(* What a request names: anything, a type or one transport. *)
Selectors == {Transports, Usb, Transports \ Usb} \cup {{t} : t \in Transports}

(* acquire_one_transport: by id, or the only one of a type. *)
Candidates(h, sel) == (Listed(h) \ NoPerm) \cap sel

acquire_any_state(h, sel) ==
    IF Cardinality(Candidates(h, sel)) = 1
    THEN CHOOSE t \in Candidates(h, sel) : TRUE ELSE 0

acquire_one_transport(h, sel) ==
    LET t == acquire_any_state(h, sel)
    IN  IF t # 0 /\ h.tr[t].state \in {"offline", "authorizing"} THEN 0 ELSE t

(* The transport a request is for: the chosen one, or the one it names. *)
Target(h, c, sel) ==
    IF h.cl[c].transport # 0 THEN h.cl[c].transport
                             ELSE acquire_one_transport(h, sel)

Asks(c) ==
    /\ Idle
    /\ hs.cl[c].pc = "smart"

Asked(c) == [hs EXCEPT !.cl[c].due = 1, !.cl[c].got = <<>>]

(* A request that is answered at once: the status, then the smart socket   *)
(* and with it the client's socket are closed.                             *)
Answer(h, c, ok) == CloseSocket(Status(h, c, IF ok THEN "OKAY" ELSE "FAIL"), c)

(* handle_forward_request: one OKAY for the connection and one as status,  *)
(* or a FAIL.                                                              *)
AskedTwice(c) == [hs EXCEPT !.cl[c].due = 2, !.cl[c].got = <<>>]

(* One without the OKAY for the connection. *)
AnswerOnce(h, c, ok) == Answer(h, c, ok)

AnswerTwice(h, c, ok) == Answer(IF ok THEN Status(h, c, "OKAY") ELSE h, c, ok)

(* ss_listener_event_func *)
Accept(c) ==
    /\ Idle
    /\ hs.up
    /\ hs.cl[c].pc = "none"
    /\ hs' = [hs EXCEPT !.cl[c].pc = "smart"]

(* host:transport and host:tport *)
SwitchTransport(c, sel) ==
    /\ Asks(c)
    /\ LET t == acquire_one_transport(hs, sel)
       IN  hs' = IF t = 0 THEN Answer(Asked(c), c, FALSE)
                 ELSE Status([Asked(c) EXCEPT !.cl[c].transport = t], c, "OKAY")

(* host:features, get-serialno, get-devpath and get-state *)
Query(c, sel) ==
    /\ Asks(c)
    /\ hs' = Answer(Asked(c), c, Target(hs, c, sel) # 0)

(* host:reconnect, for a transport in any state *)
ReconnectRequest(c, sel) ==
    /\ Asks(c)
    /\ LET t == IF hs.cl[c].transport # 0 THEN hs.cl[c].transport
                                          ELSE acquire_any_state(hs, sel)
           h == IF t = 0 THEN Asked(c) ELSE kick_transport(Asked(c), t)
       IN  hs' = Answer(h, c, TRUE)

(* host:disconnect:<serial> *)
Disconnect(c, t) ==
    /\ Asks(c)
    /\ hs' = IF t \notin Listed(hs) THEN Answer(Asked(c), c, FALSE)
             ELSE Answer(kick_transport(Asked(c), t), c, TRUE)

(* host:reconnect-offline, with close_usb_devices, and host:disconnect of  *)
(* everything, with kick_all_tcp_devices.                                  *)
KickAll(h, ts) == FoldSet(LAMBDA t, g : kick_transport(g, t), h, ts)

ReconnectOffline(c) ==
    /\ Asks(c)
    /\ hs' = Answer(KickAll(Asked(c), {t \in Listed(hs) : hs.tr[t].state # "device"}),
                    c, TRUE)

DisconnectAll(c) ==
    /\ Asks(c)
    /\ hs' = Answer(KickAll(Asked(c), Listed(hs) \ Usb), c, TRUE)

(* host:devices, version, server-status, host-features and list-forward *)
Report(c) ==
    /\ Asks(c)
    /\ hs' = Answer(Asked(c), c, TRUE)

(* host:forward, with install_listener: a listener of that name is bound   *)
(* to the new transport unless the client forbids it.                      *)
Forward(c, sel, n, no_rebind) ==
    /\ Asks(c)
    /\ LET t == Target(hs, c, sel)
       IN  hs' = IF t = 0 \/ (no_rebind /\ hs.listeners[n] # 0)
                 THEN AnswerTwice(AskedTwice(c), c, FALSE)
                 ELSE AnswerTwice([AskedTwice(c) EXCEPT !.listeners[n] = t], c, TRUE)

(* host:killforward, with remove_listener, whatever transport it is of *)
KillForward(c, sel, n) ==
    /\ Asks(c)
    /\ LET found == Target(hs, c, sel) # 0 /\ hs.listeners[n] # 0
           h == IF found THEN [AskedTwice(c) EXCEPT !.listeners[n] = 0] ELSE AskedTwice(c)
       IN  hs' = AnswerTwice(h, c, found)

(* host:killforward-all, with remove_all_listeners *)
KillForwardAll(c) ==
    /\ Asks(c)
    /\ hs' = AnswerTwice([AskedTwice(c) EXCEPT !.listeners = [n \in Names |-> 0]], c, TRUE)

(* listener_event_func: a connection to a forwarded port, opened on the    *)
(* transport of the listener.                                              *)
AcceptForward(c, n) ==
    /\ Idle
    /\ hs.cl[c].pc = "none"
    /\ hs.listeners[n] # 0
    /\ hs' = [hs EXCEPT !.cl[c].pc = "stream", !.cl[c].due = 0,
                        !.cl[c].transport = hs.listeners[n]]

(* A service of the device, on the transport the client has chosen. *)
Service(c) ==
    /\ Asks(c)
    /\ LET t == hs.cl[c].transport
       IN  hs' = IF t = 0 \/ hs.tr[t].state # "device"
                 THEN Answer(Asked(c), c, FALSE)
                 ELSE [Asked(c) EXCEPT !.cl[c].pc = "notify"]

(* The device answers the A_OPEN with A_OKAY (local_socket_ready_notify),  *)
(* or closes the stream with A_CLSE.                                       *)
Opened(c) ==
    /\ Idle
    /\ hs.cl[c].pc = "notify"
    /\ hs.tr[hs.cl[c].transport].online
    /\ hs' = Status([hs EXCEPT !.cl[c].pc = "stream"], c, "OKAY")

Closed(c) ==
    /\ Idle
    /\ hs.cl[c].pc \in {"notify", "stream"}
    /\ hs.tr[hs.cl[c].transport].online
    /\ hs' = CloseSocket(hs, c)

(* host:track-devices: create_device_tracker, then device_tracker_ready    *)
(* sends the list for the first time.                                      *)
Track(c) ==
    /\ Asks(c)
    /\ hs' = Status([Asked(c) EXCEPT !.cl[c].pc = "tracker",
                                     !.cl[c].transport = 0,
                                     !.cl[c].seen = list_transports(hs)],
                    c, "OKAY")

(* The client goes away; its socket reports it, or a tracker finds out.    *)
Hangup(c) ==
    /\ hs.cl[c].pc \notin {"none", "closed"}
    /\ ~hs.cl[c].hup
    /\ hs' = [hs EXCEPT !.cl[c].hup = TRUE]

HangupEvent(c) ==
    /\ Idle
    /\ hs.cl[c].hup
    /\ hs.cl[c].pc # "closed"
    /\ hs' = CloseQuietly(hs, c)

(* host:wait-for-<sel>-<state>: a thread of its own. *)
Wait(c, sel, state) ==
    /\ Asks(c)
    /\ hs' = Status([Asked(c) EXCEPT !.cl[c].pc = "wait",
                                     !.cl[c].transport = 0,
                                     !.cl[c].sel = sel, !.cl[c].wait = state],
                    c, "OKAY")

(* wait_service: look the transport up, then, without a lock, at its state *)
(* (a deleted one has any); sleep and try again.                           *)
WaitAcquire(c) ==
    /\ hs.cl[c].pc = "wait"
    /\ hs.cl[c].found = 0
    /\ LET sel == hs.cl[c].sel
           t == acquire_one_transport(hs, sel)
       IN  hs' = IF Cardinality(Candidates(hs, sel)) > 1
                 THEN CloseQuietly([hs EXCEPT !.cl[c].verdict = "FAIL"], c)
                 ELSE IF t = 0 /\ hs.cl[c].wait = "disconnect"
                 THEN CloseQuietly([hs EXCEPT !.cl[c].verdict = "OKAY"], c)
                 ELSE [hs EXCEPT !.cl[c].found = t]

WaitLook(c) ==
    /\ hs.cl[c].pc = "wait"
    /\ hs.cl[c].found # 0
    /\ LET t == hs.cl[c].found
           h == [hs EXCEPT !.cl[c].found = 0]
           done == CloseQuietly([h EXCEPT !.cl[c].verdict = "OKAY"], c)
           is == hs.tr[t].state = "device" \/ hs.tr[t].list = "deleted"
           maynot == hs.tr[t].state # "device" \/ hs.tr[t].list = "deleted"
       IN  \/ /\ hs.cl[c].wait = "device" /\ is
              /\ hs' = done
           \/ /\ hs.cl[c].wait = "disconnect" \/ maynot
              /\ hs' = h

Requests(c) ==
    \/ Accept(c) \/ Service(c) \/ Track(c) \/ KillForwardAll(c)
    \/ ReconnectOffline(c) \/ DisconnectAll(c) \/ Report(c)
    \/ \E t \in Transports : Disconnect(c, t)
    \/ \E sel \in Selectors :
           \/ SwitchTransport(c, sel) \/ Query(c, sel) \/ ReconnectRequest(c, sel)
           \/ \E n \in Names :
                  \/ \E no_rebind \in BOOLEAN : Forward(c, sel, n, no_rebind)
                  \/ KillForward(c, sel, n)
           \/ \E state \in {"device", "disconnect"} : Wait(c, sel, state)

Next ==
    \/ RunClosure \/ ScanComplete \/ Initialized
    \/ \E t \in Transports :
           \/ Arrive(t) \/ ConnectionError(t) \/ Reconnect(t) \/ Unplug(t)
           \/ \E op \in {"cnxn", "auth"} : Packet(t, op)
    \/ \E c \in Clients :
           \/ Requests(c) \/ Opened(c) \/ Closed(c) \/ Hangup(c)
           \/ HangupEvent(c) \/ WaitAcquire(c) \/ WaitLook(c)
           \/ \E n \in Names : AcceptForward(c, n)

Spec == Init /\ [][Next]_hs

-----------------------------------------------------------------------------
(* Type invariant. *)
TypeOK ==
    /\ \A t \in Transports :
           /\ hs.tr[t].list \in {"none", "pending", "listed", "dropped", "deleted"}
           /\ hs.tr[t].state \in {"noperm", "offline", "authorizing", "device"}
    /\ \A c \in Clients :
           /\ hs.cl[c].pc \in {"none", "smart", "notify", "stream", "tracker",
                               "wait", "closed"}
           /\ hs.cl[c].transport \in Transports \cup {0}
    /\ hs.listeners \in [Names -> Transports \cup {0}]

(* Nobody keeps a pointer to a transport that fdevent_unregister_transport *)
(* has deleted: no client's socket, no smart socket that chose it, no      *)
(* listener and no closure that waits in the run queue. Excepted is a TCP  *)
(* device whose A_CNXN was still queued when its connection ended: it is   *)
(* usable again while a new connection is tried, and giving up             *)
(* (ReconnectHandler::Run) closes nothing (transport.cpp:784).             *)
NoDangling ==
    \A t \in Transports : hs.tr[t].list = "deleted" =>
        /\ \A i \in DOMAIN hs.queue : hs.queue[i].t # t
        /\ (t \in Usb \/ ~hs.tr[t].revived) =>
            /\ \A c \in Clients : hs.cl[c].transport # t
            /\ \A n \in Names : hs.listeners[n] # t

(* What a client has been sent is one FAIL or as many OKAYs as its request *)
(* is due, and a client that did not hang up is not closed before it has   *)
(* all of them (local_socket_close_notify, handle_forward_request).        *)
Answers(due) == {[i \in 1 .. due |-> "OKAY"]} \cup (IF due = 0 THEN {} ELSE {<<"FAIL">>})

Answered ==
    \A c \in Clients :
        /\ hs.cl[c].got \in Answers(hs.cl[c].due) \cup {<<>>}
        /\ hs.cl[c].pc = "closed" /\ ~hs.cl[c].hup =>
               hs.cl[c].got \in Answers(hs.cl[c].due)

(* The last list a tracker was sent is the list of transports and of their *)
(* states as it is, but for devices the server may not open and that have  *)
(* left since: unregister_usb_transport sends no list (transport.cpp:1691).*)
TrackerSeesLatest ==
    \A c \in Clients : hs.cl[c].pc = "tracker" =>
        LET now == list_transports(hs)
        IN  \A t \in Transports : hs.tr[t].list # "dropped" =>
                /\ t \in DOMAIN hs.cl[c].seen <=> t \in DOMAIN now
                /\ t \in DOMAIN now => hs.cl[c].seen[t] = now[t]
=============================================================================
