---------------------------- MODULE ServerLaunch ----------------------------
(***************************************************************************)
(* How adb clients find, replace and start the one adb server of a port    *)
(* (client/adb_client.cpp, launch_server in adb.cpp, client/main.cpp).     *)
(*                                                                         *)
(* Server 0 may be there from the start; server c is the one that client c *)
(* launches, at most one.  Connecting succeeds as soon as a server listens *)
(* on the port; the request is answered once that server accepts, or the   *)
(* connection ends with the server.                                        *)
(***************************************************************************)
EXTENDS Integers

CONSTANTS Clients,      \* 1 .. n
          Version,      \* Version[c]: of the adb that client c runs
          Old,          \* the version of server 0, or 0 when there is none
          Killers,      \* the clients that run adb kill-server
          Interrupts,   \* the clients that the user may stop
          Reject,       \* ADB_REJECT_KILL_SERVER of server 0
          Windows,      \* clients start servers as on Windows
          Linux         \* newer servers are executed by older clients

VARIABLE sl

Servers == {0} \cup Clients
Nobody == -1

Init ==
    sl = [port |-> IF Old = 0 THEN Nobody ELSE 0, file |-> Old,
          srv |-> [p \in Servers |->
                      [pc |-> IF p = 0 /\ Old # 0 THEN "up" ELSE "none",
                       v |-> IF p = 0 THEN Old ELSE 0, acked |-> FALSE, wrote |-> p = 0]],
          cl |-> [c \in Clients |->
                     [pc |-> IF c \in Killers THEN "kill" ELSE "start", v |-> Version[c],
                      re |-> FALSE, conn |-> Nobody]]]

Client(c, pc) == sl.cl[c].pc = pc
Server(p, pc) == sl.srv[p].pc = pc
Peer(c) == sl.srv[sl.cl[c].conn].pc
Goes(s, c, pc) == [s EXCEPT !.cl[c].pc = pc]

(***************************************************************************)
(* A client.                                                               *)
(***************************************************************************)
\* _adb_connect: then is the step after a connection, refused the one without.
_adb_connect(c, then, refused) ==
    sl' = IF sl.port = Nobody THEN Goes(sl, c, refused)
          ELSE Goes([sl EXCEPT !.cl[c].conn = sl.port], c, then)

check_server_version(c) == Client(c, "start") /\ _adb_connect(c, "asked", "launch")

\* A plausible slip: the other server is left alone.
version_unkilled(c) ==
    /\ Client(c, "asked") /\ Peer(c) = "up"
    /\ sl' = Goes(sl, c, IF sl.srv[sl.cl[c].conn].v = sl.cl[c].v THEN "checked" ELSE "launch")

\* The answer to host:version.  An older client turns into the newer adb whose
\* path the server wrote, once; when that fails, and in all other cases of a
\* mismatch, it kills the server.
version_answered(c) ==
    LET v == sl.srv[sl.cl[c].conn].v
        me == sl.cl[c]
        reexec == v > me.v /\ Linux /\ ~me.re
    IN /\ Client(c, "asked") /\ Peer(c) = "up"
       /\ \/ v = me.v /\ sl' = Goes(sl, c, "checked")
          \/ v # me.v /\ sl' = Goes([sl EXCEPT !.cl[c].re = @ \/ reexec], c, "kill")
          \/ reexec /\ sl.file # 0
             /\ sl' = [sl EXCEPT !.cl[c] = [pc |-> "start", v |-> sl.file, re |-> TRUE, conn |-> Nobody]]

\* adb_status: the connection ends without an answer.
status_fails(c) ==
    /\ sl.cl[c].pc \in {"asked", "command"} /\ Peer(c) = "dead"
    /\ sl' = Goes(sl, c, "failed")

AfterKill(c) == IF c \in Killers THEN "ok" ELSE "launch"

adb_kill_server(c) == Client(c, "kill") /\ _adb_connect(c, "killing", AfterKill(c))

\* A plausible slip: the client does not wait for the end of the server.
server_closed_at_once(c) == Client(c, "closing") /\ sl' = Goes(sl, c, AfterKill(c))

\* ReadOrderlyShutdown; what adb_kill_server returns is not looked at.
server_closed(c) ==
    /\ \/ Client(c, "closing") /\ Peer(c) = "dead" /\ sl' = Goes(sl, c, AfterKill(c))
       \/ /\ Client(c, "killing") /\ Peer(c) = "dead"
          /\ sl' = Goes(sl, c, IF c \in Killers THEN "failed" ELSE "launch")
       \/ /\ Client(c, "killing") /\ sl.cl[c].conn = 0 /\ Reject /\ Peer(c) = "up"
          /\ sl' = Goes(sl, c, IF c \in Killers THEN "failed" ELSE "launch")

\* A plausible slip: the client does not wait for the server.
launch_detached(c) ==
    /\ Client(c, "launch")
    /\ sl' = Goes([sl EXCEPT !.srv[c] = [pc |-> "launched", v |-> sl.cl[c].v,
                                         acked |-> FALSE, wrote |-> FALSE]], c, "checked")

launch_server(c) ==
    /\ Client(c, "launch")
    /\ sl' = Goes([sl EXCEPT !.srv[c] = [pc |-> "launched", v |-> sl.cl[c].v,
                                         acked |-> FALSE, wrote |-> FALSE]], c, "waiting")

\* The parent side of the fork: OK, or the end of the pipe with the server.
read_ack(c) ==
    /\ Client(c, "waiting") /\ ~Windows
    /\ \/ sl.srv[c].acked /\ sl' = Goes(sl, c, "checked")
       \/ ~sl.srv[c].acked /\ Server(c, "dead") /\ sl' = Goes(sl, c, "failed")

\* On Windows the client goes on to wait for the threads that copy the output
\* of the server, whether or not it got the OK ...
read_ack_windows(c) ==
    /\ Client(c, "waiting") /\ Windows /\ (sl.srv[c].acked \/ Server(c, "dead"))
    /\ sl' = Goes(sl, c, "joining")

\* ... which end when the server has closed the pipes, in setup_daemon_logging
\* or with its end ...
redirect_ended(c) == ~Server(c, "launched")

\* ... or it gives up after 15 s.
join_threads(c) ==
    /\ Client(c, "joining")
    /\ sl' = Goes(sl, c, IF redirect_ended(c) /\ sl.srv[c].acked THEN "checked" ELSE "failed")

adb_connect(c) == Client(c, "checked") /\ _adb_connect(c, "command", "failed")
command_answered(c) == Client(c, "command") /\ Peer(c) = "up" /\ sl' = Goes(sl, c, "ok")

Interrupt(c) ==
    /\ c \in Interrupts /\ sl.cl[c].pc \notin {"ok", "failed"}
    /\ sl' = Goes(sl, c, "failed")

(***************************************************************************)
(* A server: adb_server_main, its notify_thread, and exit(0).              *)
(***************************************************************************)
setup_daemon_logging(p) == Server(p, "launched") /\ sl' = [sl EXCEPT !.srv[p].pc = "binding"]

\* install_listener is tried for half a second.
install_listener(p) ==
    /\ Server(p, "binding")
    /\ \/ sl.port = Nobody /\ sl' = [sl EXCEPT !.port = p, !.srv[p].pc = "bound"]
       \/ sl.port # Nobody /\ sl' = [sl EXCEPT !.srv[p].pc = "dead"]

Died(s, p) == [s EXCEPT !.srv[p].pc = "dead", !.port = IF @ = p THEN Nobody ELSE @]

\* A plausible slip: the server reports before it has the port.
notify_early(p) ==
    /\ sl.srv[p].pc \in {"binding", "bound"} /\ ~sl.srv[p].acked
    /\ sl' = [sl EXCEPT !.srv[p].acked = TRUE]

\* The end of adb_wait_for_device_initialization, or its 3 s; a client that no
\* longer reads the pipe makes the write fail, which is fatal.
notify_thread(p) ==
    /\ Server(p, "bound") /\ ~sl.srv[p].acked
    /\ sl' = IF Client(p, "waiting") THEN [sl EXCEPT !.srv[p].acked = TRUE] ELSE Died(sl, p)

write_server_path(p) ==
    /\ Server(p, "bound") /\ ~sl.srv[p].wrote
    /\ sl' = [sl EXCEPT !.srv[p].wrote = TRUE, !.file = sl.srv[p].v]

\* A plausible slip: the sockets are enabled before the looper starts.
enable_early(p) == Server(p, "bound") /\ sl.srv[p].acked /\ sl' = [sl EXCEPT !.srv[p].pc = "up"]

\* On the looper, which starts after the path is written.
enable_server_sockets(p) ==
    /\ Server(p, "bound") /\ sl.srv[p].acked /\ sl.srv[p].wrote
    /\ sl' = [sl EXCEPT !.srv[p].pc = "up"]

\* host:kill of client c.
handle_kill(c) ==
    /\ Client(c, "killing") /\ Peer(c) = "up" /\ ~(Reject /\ sl.cl[c].conn = 0)
    /\ sl' = Goes([sl EXCEPT !.srv[sl.cl[c].conn].pc = "exiting"], c, "closing")

\* exit(0): adb_server_cleanup closes the listener first; the connections end
\* with the process.
adb_server_cleanup(p) ==
    /\ Server(p, "exiting")
    /\ \/ sl.port = p /\ sl' = [sl EXCEPT !.port = Nobody]
       \/ sl.port # p /\ sl' = [sl EXCEPT !.srv[p].pc = "dead"]

ClientSteps(c) ==
    \/ check_server_version(c) \/ version_answered(c) \/ status_fails(c) \/ adb_kill_server(c)
    \/ server_closed(c) \/ launch_server(c) \/ read_ack(c) \/ read_ack_windows(c)
    \/ join_threads(c) \/ adb_connect(c) \/ command_answered(c) \/ handle_kill(c)

ServerSteps(p) ==
    \/ setup_daemon_logging(p) \/ install_listener(p) \/ write_server_path(p)
    \/ enable_server_sockets(p) \/ adb_server_cleanup(p)

NotifySteps(p) == p # 0 /\ notify_thread(p)

Next ==
    \/ \E c \in Clients : ClientSteps(c) \/ Interrupt(c)
    \/ \E p \in Servers : ServerSteps(p) \/ NotifySteps(p)

Spec == Init /\ [][Next]_sl

(***************************************************************************)
(* Properties.                                                             *)
(***************************************************************************)
\* Type invariant.
TypeOK ==
    /\ sl.port \in Servers \cup {Nobody}
    /\ \A p \in Servers : sl.srv[p].pc \in {"none", "launched", "binding", "bound", "up", "exiting", "dead"}
    /\ \A c \in Clients : /\ sl.cl[c].pc \in {"start", "asked", "kill", "killing", "closing", "launch",
                                              "waiting", "joining", "checked", "command", "ok", "failed"}
                          /\ sl.cl[c].conn \in Servers \cup {Nobody}

\* "daemon started successfully" is true: the server that sent OK has the port
\* until it is told to exit (adb_server_main, launch_server).
StartedHasPort ==
    \A c \in Clients : sl.srv[c].acked /\ sl.srv[c].pc \notin {"exiting", "dead"} => sl.port = c

\* The path that older clients execute is that of the server that answered
\* them (write_server_path before the looper accepts, adb_server_main).
FileNamesServer == \A p \in Servers : Server(p, "up") => sl.file = sl.srv[p].v

\* A client fails to start a server only because another one that it could use
\* has the port, when all adbs are of one version and nobody kills
\* (install_listener, launch_server, __adb_check_server_version).
FailsOnlyBesideServer ==
    (\E c \in Clients : Client(c, "failed")) => sl.port # Nobody

\* One newer client replaces the old server at the first attempt: the old one
\* has left the port when the new one asks for it, whether or not it is patient
\* (adb_kill_server, adb_server_cleanup, adb_server_main).
UpgradeSucceeds == \A c \in Clients : ~Client(c, "failed")

\* adb kill-server returns success only when the server that it spoke to has
\* gone (adb_kill_server, ReadOrderlyShutdown).
KilledIsGone ==
    \A c \in Killers : Client(c, "ok") /\ sl.cl[c].conn # Nobody => Peer(c) = "dead"
=============================================================================
