---------------------------- MODULE AdbTransport ----------------------------
(***************************************************************************)
(* The life of a TCP atransport in the host server: the reader and writer  *)
(* threads of its BlockingConnectionAdapter, the thread of a TLS           *)
(* handshake, the run queue of the looper, and the ReconnectHandler that   *)
(* gives the transport a new connection when one has failed.               *)
(*                                                                         *)
(* Source: transport.cpp, client/auth.cpp, client/transport_emulator.cpp.  *)
(* A step of a thread is what it does between two points where it waits    *)
(* for a lock, a condition, another thread or the peer.                    *)
(***************************************************************************)
EXTENDS Integers, Sequences, FiniteSets

CONSTANTS
    MaxConn,      \* bound: connections of the transport, the first one included
    MaxAttempts   \* kMaxAttempts

ASSUME TransportAssumption == MaxConn \in Nat \ {0} /\ MaxAttempts \in Nat

VARIABLES
    queue,   \* the run queue of the looper
    call,    \* the call of Stop() that a thread is in
    conn,    \* the adapters
    tls,     \* the threads of adb_auth_tls_handshake, by the connection that caused them
    tr,      \* the atransport
    rec,     \* the ReconnectHandler
    exit     \* adb_server_cleanup: "no", "join", "kick", "done"

vars == <<queue, call, conn, tls, tr, rec, exit>>

Conns == 1..MaxConn
Looper == 0
Threads == {Looper} \cup Conns     \* the callers of Stop: the looper, the TLS threads
None == 0

Readers == Threads       \* of one connection: named after the thread that started them
Nobody == -1             \* a std::thread that is not running

Adapter == [started : BOOLEAN, stopped : BOOLEAN,
            mutex : 0..MaxConn,                 \* the TLS thread that holds mutex_
            error : BOOLEAN,                    \* error_flag_
            reader : [Readers -> {"none", "reading", "leaving", "done"}],
            read_thread : {Nobody} \cup Readers,   \* which of them read_thread_ is
            writer : {"none", "waiting", "CNXN", "STLS", "done"},
            write_thread : BOOLEAN,
            write_queue : Seq({"CNXN", "STLS"}),
            closed : BOOLEAN,                   \* underlying_->Close() was called
            sent : BOOLEAN,                     \* the A_STLS was written to the fd
            got : BOOLEAN,                      \* the peer's A_STLS was read
            peer : BOOLEAN,                     \* the peer has not hung up
            stray : BOOLEAN,                    \* see tls_lock
            fatal : BOOLEAN]                    \* a std::thread was overwritten

NewAdapter == [started |-> FALSE, stopped |-> FALSE, mutex |-> None, error |-> FALSE,
               reader |-> [i \in Readers |-> "none"], read_thread |-> Nobody,
               writer |-> "none", write_thread |-> FALSE, write_queue |-> <<>>,
               closed |-> FALSE, sent |-> FALSE, got |-> FALSE, peer |-> TRUE,
               stray |-> FALSE, fatal |-> FALSE]

NoCall == [pc |-> "none", c |-> None, r |-> Nobody, k |-> "none"]

Closure(op, c) == [op |-> op, c |-> c]

(* register_socket_transport has queued the registration.                   *)
Init ==
    /\ queue = <<Closure("register", 1)>>
    /\ call = [th \in Threads |-> NoCall]
    /\ conn = [c \in Conns |-> NewAdapter]
    /\ tls = [i \in Conns |-> [pc |-> "none", c |-> None]]
    /\ tr = [cur |-> 1, kicked |-> FALSE, list |-> "pending",
             deleted |-> FALSE]
    /\ rec = [running |-> TRUE, pc |-> "top", timed |-> FALSE, notified |-> FALSE,
              tracked |-> FALSE, left |-> 0]
    /\ exit = "no"

-----------------------------------------------------------------------------
(* BlockingConnectionAdapter.                                               *)
Free(c) == conn[c].mutex = None

(* Mutant: no error_flag_.                                                  *)
HandleError_unflagged(c) == queue' = Append(queue, Closure("error", c))

(* call_once(error_flag_): HandleError posts a closure to the looper.       *)
HandleError(c) ==
    queue' = IF conn[c].error THEN queue ELSE Append(queue, Closure("error", c))

(* Assigning to a std::thread that can still be joined ends the process.    *)
StartReadThread(a, th) ==
    [a EXCEPT !.reader[th] = "reading", !.fatal = @ \/ a.read_thread # Nobody,
              !.read_thread = th]

Start(a) == [StartReadThread(a, Looper) EXCEPT
                !.started = TRUE, !.writer = "waiting", !.write_thread = TRUE]

Write(a, p) == [a EXCEPT !.write_queue = Append(@, p)]

(* FdConnection: Read and Write fail once either side has closed.           *)
Broken(c) == conn[c].closed \/ ~conn[c].peer

HandleRead(c) == queue' = Append(queue, Closure("STLS", c))

(* The read thread gets an A_STLS, after which it leaves.                   *)
read_stls(c, i) ==
    /\ conn[c].reader[i] = "reading"
    /\ ~Broken(c) /\ ~conn[c].got
    /\ conn' = [conn EXCEPT ![c].got = TRUE, ![c].reader[i] = "leaving"]
    /\ HandleRead(c)
    /\ UNCHANGED <<call, tls, tr, rec, exit>>

reader_leaves(c, i) ==
    /\ conn[c].reader[i] = "leaving"
    /\ conn' = [conn EXCEPT ![c].reader[i] = "done"]
    /\ UNCHANGED <<queue, call, tls, tr, rec, exit>>

read_failed(c, i) ==
    /\ conn[c].reader[i] = "reading"
    /\ Broken(c)
    /\ HandleError(c)
    /\ conn' = [conn EXCEPT ![c].reader[i] = "done", ![c].error = TRUE]
    /\ UNCHANGED <<call, tls, tr, rec, exit>>

(* Mutant: the wait of the write thread is for the queue only.              *)
writer_wakes_unstopped(c) ==
    /\ conn[c].writer = "waiting" /\ Free(c)
    /\ conn[c].write_queue # <<>>
    /\ conn' = IF conn[c].stopped THEN [conn EXCEPT ![c].writer = "done"]
               ELSE [conn EXCEPT ![c].writer = Head(conn[c].write_queue),
                                 ![c].write_queue = Tail(@)]
    /\ UNCHANGED <<queue, call, tls, tr, rec, exit>>

(* The write thread takes a packet, or leaves because of stopped_.          *)
writer_wakes(c) ==
    /\ conn[c].writer = "waiting" /\ Free(c)
    /\ \/ /\ conn[c].stopped
          /\ conn' = [conn EXCEPT ![c].writer = "done"]
       \/ /\ ~conn[c].stopped /\ conn[c].write_queue # <<>>
          /\ conn' = [conn EXCEPT ![c].writer = Head(conn[c].write_queue),
                                  ![c].write_queue = Tail(@)]
    /\ UNCHANGED <<queue, call, tls, tr, rec, exit>>

writer_writes(c) ==
    /\ conn[c].writer \in {"CNXN", "STLS"}
    /\ IF Broken(c)
       THEN /\ HandleError(c)
            /\ conn' = [conn EXCEPT ![c].writer = "done", ![c].error = TRUE]
       ELSE /\ conn' = [conn EXCEPT ![c].writer = "waiting",
                                    ![c].sent = @ \/ conn[c].writer = "STLS"]
            /\ UNCHANGED queue
    /\ UNCHANGED <<call, tls, tr, rec, exit>>

-----------------------------------------------------------------------------
(* Stop(), called by thread th: each step holds mutex_ or waits.            *)
Calls(th, pc) == call[th].pc = pc

Stop(th, k) == call' = [call EXCEPT ![th] = [pc |-> "lock", c |-> tr.cur, r |-> Nobody, k |-> k]]

stop_lock(th) ==
    /\ Calls(th, "lock")
    /\ LET c == call[th].c
       IN  /\ Free(c)
           /\ IF ~conn[c].started \/ conn[c].stopped
              THEN call' = [call EXCEPT ![th].pc = "return"] /\ UNCHANGED conn
              ELSE /\ call' = [call EXCEPT ![th].pc = "close"]
                   /\ conn' = [conn EXCEPT ![c].stopped = TRUE]
    /\ UNCHANGED <<queue, tls, tr, rec, exit>>

stop_close(th) ==
    /\ Calls(th, "close")
    /\ conn' = [conn EXCEPT ![call[th].c].closed = TRUE]
    /\ call' = [call EXCEPT ![th].pc = "move"]
    /\ UNCHANGED <<queue, tls, tr, rec, exit>>

(* Mutant: only the write thread is joined.                                 *)
stop_move_writer(th) ==
    /\ Calls(th, "move") /\ Free(call[th].c)
    /\ call' = [call EXCEPT ![th].pc = "join"]
    /\ conn' = [conn EXCEPT ![call[th].c].write_thread = FALSE]
    /\ UNCHANGED <<queue, tls, tr, rec, exit>>

stop_move(th) ==
    /\ Calls(th, "move") /\ Free(call[th].c)
    /\ LET c == call[th].c
       IN  /\ call' = [call EXCEPT ![th].pc = "join", ![th].r = conn[c].read_thread]
           /\ conn' = [conn EXCEPT ![c].read_thread = Nobody, ![c].write_thread = FALSE]
    /\ UNCHANGED <<queue, tls, tr, rec, exit>>

stop_join(th) ==
    /\ Calls(th, "join")
    /\ LET c == call[th].c
       IN  /\ call[th].r # Nobody => conn[c].reader[call[th].r] = "done"
           /\ conn[c].writer = "done"
           /\ HandleError(c)
           /\ conn' = [conn EXCEPT ![c].error = TRUE]
    /\ call' = [call EXCEPT ![th].pc = "return"]
    /\ UNCHANGED <<tls, tr, rec, exit>>
-----------------------------------------------------------------------------
(* The looper.  A closure that calls Stop goes on in looper_returns.        *)
LooperIdle == Calls(Looper, "none") /\ exit = "no"

Runs(op) ==
    /\ LooperIdle
    /\ queue # <<>> /\ Head(queue).op = op
    /\ queue' = Tail(queue)

(* notify_one of reconnect_cv_ is lost when the thread is not waiting.      *)
notify(r) == [r EXCEPT !.notified = @ \/ r.pc = "waiting"]

fdevent_register_transport ==
    /\ Runs("register") /\ Free(tr.cur)
    /\ conn' = [conn EXCEPT ![tr.cur] = Write(Start(@), "CNXN")]   \* send_connect
    /\ tr' = [tr EXCEPT !.list = "transport"]
    /\ UNCHANGED <<call, tls, rec, exit>>

fdevent_unregister_transport ==
    /\ Runs("unregister")
    /\ tr' = [tr EXCEPT !.list = "none", !.deleted = TRUE]
    /\ UNCHANGED <<call, conn, tls, rec, exit>>

(* handle_packet: A_STLS is answered, and a thread does the handshake.      *)
packet_stls ==
    /\ Runs("STLS")
    /\ Free(tr.cur)
    /\ conn' = [conn EXCEPT ![tr.cur] = Write(@, "STLS")]
    /\ tls' = [tls EXCEPT ![Head(queue).c].pc = "start"]
    /\ UNCHANGED <<call, tr, rec, exit>>

(* The closure of HandleError: handle_offline, transport_destroy.           *)
transport_destroy ==
    /\ Runs("error")
    /\ Stop(Looper, "destroy")
    /\ UNCHANGED <<conn, tls, tr, rec, exit>>

(* Kick() by the looper, for a client's "disconnect:" or "reconnect"        *)
(* (Reset closes the fd first, which Stop does next anyway), and            *)
(* CheckForKicked, which looper_returns does when there is a Stop to wait   *)
(* for.                                                                     *)
kick_transport ==
    /\ LooperIdle
    /\ IF tr.list = "transport" /\ ~tr.kicked
       THEN Stop(Looper, "kick") /\ tr' = [tr EXCEPT !.kicked = TRUE] /\ UNCHANGED rec
       ELSE rec' = notify(rec) /\ UNCHANGED <<call, tr>>
    /\ UNCHANGED <<queue, conn, tls, exit>>

(* Mutant: the ReconnectHandler is not notified.                            *)
TrackTransport_silent(r) ==
    IF ~r.running THEN r ELSE [r EXCEPT !.tracked = TRUE, !.left = MaxAttempts]

TrackTransport(r) ==
    IF ~r.running THEN r
    ELSE notify([r EXCEPT !.tracked = TRUE, !.left = MaxAttempts])

(* Stop has returned to transport_destroy, which hands the transport over   *)
(* or removes it, to kick_transport, which wakes the handler, or to         *)
(* kick_all_transports.                                                     *)
looper_returns ==
    /\ Calls(Looper, "return")
    /\ call' = [call EXCEPT ![Looper] = NoCall]
    /\ CASE call[Looper].k = "destroy" /\ tr.kicked ->
              queue' = Append(queue, Closure("unregister", tr.cur)) /\ UNCHANGED <<rec, exit>>
         [] call[Looper].k = "destroy" /\ ~tr.kicked ->
              rec' = TrackTransport(rec) /\ UNCHANGED <<queue, exit>>
         [] call[Looper].k = "kick" -> rec' = notify(rec) /\ UNCHANGED <<queue, exit>>
         [] call[Looper].k = "exit" -> exit' = "done" /\ UNCHANGED <<queue, rec>>
    /\ UNCHANGED <<conn, tls, tr>>

(* The server exits: kick_all_transports stops the handler, joins its       *)
(* thread, and kicks the transport.                                         *)
ReconnectHandler_Stop ==
    /\ LooperIdle
    /\ rec' = notify([rec EXCEPT !.running = FALSE])
    /\ exit' = "join"
    /\ UNCHANGED <<queue, call, conn, tls, tr>>

kick_all_transports ==
    /\ exit = "join" /\ rec.pc = "exited"
    /\ rec' = [rec EXCEPT !.tracked = FALSE]
    /\ queue' = IF rec.tracked THEN Append(queue, Closure("unregister", tr.cur)) ELSE queue
    /\ IF tr.list = "transport" /\ ~tr.kicked
       THEN Stop(Looper, "exit") /\ exit' = "kick" /\ tr' = [tr EXCEPT !.kicked = TRUE]
       ELSE exit' = "done" /\ UNCHANGED <<call, tr>>
    /\ UNCHANGED <<conn, tls>>

-----------------------------------------------------------------------------
(* adb_auth_tls_handshake: a thread that DoTlsHandshake blocks.             *)

(* DoTlsHandshake: take mutex_ of the connection the transport has by now.  *)
(* A stray handshake is one on a connection that has been stopped, or that  *)
(* is not the one on which the A_STLS came.                                 *)
tls_lock(i) ==
    /\ tls[i].pc = "start" /\ ~tr.deleted /\ Free(tr.cur)
    /\ tls' = [tls EXCEPT ![i] = [pc |-> "locked", c |-> tr.cur]]
    /\ conn' = [conn EXCEPT ![tr.cur].mutex = i,
                            ![tr.cur].stray = @ \/ conn[tr.cur].stopped \/ tr.cur # i]
    /\ UNCHANGED <<queue, call, tr, rec, exit>>

(* Mutant: the read thread is detached, not joined.                         *)
tls_join_detached(i) ==
    /\ tls[i].pc = "locked"
    /\ conn' = [conn EXCEPT ![tls[i].c].read_thread = Nobody]
    /\ tls' = [tls EXCEPT ![i].pc = "shaking"]
    /\ UNCHANGED <<queue, call, tr, rec, exit>>

tls_join(i) ==
    /\ tls[i].pc = "locked"
    /\ LET c == tls[i].c
           r == conn[c].read_thread
       IN  /\ r # Nobody => conn[c].reader[r] = "done"
           /\ conn' = [conn EXCEPT ![c].read_thread = Nobody]
    /\ tls' = [tls EXCEPT ![i].pc = "shaking"]
    /\ UNCHANGED <<queue, call, tr, rec, exit>>

(* FdConnection's handshake succeeds only with a peer that got the A_STLS.  *)
MaySucceed(c) == ~Broken(c) /\ conn[c].sent

tls_ends(i) ==
    /\ tls[i].pc = "shaking"
    /\ LET c == tls[i].c
           a == [StartReadThread(conn[c], i) EXCEPT !.mutex = None]
       IN  /\ conn' = [conn EXCEPT ![c] = a]
           /\ \/ /\ MaySucceed(c)
                 /\ tls' = [tls EXCEPT ![i].pc = "done"]
              \/ tls' = [tls EXCEPT ![i].pc = "failed"]
    /\ UNCHANGED <<queue, call, tr, rec, exit>>

(* A failed handshake kicks the transport, from this thread.                *)
tls_kick(i) ==
    /\ tls[i].pc = "failed" /\ ~tr.deleted
    /\ tls' = [tls EXCEPT ![i].pc = IF tr.kicked THEN "done" ELSE "kicking"]
    /\ tr' = [tr EXCEPT !.kicked = TRUE]
    /\ IF tr.kicked THEN UNCHANGED call ELSE Stop(i, "kick")
    /\ UNCHANGED <<queue, conn, rec, exit>>

tls_returns(i) ==
    /\ Calls(i, "return")
    /\ call' = [call EXCEPT ![i] = NoCall]
    /\ tls' = [tls EXCEPT ![i].pc = "done"]
    /\ UNCHANGED <<queue, conn, tr, rec, exit>>

-----------------------------------------------------------------------------
(* ReconnectHandler::Run.  The wait has no predicate: neither running_ nor  *)
(* the queue is looked at between taking the lock and waiting, but for the  *)
(* choice of a wait with or without a time limit.                           *)
run_waits ==
    /\ rec.pc = "top"
    /\ rec' = [rec EXCEPT !.pc = "waiting", !.timed = rec.tracked]
    /\ UNCHANGED <<queue, call, conn, tls, tr, exit>>

(* Woken up: leave, give up a kicked transport, sleep again, or try.  The   *)
(* time of the next attempt has come if the wait timed out.                 *)
run_wakes(due) ==
    /\ rec.pc = "waiting"
    /\ rec.notified \/ (rec.timed /\ due)
    /\ IF rec.running /\ rec.tracked /\ tr.kicked
       THEN queue' = Append(queue, Closure("unregister", tr.cur)) ELSE UNCHANGED queue
    /\ LET r == [rec EXCEPT !.pc = "top", !.timed = FALSE, !.notified = FALSE]
       IN  rec' = IF ~rec.running THEN [r EXCEPT !.pc = "exited"]
                  ELSE IF rec.tracked /\ tr.kicked THEN [r EXCEPT !.tracked = FALSE, !.left = 0]
                  ELSE IF ~rec.tracked \/ ~due THEN r
                  ELSE [r EXCEPT !.pc = "reconnecting", !.tracked = FALSE]
    /\ UNCHANGED <<call, conn, tls, tr, exit>>

(* Mutant: the attempts are not counted.                                    *)
reconnect_retry_uncounted ==
    /\ rec.pc = "reconnecting"
    /\ rec' = [rec EXCEPT !.pc = "top", !.tracked = TRUE, !.left = @ - 1]
    /\ UNCHANGED <<queue, call, conn, tls, tr, exit>>

(* Reconnect() returns Retry: it is out of attempts, or tries again later.  *)
reconnect_retry ==
    /\ rec.pc = "reconnecting"
    /\ IF rec.left = 0
       THEN /\ queue' = Append(queue, Closure("unregister", tr.cur))
            /\ rec' = [rec EXCEPT !.pc = "top", !.left = 0]
       ELSE /\ rec' = [rec EXCEPT !.pc = "top", !.tracked = TRUE, !.left = @ - 1]
            /\ UNCHANGED queue
    /\ UNCHANGED <<call, conn, tls, tr, exit>>

(* What is left of a destroyed adapter.  Its destructor calls Stop, which   *)
(* has nothing to do by ThreadsJoined.                                      *)
Destroyed(a) ==
    [a EXCEPT !.closed = TRUE, !.peer = FALSE, !.error = TRUE, !.mutex = None,
              !.reader = [i \in Readers |-> "none"], !.writer = "none",
              !.write_queue = <<>>, !.sent = FALSE, !.got = FALSE]

(* A TLS thread has a reference of its own.                                 *)
Held(c) == \/ \E i \in Conns : tls[i].c = c /\ tls[i].pc \in {"locked", "shaking"}
           \/ \E th \in Threads : call[th].c = c

(* Success: the transport has a new connection, registered on the looper.   *)
reconnect_success ==
    /\ rec.pc = "reconnecting" /\ tr.cur < MaxConn
    /\ tr' = [tr EXCEPT !.cur = @ + 1]
    /\ conn' = IF Held(tr.cur) THEN conn ELSE [conn EXCEPT ![tr.cur] = Destroyed(@)]
    /\ queue' = Append(queue, Closure("register", tr.cur + 1))
    /\ rec' = [rec EXCEPT !.pc = "top", !.left = 0]
    /\ UNCHANGED <<call, tls, exit>>

(* Abort: the address was an mDNS service.                                  *)
reconnect_abort ==
    /\ rec.pc = "reconnecting"
    /\ queue' = Append(queue, Closure("unregister", tr.cur))
    /\ rec' = [rec EXCEPT !.pc = "top", !.left = 0]
    /\ UNCHANGED <<call, conn, tls, tr, exit>>

-----------------------------------------------------------------------------
(* External: the peer hangs up.                                             *)
Hangup(c) ==
    /\ conn[c].started /\ ~conn[c].closed /\ conn[c].peer
    /\ conn' = [conn EXCEPT ![c].peer = FALSE]
    /\ UNCHANGED <<queue, call, tls, tr, rec, exit>>

(* exit() and std::terminate end every thread.                              *)
Alive == exit # "done" /\ \A c \in Conns : ~conn[c].fatal

StopSteps(th) == stop_lock(th) \/ stop_close(th) \/ stop_move(th) \/ stop_join(th)

LooperSteps ==
    /\ Alive
    /\ \/ fdevent_register_transport
       \/ fdevent_unregister_transport
       \/ packet_stls
       \/ transport_destroy
       \/ StopSteps(Looper)
       \/ looper_returns
       \/ kick_all_transports

ReaderSteps(c) == Alive /\ \E i \in Readers : reader_leaves(c, i) \/ read_failed(c, i)

WriterSteps(c) == Alive /\ (writer_wakes(c) \/ writer_writes(c))

TlsSteps(i) ==
    /\ Alive
    /\ \/ tls_lock(i)
       \/ tls_join(i)
       \/ tls_ends(i)
       \/ tls_kick(i)
       \/ StopSteps(i)
       \/ tls_returns(i)

RunSteps ==
    /\ Alive
    /\ \/ run_waits
       \/ \E due \in BOOLEAN : run_wakes(due)
       \/ reconnect_retry
       \/ reconnect_success
       \/ reconnect_abort

Environment ==
    /\ Alive
    /\ \/ kick_transport
       \/ ReconnectHandler_Stop
       \/ \E c \in Conns : Hangup(c) \/ \E i \in Readers : read_stls(c, i)

Next ==
    \/ LooperSteps
    \/ RunSteps
    \/ Environment
    \/ \E c \in Conns : ReaderSteps(c) \/ WriterSteps(c) \/ TlsSteps(c)

(* Every thread keeps running, and a wait with a time limit ends.  So does  *)
(* a TLS handshake: adbd answers, or hangs up when its own time limit of    *)
(* three seconds has passed.  The peer need not send anything else or hang  *)
(* up, and nobody need ask for anything.                                    *)
Fairness ==
    /\ WF_vars(LooperSteps) /\ WF_vars(RunSteps)
    /\ \A c \in Conns : WF_vars(ReaderSteps(c)) /\ WF_vars(WriterSteps(c)) /\ WF_vars(TlsSteps(c))

Spec == Init /\ [][Next]_vars /\ Fairness

-----------------------------------------------------------------------------
(* Types of the adapters, the closures and the thread states.               *)
TypeOK ==
    /\ conn \in [Conns -> Adapter]
    /\ \A n \in DOMAIN queue : queue[n].c \in Conns
    /\ tr.cur \in Conns
    /\ rec.left \in 0..MaxAttempts

(* Nothing refers to a connection any more: its destructor has run.         *)
Unreferenced(c) == (tr.deleted \/ c < tr.cur) /\ ~Held(c)

(* No adapter is destroyed, and no thread started, while a std::thread      *)
(* member can still be joined, which would end the process: whoever calls   *)
(* Stop, and when, a connection is stopped and its threads are joined       *)
(* before its last reference goes and another connection takes its place.   *)
(* But for a stray handshake, one that began on a connection already        *)
(* stopped: it starts a thread that nobody joins, the destructor then calls *)
(* std::terminate, and nothing is claimed of such a connection.             *)
ThreadsJoined ==
    \A c \in Conns : ~conn[c].stray =>
        /\ ~conn[c].fatal
        /\ (Unreferenced(c) /\ conn[c].started) =>
              conn[c].stopped /\ conn[c].read_thread = Nobody /\ ~conn[c].write_thread

(* Two threads never read packets from one connection, and none does while  *)
(* a TLS handshake runs on it: DoTlsHandshake joins the thread that read    *)
(* the A_STLS before it shakes hands and starts another.  Again but for a   *)
(* connection with a stray handshake.                                       *)
OneReader ==
    \A c \in Conns : (~conn[c].stray /\ ~conn[c].closed) =>
        LET active == {i \in Readers : conn[c].reader[i] \in {"reading", "leaving"}}
        IN  /\ Cardinality(active) <= 1
            /\ (\E i \in Conns : tls[i].pc = "shaking" /\ tls[i].c = c) => active = {}

(* The transport is deleted once, after its connection was stopped, and no  *)
(* closure for it is left in the run queue, however kicks, errors and       *)
(* reconnection attempts overlap.                                           *)
DeletedLast ==
    /\ \A n \in DOMAIN queue :
          queue[n].op = "unregister" => n = Len(queue) /\ conn[tr.cur].stopped
    /\ tr.deleted => queue = <<>> /\ ~rec.tracked /\ rec.pc # "reconnecting"

(* A connection and its transport end in order, whoever ends them: threads  *)
(* joined unless a handshake began after the connection was stopped,        *)
(* connection destroyed, transport deleted after the last closure about it  *)
(* (BlockingConnectionAdapter::Stop, DoTlsHandshake, transport_destroy).    *)
EndsInOrder == ThreadsJoined /\ DeletedLast

(* "Finally, this transport will be closed and freed in the main thread"    *)
(* (kick_all_tcp_devices, of a transport that was kicked).                  *)
KickedIsFreed == tr.kicked ~> (tr.deleted \/ exit # "no" \/ ~Alive)
=============================================================================
