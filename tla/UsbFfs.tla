------------------------------- MODULE UsbFfs -------------------------------
(***************************************************************************)
(* adbd's USB connection over functionfs (daemon/usb.cpp): the monitor     *)
(* thread that follows the gadget's life, the worker thread that keeps     *)
(* reads queued in the kernel and submits writes, the packet reader the    *)
(* worker feeds, and the looper that writes, stops and destroys it.        *)
(*                                                                         *)
(* The kernel is external: it fills queued reads in the order they were    *)
(* submitted, posts completions in any order (usb.cpp:542), puts writes on *)
(* the wire in order, and fails whatever is queued when the interface is   *)
(* disabled.                                                               *)
(***************************************************************************)
EXTENDS PacketReader, FiniteSets

CONSTANTS
    kUsbReadQueueDepth,
    kUsbWriteQueueDepth,
    Chunks,         \* how many bytes one transfer from the host may carry
    WriteBlocks,    \* for each packet the looper writes, its number of blocks
    Halts           \* how often the host clears a halt on the endpoint

VARIABLE uf

Slots == 0..(kUsbReadQueueDepth - 1)

Slot(id) == id % kUsbReadQueueDepth

\* The events a gadget emits over one life of the interface, in order.
Life == <<"BIND", "ENABLE", "DISABLE", "UNBIND">>

Init ==
    uf = [monitor |-> "poll", bound |-> FALSE, enabled |-> FALSE,
          worker |-> "none", batch |-> <<>>, blocked |-> "no",
          stopped |-> FALSE, errors |-> 0, error_flag |-> FALSE, conn |-> "live",
          worker_event |-> FALSE, monitor_event |-> FALSE,
          started |-> FALSE, next_read |-> 0, needed |-> 0,
          reads |-> [s \in Slots |-> [id |-> 0, pending |-> FALSE, payload |-> <<>>]],
          reader |-> EmptyReader, delivered |-> <<>>,
          writes |-> <<>>, submitted |-> 0, next_write |-> 0, wrote |-> 0,
          \* the kernel's side
          life |-> 0, control |-> <<>>, kreads |-> <<>>, kwrites |-> <<>>,
          cancelled |-> <<>>,
          done |-> {}, ring |-> <<>>, sent |-> 0, wire |-> <<>>, halts |-> 0]

(***************************************************************************)
(* Stopping and reporting, by any thread.                                  *)
(***************************************************************************)
Stop(u) ==
    IF u.stopped THEN u
    ELSE [u EXCEPT !.stopped = TRUE, !.worker_event = TRUE, !.monitor_event = TRUE]

HandleError(u) ==
    IF u.error_flag THEN u
    ELSE Stop([u EXCEPT !.error_flag = TRUE, !.errors = @ + 1])

(***************************************************************************)
(* The worker thread.                                                      *)
(***************************************************************************)
KernelUp(u) == u.life = 2

\* io_submit of one read: queued in the kernel, or refused when the interface
\* is down.
SubmitRead(u, s) ==
    LET v == [u EXCEPT !.reads[s].pending = TRUE]
    IN IF KernelUp(u) THEN [v EXCEPT !.kreads = Append(@, u.reads[s].id)]
       ELSE HandleError(v)

PrepareReadBlock(u, s, id) ==
    [u EXCEPT !.reads[s] = [id |-> id, pending |-> FALSE, payload |-> <<>>]]

\* The start of the worker: one CreateReadBlock and SubmitRead per slot, up to
\* the first that fails, which ends the thread.
WorkerStarts ==
    /\ uf.worker = "start"
    /\ LET s == Slot(uf.next_read)
           u == SubmitRead([PrepareReadBlock(uf, s, uf.next_read)
                                EXCEPT !.next_read = @ + 1], s)
       IN uf' = [u EXCEPT !.worker =
                    IF ~KernelUp(uf) THEN "exited"
                    ELSE IF u.next_read = kUsbReadQueueDepth THEN "loop" ELSE "start"]

\* A call of io_submit made as the interface goes down may block until a signal
\* interrupts it (usb.cpp:251); one such call is considered.
WorkerBlocks ==
    /\ uf.worker \in {"start", "events"} /\ ~KernelUp(uf) /\ uf.blocked = "no"
    /\ uf' = [uf EXCEPT !.worker = "blocked", !.blocked = uf.worker]

WorkerLoops ==
    /\ uf.worker = "loop"
    /\ uf' = [uf EXCEPT !.worker = IF uf.stopped THEN "exited" ELSE "wait"]

\* The read of worker_event_fd_ and the io_getevents after it.
WorkerWakes ==
    /\ uf.worker = "wait" /\ uf.worker_event
    /\ uf' = [uf EXCEPT !.worker = "events", !.worker_event = FALSE,
                        !.batch = uf.ring, !.ring = <<>>]

\* CancelWrites: io_cancel of what is submitted; the kernel posts what became
\* of each later (KernelCancels).
CancelWrites(u) == [u EXCEPT !.kwrites = <<>>, !.cancelled = @ \o u.kwrites]

\* The host's first packet is its CNXN.
IsConnect(p) == p.msg[1][1] = 1

\* The packets of one block go to the transport; a CNXN cancels the writes.
Deliver(u, packets) ==
    LET v == [u EXCEPT !.delivered = @ \o packets]
    IN IF \E i \in DOMAIN packets : IsConnect(packets[i]) THEN CancelWrites(v) ELSE v

\* ProcessRead. The result is the connection and whether it returned true.
ProcessRead(u, s) ==
    LET block == u.reads[s]
        r == add_bytes(u.reader, block.payload)
        v == Deliver([u EXCEPT !.reader = Taken(r.reader)], get_packets(r.reader))
        next == PrepareReadBlock(v, s, block.id + kUsbReadQueueDepth)
    IN IF ~r.ok THEN [u |-> HandleError([u EXCEPT !.reader = r.reader]), ok |-> FALSE]
       ELSE [u |-> SubmitRead(next, s), ok |-> TRUE]

\* The loop of HandleRead from the read it waits for to the first still pending.
RECURSIVE ProcessReads(_)
ProcessReads(u) ==
    IF u.reads[Slot(u.needed)].pending THEN [u |-> u, ok |-> TRUE]
    ELSE LET p == ProcessRead(u, Slot(u.needed))
         IN IF p.ok THEN ProcessReads([p.u EXCEPT !.needed = @ + 1]) ELSE p

\* A HandleRead that processes the completed block at once.
HandleReadAtOnce(u, e) ==
    ProcessRead([u EXCEPT !.reads[Slot(e.id)].pending = FALSE,
                          !.reads[Slot(e.id)].payload = e.data], Slot(e.id))

HandleRead(u, e) ==
    LET s == Slot(e.id)
        v == [u EXCEPT !.reads[s].pending = FALSE, !.reads[s].payload = e.data]
    IN IF v.reads[s].id /= v.needed THEN [u |-> v, ok |-> TRUE] ELSE ProcessReads(v)

\* A HandleWrite that always takes the oldest request.
HandleWriteFront(u, e) ==
    [u EXCEPT !.writes = Tail(@), !.submitted = @ - 1]

HandleWrite(u, e) ==
    [u EXCEPT !.writes = SelectSeq(@, LAMBDA w : w.id /= e.id), !.submitted = @ - 1]

\* HandleEvents for one event. ok is false when it returns early.
HandleOne(u, e) ==
    IF e.res = "epipe" /\ e.dir = "read" /\ ~u.started
    THEN [u |-> SubmitRead(u, Slot(e.id)), ok |-> TRUE]
    ELSE IF e.res # "ok" THEN [u |-> HandleError(u), ok |-> FALSE]
    ELSE IF e.dir = "read" THEN HandleRead([u EXCEPT !.started = TRUE], e)
    ELSE [u |-> HandleWrite(u, e), ok |-> TRUE]

WorkerHandlesEvent ==
    /\ uf.worker = "events" /\ uf.batch # <<>>
    /\ LET h == HandleOne([uf EXCEPT !.batch = Tail(@)], uf.batch[1])
       IN uf' = IF h.ok THEN h.u ELSE [h.u EXCEPT !.batch = <<>>]

\* SubmitWrites: as many of the unsubmitted requests as the queue has room for.
SubmitWrites(u) ==
    LET room == kUsbWriteQueueDepth - u.submitted
        left == Len(u.writes) - u.submitted
        n == IF room < left THEN room ELSE left
        now == (u.submitted + 1)..(u.submitted + n)
        v == [u EXCEPT !.submitted = @ + n,
                       !.writes = [i \in DOMAIN @ |-> IF i \in now
                                     THEN [@[i] EXCEPT !.pending = TRUE] ELSE @[i]]]
    IN IF n = 0 THEN u
       ELSE IF ~KernelUp(u) THEN HandleError(v)
       ELSE [v EXCEPT !.kwrites = @ \o [i \in 1..n |-> v.writes[u.submitted + i].id]]

WorkerSubmitsWrites ==
    /\ uf.worker = "events" /\ uf.batch = <<>>
    /\ uf' = [SubmitWrites(uf) EXCEPT !.worker = "loop"]

Worker == WorkerStarts \/ WorkerLoops \/ WorkerWakes \/ WorkerHandlesEvent
              \/ WorkerSubmitsWrites

(***************************************************************************)
(* The monitor thread.                                                     *)
(***************************************************************************)
MonitorTimesOut ==
    /\ uf.monitor = "poll" /\ ~uf.bound /\ uf.control = <<>> /\ ~uf.monitor_event
    /\ uf' = [uf EXCEPT !.monitor = "stop"]

MonitorTold ==
    /\ uf.monitor = "poll" /\ uf.monitor_event
    /\ uf' = [uf EXCEPT !.monitor = "stop"]

\* The switch on the event. A SETUP, SUSPEND or RESUME changes no state. An
\* event out of order ends the loop, as DISABLE and UNBIND do.
MonitorReads ==
    /\ uf.monitor = "poll" /\ ~uf.monitor_event /\ uf.control # <<>>
    /\ LET e == uf.control[1]
           u == [uf EXCEPT !.control = Tail(@)]
       IN uf' = CASE e = "BIND" /\ ~uf.bound /\ ~uf.enabled -> [u EXCEPT !.bound = TRUE]
                  [] e = "ENABLE" /\ uf.bound /\ ~uf.enabled ->
                        [u EXCEPT !.enabled = TRUE, !.worker = "start"]
                  [] e = "SETUP" -> u
                  [] e = "DISABLE" -> [u EXCEPT !.enabled = FALSE, !.monitor = "stop"]
                  [] e = "UNBIND" -> [u EXCEPT !.bound = FALSE, !.monitor = "stop"]
                  [] OTHER -> [u EXCEPT !.monitor = "stop"]

\* A StopWorker that only waits for the worker.
StopWorkerQuietly(u) == u

\* StopWorker's signal, which interrupts a blocked io_submit.
SignalWorker(u) ==
    IF u.worker = "blocked" THEN [u EXCEPT !.worker = u.blocked] ELSE u

\* StopWorker until the worker is gone, then the report.
MonitorSignals ==
    /\ uf.monitor = "stop" /\ uf.worker = "blocked"
    /\ uf' = SignalWorker(uf)

MonitorEnds ==
    /\ uf.monitor = "stop" /\ uf.worker \in {"none", "exited"}
    /\ uf' = [HandleError(uf) EXCEPT !.monitor = "done"]

Monitor == MonitorTold \/ MonitorReads \/ MonitorSignals \/ MonitorEnds

(***************************************************************************)
(* The looper: Write, Stop (a kick) and the destructor, which waits for    *)
(* the monitor. write_mutex_ is held across a blocked SubmitWrites.        *)
(***************************************************************************)
\* A Write that does not wake the worker.
WriteQuietly ==
    /\ uf.conn = "live" /\ uf.wrote < Len(WriteBlocks)
    /\ LET n == WriteBlocks[uf.wrote + 1]
       IN uf' = [uf EXCEPT !.wrote = @ + 1, !.next_write = @ + n,
                           !.writes = @ \o [i \in 1..n |->
                                [id |-> uf.next_write + i, pending |-> FALSE]]]

Write ==
    /\ uf.conn = "live" /\ uf.wrote < Len(WriteBlocks)
    /\ ~(uf.worker = "blocked" /\ uf.batch = <<>>)
    /\ LET n == WriteBlocks[uf.wrote + 1]
       IN uf' = [uf EXCEPT !.wrote = @ + 1, !.next_write = @ + n,
                           !.worker_event = TRUE,
                           !.writes = @ \o [i \in 1..n |->
                                [id |-> uf.next_write + i, pending |-> FALSE]]]

Kick ==
    /\ uf.conn = "live" /\ ~uf.stopped
    /\ uf' = Stop(uf)

Destroy ==
    /\ uf.conn = "live" /\ uf.errors > 0
    /\ uf' = [Stop(uf) EXCEPT !.conn = "destroying"]

Destroyed ==
    /\ uf.conn = "destroying" /\ uf.monitor = "done"
    /\ uf' = [uf EXCEPT !.conn = "gone", !.kreads = <<>>, !.kwrites = <<>>,
                        !.cancelled = <<>>, !.done = {}, !.ring = <<>>]

(***************************************************************************)
(* The kernel.                                                             *)
(***************************************************************************)
Event(dir, id, res, data) == [dir |-> dir, id |-> id, res |-> res, data |-> data]

\* The gadget moves on; when it is disabled everything queued fails.
Gadget ==
    /\ uf.life < Len(Life) /\ uf.conn # "gone"
    /\ LET e == Life[uf.life + 1]
           u == [uf EXCEPT !.life = @ + 1, !.control = Append(@, e)]
           failed == {Event("read", i, "shutdown", <<>>) : i \in Range(uf.kreads)}
               \cup {Event("write", i, "shutdown", <<>>) : i \in Range(uf.kwrites)}
       IN uf' = IF e = "DISABLE"
                THEN [u EXCEPT !.kreads = <<>>, !.kwrites = <<>>, !.done = @ \cup failed]
                ELSE u

Setup ==
    /\ uf.life = 1 /\ uf.control = <<>> /\ uf.monitor = "poll"
    /\ uf' = [uf EXCEPT !.control = <<"SETUP">>]

KernelFills ==
    /\ KernelUp(uf) /\ uf.kreads # <<>>
    /\ \E n \in Chunks :
        /\ uf.sent + n <= Len(Stream)
        /\ uf' = [uf EXCEPT !.sent = @ + n, !.kreads = Tail(@),
                  !.done = @ \cup {Event("read", uf.kreads[1], "ok",
                                        SubSeq(Stream, uf.sent + 1, uf.sent + n))}]

KernelSends ==
    /\ KernelUp(uf) /\ uf.kwrites # <<>>
    /\ uf' = [uf EXCEPT !.kwrites = Tail(@), !.wire = Append(@, uf.kwrites[1]),
                        !.done = @ \cup {Event("write", uf.kwrites[1], "ok", <<>>)}]

\* A cancelled write is posted as failed, or as done when it had just gone out.
KernelCancels ==
    /\ uf.cancelled # <<>>
    /\ \E res \in {"ok", "error"} :
        uf' = [uf EXCEPT !.cancelled = Tail(@),
                         !.done = @ \cup {Event("write", uf.cancelled[1], res, <<>>)}]

\* The host clears a halt before it has sent anything: the reads are cancelled.
KernelClearsHalt ==
    /\ KernelUp(uf) /\ uf.kreads # <<>> /\ uf.halts < Halts
    /\ uf.sent = 0 /\ uf.worker # "start"
    /\ uf' = [uf EXCEPT !.halts = @ + 1, !.kreads = <<>>, !.worker_event = TRUE,
                  !.ring = @ \o [i \in DOMAIN uf.kreads |->
                                    Event("read", uf.kreads[i], "epipe", <<>>)]]

\* A completion is posted, in any order, and counted in worker_event_fd_.
KernelPosts ==
    \E e \in uf.done :
        uf' = [uf EXCEPT !.done = @ \ {e}, !.ring = Append(@, e), !.worker_event = TRUE]

Next ==
    \/ Worker \/ WorkerBlocks \/ Monitor \/ MonitorTimesOut
    \/ Write \/ Kick \/ Destroy \/ Destroyed
    \/ Gadget \/ Setup \/ KernelFills \/ KernelSends \/ KernelCancels
    \/ KernelClearsHalt \/ KernelPosts

Spec == Init /\ [][Next]_uf

(***************************************************************************)
(* Properties.                                                             *)
(***************************************************************************)
\* Type invariant.
TypeOK ==
    /\ uf.monitor \in {"poll", "stop", "done"}
    /\ uf.worker \in {"none", "start", "loop", "wait", "events", "blocked", "exited"}
    /\ uf.conn \in {"live", "destroying", "gone"}
    /\ uf.submitted \in 0..kUsbWriteQueueDepth
    /\ uf.needed \in Nat /\ uf.life \in 0..Len(Life)

\* Reassembly end to end: what the transport is handed is exactly the packets
\* the host sent, in order, whatever way the stream is cut into transfers and
\* in whatever order completions are posted; and a worker with nothing left to
\* reap has handed over every packet that is complete.
Reassembled ==
    /\ \A i \in DOMAIN uf.delivered : uf.delivered[i] = Sent(i)
    /\ (uf.worker = "wait" /\ uf.ring = <<>> /\ uf.done = {} /\ ~uf.stopped)
          => Len(uf.delivered) = Complete(uf.sent)

\* The writes the kernel has or has reported, which are not yet reaped.
Outstanding ==
    LET writes(s) == {e.id : e \in {x \in s : x.dir = "write"}}
    IN  Range(uf.kwrites) \cup Range(uf.cancelled)
            \cup writes(uf.done) \cup writes(Range(uf.ring)) \cup writes(Range(uf.batch))

\* The CHECKs of SubmitWrites and HandleWrite: the submitted requests are the
\* first writes_submitted_ of the queue, whatever order they complete in, the
\* blocks go out in the order they were queued, and a request stays in the queue
\* until its own completion is reaped.
SubmittedInFront ==
    /\ Outstanding \subseteq {uf.writes[i].id : i \in 1..uf.submitted}
    /\ \A i \in DOMAIN uf.writes : uf.writes[i].pending <=> i <= uf.submitted
    /\ \A i, j \in DOMAIN uf.wire : i < j => uf.wire[i] < uf.wire[j]

\* A worker that sleeps has nothing to do: no posted completion is unseen and
\* no request waits while the kernel's queue has room.
NoMissedWork ==
    (uf.worker = "wait" /\ ~uf.worker_event) =>
        /\ uf.ring = <<>>
        /\ uf.submitted < kUsbWriteQueueDepth => Len(uf.writes) = uf.submitted

\* A disabled interface ends its connection: the worker stops, even out of a
\* blocked io_submit, the transport is told once, and the endpoints are closed
\* for the next one (usb.cpp:250).
Ends == uf.conn = "gone" /\ uf.errors = 1
=============================================================================
