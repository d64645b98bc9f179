----------------------- MODULE NonblockingConnection -----------------------
(***************************************************************************)
(* NonblockingFdConnection: one thread polls the socket and a wake fd,     *)
(* while other threads Write packets, which they try to send themselves,   *)
(* and Stop the connection.                                                *)
(*                                                                         *)
(* Source: transport_fd.cpp.  Bytes are counted, not carried: a header is  *)
(* Header units, and the peer's packets have the payload lengths Incoming. *)
(***************************************************************************)
EXTENDS Naturals, SequencesExt

CONSTANTS
    Header,     \* sizeof(amessage)
    MaxRead,    \* MAX_PAYLOAD, the block that one read fills
    SendRoom,   \* what the kernel's send buffer holds
    Incoming,   \* payload lengths of the packets the peer sends
    Outgoing,   \* payload lengths of the packets given to Write
    MaxWake     \* bound: wake-ups pending

VARIABLE nb

Size(lens) == FoldLeft(LAMBDA n, len : n + Header + len, 0, lens)

(* Type invariant. *)
TypeOK ==
    /\ nb.pc \in {"none", "start", "check", "arm", "poll", "write", "read", "wake", "done"}
    /\ nb.running \in BOOLEAN /\ nb.aborted \in BOOLEAN /\ nb.peer \in BOOLEAN
    /\ nb.armed \in BOOLEAN /\ nb.revents \in SUBSET {"IN", "OUT", "WAKE"}
    /\ nb.writable \in BOOLEAN /\ nb.write_buffer \in 0..Size(Outgoing)
    /\ nb.kernel \in 0..SendRoom /\ nb.writes \in 0..Len(Outgoing)
    /\ nb.wake \in 0..MaxWake
    /\ nb.sent \in 0..Size(Incoming) /\ nb.rcv \in 0..Size(Incoming)
    /\ nb.read_buffer \in 0..Size(Incoming) /\ nb.read_header \in BOOLEAN
    /\ nb.handled \in 0..Len(Incoming)
    /\ nb.stop \in {"no", "waking", "joining", "returned"}

Init ==
    nb = [pc |-> "none", running |-> FALSE, aborted |-> FALSE, peer |-> TRUE,
          armed |-> FALSE, revents |-> {}, writable |-> TRUE, write_buffer |-> 0,
          kernel |-> 0, writes |-> 0, wake |-> 0, sent |-> 0, rcv |-> 0,
          read_buffer |-> 0, read_header |-> FALSE, handled |-> 0, stop |-> "no"]

Up == ~nb.aborted

\* DispatchWrites, under write_mutex_: the result and the state after it.  The
\* CHECK that there is something to write ends the process.  It can fail: between
\* the poll that reports POLLOUT and RunWrite, a Write may send all there was.
DispatchWrites(c) ==
    LET sent(n) == [c EXCEPT !.write_buffer = @ - n, !.kernel = @ + n, !.writable = c.write_buffer = n]
    IN  IF c.write_buffer = 0 THEN {<<"abort", [c EXCEPT !.aborted = TRUE]>>}
        ELSE IF ~c.peer THEN {<<"Error", c>>}
        ELSE IF c.kernel = SendRoom THEN {<<"TryAgain", [c EXCEPT !.writable = FALSE]>>}
        ELSE {<<IF c.write_buffer = n THEN "Completed" ELSE "TryAgain", sent(n)>> :
                n \in 1..Min({c.write_buffer, SendRoom - c.kernel})}

WakeThread(c) == [c EXCEPT !.wake = @ + 1]

\* DispatchWrites without the wake-up of the polling thread
WriteQuietly ==
    /\ Up /\ nb.pc # "none" /\ nb.stop = "no" /\ nb.writes < Len(Outgoing)
    /\ \E r \in DispatchWrites([nb EXCEPT !.writes = @ + 1,
                                          !.write_buffer = @ + Header + Outgoing[nb.writes + 1]]) :
          nb' = r[2]

\* Write: all of it under write_mutex_, the wake-up included
Write ==
    /\ Up /\ nb.pc # "none" /\ nb.stop = "no" /\ nb.writes < Len(Outgoing)
    /\ \E r \in DispatchWrites([nb EXCEPT !.writes = @ + 1,
                                          !.write_buffer = @ + Header + Outgoing[nb.writes + 1]]) :
          nb' = IF r[1] = "TryAgain" THEN WakeThread(r[2]) ELSE r[2]

Start ==
    /\ Up /\ nb.pc = "none"
    /\ nb' = [nb EXCEPT !.pc = "start"]

\* Stop: SetRunning(false); WakeThread(); thread_.join()
Stop ==
    /\ Up /\ nb.pc # "none"
    /\ \/ nb.stop = "no" /\ nb' = [nb EXCEPT !.running = FALSE, !.stop = "waking"]
       \/ nb.stop = "waking" /\ nb' = [WakeThread(nb) EXCEPT !.stop = "joining"]
       \/ nb.stop = "joining" /\ nb.pc = "done" /\ nb' = [nb EXCEPT !.stop = "returned"]

-----------------------------------------------------------------------------
(* Run, on the thread of the connection.                                   *)

SetRunning ==
    /\ Up /\ nb.pc = "start"
    /\ nb' = [nb EXCEPT !.running = TRUE, !.pc = "check"]

IsRunning ==
    /\ Up /\ nb.pc = "check"
    /\ nb' = [nb EXCEPT !.pc = IF nb.running THEN "arm" ELSE "done"]

\* under write_mutex_: is POLLOUT among the events?
Arm ==
    /\ Up /\ nb.pc = "arm"
    /\ nb' = [nb EXCEPT !.armed = ~nb.writable, !.pc = "poll"]

Revents ==
    (IF nb.rcv > 0 \/ ~nb.peer THEN {"IN"} ELSE {})
    \cup (IF nb.armed /\ (nb.kernel < SendRoom \/ ~nb.peer) THEN {"OUT"} ELSE {})
    \cup (IF nb.wake > 0 THEN {"WAKE"} ELSE {})

Poll ==
    /\ Up /\ nb.pc = "poll" /\ Revents # {}
    /\ nb' = [nb EXCEPT !.revents = Revents, !.pc = "write"]

\* POLLOUT
RunWrite ==
    /\ Up /\ nb.pc = "write"
    /\ IF "OUT" \notin nb.revents THEN nb' = [nb EXCEPT !.pc = "read"]
       ELSE \E r \in DispatchWrites(nb) :
                nb' = [r[2] EXCEPT !.pc = IF r[1] = "Error" THEN "done" ELSE "read"]

\* Assemble that looks for a payload only in the read that brings the header
AssembleForgetful(c) ==
    LET h == c.read_buffer >= Header
        d == [c EXCEPT !.read_buffer = IF h THEN @ - Header ELSE @]
        len == Incoming[d.handled + 1]
    IN  IF h /\ d.read_buffer >= len
        THEN [d EXCEPT !.read_buffer = @ - len, !.handled = @ + 1]
        ELSE d

\* a header if there is none yet and enough bytes, then at most one packet
Assemble(c) ==
    LET h == ~c.read_header /\ c.read_buffer >= Header
        d == [c EXCEPT !.read_header = @ \/ h, !.read_buffer = IF h THEN @ - Header ELSE @]
        len == Incoming[d.handled + 1]
    IN  IF d.read_header /\ d.read_buffer >= len
        THEN [d EXCEPT !.read_buffer = @ - len, !.read_header = FALSE, !.handled = @ + 1]
        ELSE d

\* POLLIN: one read, which fails when the peer has hung up
RunRead ==
    /\ Up /\ nb.pc = "read"
    /\ LET n == Min({nb.rcv, MaxRead})
       IN  nb' = IF "IN" \notin nb.revents THEN [nb EXCEPT !.pc = "wake"]
                 ELSE IF n = 0 THEN [nb EXCEPT !.pc = "done"]
                 ELSE Assemble([nb EXCEPT !.rcv = @ - n, !.read_buffer = @ + n, !.pc = "wake"])

RunWake ==
    /\ Up /\ nb.pc = "wake"
    /\ nb' = [nb EXCEPT !.wake = IF "WAKE" \in nb.revents THEN @ - 1 ELSE @, !.revents = {},
                        !.pc = "check"]

Run == SetRunning \/ IsRunning \/ Arm \/ Poll \/ RunWrite \/ RunRead \/ RunWake

-----------------------------------------------------------------------------
(* The peer.                                                               *)

PeerSends ==
    /\ Up /\ nb.peer /\ nb.sent < Size(Incoming)
    /\ \E n \in 1..Size(Incoming) - nb.sent :
          nb' = [nb EXCEPT !.sent = @ + n, !.rcv = @ + n]

PeerReads ==
    /\ Up /\ nb.peer /\ nb.kernel > 0
    /\ nb' = [nb EXCEPT !.kernel = 0]

PeerCloses ==
    /\ Up /\ nb.peer /\ nb.sent > 0
    /\ nb' = [nb EXCEPT !.peer = FALSE]

Next == Write \/ Start \/ Stop \/ Run \/ PeerSends \/ PeerReads \/ PeerCloses

Spec == Init /\ [][Next]_nb

-----------------------------------------------------------------------------
\* The thread is never asleep without POLLOUT while bytes wait to be sent: a
\* Write that could not send everything either finds POLLOUT in the events or
\* wakes the thread up so that it asks for it.  Nothing is claimed once the CHECK
\* of DispatchWrites has ended the process (transport_fd.cpp:178).
PendingWriteWakes ==
    nb.peer /\ Up /\ nb.pc = "poll" /\ nb.write_buffer > 0 /\ ~nb.armed => nb.wake > 0

\* The packets are cut out of the byte stream at their boundaries, however the
\* reads cut it: what is handled, held as a header and buffered is what was read.
ReadsAddUp ==
    Size(SubSeq(Incoming, 1, nb.handled)) + (IF nb.read_header THEN Header ELSE 0) + nb.read_buffer
        = nb.sent - nb.rcv
=============================================================================
