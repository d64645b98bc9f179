----------------------------- MODULE Subprocess -----------------------------
(***************************************************************************)
(* A shell command in adbd with the shell protocol: the thread that passes *)
(* data between the child's pipes and the stream to the client, the child  *)
(* and the client.  Data are numbers of units; a stream of bytes is the    *)
(* number of those written and of those that arrived.                      *)
(***************************************************************************)
EXTENDS Naturals, Sequences

CONSTANTS
    Pty,           \* the child has a pseudo terminal, not a pair of sockets
    Output,        \* units the child writes to stdout
    Errors,        \* units the child writes to stderr (on a pty, none)
    Packets,       \* what the client sends: "in" (a unit of stdin, kIdStdin),
                   \* "close" (kIdCloseStdin) or "size" (kIdWindowSizeChange)
    Capacity,      \* data_capacity(): units of one packet of output
    Room           \* units the pipe to the child's stdin takes

VARIABLE sp

Fds == {"stdinout", "stderr", "protocol"}

Init ==
    sp = [pc |-> "start",
          open |-> {},
          pollin |-> Fds,          \* fds polled for POLLIN
          pollout |-> FALSE,       \* stdinout polled for POLLOUT
          revents |-> [f \in Fds |-> {}],
          dead |-> "none",         \* dead_sfd
          left |-> 0,              \* input_bytes_left_
          out |-> 0, err |-> 0,    \* units in the pipes from the child
          in |-> 0,                \* units in the pipe to the child
          shut |-> FALSE,          \* the child's stdin is at its end
          sentout |-> 0, senterr |-> 0, sentin |-> 0, readin |-> 0,
          wroteout |-> 0, wroteerr |-> 0,
          child |-> "none",        \* "running" or "exited"
          childhas |-> {},
          hup |-> FALSE,           \* the child was sent SIGHUP
          epipe |-> FALSE,         \* a write to the child's stdin has failed
          exitsent |-> FALSE,
          wire |-> Packets,        \* packets the client has still to send
          queue |-> <<>>,          \* packets in the protocol socket
          client |-> "here"]

-----------------------------------------------------------------------------
(* ForkAndExec: the pipes and the child.  ConnectProtocolEndpoints then    *)
(* joins the thread to the client's socket.                                *)
ForkAndExec(ok) ==
    IF ~ok THEN sp
    ELSE [sp EXCEPT !.child = "running",
                    !.childhas = IF Pty THEN {"stdinout"} ELSE {"stdinout", "stderr"}]

ConnectProtocolEndpoints(s) ==
    [s EXCEPT !.open = s.childhas \cup {"protocol"}, !.pc = "poll"]

(* ReportError: a pipe with a message for stderr and the exit code 126. *)
ReportError(s) == [s EXCEPT !.exitsent = TRUE, !.pc = "done"]

(* StartSubprocess: a child that cannot report to the client is killed and *)
(* waited for by the destructor.                                           *)
StartSubprocess ==
    /\ sp.pc = "start"
    /\ \/ sp' = ConnectProtocolEndpoints(ForkAndExec(TRUE))
       \/ sp' = ReportError([ForkAndExec(TRUE) EXCEPT !.child = "exited"])
       \/ sp' = ReportError(ForkAndExec(FALSE))

(* The thread: PassDataStreams around PollLoop. *)

HasChild(f) == sp.child = "running" /\ f \in sp.childhas

Readable(f) ==
    CASE f = "stdinout" -> sp.out > 0
      [] f = "stderr"   -> sp.err > 0
      [] f = "protocol" -> sp.queue # <<>>

(* What poll reports of a file descriptor.  A pair of sockets that the     *)
(* other end has closed is readable, to its end; a pty only hangs up.      *)
Gone(f) == IF f = "protocol" THEN sp.client = "gone" ELSE ~HasChild(f)

Revents(f) ==
    IF f \notin sp.open THEN {} ELSE
    {e \in {"in", "out", "hup"} :
        \/ e = "in" /\ f \in sp.pollin
           /\ (Readable(f) \/ (Gone(f) /\ ~(Pty /\ f = "stdinout")))
        \/ e = "out" /\ f = "stdinout" /\ sp.pollout
           /\ (sp.in < Room \/ Gone(f))
        \/ e = "hup" /\ Gone(f)}

Poll ==
    /\ sp.pc = "poll"
    /\ \E f \in Fds : Revents(f) # {}
    /\ sp' = [sp EXCEPT !.revents = [f \in Fds |-> Revents(f)], !.pc = "stdout"]

(* PassDataStreams with the file descriptor that died. *)
Dead(s, f) ==
    IF f = "protocol"
    THEN [s EXCEPT !.open = {}, !.hup = TRUE, !.pc = "wait"]
    ELSE [s EXCEPT !.open = @ \ {f},
                   !.pc = IF s.open \subseteq {f, "protocol"} THEN "wait" ELSE "poll"]

(* A file descriptor found dead: the rest of the round is skipped, but for *)
(* its end.                                                                *)
Dies(s, f) == [s EXCEPT !.dead = f, !.pc = "dead"]

(* PassOutput: read at most one packet; the end of the pipe is its death,  *)
(* and so is, for the protocol socket, a write without a client.           *)
PassOutput(f, next) ==
    LET n == IF f = "stdinout" THEN sp.out ELSE sp.err
        k == IF n < Capacity THEN n ELSE Capacity
    IN  IF n = 0 /\ Gone(f) THEN Dies(sp, f)
        ELSE IF n = 0 THEN [sp EXCEPT !.pc = next]
        ELSE IF sp.client = "gone" THEN Dies(sp, "protocol")
        ELSE IF f = "stdinout"
             THEN [sp EXCEPT !.out = @ - k, !.sentout = @ + k, !.pc = next]
             ELSE [sp EXCEPT !.err = @ - k, !.senterr = @ + k, !.pc = next]

HandleStdout ==
    /\ sp.pc = "stdout"
    /\ sp' = IF "in" \in sp.revents["stdinout"] THEN PassOutput("stdinout", "stderr")
             ELSE [sp EXCEPT !.pc = "stderr"]

HandleStderr ==
    /\ sp.pc = "stderr"
    /\ sp' = IF "in" \in sp.revents["stderr"] THEN PassOutput("stderr", "input")
             ELSE [sp EXCEPT !.pc = "input"]

(* PassInput, the part that writes what is left of a packet to stdin. *)
WriteInput(s, next) ==
    LET room == Room - s.in
        k == IF s.left < room THEN s.left ELSE room
    IN  IF s.left = 0 THEN [s EXCEPT !.pc = next]
        ELSE IF ~HasChild("stdinout")
             THEN Dies([s EXCEPT !.left = 0, !.epipe = TRUE], "stdinout")
        ELSE [s EXCEPT !.left = @ - k, !.in = @ + k, !.sentin = @ + k, !.pc = next]

(* PassInput: a new packet when the last one is written.  Without the      *)
(* child's stdin every packet is dropped.                                  *)
PassInput(next) ==
    IF sp.left > 0 THEN WriteInput(sp, next)
    ELSE IF sp.queue = <<>> THEN Dies(sp, "protocol")
    ELSE LET p == Head(sp.queue)
             s == [sp EXCEPT !.queue = Tail(@)]
         IN  IF "stdinout" \notin sp.open \/ p = "size" \/ (p = "close" /\ Pty)
             THEN [s EXCEPT !.pc = next]
             ELSE IF p = "close" THEN [s EXCEPT !.shut = TRUE, !.pc = next]
             ELSE WriteInput([s EXCEPT !.left = 1], next)

(* PollLoop's third part: reading stops while a packet is not written. *)
HandleInput ==
    /\ sp.pc = "input"
    /\ sp' = IF "in" \in sp.revents["protocol"]
             THEN LET s == PassInput("stdin")
                  IN  IF s.left > 0 THEN [s EXCEPT !.pollin = @ \ {"protocol"},
                                                   !.pollout = TRUE] ELSE s
             ELSE [sp EXCEPT !.pc = "stdin"]

(* PollLoop's fourth part: go on with a packet that did not fit. *)
ResumeForgets ==
    /\ sp.pc = "stdin"
    /\ sp' = IF "out" \in sp.revents["stdinout"] THEN PassInput("dead")
             ELSE [sp EXCEPT !.pc = "dead"]

HandleStdin ==
    /\ sp.pc = "stdin"
    /\ sp' = IF "out" \in sp.revents["stdinout"]
             THEN LET s == PassInput("dead")
                  IN  IF s.left = 0 THEN [s EXCEPT !.pollin = @ \cup {"protocol"},
                                                   !.pollout = FALSE] ELSE s
             ELSE [sp EXCEPT !.pc = "dead"]

(* The end of a round of PollLoop: a file descriptor that hung up and has  *)
(* nothing to read is dead, before the one that was found dead.            *)
finished_early(f) == "hup" \in sp.revents[f]

finished_unless_client(f) ==
    "hup" \in sp.revents[f] /\ "in" \notin sp.revents[f] /\ f # "protocol"

poll_finished(f) == "hup" \in sp.revents[f] /\ "in" \notin sp.revents[f]

HandleDead ==
    /\ sp.pc = "dead"
    /\ LET s == [sp EXCEPT !.dead = "none"]
       IN  sp' = IF poll_finished("stdinout") THEN Dead(s, "stdinout")
                 ELSE IF poll_finished("stderr") THEN Dead(s, "stderr")
                 ELSE IF poll_finished("protocol") THEN Dead(s, "protocol")
                 ELSE IF sp.dead # "none" THEN Dead(s, sp.dead)
                 ELSE [s EXCEPT !.pc = "poll"]

(* WaitForExit, in the destructor. *)
WaitForExit ==
    /\ sp.pc = "wait"
    /\ sp.child = "exited"
    /\ sp' = [sp EXCEPT !.pc = "done", !.open = {},
                        !.exitsent = "protocol" \in sp.open /\ sp.client = "here"]

Thread ==
    \/ StartSubprocess
    \/ Poll \/ HandleStdout \/ HandleStderr \/ HandleInput \/ HandleStdin
    \/ HandleDead \/ WaitForExit

-----------------------------------------------------------------------------
(* The child writes, reads, closes its pipes and exits as it likes; once   *)
(* the other end of a pipe is closed, what it writes is lost.              *)
ChildWrites ==
    /\ sp.child = "running"
    /\ \/ /\ sp.wroteout < Output /\ "stdinout" \in sp.childhas
          /\ sp' = [sp EXCEPT !.wroteout = @ + 1,
                              !.out = IF "stdinout" \in sp.open THEN @ + 1 ELSE @]
       \/ /\ sp.wroteerr < Errors /\ "stderr" \in sp.childhas
          /\ sp' = [sp EXCEPT !.wroteerr = @ + 1,
                              !.err = IF "stderr" \in sp.open THEN @ + 1 ELSE @]

ChildReads ==
    /\ HasChild("stdinout")
    /\ sp.in > 0
    /\ sp' = [sp EXCEPT !.in = 0, !.readin = @ + sp.in]

ChildCloses ==
    /\ sp.child = "running"
    /\ \E f \in sp.childhas : sp' = [sp EXCEPT !.childhas = @ \ {f}]

ChildExits ==
    /\ sp.child = "running"
    /\ sp' = [sp EXCEPT !.child = "exited"]

(* A child that was sent SIGHUP or has closed its pipes exits in time. *)
ChildObeys == (sp.hup \/ sp.childhas = {}) /\ ChildExits

(* The client sends its packets, and may go away. *)
ClientSends ==
    /\ sp.client = "here"
    /\ sp.wire # <<>>
    /\ sp' = [sp EXCEPT !.queue = Append(@, Head(sp.wire)), !.wire = Tail(@)]

ClientGoes ==
    /\ sp.client = "here"
    /\ sp' = [sp EXCEPT !.client = "gone"]

Next ==
    \/ Thread \/ ChildWrites \/ ChildReads \/ ChildCloses \/ ChildExits
    \/ ClientSends \/ ClientGoes

Spec == Init /\ [][Next]_sp

-----------------------------------------------------------------------------
(* Type invariant. *)
TypeOK ==
    /\ sp.pc \in {"start", "poll", "stdout", "stderr", "input", "stdin", "dead", "wait",
                 "done"}
    /\ sp.open \subseteq Fds /\ sp.dead \in Fds \cup {"none"}
    /\ sp.left \in 0..1
    /\ sp.in \in 0..Room
    /\ sp.sentout \in 0..Output
    /\ sp.senterr \in 0..Errors

(* When the exit code goes out, everything the child has written before it *)
(* exited has gone out: PollLoop reads a pipe to its end before it closes  *)
(* it. Excepted is stdout once a write to stdin has failed: PassInput has  *)
(* the one socket of both closed, and what it holds is lost                *)
(* (shell_service.cpp:729).                                                *)
OutputBeforeExit ==
    sp.exitsent =>
        /\ sp.sentout = sp.wroteout \/ sp.epipe
        /\ sp.senterr = sp.wroteerr

(* The protocol socket is read again as soon as nothing is left to write   *)
(* to the child: the two directions of PollLoop's events never both stop.  *)
InputGoesOn ==
    sp.pc \in {"poll", "stdout"} /\ "stdinout" \in sp.open =>
        ("protocol" \in sp.pollin <=> sp.left = 0)

(* The thread has ended. *)
Ended == sp.pc = "done"
=============================================================================
