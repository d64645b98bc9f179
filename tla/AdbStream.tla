----------------------------- MODULE AdbStream -----------------------------
(***************************************************************************)
(* One adb stream: the local socket (LS) of the end that opens it, the     *)
(* local service socket of the end that accepts it, the remote socket (RS) *)
(* each of them is peered with, and the packets between them.              *)
(*                                                                         *)
(* Source: sockets.cpp (local and remote sockets) and the A_OPEN, A_OKAY,  *)
(* A_WRTE and A_CLSE cases of handle_packet in adb.cpp.  Each end runs its *)
(* handlers on one looper thread, so every handler is one atomic action.   *)
(* A remote socket has no state but its existence: it is the field "peer". *)
(*                                                                         *)
(* Payload bytes are abstracted to their offset in the sender's stream: a  *)
(* WRTE is the interval [pos, pos + len) and packet_queue is a number of   *)
(* bytes that starts at offset "flushed".                                  *)
(***************************************************************************)
EXTENDS Integers, Sequences

CONSTANTS
    MaxPayload,   \* MAX_PAYLOAD: below it a classic receiver asks for more
    PeerMax,      \* asocket::get_max_payload(): the largest WRTE sent
    InitialAck,   \* INITIAL_DELAYED_ACK_BYTES
    Delayed,      \* Delayed[e]: atransport::SupportsDelayedAck() at end e
    Total,        \* bound: bytes the application at each end writes
    FdCap,        \* bound: bytes the fd buffers towards the application
    Breakable,    \* may the transport fail?
    Closers       \* the ends whose application may shut down or close its fd

opener   == "opener"
acceptor == "acceptor"
End      == {opener, acceptor}
Other(e) == IF e = opener THEN acceptor ELSE opener

ASSUME ConstantsAssumption ==
    /\ MaxPayload \in Nat \ {0}
    /\ PeerMax \in 1..MaxPayload
    /\ InitialAck \in Nat \ {0}
    /\ Delayed \in [End -> BOOLEAN]
    /\ Total \in [End -> Nat]
    /\ FdCap \in Nat \ {0}
    /\ Breakable \in BOOLEAN
    /\ Closers \subseteq End

VARIABLES
    sock,     \* sock[e]: the asocket at end e, with its history counters
    chan,     \* chan[e]: packets sent by e that Other(e) has not handled
    fd,       \* fd[e]: the file descriptor between the asocket and its application
    broken,   \* the transport has failed; what is sent from now on is lost
    online    \* online[e]: t->online at end e

vars == <<sock, chan, fd, broken, online>>

-----------------------------------------------------------------------------
NoAck == -1        \* an A_OKAY without the int32 payload

(* Every packet is stamped with its sender's position in the stream: pos is *)
(* the number of bytes sent in earlier WRTEs and cum the number of bytes of *)
(* credit granted by earlier packets.  No handler reads pos or cum.         *)
Packet == [cmd : {"OPEN", "OKAY", "WRTE", "CLSE"},
           arg : Int,     \* OPEN: arg1; OKAY: acked bytes or NoAck; CLSE: 1 iff arg0 # 0
           pos : Nat, len : Nat, cum : Nat]

Asocket == [st : {"none", "open", "closing", "gone"},
                      \* not created, in local_socket_list, in the closing list, deleted
            peer : BOOLEAN,           \* s->peer # nullptr
            rd : BOOLEAN, wr : BOOLEAN,  \* FDE_READ, FDE_WRITE in s->fde->state
            avail : Int,              \* *available_send_bytes (when Delayed)
            werr : BOOLEAN,           \* has_write_error
            q : Nat,                  \* packet_queue.size()
            flushed : Nat,            \* history: bytes written to the fd
            sent : Nat,               \* history: bytes sent in WRTEs
            skipped : Nat,            \* history: bytes read and thrown away
            granted : Nat,            \* history: credit given to the other end
            why : {"not", "eof", "clse", "offline"}]  \* history: what closed it

Fd == [wrote : Nat,       \* bytes written by the application
       read  : Nat,       \* bytes read by the asocket
       buf   : Nat,       \* bytes written by the asocket, not read by the application
       shut  : BOOLEAN,   \* the application shut down its write side
       deaf  : BOOLEAN]   \* the application shut down its read side

NewSocket == [st |-> "none", peer |-> FALSE, rd |-> FALSE, wr |-> FALSE,
              avail |-> 0, werr |-> FALSE, q |-> 0, flushed |-> 0, sent |-> 0,
              skipped |-> 0, granted |-> 0, why |-> "not"]

Init ==
    /\ sock = [e \in End |-> NewSocket]
    /\ chan = [e \in End |-> <<>>]
    /\ fd = [e \in End |-> [wrote |-> 0, read |-> 0, buf |-> 0,
                            shut |-> FALSE, deaf |-> FALSE]]
    /\ broken = FALSE
    /\ online = [e \in End |-> TRUE]

-----------------------------------------------------------------------------
(* The state one handler works on: the asocket, the packets the handler has *)
(* sent so far, and the fd.                                                 *)
Context(e) == [s |-> sock[e], out |-> chan[e], f |-> fd[e]]

Min(a, b) == IF a <= b THEN a ELSE b

Stamp(s, cmd, arg, len) ==
    [cmd |-> cmd, arg |-> arg, pos |-> s.sent, len |-> len, cum |-> s.granted]

(* send_packet: once the connection has failed, a packet goes nowhere.      *)
Send(out, p) == IF broken THEN out ELSE Append(out, p)

(* send_ready: the byte count is carried iff this end supports delayed acks *)
send_ready(e, x, n) ==
    [x EXCEPT !.s.granted = IF Delayed[e] THEN @ + n ELSE @,
              !.out = Send(@, Stamp(x.s, "OKAY", IF Delayed[e] THEN n ELSE NoAck, 0))]

send_close(x, arg0) == [x EXCEPT !.out = Send(@, Stamp(x.s, "CLSE", arg0, 0))]

(* Mutant: the queue of a closing socket is thrown away.                    *)
close_drops_queue(x, why) ==
    LET y == IF x.s.peer THEN send_close(x, 1) ELSE x
    IN  [y EXCEPT !.s.st = "gone", !.s.peer = FALSE, !.s.rd = FALSE, !.s.wr = FALSE,
                  !.s.why = IF @ = "not" THEN why ELSE @]

(* local_socket_close, with the RS's shutdown (the A_CLSE) and close.  A    *)
(* socket with bytes left to write goes to the closing list.                *)
local_socket_close(x, why) ==
    LET y == IF x.s.peer THEN send_close(x, 1) ELSE x
        destroy == x.s.st = "closing" \/ x.s.werr \/ x.s.q = 0
        w == IF x.s.why = "not" THEN why ELSE x.s.why
    IN  IF destroy
        THEN [y EXCEPT !.s.st = "gone", !.s.peer = FALSE, !.s.why = w,
                       !.s.rd = FALSE, !.s.wr = FALSE]
        ELSE [y EXCEPT !.s.st = "closing", !.s.peer = FALSE, !.s.why = w,
                       !.s.rd = FALSE]

(* What adb_writev may return: -1 is an error, 0 is EAGAIN or an empty      *)
(* queue.  A TCP socket may still take bytes that nobody will read.         *)
writev(x) ==
    IF x.s.q = 0 THEN {0}
    ELSE (1..Min(x.s.q, FdCap - x.f.buf))
         \cup (IF x.f.deaf THEN {-1} ELSE IF x.f.buf >= FdCap THEN {0} ELSE {})

(* Mutants: the queue is cleared after a partial write; one byte too many   *)
(* is dropped; FDE_WRITE is added only when nothing at all was written.     *)
flush_clears_queue(e, x, rc) ==
    LET n == IF rc > 0 THEN rc ELSE 0
        a == [x EXCEPT !.s.q = IF n > 0 THEN 0 ELSE @, !.s.flushed = @ + n,
                       !.f.buf = @ + n, !.s.werr = @ \/ rc = -1]
        fd_full == a.s.q # 0 /\ ~a.s.werr
        b == IF a.s.peer THEN send_ready(e, a, n) ELSE a
    IN  IF b.s.st = "closing" /\ ~fd_full
        THEN local_socket_close(b, b.s.why)
        ELSE [b EXCEPT !.s.wr = fd_full]

flush_drops_one_more(e, x, rc) ==
    IF rc > 0
    THEN [x EXCEPT !.s.q = @ - (rc + 1), !.s.flushed = @ + rc, !.f.buf = @ + rc]
    ELSE x

local_socket_flush_incoming(e, x, rc) ==
    LET n == IF rc > 0 THEN rc ELSE 0
        a == [s |-> [x.s EXCEPT !.q = @ - n, !.flushed = @ + n, !.werr = @ \/ rc = -1],
              out |-> x.out,
              f |-> [x.f EXCEPT !.buf = @ + n]]
        fd_full == a.s.q # 0 /\ ~a.s.werr
        ask == a.s.peer /\ (Delayed[e] \/ (n # 0 /\ a.s.q < MaxPayload))
        b == IF ask THEN send_ready(e, a, n) ELSE a
    IN  IF b.s.st = "closing" /\ ~fd_full
        THEN local_socket_close(b, b.s.why)
        ELSE [b EXCEPT !.s.wr = fd_full]

(* remote_socket_enqueue: bytes leave in one WRTE; it always answers 1.     *)
remote_socket_enqueue(x, n) ==
    [s |-> [x.s EXCEPT !.sent = @ + n],
     out |-> Send(x.out, Stamp(x.s, "WRTE", 0, n)),
     f |-> x.f]

(* Mutants: the whole max_payload is charged; FDE_READ is kept at credit 0. *)
outgoing_charges_max_payload(e, x) ==
    LET n == Min(PeerMax, x.f.wrote - x.f.read)
        a == [x EXCEPT !.f.read = @ + n, !.s.avail = @ - PeerMax]
        b == IF n = 0 THEN x
             ELSE [remote_socket_enqueue(a, n) EXCEPT !.s.rd = a.s.avail > 0]
    IN  IF n < PeerMax /\ x.f.shut THEN local_socket_close(b, "eof") ELSE b

outgoing_reads_at_zero_credit(e, x) ==
    LET n == Min(PeerMax, x.f.wrote - x.f.read)
        a == [x EXCEPT !.f.read = @ + n, !.s.avail = @ - n]
    IN  IF n = 0 THEN x
        ELSE [remote_socket_enqueue(a, n) EXCEPT !.s.rd = a.s.avail >= 0]

(* Bytes read while there is no peer are dropped.                           *)
local_socket_flush_outgoing(e, x) ==
    LET n == Min(PeerMax, x.f.wrote - x.f.read)
        is_eof == n < PeerMax /\ x.f.shut
        left == x.s.avail - IF Delayed[e] THEN n ELSE 0
        a == [x EXCEPT !.f.read = @ + n]
        b == IF n = 0 THEN a
             ELSE IF ~a.s.peer THEN [a EXCEPT !.s.skipped = @ + n]
             ELSE [remote_socket_enqueue(a, n) EXCEPT
                      !.s.avail = left, !.s.rd = x.s.rd /\ Delayed[e] /\ left > 0]
    IN  IF is_eof THEN local_socket_close(b, "eof") ELSE b

(* Mutant: FDE_READ is added only when the credit was overdrawn.            *)
ack_wakes_only_overdrawn(e, x, acked) ==
    IF Delayed[e]
    THEN [x EXCEPT !.s.avail = @ + acked,
                   !.s.rd = @ \/ (x.s.avail < 0 /\ x.s.avail + acked > 0)]
    ELSE [x EXCEPT !.s.rd = TRUE]

(* local_socket_ack: local_socket_ready adds FDE_READ.                      *)
local_socket_ack(e, x, acked) ==
    IF Delayed[e] # (acked # NoAck) THEN x
    ELSE IF Delayed[e]
    THEN [x EXCEPT !.s.avail = @ + acked, !.s.rd = @ \/ x.s.avail + acked > 0]
    ELSE [x EXCEPT !.s.rd = TRUE]

-----------------------------------------------------------------------------
Become(e, x) ==
    /\ sock' = [sock EXCEPT ![e] = x.s]
    /\ fd' = [fd EXCEPT ![e] = x.f]
    /\ UNCHANGED <<broken, online>>

(* A handler that consumes no packet.                                       *)
Step(e, x) ==
    /\ Become(e, x)
    /\ chan' = [chan EXCEPT ![e] = x.out]

(* A handler that consumes the packet at the head of the other end's channel *)
Handle(e, x) ==
    /\ Become(e, x)
    /\ chan' = [chan EXCEPT ![e] = x.out, ![Other(e)] = Tail(@)]

Receives(e, cmd) ==
    /\ online[e]
    /\ chan[Other(e)] # <<>>
    /\ Head(chan[Other(e)]).cmd = cmd

Found(e) == sock[e].st = "open"     \* find_local_socket(arg1, 0)

(* listener_event_func -> create_local_socket, connect_to_remote            *)
connect_to_remote ==
    LET x == Context(opener)
        bytes == IF Delayed[opener] THEN InitialAck ELSE 0
    IN  /\ x.s.st = "none"
        /\ online[opener]
        /\ Step(opener, [x EXCEPT !.s.st = "open", !.s.granted = bytes,
                            !.out = Send(@, Stamp(x.s, "OPEN", bytes, 0))])

(* A_OPEN: refused when the two ends disagree on delayed acks or when       *)
(* there is no such service.                                                *)
handle_open_refused ==
    /\ Receives(acceptor, "OPEN")
    /\ Handle(acceptor, send_close(Context(acceptor), 0))

handle_open_accepted ==
    /\ Receives(acceptor, "OPEN")
    /\ LET send_bytes == Head(chan[opener]).arg
           x == [Context(acceptor) EXCEPT
                    !.s.st = "open", !.s.peer = TRUE, !.s.avail = send_bytes,
                    !.s.rd = TRUE]
       IN  /\ Delayed[acceptor] = (send_bytes # 0)
           /\ Handle(acceptor, send_ready(acceptor, x, InitialAck))

(* Mutant: an A_OKAY for a socket that is gone is ignored.                  *)
okay_ignored_when_gone(e) ==
    /\ Receives(e, "OKAY")
    /\ LET x == Context(e)
           acked == Head(chan[Other(e)]).arg
       IN  Handle(e, IF Found(e)
                     THEN local_socket_ack(e, [x EXCEPT !.s.peer = TRUE], acked)
                     ELSE x)

handle_okay(e) ==
    /\ Receives(e, "OKAY")
    /\ LET x == Context(e)
           acked == Head(chan[Other(e)]).arg
       IN  Handle(e, IF Found(e)
                     THEN local_socket_ack(e, [x EXCEPT !.s.peer = TRUE], acked)
                     ELSE send_close(x, 1))

(* Mutant: an A_WRTE is written to the fd of a socket that is closed.       *)
wrte_unchecked(e) ==
    /\ Receives(e, "WRTE")
    /\ LET x == Context(e)
           y == [x EXCEPT !.s.q = @ + Head(chan[Other(e)]).len]
       IN  \E rc \in writev(y) : Handle(e, local_socket_flush_incoming(e, y, rc))

handle_wrte(e) ==
    /\ Receives(e, "WRTE")
    /\ LET x == Context(e)
           y == [x EXCEPT !.s.q = @ + Head(chan[Other(e)]).len]
       IN  IF Found(e) /\ sock[e].peer
           THEN \E rc \in writev(y) : Handle(e, local_socket_flush_incoming(e, y, rc))
           ELSE Handle(e, x)

handle_clse(e) ==
    /\ Receives(e, "CLSE")
    /\ LET x == Context(e)
           arg0 == Head(chan[Other(e)]).arg
       IN  Handle(e, IF Found(e) /\ (arg0 = 0 \/ sock[e].peer)
                     THEN local_socket_close(x, "clse")
                     ELSE x)

(* The events epoll may report for the fd.  EPOLLRDHUP and EPOLLHUP are     *)
(* reported whatever the fdevent asks for, and become a read.               *)
Ready(e) ==
    (IF sock[e].wr /\ (fd[e].deaf \/ fd[e].buf < FdCap) THEN {"W"} ELSE {})
    \cup
    (IF (sock[e].rd /\ fd[e].wrote > fd[e].read) \/ fd[e].shut THEN {"R"} ELSE {})

local_socket_event_func(e) ==
    /\ sock[e].st \in {"open", "closing"}
    /\ \E ev \in SUBSET Ready(e) \ {{}} :
       \E rc \in IF "W" \in ev THEN writev(Context(e)) ELSE {0} :
          LET x == IF "W" \in ev
                   THEN local_socket_flush_incoming(e, Context(e), rc)
                   ELSE Context(e)
          IN  Step(e, IF "R" \in ev /\ x.s.st # "gone"
                      THEN local_socket_flush_outgoing(e, x) ELSE x)

-----------------------------------------------------------------------------
(* handle_offline, once the connection's HandleError reaches the looper:    *)
(* close_all_sockets closes the sockets of local_socket_list only.          *)
handle_offline(e) ==
    /\ broken
    /\ online[e]
    /\ online' = [online EXCEPT ![e] = FALSE]
    /\ LET x == IF Found(e) THEN local_socket_close(Context(e), "offline")
                ELSE Context(e)
       IN  sock' = [sock EXCEPT ![e] = x.s]
    /\ UNCHANGED <<chan, fd, broken>>

(* External: the transport under the stream fails.                          *)
Break ==
    /\ Breakable
    /\ ~broken
    /\ broken' = TRUE
    /\ UNCHANGED <<sock, chan, fd, online>>

(* External: the application at the other side of the fd writes, reads,     *)
(* shuts down one direction or closes.                                      *)
AppWrite(e) ==
    /\ sock[e].st \in {"open", "closing"}
    /\ ~fd[e].shut
    /\ fd[e].wrote < Total[e]
    /\ fd' = [fd EXCEPT ![e].wrote = @ + 1]
    /\ UNCHANGED <<sock, chan, broken, online>>

AppRead(e) ==
    /\ fd[e].buf > 0
    /\ ~fd[e].deaf
    /\ fd' = [fd EXCEPT ![e].buf = @ - 1]
    /\ UNCHANGED <<sock, chan, broken, online>>

AppClose(e) ==
    /\ e \in Closers
    /\ sock[e].st \in {"open", "closing"}
    /\ \E shut, deaf \in BOOLEAN :
          /\ fd[e].shut => shut
          /\ fd[e].deaf => deaf
          /\ fd' = [fd EXCEPT ![e].shut = shut, ![e].deaf = deaf]
    /\ fd' # fd
    /\ UNCHANGED <<sock, chan, broken, online>>

Looper(e) ==
    \/ handle_okay(e)
    \/ handle_wrte(e)
    \/ handle_clse(e)
    \/ local_socket_event_func(e)
    \/ handle_offline(e)

Next ==
    \/ connect_to_remote
    \/ handle_open_refused
    \/ handle_open_accepted
    \/ \E e \in End :
          \/ Looper(e)
          \/ AppWrite(e)
          \/ AppRead(e)
          \/ AppClose(e)
    \/ Break

(* The looper keeps handling packets and level-triggered events, and an     *)
(* application that has its fd open keeps reading it.                       *)
Fairness ==
    /\ WF_vars(handle_open_refused \/ handle_open_accepted)
    /\ \A e \in End : WF_vars(Looper(e)) /\ WF_vars(AppRead(e))

Spec == Init /\ [][Next]_vars /\ Fairness

-----------------------------------------------------------------------------
(* Types of the asocket fields, the packets and the fd (socket.h).          *)
TypeOK ==
    /\ sock \in [End -> Asocket]
    /\ chan \in [End -> Seq(Packet)]
    /\ fd \in [End -> Fd]
    /\ broken \in BOOLEAN
    /\ online \in [End -> BOOLEAN]

(* The stream position of the next packet that e's channel will deliver.    *)
NextPos(e) == IF chan[e] = <<>> THEN sock[e].sent ELSE Head(chan[e]).pos

(* While the receiving socket is open, the bytes written to its fd, the     *)
(* bytes in its packet_queue and the bytes still in the channel are exactly *)
(* the bytes sent, in order: no WRTE is lost, duplicated or reordered by    *)
(* handle_packet, local_socket_enqueue and local_socket_flush_incoming.     *)
NothingLostWhileOpen ==
    \A e \in End :
       LET s == sock[Other(e)]
       IN  s.st = "open" =>
              /\ ~broken => s.flushed + s.q = NextPos(e)
              /\ s.flushed + s.q <= sock[e].sent

(* Bytes of payload and of credit on their way from end e.                  *)
WrteBytes(e) ==
    LET F[i \in 0..Len(chan[e])] ==
          IF i = 0 THEN 0 ELSE F[i - 1] + chan[e][i].len
    IN  F[Len(chan[e])]

OkayBytes(e) ==
    LET F[i \in 0..Len(chan[e])] ==
          IF i = 0 THEN 0
          ELSE F[i - 1] + (IF chan[e][i].cmd = "OKAY" THEN chan[e][i].arg ELSE 0)
    IN  F[Len(chan[e])]

BothOpen == \A e \in End : sock[e].st = "open"

(* Delayed acks: no byte of credit is ever lost or invented.  What a sender *)
(* may still send, what is in flight, what the receiver holds and the acks  *)
(* on their way back always add up to INITIAL_DELAYED_ACK_BYTES             *)
(* (available_send_bytes, local_socket_ack, local_socket_flush_incoming).   *)
CreditConserved ==
    (BothOpen /\ ~broken /\ \A e \in End : Delayed[e]) =>
       \A e \in End :
          sock[e].avail + WrteBytes(e) + sock[Other(e)].q + OkayBytes(Other(e))
             = InitialAck

(* Delayed acks: as long as the sender's fd is not half-closed, the         *)
(* receiver never has to hold more than the initial credit and all but one  *)
(* byte of one more packet (socket.h: "This value can go negative").        *)
ReceiveWindow ==
    \A e \in End :
       LET s == sock[Other(e)]
       IN  (/\ Delayed[e] /\ Delayed[Other(e)]
            /\ ~fd[e].shut) =>
              sock[e].sent - s.flushed <= InitialAck + PeerMax - 1

(* A socket on the closing list waits for FDE_WRITE and has bytes to write: *)
(* CHECK_EQ(FDE_WRITE, s->fde->state & FDE_WRITE) in local_socket_close.    *)
ClosingWantsWrite ==
    \A e \in End : sock[e].st = "closing" => sock[e].wr /\ sock[e].q > 0

(* A stream whose peer closed it is drained: if the A_CLSE of a sender that *)
(* stopped at end of file closed this end, every byte sent was written to   *)
(* the fd before the socket was destroyed, unless the application on this   *)
(* side went away or stopped writing.                                       *)
GracefulDrain ==
    \A e \in End :
       LET s == sock[Other(e)]
       IN  (/\ s.st = "gone" /\ s.why = "clse" /\ sock[e].why = "eof"
            /\ ~fd[Other(e)].shut /\ ~fd[Other(e)].deaf) =>
              s.flushed = sock[e].sent

(* An open end whose other end has closed will be told:                     *)
(* the A_CLSE is on its way, or the A_OKAY that will be answered by one.    *)
NoOrphan ==
    \A e \in End :
       (/\ sock[e].st = "open" /\ ~broken
        /\ sock[Other(e)].st \in {"closing", "gone"}) =>
          \/ \E i \in DOMAIN chan[Other(e)] : chan[Other(e)][i].cmd = "CLSE"
          \/ \E i \in DOMAIN chan[e] : chan[e][i].cmd = "OKAY"

-----------------------------------------------------------------------------
(* What the applications see of a stream: the bytes sent in A_WRTEs, the    *)
(* bytes written to the far fd, and the sockets that are deleted.           *)
Stream == INSTANCE ByteStream WITH
    Most <- PeerMax,
    sent <- [e \in End |-> sock[e].sent],
    got  <- [e \in End |-> sock[e].flushed],
    over <- {e \in End : sock[e].st = "gone"}

(* The sockets, the packets and the acknowledgements of sockets.cpp and     *)
(* handle_packet are a byte stream: whatever is in flight when an end goes, *)
(* no A_WRTE is written to an fd twice, early, or after its socket's end.   *)
IsByteStream == Stream!Spec

-----------------------------------------------------------------------------
(* An asocket forwards the byte stream "without altering it"                *)
(* (docs/dev/asocket.md): what reaches the far fd is a prefix of what the   *)
(* application wrote, so nothing in front of a delivered byte was dropped.  *)
ForwardsUnaltered ==
    \A e \in End : sock[Other(e)].flushed > 0 => sock[e].skipped = 0
=============================================================================
