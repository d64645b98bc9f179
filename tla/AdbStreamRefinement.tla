------------------------ MODULE AdbStreamRefinement ------------------------
(***************************************************************************)
(* AdbStream implements ByteStream, for every value of the constants: a    *)
(* step of Next is a turn of one end or is not seen.  And the account of   *)
(* credit: what every step does to the credit a socket has granted, and    *)
(* what the packets of a channel add up to.                                *)
(***************************************************************************)
EXTENDS AdbStreamProofs, WellFoundedInduction

(* An open socket has granted the initial credit and what it has written to *)
(* its fd, no more and no less; before it has a peer it holds nothing.      *)
Owes(e, s) ==
    s.st = "open" =>
       /\ ~s.peer => s.q = 0
       /\ Delayed[e] => s.granted = InitialAck + s.flushed

(* What one step may do to the socket of the end that takes it.             *)
Moves(e, s, t) ==
    /\ s.flushed <= t.flushed
    /\ s.sent <= t.sent /\ t.sent <= s.sent + PeerMax
    /\ s.st = "gone" => t = s
    /\ Owes(e, s) => Owes(e, t)

-----------------------------------------------------------------------------
(* What the operators of one end do.                                        *)
LEMMA SkippedFields ==
    ASSUME NEW s \in Asocket, NEW n, NEW t, t = [s EXCEPT !.skipped = @ + n]
    PROVE  /\ t.st = s.st /\ t.peer = s.peer /\ t.q = s.q
           /\ t.granted = s.granted /\ t.flushed = s.flushed
<1> DEFINE m == s.skipped + n
<1>1. t = [s EXCEPT !.skipped = m]
  OBVIOUS
<1> HIDE DEF m
<1> QED BY <1>1, Zenon DEF Asocket

LEMMA SameMoves ==
    ASSUME NEW e \in End, NEW s \in Asocket
    PROVE  Moves(e, s, s)
<1>1. s.flushed \in Nat /\ s.sent \in Nat /\ PeerMax \in Nat
  BY Numbers, ConstantsAssumption
<1> QED BY <1>1 DEF Moves

(* local_socket_flush_incoming sends an A_OKAY for exactly what it wrote.   *)
LEMMA IncomingOwes ==
    ASSUME NEW e \in End, NEW x \in Ctx, x.s.st = "open", Owes(e, x.s),
           NEW rc \in Int, rc <= x.s.q
    PROVE  Owes(e, local_socket_flush_incoming(e, x, rc).s)
<1> DEFINE n == IF rc > 0 THEN rc ELSE 0
           a == [s |-> [x.s EXCEPT !.q = @ - n, !.flushed = @ + n, !.werr = @ \/ rc = -1],
                 out |-> x.out,
                 f |-> [x.f EXCEPT !.buf = @ + n]]
           fd_full == a.s.q # 0 /\ ~a.s.werr
           ask == a.s.peer /\ (Delayed[e] \/ (n # 0 /\ a.s.q < MaxPayload))
           b == IF ask THEN send_ready(e, a, n) ELSE a
           z == local_socket_flush_incoming(e, x, rc)
<1>0. x.s \in Asocket /\ x.f \in Fd /\ x.out \in Seq(Packet)
  BY DEF Ctx
<1>1. n \in Nat /\ n <= x.s.q
  BY <1>0, Numbers
<1>2. /\ a.s.st = "open" /\ a.s.peer = x.s.peer /\ a.s.granted = x.s.granted
      /\ a.s.q = x.s.q - n /\ a.s.flushed = x.s.flushed + n
  BY <1>0, Zenon DEF Asocket
<1> DEFINE u == [a.s EXCEPT !.granted = IF Delayed[e] THEN @ + n ELSE @]
           v == IF ask THEN u ELSE a.s
<1>r. send_ready(e, a, n).s = u
  <2> DEFINE r == send_ready(e, a, n)
             d == Send(a.out, Stamp(a.s, "OKAY", IF Delayed[e] THEN n ELSE NoAck, 0))
  <2>1. r = [[a EXCEPT !.s = u] EXCEPT !.out = d]
    BY DEF send_ready
  <2> HIDE DEF d, u
  <2> QED BY <2>1, ZenonT(60)
<1>3. b.s = v /\ DOMAIN b = {"s", "out", "f"}
  BY <1>r DEF send_ready
<1>4. v.st = "open" /\ v \in Asocket
  <2>1. a.s \in Asocket
    <3>1. x.s.q - n \in Nat /\ x.s.flushed + n \in Nat
      BY <1>0, <1>1, Numbers
    <3>2. (x.s.werr \/ rc = -1) \in BOOLEAN
      OBVIOUS
    <3> HIDE DEF n
    <3> QED BY <1>0, <3>1, <3>2, ZenonT(60) DEF Asocket
  <2>2. a.s.granted + n \in Nat
    BY <1>0, <1>1, <1>2, Numbers
  <2> HIDE DEF a
  <2>3. u \in Asocket /\ u.st = a.s.st
    BY <2>1, <2>2, Zenon DEF Asocket
  <2> QED BY <1>2, <2>1, <2>3
<1>5. z = [b EXCEPT !.s.wr = fd_full]
  BY <1>3, <1>4, ZenonT(60) DEF local_socket_flush_incoming
<1> HIDE DEF b, u
<1>6. z.s = [v EXCEPT !.wr = fd_full]
  BY <1>3, <1>5
<1>7. /\ z.s.st = "open" /\ z.s.peer = v.peer /\ z.s.q = v.q
      /\ z.s.flushed = v.flushed /\ z.s.granted = v.granted
  BY <1>4, <1>6, ZenonT(60) DEF Asocket
<1>8. /\ v.peer = x.s.peer /\ v.q = a.s.q
      /\ v.flushed = a.s.flushed
      /\ Delayed[e] => v.granted = IF x.s.peer THEN x.s.granted + n ELSE x.s.granted
  BY <1>0, <1>2, Zenon DEF Asocket, u
<1> HIDE DEF n, a, v, z
<1>9. /\ ~z.s.peer => z.s.q = 0
      /\ Delayed[e] => z.s.granted = InitialAck + z.s.flushed
  <2>1. /\ x.s.granted \in Nat /\ x.s.flushed \in Nat /\ x.s.q \in Nat /\ InitialAck \in Nat
        /\ ~x.s.peer => x.s.q = 0
        /\ Delayed[e] => x.s.granted = InitialAck + x.s.flushed
    BY <1>0, Numbers, ConstantsAssumption, Zenon DEF Owes
  <2>2. CASE x.s.peer
    <3>1. z.s.peer
      BY <1>7, <1>8, <2>2, Zenon
    <3>2. ASSUME Delayed[e]
          PROVE  z.s.granted = InitialAck + z.s.flushed
      <4>1. z.s.granted = x.s.granted + n /\ z.s.flushed = x.s.flushed + n
        BY <1>2, <1>7, <1>8, <2>2, <3>2, Zenon
      <4> QED BY <1>1, <2>1, <3>2, <4>1
    <3> QED BY <3>1, <3>2, Zenon
  <2>3. CASE ~x.s.peer
    <3>1. n = 0
      BY <1>1, <2>1, <2>3
    <3>2. z.s.q = 0 /\ z.s.flushed = x.s.flushed
      BY <1>2, <1>7, <1>8, <2>1, <2>3, <3>1
    <3>3. Delayed[e] => z.s.granted = x.s.granted
      BY <1>7, <1>8, <2>3
    <3> QED BY <2>1, <3>2, <3>3, Zenon
  <2> QED BY <2>2, <2>3, Zenon
<1> QED BY <1>9 DEF Owes, z

(* local_socket_flush_outgoing grants nothing and writes nothing to the fd. *)
LEMMA OutgoingOwes ==
    ASSUME NEW e \in End, NEW x \in Ctx, Owes(e, x.s), x.s.st \in {"open", "closing"}
    PROVE  Owes(e, local_socket_flush_outgoing(e, x).s)
<1> DEFINE n == Min(PeerMax, x.f.wrote - x.f.read)
           is_eof == n < PeerMax /\ x.f.shut
           left == x.s.avail - IF Delayed[e] THEN n ELSE 0
           a == [x EXCEPT !.f.read = @ + n]
           b == IF n = 0 THEN a
                ELSE IF ~a.s.peer THEN [a EXCEPT !.s.skipped = @ + n]
                ELSE [remote_socket_enqueue(a, n) EXCEPT
                         !.s.avail = left, !.s.rd = x.s.rd /\ Delayed[e] /\ left > 0]
           z == local_socket_flush_outgoing(e, x)
<1>0. x.s \in Asocket /\ x = [s |-> x.s, out |-> x.out, f |-> x.f]
  BY DEF Ctx
<1>1. z = IF is_eof THEN local_socket_close(b, "eof") ELSE b
  BY DEF local_socket_flush_outgoing
<1>2. a.s = x.s /\ DOMAIN a = {"s", "out", "f"}
  BY <1>0
<1>3. CASE is_eof
  <2>1. z = local_socket_close(b, "eof")
    BY <1>1, <1>3, ZenonT(60)
  <2> HIDE DEF b
  <2>2. local_socket_close(b, "eof").s.st # "open"
    BY DEF local_socket_close, send_close
  <2> QED BY <2>1, <2>2 DEF Owes
<1>4. CASE ~is_eof
  <2>1. z = b
    BY <1>1, <1>4
  <2> HIDE DEF n, left, z
  <2>2. CASE n = 0
    BY <1>2, <2>1, <2>2, Zenon DEF z
  <2>3. CASE n # 0 /\ ~a.s.peer
    <3>1. b.s = [x.s EXCEPT !.skipped = @ + n]
      BY <1>2, <2>3
    <3> HIDE DEF b
    <3>2. /\ b.s.st = x.s.st /\ b.s.peer = x.s.peer /\ b.s.q = x.s.q
          /\ b.s.granted = x.s.granted /\ b.s.flushed = x.s.flushed
      <4>1. x.s \in Asocket
        BY <1>0, Zenon
      <4> QED BY <3>1, <4>1, SkippedFields
    <3> QED BY <2>1, <3>2 DEF Owes, z
  <2>4. CASE n # 0 /\ a.s.peer
    <3> DEFINE c == remote_socket_enqueue(a, n)
               u == [x.s EXCEPT !.sent = @ + n]
    <3>1. c.s = u /\ DOMAIN c = {"s", "out", "f"}
      BY <1>2 DEF remote_socket_enqueue
    <3> HIDE DEF c
    <3>2. b.s = [u EXCEPT !.avail = left, !.rd = x.s.rd /\ Delayed[e] /\ left > 0]
      BY <2>4, <3>1, Zenon DEF c
    <3> HIDE DEF b
    <3>3. /\ b.s.st = x.s.st /\ b.s.peer = x.s.peer /\ b.s.q = x.s.q
          /\ b.s.granted = x.s.granted /\ b.s.flushed = x.s.flushed
      BY <1>0, <3>2 DEF Asocket
    <3> QED BY <2>1, <3>3 DEF Owes, z
  <2> QED BY <2>2, <2>3, <2>4, Zenon
<1> QED BY <1>3, <1>4

-----------------------------------------------------------------------------
(* Every step moves the socket of one end only.                             *)
MovesAt(e) ==
    /\ sock' = [sock EXCEPT ![e] = sock'[e]]
    /\ Moves(e, sock[e], sock'[e])

LEMMA BecomeMoves ==
    ASSUME IInv, NEW e \in End, NEW z, sock' = [sock EXCEPT ![e] = z.s], Moves(e, sock[e], z.s)
    PROVE  MovesAt(e)
<1>1. sock'[e] = z.s
  BY DEF IInv
<1> QED BY <1>1, Zenon DEF MovesAt

(* A socket that is closed has moved, whatever became of its queue.         *)
LEMMA CloseMoves ==
    ASSUME IInv, NEW e \in End, sock[e].st # "gone", NEW why
    PROVE  Moves(e, sock[e], local_socket_close(Context(e), why).s)
<1> DEFINE x == Context(e)
           z == local_socket_close(x, why)
<1>0. x \in Ctx /\ x.s = sock[e] /\ x.s \in Asocket
  BY ContextFacts DEF Ctx
<1>1. x.s.flushed \in Nat /\ x.s.sent \in Nat /\ PeerMax \in Nat
  BY <1>0, Numbers, ConstantsAssumption
<1> HIDE DEF x
<1>2. /\ z.s.st # "open" /\ z.s.flushed = x.s.flushed /\ z.s.sent = x.s.sent
  BY <1>0, ZenonT(60) DEF local_socket_close, send_close, Ctx, Asocket
<1> HIDE DEF z
<1>3. Moves(e, x.s, z.s)
  BY <1>0, <1>1, <1>2 DEF Moves, Owes
<1> QED BY <1>0, <1>3 DEF x, z

LEMMA OkayMoves ==
    ASSUME IInv, NEW e \in End, handle_okay(e)
    PROVE  MovesAt(e)
<1> DEFINE x == Context(e)
           acked == Head(chan[Other(e)]).arg
           p == [x EXCEPT !.s.peer = TRUE]
           z == IF Found(e) THEN local_socket_ack(e, p, acked) ELSE send_close(x, 1)
<1>0. x \in Ctx /\ x.s = sock[e] /\ x.s \in Asocket
  BY ContextFacts DEF Ctx
<1>1. x.s.flushed \in Nat /\ x.s.sent \in Nat /\ PeerMax \in Nat
  BY <1>0, Numbers, ConstantsAssumption
<1>2. Handle(e, z)
  BY DEF handle_okay
<1> HIDE DEF x, acked
<1>3. CASE Found(e)
  <2>1. z = local_socket_ack(e, p, acked)
    BY <1>3
  <2>2. p.s = [x.s EXCEPT !.peer = TRUE] /\ DOMAIN p = {"s", "out", "f"}
    BY <1>0 DEF Ctx
  <2> HIDE DEF p
  <2>3. /\ z.s.flushed = p.s.flushed /\ z.s.sent = p.s.sent /\ z.s.st = p.s.st
        /\ z.s.q = p.s.q /\ z.s.granted = p.s.granted /\ z.s.peer = p.s.peer
    <3>0. p.s \in Asocket
      BY <1>0, <2>2, Zenon DEF Asocket
    <3>1. \/ z.s = p.s
          \/ z.s = [p.s EXCEPT !.avail = @ + acked, !.rd = @ \/ p.s.avail + acked > 0]
          \/ z.s = [p.s EXCEPT !.rd = TRUE]
      BY <2>1, <2>2, Zenon DEF local_socket_ack
    <3> HIDE DEF z
    <3> QED BY <3>0, <3>1, Zenon DEF Asocket
  <2>4. /\ p.s.flushed = x.s.flushed /\ p.s.sent = x.s.sent /\ p.s.st = x.s.st
        /\ p.s.q = x.s.q /\ p.s.granted = x.s.granted /\ p.s.peer = TRUE
    BY <1>0, <2>2, Zenon DEF Asocket
  <2> HIDE DEF z
  <2>5. Moves(e, x.s, z.s)
    BY <1>0, <1>1, <1>3, <2>3, <2>4 DEF Moves, Owes, Found
  <2> QED BY <1>0, <1>2, <2>5, BecomeMoves, Zenon DEF Handle, Become
<1>4. CASE ~Found(e)
  <2>1. z.s = x.s
    BY <1>0, <1>4 DEF send_close, Ctx
  <2> HIDE DEF z
  <2>2. Moves(e, x.s, z.s)
    BY <1>0, <2>1, SameMoves, Zenon
  <2> QED BY <1>0, <1>2, <2>2, BecomeMoves, Zenon DEF Handle, Become
<1> QED BY <1>3, <1>4

LEMMA WrteMoves ==
    ASSUME IInv, NEW e \in End, handle_wrte(e)
    PROVE  MovesAt(e)
<1> DEFINE x == Context(e)
           y == Context(Other(e))
           a == [x EXCEPT !.s.q = @ + y.out[1].len]
<1>1. /\ Inv(e, x, y) /\ x.s = sock[e] /\ x.s \in Asocket /\ broken \in BOOLEAN
      /\ y.out # <<>> /\ y.out[1].cmd = "WRTE"
      /\ Head(chan[Other(e)]) = y.out[1]
  BY ContextFacts, HeadIsFirst, Zenon DEF handle_wrte, Ctx
<1>n. x.s.flushed \in Nat /\ x.s.sent \in Nat /\ PeerMax \in Nat
  BY <1>1, Numbers, ConstantsAssumption
<1>2. CASE Found(e) /\ sock[e].peer
  <2>1. PICK rc \in writev(a) : Handle(e, local_socket_flush_incoming(e, a, rc))
    BY <1>1, <1>2 DEF handle_wrte
  <2> DEFINE z == local_socket_flush_incoming(e, a, rc)
  <2>h. Handle(e, z)
    BY <2>1
  <2> HIDE DEF x, y
  <2>2. x.s.st = "open" /\ x.s.peer
    BY <1>1, <1>2, Zenon DEF Found
  <2>3. Mid(e, a, Taken(y))
    BY <1>1, <2>2, WrteStep, Zenon
  <2>5. /\ a.s.st = "open" /\ a.s.sent = x.s.sent /\ a.s.flushed = x.s.flushed
        /\ a.s.peer = x.s.peer /\ a.s.granted = x.s.granted
    <3>1. x \in Ctx /\ x.s \in Asocket
      BY <1>1 DEF Inv, Mid, EndInv, Ctx
    <3> QED BY <2>2, <3>1, Zenon DEF a, Ctx, Asocket
  <2> HIDE DEF a
  <2>4. EndInv(e, a) /\ a \in Ctx
    BY <2>3 DEF Mid, EndInv
  <2>6. rc \in Int /\ -1 <= rc /\ rc <= a.s.q /\ (rc = -1 => a.f.deaf)
    BY <2>1, <2>4, WritevFacts, Zenon
  <2>7. Frame(e, a, z) /\ z.s.sent = a.s.sent
    BY <1>1, <2>4, <2>5, <2>6, FlushIncomingLemma
  <2>8. Owes(e, x.s) => Owes(e, z.s)
    <3>1. Owes(e, x.s) => Owes(e, a.s)
      BY <2>2, <2>5 DEF Owes
    <3> QED BY <2>4, <2>5, <2>6, <3>1, IncomingOwes, Zenon
  <2> HIDE DEF z
  <2>9. Moves(e, x.s, z.s)
    BY <1>n, <2>2, <2>5, <2>7, <2>8 DEF Moves, Frame
  <2> QED BY <1>1, <2>h, <2>9, BecomeMoves, ZenonT(60) DEF Handle, Become
<1>3. CASE ~(Found(e) /\ sock[e].peer)
  <2>1. Handle(e, x)
    BY <1>3 DEF handle_wrte
  <2>2. Moves(e, x.s, x.s)
    BY <1>1, SameMoves, Zenon
  <2> QED BY <1>1, <2>1, <2>2, BecomeMoves, Zenon DEF Handle, Become
<1> QED BY <1>2, <1>3, Zenon

LEMMA ClseMoves ==
    ASSUME IInv, NEW e \in End, handle_clse(e)
    PROVE  MovesAt(e)
<1> DEFINE x == Context(e)
           z == local_socket_close(x, "clse")
<1>0. x.s = sock[e] /\ x.s \in Asocket
  BY ContextFacts DEF Ctx
<1>1. CASE Found(e) /\ (Head(chan[Other(e)]).arg = 0 \/ sock[e].peer)
  <2>1. Handle(e, z)
    BY <1>1 DEF handle_clse
  <2>2. Moves(e, sock[e], z.s)
    BY <1>1, CloseMoves DEF Found
  <2> HIDE DEF z
  <2> QED BY <2>1, <2>2, BecomeMoves, ZenonT(60) DEF Handle, Become
<1>2. CASE ~(Found(e) /\ (Head(chan[Other(e)]).arg = 0 \/ sock[e].peer))
  <2>1. Handle(e, x)
    BY <1>2 DEF handle_clse
  <2>2. Moves(e, x.s, x.s)
    BY <1>0, SameMoves
  <2> QED BY <1>0, <2>1, <2>2, BecomeMoves, Zenon DEF Handle, Become
<1> QED BY <1>1, <1>2, Zenon

LEMMA OpenMoves ==
    ASSUME IInv, handle_open_refused \/ handle_open_accepted
    PROVE  MovesAt(acceptor)
<1> DEFINE x == Context(acceptor)
           y == Context(opener)
<1>0. acceptor \in End /\ opener \in End /\ Other(acceptor) = opener
  BY DEF End, Other, opener, acceptor
<1>1. /\ Inv(acceptor, x, y) /\ x.s = sock[acceptor] /\ broken \in BOOLEAN
      /\ y.out # <<>> /\ y.out[1].cmd = "OPEN"
  <2>1. Receives(acceptor, "OPEN")
    BY DEF handle_open_refused, handle_open_accepted
  <2> QED BY <1>0, <2>1, ContextFacts, HeadIsFirst, Zenon
<1>2. x.s = NewSocket /\ x \in Ctx
  BY <1>1, OpenArrives, Zenon
<1>3. CASE handle_open_refused
  <2>1. Handle(acceptor, send_close(x, 0))
    BY <1>3 DEF handle_open_refused
  <2>2. send_close(x, 0).s = x.s
    BY DEF send_close
  <2>3. Moves(acceptor, sock[acceptor], send_close(x, 0).s)
    BY <1>0, <1>1, <1>2, <2>2, SameMoves, NewSocketFields, Zenon
  <2> QED BY <1>0, <2>1, <2>3, BecomeMoves, Zenon DEF Handle, Become
<1>4. CASE handle_open_accepted
  <2> DEFINE m == Head(chan[opener]).arg
             a == [x EXCEPT !.s.st = "open", !.s.peer = TRUE, !.s.avail = m, !.s.rd = TRUE]
             z == send_ready(acceptor, a, InitialAck)
  <2>1. Handle(acceptor, z)
    BY <1>4 DEF handle_open_accepted
  <2> HIDE DEF x, m
  <2>2. a.s = [x.s EXCEPT !.st = "open", !.peer = TRUE, !.avail = m, !.rd = TRUE]
        /\ DOMAIN a = {"s", "out", "f"}
    BY <1>2 DEF Ctx
  <2>3. /\ a.s.st = "open" /\ a.s.peer = TRUE /\ a.s.flushed = 0 /\ a.s.sent = 0
        /\ a.s.granted = 0
    BY <1>2, <2>2, NewSocketFields, Zenon DEF Asocket
  <2>4. "granted" \in DOMAIN a.s
    BY <1>2, <2>2, NewSocketFields DEF Asocket
  <2> HIDE DEF a
  <2>5. z.s = [a.s EXCEPT !.granted = IF Delayed[acceptor] THEN @ + InitialAck ELSE @]
    BY <2>2 DEF send_ready
  <2>6. /\ z.s.peer = TRUE /\ z.s.flushed = 0 /\ z.s.sent = 0
        /\ z.s.granted = IF Delayed[acceptor] THEN InitialAck ELSE 0
    BY <2>3, <2>4, <2>5, ConstantsAssumption
  <2> HIDE DEF z
  <2>7. Moves(acceptor, x.s, z.s)
    BY <1>2, <2>6, NewSocketFields, ConstantsAssumption DEF Moves, Owes
  <2> QED BY <1>0, <1>1, <2>1, <2>7, BecomeMoves, Zenon DEF Handle, Become
<1> QED BY <1>3, <1>4

LEMMA ConnectMoves ==
    ASSUME IInv, connect_to_remote
    PROVE  MovesAt(opener)
<1> DEFINE x == Context(opener)
           bytes == IF Delayed[opener] THEN InitialAck ELSE 0
           z == [x EXCEPT !.s.st = "open", !.s.granted = bytes,
                          !.out = Send(@, Stamp(x.s, "OPEN", bytes, 0))]
<1>0. opener \in End /\ Other(opener) = acceptor
  BY DEF End, Other, opener, acceptor
<1>1. Inv(opener, x, Context(acceptor)) /\ x.s = sock[opener] /\ x \in Ctx
  BY <1>0, ContextFacts
<1>2. x.s.st = "none" /\ Step(opener, z)
  BY Zenon DEF connect_to_remote
<1>3. x.s = NewSocket
  BY <1>1, <1>2, Zenon DEF Inv, Mid, EndInv, SocketInv
<1>4. bytes \in Nat /\ (Delayed[opener] => bytes = InitialAck)
  BY ConstantsAssumption
<1> HIDE DEF x, bytes
<1>5. z.s = [x.s EXCEPT !.st = "open", !.granted = bytes]
  <2> DEFINE d == Send(x.out, Stamp(x.s, "OPEN", bytes, 0))
             u == [x.s EXCEPT !.st = "open", !.granted = bytes]
  <2>1. x = [s |-> x.s, out |-> x.out, f |-> x.f]
    BY <1>1 DEF Ctx
  <2>2. z = [[x EXCEPT !.s = u] EXCEPT !.out = d]
    BY ZenonT(60)
  <2> HIDE DEF d, u, z
  <2> QED BY <2>1, <2>2 DEF u
<1> HIDE DEF z
<1>6. /\ z.s.q = 0 /\ z.s.flushed = 0 /\ z.s.sent = 0 /\ z.s.granted = bytes
  BY <1>3, <1>5, NewSocketFields DEF Asocket
<1>7. Moves(opener, x.s, z.s)
  BY <1>3, <1>4, <1>6, NewSocketFields, ConstantsAssumption DEF Moves, Owes
<1> QED BY <1>0, <1>1, <1>2, <1>7, BecomeMoves, Zenon DEF Step, Become

LEMMA WritevMoves ==
    ASSUME NEW e \in End, broken \in BOOLEAN, NEW x, EndInv(e, x),
           x.s.st \in {"open", "closing"}, NEW w,
           NEW rc \in writev(x), w = local_socket_flush_incoming(e, x, rc)
    PROVE  /\ EndInv(e, w) /\ WaitsToWrite(w.s) /\ w.s.sent = x.s.sent
           /\ x.s.flushed <= w.s.flushed /\ w.f.shut = x.f.shut
           /\ w.s.st = x.s.st \/ (x.s.st = "closing" /\ w.s.st = "gone")
           /\ w.s.st # "gone" => w.s.rd = x.s.rd
           /\ Owes(e, x.s) => Owes(e, w.s)
<1> DEFINE v == local_socket_flush_incoming(e, x, rc)
<1>1. rc \in Int /\ -1 <= rc /\ rc <= x.s.q /\ (rc = -1 => x.f.deaf) /\ x \in Ctx
  BY WritevFacts DEF EndInv
<1>2. /\ EndInv(e, v) /\ WaitsToWrite(v.s) /\ Frame(e, x, v)
      /\ v.s.sent = x.s.sent
      /\ v.s.st = x.s.st \/ (x.s.st = "closing" /\ v.s.st = "gone")
      /\ v.s.why = x.s.why
      /\ v.s.st # "gone" => v.s.rd = x.s.rd
  BY <1>1, FlushIncomingLemma, ZenonT(60)
<1>3. Owes(e, x.s) => Owes(e, v.s)
  <2>1. CASE x.s.st = "open"
    BY <1>1, <2>1, IncomingOwes
  <2>2. CASE x.s.st # "open"
    BY <1>2, <2>2, Zenon DEF Frame, Owes
  <2> QED BY <2>1, <2>2
<1> HIDE DEF v
<1>4. w = v
  BY DEF v
<1> QED BY <1>2, <1>3, <1>4 DEF Frame

LEMMA EventMoves ==
    ASSUME IInv, NEW e \in End, local_socket_event_func(e)
    PROVE  MovesAt(e)
<1> DEFINE x == Context(e)
<1>1. /\ EndInv(e, x) /\ WaitsToWrite(x.s) /\ broken \in BOOLEAN
      /\ x.s = sock[e] /\ x.f = fd[e] /\ x \in Ctx /\ x.s \in Asocket
  BY ContextFacts DEF Inv, Mid, Ctx
<1>e. PICK ev \in SUBSET Ready(e) \ {{}} :
         \E rc \in IF "W" \in ev THEN writev(x) ELSE {0} :
            LET w == IF "W" \in ev THEN local_socket_flush_incoming(e, x, rc) ELSE x
            IN  Step(e, IF "R" \in ev /\ w.s.st # "gone"
                        THEN local_socket_flush_outgoing(e, w) ELSE w)
  BY DEF local_socket_event_func
<1>2. PICK rc \in IF "W" \in ev THEN writev(x) ELSE {0} :
         LET w == IF "W" \in ev THEN local_socket_flush_incoming(e, x, rc) ELSE x
         IN  Step(e, IF "R" \in ev /\ w.s.st # "gone"
                     THEN local_socket_flush_outgoing(e, w) ELSE w)
  BY <1>e
<1> DEFINE w == IF "W" \in ev THEN local_socket_flush_incoming(e, x, rc) ELSE x
           z == IF "R" \in ev /\ w.s.st # "gone"
                THEN local_socket_flush_outgoing(e, w) ELSE w
<1>3. Step(e, z)
  BY <1>2, Zenon
<1>4. "R" \in ev => x.s.rd \/ x.f.shut
  BY <1>1, <1>e, Zenon DEF Ready
<1>5. x.s.st \in {"open", "closing"}
  BY <1>1, Zenon DEF local_socket_event_func
<1>n. x.s.flushed \in Nat /\ x.s.sent \in Nat /\ PeerMax \in Nat
  BY <1>1, Numbers, ConstantsAssumption
<1> HIDE DEF x
<1>6. /\ EndInv(e, w) /\ WaitsToWrite(w.s) /\ w.s.sent = x.s.sent
      /\ x.s.flushed <= w.s.flushed /\ w.f.shut = x.f.shut
      /\ w.s.st = x.s.st \/ (x.s.st = "closing" /\ w.s.st = "gone")
      /\ w.s.st # "gone" => w.s.rd = x.s.rd
      /\ Owes(e, x.s) => Owes(e, w.s)
  <2>1. CASE "W" \in ev
    <3>0. w = local_socket_flush_incoming(e, x, rc) /\ rc \in writev(x)
      BY <1>2, <2>1, Zenon
    <3> HIDE DEF w
    <3>1. EndInv(e, x) /\ x.s.st \in {"open", "closing"} /\ broken \in BOOLEAN
      BY <1>1, <1>5, Zenon
    <3> QED BY <3>0, <3>1, WritevMoves
  <2>2. CASE "W" \notin ev
    <3>1. w = x
      BY <2>2
    <3> HIDE DEF w
    <3> QED BY <1>1, <1>n, <3>1
  <2> QED BY <2>1, <2>2, ZenonT(60)
<1> HIDE DEF w
<1>7. Moves(e, x.s, z.s)
  <2>w. w \in Ctx /\ w.s \in Asocket /\ w.s.flushed \in Nat /\ w.s.sent \in Nat
    BY <1>6, Numbers, Zenon DEF EndInv, Ctx
  <2>1. CASE "R" \in ev /\ w.s.st # "gone"
    <3>1. z = local_socket_flush_outgoing(e, w)
      BY <2>1
    <3>2. w.s.st \in {"open", "closing"} /\ (w.s.rd \/ w.f.shut)
      BY <1>4, <1>5, <1>6, <2>1, Zenon
    <3>3. Frame(e, w, z) /\ z.s.sent <= w.s.sent + PeerMax /\ EndInv(e, z)
      BY <1>1, <1>6, <3>1, <3>2, FlushOutgoingLemma, Zenon
    <3>4. Owes(e, w.s) => Owes(e, z.s)
      BY <2>w, <3>1, <3>2, OutgoingOwes, Zenon
    <3>5. z.s.flushed \in Nat /\ z.s.sent \in Nat
      BY <3>3, Numbers, ZenonT(60) DEF EndInv, Ctx
    <3> HIDE DEF z
    <3>6. x.s.flushed <= z.s.flushed /\ x.s.sent <= z.s.sent
      <4>1. w.s.flushed <= z.s.flushed /\ w.s.sent <= z.s.sent
        BY <3>3, Zenon DEF Frame
      <4>2. x.s.flushed <= w.s.flushed /\ w.s.sent = x.s.sent
        BY <1>6, Zenon
      <4> QED BY <1>n, <2>w, <3>5, <4>1, <4>2
    <3> QED BY <1>5, <1>6, <3>3, <3>4, <3>6, Zenon DEF Moves
  <2>2. CASE ~("R" \in ev /\ w.s.st # "gone")
    <3>1. z = w
      BY <2>2, Zenon
    <3> HIDE DEF z
    <3> QED BY <1>n, <1>5, <1>6, <3>1 DEF Moves
  <2> QED BY <2>1, <2>2, Zenon
<1> HIDE DEF z
<1> QED BY <1>1, <1>3, <1>7, BecomeMoves, Zenon DEF Step, Become

LEMMA OfflineMoves ==
    ASSUME IInv, NEW e \in End, handle_offline(e)
    PROVE  MovesAt(e)
<1> DEFINE x == Context(e)
           z == IF Found(e) THEN local_socket_close(x, "offline") ELSE x
<1>1. sock' = [sock EXCEPT ![e] = z.s]
  BY DEF handle_offline
<1>2. Moves(e, sock[e], z.s)
  <2>1. CASE Found(e)
    BY <2>1, CloseMoves DEF Found
  <2>2. CASE ~Found(e)
    <3>1. x.s = sock[e] /\ x.s \in Asocket
      BY ContextFacts DEF Ctx
    <3> QED BY <2>2, <3>1, SameMoves, Zenon
  <2> QED BY <2>1, <2>2
<1> HIDE DEF z
<1> QED BY <1>1, <1>2, BecomeMoves, ZenonT(60)

LEMMA NextMoves ==
    ASSUME IInv, [Next]_vars
    PROVE  \E e \in End : MovesAt(e)
<1>0. opener \in End /\ acceptor \in End
  BY DEF End
<1>1. CASE connect_to_remote
  BY <1>0, <1>1, ConnectMoves
<1>2. CASE handle_open_refused \/ handle_open_accepted
  BY <1>0, <1>2, OpenMoves
<1>3. ASSUME NEW e \in End, Looper(e)
      PROVE  MovesAt(e)
  BY <1>3, OkayMoves, WrteMoves, ClseMoves, EventMoves, OfflineMoves, Zenon DEF Looper
<1>4. ASSUME sock' = sock
      PROVE  MovesAt(opener)
  <2>1. sock \in [End -> Asocket] /\ sock[opener] \in Asocket
    BY <1>0 DEF IInv
  <2>2. sock' = [sock EXCEPT ![opener] = sock'[opener]]
    BY <1>4, <2>1, Zenon
  <2> QED BY <1>0, <1>4, <2>1, <2>2, SameMoves, Zenon DEF MovesAt
<1>5. ASSUME NEW e \in End, AppWrite(e) \/ AppRead(e) \/ AppClose(e)
      PROVE  sock' = sock
  BY <1>5 DEF AppWrite, AppRead, AppClose
<1>6. ASSUME Break \/ UNCHANGED vars
      PROVE  sock' = sock
  BY <1>6, Zenon DEF Break, vars
<1> QED BY <1>0, <1>1, <1>2, <1>3, <1>4, <1>5, <1>6, Zenon DEF Next

-----------------------------------------------------------------------------
(* A step is a turn of the byte stream of the end that takes it, or is not  *)
(* seen.  That an end hands out only what the other has sent is the         *)
(* inductive invariant after the step.                                      *)
LEMMA StepIsTurn ==
    ASSUME IInv, IInv', NEW e \in End, MovesAt(e), sock[e].st # "gone"
    PROVE  Stream!Turn(e)
<1> DEFINE o == Other(e)
           s == sock[e]
           t == sock'[e]
<1>0. o \in End /\ o # e /\ End \ {e} = {o}
  BY OtherFacts DEF End, Other, opener, acceptor
<1>1. /\ sock \in [End -> Asocket] /\ sock' \in [End -> Asocket]
      /\ sock' = [sock EXCEPT ![e] = t] /\ Moves(e, s, t)
  BY DEF IInv, MovesAt
<1>2. /\ s.sent \in Nat /\ s.flushed \in Nat /\ t.sent \in Nat /\ t.flushed \in Nat
      /\ sock[o].sent \in Nat /\ PeerMax \in Nat
  BY <1>0, <1>1, Numbers, ConstantsAssumption
<1>3. t.flushed <= sock[o].sent
  <2>1. Pair(o, Context(o), Context(e))'
    <3>1. /\ Inv(opener, Context(opener), Context(acceptor))'
      BY DEF IInv
    <3>2. Pair(opener, Context(opener), Context(acceptor))'
          /\ Pair(acceptor, Context(acceptor), Context(opener))'
      BY <3>1 DEF Inv, Mid, Other
    <3>3. (e = opener /\ o = acceptor) \/ (e = acceptor /\ o = opener)
      BY <1>0, Zenon DEF End
    <3> QED BY <3>2, <3>3
  <2>2. /\ Context(o)'.s = sock'[o] /\ Context(e)'.s = t
    BY Zenon DEF Context
  <2>3. t.flushed + t.q <= sock'[o].sent
    BY <2>1, <2>2 DEF Pair
  <2>4. sock'[o] = sock[o] /\ t.q \in Nat
    BY <1>0, <1>1, Numbers, Zenon
  <2> QED BY <1>2, <2>3, <2>4
<1>4. [d \in End |-> sock[d].sent]' =
         [[d \in End |-> sock[d].sent] EXCEPT ![e] = @ + (t.sent - s.sent)]
  <2>1. s.sent + (t.sent - s.sent) = t.sent
    BY <1>2
  <2>2. [d \in End |-> sock[d].sent]' = [[d \in End |-> sock[d].sent] EXCEPT ![e] = t.sent]
    BY <1>1, Zenon
  <2>3. [d \in End |-> sock[d].sent][e] = s.sent
    OBVIOUS
  <2> QED BY <2>1, <2>2, <2>3, Zenon
<1>5. t.sent - s.sent \in 0 .. PeerMax
  BY <1>1, <1>2 DEF Moves
<1>6. [d \in End |-> sock[d].flushed]' =
         [[d \in End |-> sock[d].flushed] EXCEPT ![e] = t.flushed]
  BY <1>1, Zenon
<1>7. t.flushed \in s.flushed .. sock[o].sent
  BY <1>1, <1>2, <1>3 DEF Moves
<1>8. {d \in End : sock[d].st = "gone"}' \in
         {{d \in End : sock[d].st = "gone"}, {d \in End : sock[d].st = "gone"} \cup {e}}
  <2>1. CASE t.st = "gone"
    BY <1>1, <2>1
  <2>2. CASE t.st # "gone"
    BY <1>1, <2>2
  <2> QED BY <2>1, <2>2
<1> QED BY <1>0, <1>4, <1>5, <1>6, <1>7, <1>8, Zenon DEF Stream!Turn

(* The sockets, packets and acknowledgements implement a byte stream, for   *)
(* every packet size, initial credit, fd capacity and amount of data, in    *)
(* either acknowledgement mode, whoever closes and whether or not the       *)
(* transport breaks.                                                        *)
THEOREM ImplementsByteStream == Spec => IsByteStream
<1>1. Init => Stream!Init
  BY NewSocketFields DEF Init, Stream!Init
<1>2. IInv /\ IInv' /\ [Next]_vars => [Stream!Next]_Stream!vars
  <2> SUFFICES ASSUME IInv, IInv', [Next]_vars
               PROVE  [Stream!Next]_Stream!vars
    OBVIOUS
  <2>1. PICK e \in End : MovesAt(e)
    BY NextMoves
  <2>2. CASE sock[e].st # "gone"
    BY <2>1, <2>2, StepIsTurn DEF Stream!Next
  <2>3. CASE sock[e].st = "gone"
    <3>1. sock' = sock
      BY <2>1, <2>3 DEF MovesAt, Moves, IInv
    <3> QED BY <3>1 DEF Stream!vars
  <2> QED BY <2>2, <2>3
<1> QED BY <1>1, <1>2, Invariance, PTL DEF Spec, IsByteStream, Stream!Spec

-----------------------------------------------------------------------------
(* Induction over the naturals, from the fact that "<" is well founded.     *)
LEMMA Induction ==
    ASSUME NEW T, 0 \in T, \A n \in Nat : n \in T => n + 1 \in T
    PROVE  Nat \subseteq T
<1> DEFINE R == OpToRel(<, Nat)
           U == Nat \ T
<1>1. IsWellFoundedOn(R, Nat)
  BY NatLessThanWellFounded, Zenon
<1>2. \A a, b \in Nat : a < b => <<a, b>> \in R
  BY DEF OpToRel
<1> SUFFICES ASSUME U # {}
             PROVE  FALSE
  OBVIOUS
<1> HIDE DEF R
<1>3. U \subseteq Nat
  OBVIOUS
<1>4. PICK m \in U : \A k \in U : ~ (<<k, m>> \in R)
  <2> HIDE DEF U
  <2> QED BY <1>1, <1>3, WFMin, Zenon
<1>5. m \in Nat /\ m # 0 /\ m - 1 \in Nat /\ m - 1 \notin T /\ m - 1 < m
  OBVIOUS
<1>6. <<m - 1, m>> \in R
  BY <1>2, <1>5
<1>7. m - 1 \in U
  BY <1>5
<1> QED BY <1>4, <1>6, <1>7, Zenon

(* Intervals that follow each other without a gap: the running sum of their *)
(* sizes w exists, and at the end it is the distance they cover.            *)
Sums(F, n, w) == F = [i \in 0..n |-> IF i = 0 THEN 0 ELSE F[i - 1] + w[i]]

Follow(from, w, n) == \A i \in 2..n : from[i - 1] + w[i - 1] = from[i]

LEMMA RunningSum ==
    ASSUME NEW n \in Nat \ {0}, NEW from \in [1..n -> Int], NEW w \in [1..n -> Int],
           Follow(from, w, n)
    PROVE  /\ \E F : Sums(F, n, w)
           /\ \A F : Sums(F, n, w) => F[n] = from[n] + w[n] - from[1]
<1> DEFINE g == [i \in 0..n |-> IF i = 0 THEN 0 ELSE from[i] + w[i] - from[1]]
<1>1. g[0] = 0 /\ g[n] = from[n] + w[n] - from[1]
  OBVIOUS
<1>2. ASSUME NEW i \in 1..n
      PROVE  g[i] = g[i - 1] + w[i]
  <2>1. from[i] \in Int /\ w[i] \in Int /\ from[1] \in Int
    OBVIOUS
  <2>2. g[i] = from[i] + w[i] - from[1]
    OBVIOUS
  <2>3. CASE i = 1
    <3>1. i - 1 = 0 /\ g[i - 1] = 0
      BY <2>3
    <3> QED BY <2>1, <2>2, <2>3, <3>1
  <2>4. CASE i # 1
    <3>1. i \in 2..n /\ i - 1 \in 1..n /\ i - 1 # 0
      BY <2>4
    <3>2. from[i - 1] + w[i - 1] = from[i]
      BY <3>1 DEF Follow
    <3>3. g[i - 1] = from[i - 1] + w[i - 1] - from[1]
      BY <3>1
    <3>4. from[i - 1] \in Int /\ w[i - 1] \in Int
      BY <3>1
    <3> DEFINE a == from[i - 1]
               b == w[i - 1]
    <3>5. a \in Int /\ b \in Int /\ a + b = from[i] /\ g[i - 1] = a + b - from[1]
      BY <3>2, <3>3, <3>4
    <3> HIDE DEF a, b, g
    <3> QED BY <2>1, <2>2, <3>5
  <2> QED BY <2>3, <2>4
<1>3. g = [i \in 0..n |-> g[i]]
  OBVIOUS
<1> HIDE DEF g
<1>4. Sums(g, n, w)
  <2>1. \A i \in 0..n : g[i] = IF i = 0 THEN 0 ELSE g[i - 1] + w[i]
    <3>1. \A i \in 0..n : i = 0 \/ i \in 1..n
      OBVIOUS
    <3> QED BY <1>1, <1>2, <3>1, Zenon
  <2> QED BY <1>3, <2>1, Zenon DEF Sums
<1>5. ASSUME NEW F, Sums(F, n, w)
      PROVE  F[n] = g[n]
  <2> DEFINE T == {k \in Nat : k <= n => F[k] = g[k]}
  <2>1. F[0] = 0 /\ \A i \in 1..n : F[i] = F[i - 1] + w[i]
    BY <1>5 DEF Sums
  <2>2. 0 \in T
    BY <1>1, <2>1
  <2>3. ASSUME NEW k \in Nat, k \in T
        PROVE  k + 1 \in T
    <3>1. CASE k + 1 <= n
      <4>1. k + 1 \in 1..n /\ (k + 1) - 1 = k /\ F[k] = g[k]
        BY <2>3, <3>1
      <4> QED BY <1>2, <2>1, <4>1
    <3>2. CASE ~(k + 1 <= n)
      BY <3>2
    <3> QED BY <3>1, <3>2
  <2>4. Nat \subseteq T
    <3> HIDE DEF T
    <3> QED BY <2>2, <2>3, Induction, Zenon
  <2>5. n \in T /\ n <= n
    BY <2>4
  <2> QED BY <2>5
<1> QED BY <1>1, <1>4, <1>5, Zenon

(* The bytes and the credit in a channel are the difference between what    *)
(* its sender has sent and granted and where its first packet starts.       *)
LEMMA ChannelSums ==
    ASSUME IInv, NEW e \in End, chan[e] # <<>>, ~broken
    PROVE  /\ WrteBytes(e) = sock[e].sent - chan[e][1].pos
           /\ (\A i \in 1..Len(chan[e]) :
                  Credit(chan[e][i]) = IF chan[e][i].cmd = "OKAY" THEN chan[e][i].arg ELSE 0)
              => OkayBytes(e) = sock[e].granted - chan[e][1].cum
<1> DEFINE c == chan[e]
           n == Len(c)
<1>0. c \in Seq(Packet) /\ n \in Nat \ {0} /\ 1 \in 1..n /\ n \in 1..n
  BY DEF IInv
<1>1. Linked(c) /\ EndsAt(c, sock[e], broken)
  BY ContextFacts, Zenon DEF Inv, Mid, EndInv
<1>2. ASSUME NEW i \in 1..n
      PROVE  /\ c[i].pos \in Nat /\ c[i].len \in Nat /\ c[i].cum \in Nat
             /\ Credit(c[i]) \in Int
  <2>1. c[i] \in Packet
    BY <1>0
  <2>2. c[i].pos \in Nat /\ c[i].len \in Nat /\ c[i].cum \in Nat /\ c[i].arg \in Int
    BY <2>1, ZenonT(60) DEF Packet
  <2> QED BY <2>2 DEF Credit
<1>3. /\ c[n].pos + c[n].len = sock[e].sent
      /\ c[n].cum + Credit(c[n]) = sock[e].granted
  BY <1>1 DEF EndsAt
<1>4. ASSUME NEW i \in 2..n
      PROVE  /\ c[i - 1].pos + c[i - 1].len = c[i].pos
             /\ c[i - 1].cum + Credit(c[i - 1]) = c[i].cum
  <2>1. i - 1 \in 1..(n - 1) /\ (i - 1) + 1 = i
    OBVIOUS
  <2> QED BY <1>1, <2>1 DEF Linked
<1>5. WrteBytes(e) = sock[e].sent - c[1].pos
  <2> DEFINE w == [i \in 1..n |-> c[i].len]
             from == [i \in 1..n |-> c[i].pos]
             P(f) == f = [i \in 0..n |-> IF i = 0 THEN 0 ELSE f[i - 1] + c[i].len]
             F == CHOOSE f : P(f)
  <2>1. WrteBytes(e) = F[n]
    BY DEF WrteBytes
  <2>2. ASSUME NEW f
        PROVE  P(f) <=> Sums(f, n, w)
    <3>1. \A i \in 1..n : w[i] = c[i].len
      OBVIOUS
    <3> HIDE DEF w
    <3> QED BY <3>1 DEF Sums
  <2>3. /\ w \in [1..n -> Int] /\ from \in [1..n -> Int]
        /\ Follow(from, w, n)
    <3>1. w \in [1..n -> Int] /\ from \in [1..n -> Int]
      BY <1>2
    <3>2. ASSUME NEW i \in 2..n
          PROVE  from[i - 1] + w[i - 1] = from[i]
      <4>1. i - 1 \in 1..n /\ i \in 1..n
        OBVIOUS
      <4> QED BY <1>4, <4>1
    <3> QED BY <3>1, <3>2, Zenon DEF Follow
  <2>4. from[n] + w[n] - from[1] = sock[e].sent - c[1].pos
    <3>1. from[n] = c[n].pos /\ w[n] = c[n].len /\ from[1] = c[1].pos
      BY <1>0
    <3> HIDE DEF w, from
    <3>2. /\ c[n].pos \in Int /\ c[n].len \in Int /\ c[1].pos \in Int
          /\ c[n].cum \in Int /\ Credit(c[n]) \in Int /\ c[1].cum \in Int
      BY <1>0, <1>2
    <3> HIDE DEF c, n
    <3> QED BY <1>3, <3>1, <3>2
  <2> HIDE DEF w, from, P
  <2>5. /\ \E f : Sums(f, n, w)
        /\ \A f : Sums(f, n, w) => f[n] = from[n] + w[n] - from[1]
    BY <1>0, <2>3, RunningSum, ZenonT(60)
  <2>6. P(F)
    BY <2>2, <2>5
  <2> HIDE DEF F
  <2> QED BY <2>1, <2>2, <2>4, <2>5, <2>6, Zenon
<1>6. ASSUME \A i \in 1..n : Credit(c[i]) = IF c[i].cmd = "OKAY" THEN c[i].arg ELSE 0
      PROVE  OkayBytes(e) = sock[e].granted - c[1].cum
  <2> DEFINE w == [i \in 1..n |-> Credit(c[i])]
             from == [i \in 1..n |-> c[i].cum]
             P(f) == f = [i \in 0..n |-> IF i = 0 THEN 0
                             ELSE f[i - 1] + (IF c[i].cmd = "OKAY" THEN c[i].arg ELSE 0)]
             F == CHOOSE f : P(f)
  <2>1. OkayBytes(e) = F[n]
    BY DEF OkayBytes
  <2>2. ASSUME NEW f
        PROVE  P(f) <=> Sums(f, n, w)
    <3>1. \A i \in 1..n : w[i] = IF c[i].cmd = "OKAY" THEN c[i].arg ELSE 0
      BY <1>6
    <3> HIDE DEF w
    <3> QED BY <3>1 DEF Sums
  <2>3. /\ w \in [1..n -> Int] /\ from \in [1..n -> Int]
        /\ Follow(from, w, n)
    <3>1. w \in [1..n -> Int] /\ from \in [1..n -> Int]
      BY <1>2
    <3>2. ASSUME NEW i \in 2..n
          PROVE  from[i - 1] + w[i - 1] = from[i]
      <4>1. i - 1 \in 1..n /\ i \in 1..n
        OBVIOUS
      <4> QED BY <1>4, <4>1
    <3> QED BY <3>1, <3>2, Zenon DEF Follow
  <2>4. from[n] + w[n] - from[1] = sock[e].granted - c[1].cum
    <3>1. from[n] = c[n].cum /\ w[n] = Credit(c[n]) /\ from[1] = c[1].cum
      BY <1>0, Zenon
    <3> HIDE DEF w, from
    <3>2. /\ c[n].pos \in Int /\ c[n].len \in Int /\ c[1].pos \in Int
          /\ c[n].cum \in Int /\ Credit(c[n]) \in Int /\ c[1].cum \in Int
      BY <1>0, <1>2
    <3> HIDE DEF c, n
    <3> QED BY <1>3, <3>1, <3>2
  <2> HIDE DEF w, from, P
  <2>5. /\ \E f : Sums(f, n, w)
        /\ \A f : Sums(f, n, w) => f[n] = from[n] + w[n] - from[1]
    BY <1>0, <2>3, RunningSum, ZenonT(60)
  <2>6. P(F)
    BY <2>2, <2>5
  <2> HIDE DEF F
  <2> QED BY <2>1, <2>2, <2>4, <2>5, <2>6
<1> QED BY <1>5, <1>6

(* An empty channel holds neither.                                          *)
LEMMA EmptySums ==
    ASSUME NEW e \in End, chan[e] = <<>>
    PROVE  WrteBytes(e) = 0 /\ OkayBytes(e) = 0
<1> DEFINE W(f) == f = [i \in 0..0 |-> IF i = 0 THEN 0 ELSE f[i - 1] + chan[e][i].len]
           O(f) == f = [i \in 0..0 |-> IF i = 0 THEN 0
                           ELSE f[i - 1] + (IF chan[e][i].cmd = "OKAY" THEN chan[e][i].arg ELSE 0)]
           g == [i \in 0..0 |-> 0]
<1>1. Len(chan[e]) = 0
  OBVIOUS
<1>2. WrteBytes(e) = (CHOOSE f : W(f))[0] /\ OkayBytes(e) = (CHOOSE f : O(f))[0]
  BY <1>1, Zenon DEF WrteBytes, OkayBytes
<1>3. \A i \in 0..0 : i = 0
  OBVIOUS
<1>4. W(g) /\ O(g)
  BY <1>3
<1>5. \A f : (W(f) => f[0] = 0) /\ (O(f) => f[0] = 0)
  OBVIOUS
<1> HIDE DEF W, O
<1>6. W(CHOOSE f : W(f)) /\ O(CHOOSE f : O(f))
  BY <1>4
<1> QED BY <1>2, <1>5, <1>6

(* While both sockets are open and both ends count bytes, an A_OKAY is the  *)
(* only packet that carries credit.                                         *)
LEMMA OnlyOkays ==
    ASSUME IInv, BothOpen, NEW e \in End, Delayed[e], NEW i \in 1..Len(chan[e])
    PROVE  Credit(chan[e][i]) = IF chan[e][i].cmd = "OKAY" THEN chan[e][i].arg ELSE 0
<1> DEFINE p == chan[e][i]
<1>1. p \in Packet
  BY DEF IInv
<1>2. p.cmd \in {"OPEN", "OKAY", "WRTE", "CLSE"} /\ p.arg \in Int
  BY <1>1, ZenonT(60) DEF Packet
<1>3. PacketInv(e, sock[e], p)
  BY ContextFacts, Zenon DEF Inv, Mid, EndInv
<1>4. sock[opener].st = "open" /\ sock[acceptor].st = "open" /\ sock[e].st = "open"
  BY DEF BothOpen, End
<1>5. p.cmd # "OPEN"
  <2> SUFFICES ASSUME p.cmd = "OPEN"
               PROVE  FALSE
    OBVIOUS
  <2>1. e = opener
    BY <1>3, Zenon DEF PacketInv
  <2>2. Start(Context(opener), Context(acceptor))
    BY DEF IInv, Inv, Mid
  <2>3. /\ Context(opener).out = chan[opener]
        /\ Context(acceptor).s = sock[acceptor]
    BY DEF Context
  <2> QED BY <1>4, <2>1, <2>2, <2>3 DEF Start
<1>6. p.cmd # "CLSE"
  BY <1>3, <1>4 DEF PacketInv
<1>7. CASE p.cmd = "OKAY"
  <2>1. p.arg # NoAck /\ p.arg >= -1
    BY <1>3, <1>7, Zenon DEF PacketInv
  <2> QED BY <1>2, <1>7, <2>1 DEF Credit, NoAck
<1>8. CASE p.cmd = "WRTE"
  <2>1. p.arg = 0
    BY <1>3, <1>8 DEF PacketInv
  <2> QED BY <1>8, <2>1 DEF Credit
<1> QED BY <1>2, <1>5, <1>6, <1>7, <1>8, Zenon

(* The bytes on their way from e, and the credit on its way to it.          *)
LEMMA InFlight ==
    ASSUME IInv, BothOpen, ~broken, \A e \in End : Delayed[e], NEW e \in End
    PROVE  /\ WrteBytes(e) = sock[e].sent - (sock[Other(e)].flushed + sock[Other(e)].q)
           /\ OkayBytes(e) = sock[e].granted - (sock[Other(e)].avail + sock[Other(e)].sent)
<1> DEFINE o == Other(e)
<1>1. o \in End /\ sock[e] \in Asocket /\ sock[o] \in Asocket
  BY OtherFacts DEF IInv
<1>2. /\ sock[e].sent \in Nat /\ sock[e].granted \in Nat /\ sock[o].flushed \in Nat
      /\ sock[o].q \in Nat /\ sock[o].sent \in Nat /\ sock[o].avail \in Int
  BY <1>1, Numbers
<1>3. Pair(e, Context(e), Context(o))
  BY ContextFacts DEF Inv, Mid
<1>4. /\ Context(e).s = sock[e] /\ Context(e).out = chan[e]
      /\ Context(o).s = sock[o] /\ sock[o].st = "open"
  BY <1>1, ContextFacts, Zenon DEF BothOpen
<1>5. /\ BytesAt(chan[e], sock[e], sock[o], broken)
      /\ CreditAt(chan[e], sock[e], sock[o], broken)
  BY <1>1, <1>3, <1>4, Zenon DEF Pair
<1>6. CASE chan[e] = <<>>
  <2>1. /\ sock[o].flushed + sock[o].q = sock[e].sent
        /\ sock[o].avail + sock[o].sent = sock[e].granted
    BY <1>5, <1>6 DEF BytesAt, CreditAt
  <2>2. WrteBytes(e) = 0 /\ OkayBytes(e) = 0
    BY <1>6, EmptySums
  <2> HIDE DEF o
  <2>3. WrteBytes(e) = sock[e].sent - (sock[o].flushed + sock[o].q)
    BY <1>2, <2>1, <2>2
  <2>4. OkayBytes(e) = sock[e].granted - (sock[o].avail + sock[o].sent)
    BY <1>2, <2>1, <2>2
  <2> QED BY <2>3, <2>4 DEF o
<1>7. CASE chan[e] # <<>>
  <2>1. /\ sock[o].flushed + sock[o].q = chan[e][1].pos
        /\ sock[o].avail + sock[o].sent = chan[e][1].cum
    BY <1>5, <1>7 DEF BytesAt, CreditAt
  <2>2. \A i \in 1..Len(chan[e]) :
          Credit(chan[e][i]) = IF chan[e][i].cmd = "OKAY" THEN chan[e][i].arg ELSE 0
    BY OnlyOkays
  <2>3. /\ WrteBytes(e) = sock[e].sent - chan[e][1].pos
        /\ OkayBytes(e) = sock[e].granted - chan[e][1].cum
    BY <1>7, <2>2, ChannelSums
  <2> QED BY <2>1, <2>3, Zenon
<1> QED BY <1>6, <1>7

(* A socket that is open has granted its peer the initial credit and every  *)
(* byte it has flushed since, no more and no less.                          *)
OwesAll == \A e \in End : Owes(e, sock[e])

LEMMA OwesAlways == Spec => []OwesAll
<1>1. Init => OwesAll
  BY NewSocketFields DEF Init, OwesAll, Owes
<1>2. IInv /\ OwesAll /\ [Next]_vars => OwesAll'
  <2> SUFFICES ASSUME IInv, OwesAll, [Next]_vars, NEW e \in End
               PROVE  Owes(e, sock'[e])
    BY DEF OwesAll
  <2>1. PICK a \in End : MovesAt(a)
    BY NextMoves
  <2>2. sock \in [End -> Asocket]
    BY DEF IInv
  <2>3. CASE e = a
    BY <2>1, <2>3 DEF MovesAt, Moves, OwesAll
  <2>4. CASE e # a
    <3>1. sock'[e] = sock[e]
      BY <2>1, <2>2, <2>4 DEF MovesAt
    <3> QED BY <3>1 DEF OwesAll
  <2> QED BY <2>3, <2>4
<1> QED BY <1>1, <1>2, Invariance, PTL DEF Spec

(* No byte of credit is lost or invented: while the two sockets are open,   *)
(* what the sender may still send, the bytes in flight, the bytes the       *)
(* receiver holds and the acks on their way back add up to                  *)
(* INITIAL_DELAYED_ACK_BYTES (local_socket_ack, send_ready).                *)
THEOREM CreditKept == Spec => []CreditConserved
<1>1. IInv /\ OwesAll => CreditConserved
  <2> SUFFICES ASSUME IInv, OwesAll, BothOpen, ~broken, \A e \in End : Delayed[e],
                      NEW e \in End
               PROVE  sock[e].avail + WrteBytes(e) + sock[Other(e)].q + OkayBytes(Other(e))
                        = InitialAck
    BY DEF CreditConserved
  <2> DEFINE o == Other(e)
             W == WrteBytes(e)
             K == OkayBytes(o)
  <2>1. o \in End /\ Other(o) = e /\ sock[e] \in Asocket /\ sock[o] \in Asocket
    BY OtherFacts DEF IInv
  <2>2. /\ sock[e].sent \in Nat /\ sock[e].avail \in Int /\ sock[o].flushed \in Nat
        /\ sock[o].q \in Nat /\ sock[o].granted \in Nat /\ InitialAck \in Nat
    BY <2>1, Numbers, ConstantsAssumption, Zenon
  <2>3. W = sock[e].sent - (sock[o].flushed + sock[o].q)
    BY InFlight
  <2>4. K = sock[o].granted - (sock[e].avail + sock[e].sent)
    BY <2>1, InFlight, Zenon
  <2>5. sock[o].granted = InitialAck + sock[o].flushed
    BY <2>1, Zenon DEF OwesAll, Owes, BothOpen
  <2> HIDE DEF o, W, K
  <2>6. sock[e].avail + W + sock[o].q + K = InitialAck
    BY <2>2, <2>3, <2>4, <2>5
  <2> QED BY <2>6 DEF o, W, K
<1> QED BY <1>1, Invariance, OwesAlways, PTL
=============================================================================
