-------------------------- MODULE AdbStreamProofs --------------------------
(***************************************************************************)
(* Proofs about AdbStream, for every payload size, initial credit, fd      *)
(* capacity and amount of data, with and without delayed acks: each action *)
(* keeps the inductive invariant of AdbStreamLemmas, and the invariant     *)
(* implies the safety properties.                                          *)
(***************************************************************************)
EXTENDS AdbStreamSteps

-----------------------------------------------------------------------------
(* The invariant depends on no variable but "broken", and holds on when the *)
(* transport breaks.                                                        *)
LEMMA InvKept ==
    ASSUME NEW e \in End, broken' = broken, NEW x, NEW y, Inv(e, x, y)
    PROVE  Inv(e, x, y)'
<1>1. EndInv(e, x)' /\ EndInv(Other(e), y)'
  BY Zenon DEF Inv, Mid, EndInv
<1>2. Pair(e, x, y)' /\ Pair(Other(e), y, x)'
  BY Zenon DEF Inv, Mid, Pair
<1>3. Told(x, y)' /\ Told(y, x)'
  BY Zenon DEF Inv, Mid, Told
<1>4. (e = opener => Start(x, y)') /\ (e = acceptor => Start(y, x)')
  BY Zenon DEF Inv, Mid, Start
<1> QED BY <1>1, <1>2, <1>3, <1>4, Zenon DEF Inv, Mid

LEMMA BreakStep ==
    ASSUME NEW e \in End, broken = FALSE, broken' = TRUE, NEW x, NEW y, Inv(e, x, y)
    PROVE  Inv(e, x, y)'
<1>1. EndInv(e, x)' /\ EndInv(Other(e), y)'
  BY Zenon DEF Inv, Mid, EndInv, EndsAt
<1>2. Pair(e, x, y)' /\ Pair(Other(e), y, x)'
  BY DEF Inv, Mid, Pair, BytesAt, CreditAt
<1>3. Told(x, y)' /\ Told(y, x)'
  BY Zenon DEF Told
<1>4. (e = opener => Start(x, y)') /\ (e = acceptor => Start(y, x)')
  BY DEF Inv, Mid, Start
<1> QED BY <1>1, <1>2, <1>3, <1>4, Zenon DEF Inv, Mid

LEMMA ContextFacts ==
    ASSUME IInv, NEW e \in End
    PROVE  /\ Context(e).s = sock[e] /\ Context(e).out = chan[e] /\ Context(e).f = fd[e]
           /\ Context(e) \in Ctx /\ broken \in BOOLEAN
           /\ Inv(e, Context(e), Context(Other(e)))
<1>1. /\ Context(e).s = sock[e] /\ Context(e).out = chan[e] /\ Context(e).f = fd[e]
      /\ Context(e) \in Ctx /\ broken \in BOOLEAN
  BY DEF IInv, Context, Ctx
<1>2. Inv(opener, Context(opener), Context(acceptor)) /\ opener \in End
  BY DEF IInv, End
<1>3. Inv(e, Context(e), Context(Other(e)))
  <2>1. CASE e = opener
    BY <1>2, <2>1, OtherFacts
  <2>2. CASE e = acceptor
    BY <1>2, <2>2, OtherFacts, InvSymmetric
  <2> QED BY <2>1, <2>2, OtherFacts
<1> QED BY <1>1, <1>3

(* A step that turns the contexts of e and of the other end into z and t.   *)
LEMMA StepKeeps ==
    ASSUME IInv, NEW e \in End, NEW z \in Ctx, NEW t \in Ctx, Inv(e, z, t),
           sock' \in [End -> Asocket], sock'[e] = z.s, sock'[Other(e)] = t.s,
           chan' \in [End -> Seq(Packet)], chan'[e] = z.out, chan'[Other(e)] = t.out,
           fd' \in [End -> Fd], fd'[e] = z.f, fd'[Other(e)] = t.f,
           broken' = broken, online' \in [End -> BOOLEAN]
    PROVE  IInv'
<1>0. Other(e) \in End /\ Other(e) # e
  BY OtherFacts
<1>1. broken \in BOOLEAN
  BY DEF IInv
<1>2. /\ z.s \in Asocket /\ z.out \in Seq(Packet) /\ z.f \in Fd
      /\ t.s \in Asocket /\ t.out \in Seq(Packet) /\ t.f \in Fd
      /\ z = [s |-> z.s, out |-> z.out, f |-> z.f]
      /\ t = [s |-> t.s, out |-> t.out, f |-> t.f]
  BY DEF Ctx
<1>5. Context(e)' = z /\ Context(Other(e))' = t
  BY <1>2 DEF Context
<1>6. Inv(e, Context(e)', Context(Other(e))')
  BY <1>5
<1>7. Inv(opener, Context(opener)', Context(acceptor)')
  <2>1. CASE e = opener
    BY <1>6, <2>1, OtherFacts
  <2>2. CASE e = acceptor
    BY <1>6, <2>2, OtherFacts, InvSymmetric
  <2> QED BY <2>1, <2>2, OtherFacts
<1>8. Inv(opener, Context(opener), Context(acceptor))'
  <2>1. opener \in End
    BY DEF End
  <2> QED BY <1>7, <2>1, InvKept
<1> QED BY <1>1, <1>8 DEF IInv

LEMMA LocalKeeps ==
    ASSUME IInv, NEW e \in End, NEW z, Step(e, z), Inv(e, z, Context(Other(e)))
    PROVE  IInv'
<1>1. z \in Ctx /\ Other(e) \in End /\ Other(e) # e
  BY OtherFacts DEF Inv, Mid, EndInv
<1>2. /\ Context(Other(e)) \in Ctx
      /\ Context(Other(e)).s = sock[Other(e)] /\ Context(Other(e)).out = chan[Other(e)]
      /\ Context(Other(e)).f = fd[Other(e)]
  BY <1>1, ContextFacts
<1>3. /\ sock \in [End -> Asocket] /\ chan \in [End -> Seq(Packet)] /\ fd \in [End -> Fd]
      /\ online \in [End -> BOOLEAN]
  BY DEF IInv
<1> DEFINE t == Context(Other(e))
<1>4. z.s \in Asocket /\ z.out \in Seq(Packet) /\ z.f \in Fd
  BY <1>1 DEF Ctx
<1>5. /\ sock' \in [End -> Asocket] /\ sock'[e] = z.s /\ sock'[Other(e)] = t.s
      /\ chan' \in [End -> Seq(Packet)] /\ chan'[e] = z.out /\ chan'[Other(e)] = t.out
      /\ fd' \in [End -> Fd] /\ fd'[e] = z.f /\ fd'[Other(e)] = t.f
      /\ broken' = broken /\ online' = online
  BY <1>1, <1>2, <1>3, <1>4, Zenon DEF Step, Become
<1> QED BY <1>1, <1>2, <1>3, <1>5, StepKeeps, ZenonT(60)

LEMMA HandleKeeps ==
    ASSUME IInv, NEW e \in End, NEW z, chan[Other(e)] # <<>>, Handle(e, z),
           Inv(e, z, Taken(Context(Other(e))))
    PROVE  IInv'
<1> DEFINE t == Taken(Context(Other(e)))
<1>1. z \in Ctx /\ t \in Ctx /\ Other(e) \in End /\ Other(e) # e
  BY OtherFacts, Zenon DEF Inv, Mid, EndInv
<1>2. /\ t.s = sock[Other(e)] /\ t.out = Tail(chan[Other(e)])
      /\ t.f = fd[Other(e)]
  BY <1>1, ContextFacts DEF Taken
<1>3. /\ sock \in [End -> Asocket] /\ chan \in [End -> Seq(Packet)] /\ fd \in [End -> Fd]
      /\ online \in [End -> BOOLEAN]
  BY DEF IInv
<1> HIDE DEF t
<1>4. /\ z.s \in Asocket /\ z.out \in Seq(Packet) /\ z.f \in Fd
      /\ Tail(chan[Other(e)]) \in Seq(Packet)
  BY <1>1, <1>2, ZenonT(60) DEF Ctx
<1>5. /\ sock' \in [End -> Asocket] /\ sock'[e] = z.s /\ sock'[Other(e)] = t.s
      /\ fd' \in [End -> Fd] /\ fd'[e] = z.f /\ fd'[Other(e)] = t.f
      /\ broken' = broken /\ online' = online
  BY <1>1, <1>2, <1>3, <1>4 DEF Handle, Become
<1>6. chan' \in [End -> Seq(Packet)] /\ chan'[e] = z.out /\ chan'[Other(e)] = t.out
  BY <1>1, <1>2, <1>3, <1>4, ZenonT(60) DEF Handle
<1>7. Inv(e, z, t)
  BY DEF t
<1> QED BY <1>1, <1>3, <1>5, <1>6, <1>7, StepKeeps, Zenon

(* Each handler keeps the invariant.                                        *)
LEMMA HeadIsFirst ==
    ASSUME IInv, NEW e \in End, NEW cmd, Receives(e, cmd)
    PROVE  /\ Other(e) \in End /\ chan[Other(e)] # <<>>
           /\ Head(chan[Other(e)]) = Context(Other(e)).out[1]
           /\ Context(Other(e)).out # <<>>
           /\ Context(Other(e)).out[1].cmd = cmd
<1>1. Other(e) \in End /\ Context(Other(e)).out = chan[Other(e)]
  BY OtherFacts, ContextFacts
<1>2. Head(chan[Other(e)]) = chan[Other(e)][1]
  OBVIOUS
<1> QED BY <1>1, <1>2 DEF Receives

LEMMA OkayKeeps ==
    ASSUME IInv, NEW e \in End, handle_okay(e)
    PROVE  IInv'
<1> DEFINE x == Context(e)
           y == Context(Other(e))
           z == IF Found(e) THEN local_socket_ack(e, [x EXCEPT !.s.peer = TRUE], y.out[1].arg)
                ELSE send_close(x, 1)
<1>1. /\ Inv(e, x, y) /\ x.s = sock[e] /\ broken \in BOOLEAN
      /\ y.out # <<>> /\ y.out[1].cmd = "OKAY" /\ chan[Other(e)] # <<>>
      /\ Head(chan[Other(e)]) = y.out[1]
  BY ContextFacts, HeadIsFirst DEF handle_okay
<1>2. Handle(e, z)
  BY <1>1 DEF handle_okay
<1> HIDE DEF x, y
<1>3. CASE x.s.st = "open"
  <2>1. z = local_socket_ack(e, [x EXCEPT !.s.peer = TRUE], y.out[1].arg)
    BY <1>1, <1>3 DEF Found
  <2>2. Inv(e, z, Taken(y))
    BY <1>1, <1>3, <2>1, AckStep
  <2> QED BY <1>1, <1>2, <2>2, HandleKeeps DEF y
<1>4. CASE x.s.st # "open"
  <2>1. z = send_close(x, 1)
    BY <1>1, <1>4 DEF Found
  <2>2. x.s.st \in {"closing", "gone"}
    BY <1>1, <1>4, NotFoundIsClosed DEF Inv
  <2>3. Inv(e, z, Taken(y))
    BY <1>1, <2>1, <2>2, LateOkayStep
  <2> QED BY <1>1, <1>2, <2>3, HandleKeeps DEF y
<1> QED BY <1>3, <1>4

LEMMA WrteKeeps ==
    ASSUME IInv, NEW e \in End, handle_wrte(e)
    PROVE  IInv'
<1> DEFINE x == Context(e)
           y == Context(Other(e))
           a == [x EXCEPT !.s.q = @ + y.out[1].len]
<1>1. /\ Inv(e, x, y) /\ x.s = sock[e] /\ broken \in BOOLEAN
      /\ y.out # <<>> /\ y.out[1].cmd = "WRTE" /\ chan[Other(e)] # <<>>
      /\ Head(chan[Other(e)]) = y.out[1]
  BY ContextFacts, HeadIsFirst DEF handle_wrte
<1>2. CASE Found(e) /\ sock[e].peer
  <2>1. PICK rc \in writev(a) : Handle(e, local_socket_flush_incoming(e, a, rc))
    BY <1>1, <1>2 DEF handle_wrte
  <2> DEFINE z == local_socket_flush_incoming(e, a, rc)
             t == Taken(y)
  <2>h. Handle(e, z)
    BY <2>1
  <2> HIDE DEF x, y
  <2>2. x.s.st = "open" /\ x.s.peer
    BY <1>1, <1>2 DEF Found
  <2>3. Mid(e, a, t)
    BY <1>1, <2>2, WrteStep, Zenon
  <2> HIDE DEF a
  <2>4. EndInv(e, a) /\ a \in Ctx
    BY <2>3 DEF Mid, EndInv
  <2>5. a.s.st = "open" /\ a.s.sent = x.s.sent /\ a.f = x.f
    <3>1. x \in Ctx /\ x.s \in Asocket
      BY <1>1 DEF Inv, Mid, EndInv, Ctx
    <3> QED BY <2>2, <3>1, Zenon DEF a, Ctx, Asocket
  <2>6. rc \in Int /\ -1 <= rc /\ rc <= a.s.q /\ (rc = -1 => a.f.deaf)
    BY <2>1, <2>4, WritevFacts, Zenon
  <2>7. /\ EndInv(e, z) /\ WaitsToWrite(z.s) /\ Frame(e, a, z)
        /\ z.s.sent = a.s.sent /\ z.s.why = a.s.why
    BY <1>1, <2>4, <2>5, <2>6, FlushIncomingLemma
  <2> HIDE DEF z
  <2>8. (Delayed[e] /\ Delayed[Other(e)] /\ ~z.f.shut) =>
           z.s.sent <= InitialAck + t.s.flushed + PeerMax - 1
    BY <2>3, <2>7, OtherFacts, ZenonT(60) DEF Mid, Pair, Frame
  <2> HIDE DEF t
  <2>9. Inv(e, z, t)
    BY <1>1, <2>3, <2>7, <2>8, LocalStep, ZenonT(60)
  <2> QED BY <1>1, <2>h, <2>9, HandleKeeps DEF t, y
<1>3. CASE ~(Found(e) /\ sock[e].peer)
  <2>1. Handle(e, x)
    BY <1>3 DEF handle_wrte
  <2>2. x.s.st = "open" => ~x.s.peer
    BY <1>1, <1>3 DEF Found
  <2> HIDE DEF x, y
  <2>3. x.s.st \in {"closing", "gone"}
    BY <1>1, <2>2, NotFoundIsClosed DEF Inv
  <2>4. Inv(e, x, Taken(y))
    BY <1>1, <2>3, DropStep
  <2> QED BY <1>1, <2>1, <2>4, HandleKeeps DEF y
<1> QED BY <1>2, <1>3

LEMMA ClseKeeps ==
    ASSUME IInv, NEW e \in End, handle_clse(e)
    PROVE  IInv'
<1> DEFINE x == Context(e)
           y == Context(Other(e))
           found == Found(e) /\ (y.out[1].arg = 0 \/ sock[e].peer)
<1>1. /\ Inv(e, x, y) /\ x.s = sock[e] /\ broken \in BOOLEAN
      /\ y.out # <<>> /\ y.out[1].cmd = "CLSE" /\ chan[Other(e)] # <<>>
      /\ Head(chan[Other(e)]) = y.out[1]
  BY ContextFacts, HeadIsFirst, Zenon DEF handle_clse
<1>2. CASE found
  <2>1. Handle(e, local_socket_close(x, "clse"))
    BY <1>1, <1>2 DEF handle_clse
  <2> HIDE DEF x, y
  <2>2. x.s.st = "open"
    BY <1>1, <1>2, Zenon DEF Found
  <2>3. Inv(e, local_socket_close(x, "clse"), Taken(y))
    BY <1>1, <2>2, ClseStep, Zenon
  <2> QED BY <1>1, <2>1, <2>3, HandleKeeps, Zenon DEF y
<1>3. CASE ~found
  <2>1. Handle(e, x)
    BY <1>1, <1>3 DEF handle_clse
  <2>2. x.s.st = "open" => ~x.s.peer /\ y.out[1].arg # 0
    BY <1>1, <1>3, Zenon DEF Found
  <2> HIDE DEF x, y
  <2>3. x.s.st \in {"closing", "gone"}
    BY <1>1, <2>2, NotFoundIsClosed, Zenon DEF Inv
  <2>4. Inv(e, x, Taken(y))
    BY <1>1, <2>3, DropStep
  <2> QED BY <1>1, <2>1, <2>4, HandleKeeps, Zenon DEF y
<1> QED BY <1>2, <1>3

LEMMA OpenKeeps ==
    ASSUME IInv, handle_open_refused \/ handle_open_accepted
    PROVE  IInv'
<1> DEFINE x == Context(acceptor)
           y == Context(opener)
<1>0. acceptor \in End /\ opener \in End /\ Other(acceptor) = opener
  BY DEF End, Other, opener, acceptor
<1>1. /\ Inv(acceptor, x, y) /\ broken \in BOOLEAN
      /\ y.out # <<>> /\ y.out[1].cmd = "OPEN" /\ chan[Other(acceptor)] # <<>>
      /\ Head(chan[opener]) = y.out[1]
  <2>1. Receives(acceptor, "OPEN")
    BY DEF handle_open_refused, handle_open_accepted
  <2> QED BY <1>0, <2>1, ContextFacts, HeadIsFirst
<1>2. CASE handle_open_refused
  <2>1. Handle(acceptor, send_close(x, 0))
    BY <1>2 DEF handle_open_refused
  <2> HIDE DEF x, y
  <2>2. Inv(acceptor, send_close(x, 0), Taken(y))
    BY <1>1, RefuseStep
  <2> QED BY <1>0, <1>1, <2>1, <2>2, HandleKeeps, Zenon DEF y
<1>3. CASE handle_open_accepted
  <2> DEFINE a == [x EXCEPT !.s.st = "open", !.s.peer = TRUE,
                            !.s.avail = y.out[1].arg, !.s.rd = TRUE]
             z == send_ready(acceptor, a, InitialAck)
  <2>1. Handle(acceptor, z) /\ Delayed[acceptor] = (y.out[1].arg # 0)
    BY <1>1, <1>3, ZenonT(60) DEF handle_open_accepted
  <2> HIDE DEF x, y
  <2>2. Inv(acceptor, z, Taken(y))
    BY <1>1, <2>1, AcceptStep, Zenon
  <2> QED BY <1>0, <1>1, <2>1, <2>2, HandleKeeps, Zenon DEF y
<1> QED BY <1>2, <1>3

LEMMA ConnectKeeps ==
    ASSUME IInv, connect_to_remote
    PROVE  IInv'
<1> DEFINE x == Context(opener)
           bytes == IF Delayed[opener] THEN InitialAck ELSE 0
           z == [x EXCEPT !.s.st = "open", !.s.granted = bytes,
                          !.out = Send(@, Stamp(x.s, "OPEN", bytes, 0))]
<1>0. opener \in End /\ Other(opener) = acceptor
  BY DEF End, Other, opener, acceptor
<1>1. Inv(opener, x, Context(acceptor)) /\ broken \in BOOLEAN
  BY <1>0, ContextFacts
<1>2. x.s.st = "none" /\ Step(opener, z)
  BY DEF connect_to_remote
<1>3. bytes \in Nat /\ bytes <= InitialAck
  BY ConstantsAssumption
<1> HIDE DEF x, bytes
<1>4. Inv(opener, z, Context(acceptor))
  BY <1>1, <1>2, <1>3, ConnectStep, Zenon
<1> QED BY <1>0, <1>2, <1>4, LocalKeeps, Zenon

LEMMA EventKeeps ==
    ASSUME IInv, NEW e \in End, local_socket_event_func(e)
    PROVE  IInv'
<1> DEFINE x == Context(e)
           y == Context(Other(e))
<1>1. /\ Inv(e, x, y) /\ broken \in BOOLEAN /\ x.s = sock[e] /\ x.f = fd[e]
  BY ContextFacts, Zenon
<1>e. PICK ev \in SUBSET Ready(e) \ {{}} :
         \E rc \in IF "W" \in ev THEN writev(x) ELSE {0} :
            LET w == IF "W" \in ev THEN local_socket_flush_incoming(e, x, rc) ELSE x
            IN  Step(e, IF "R" \in ev /\ w.s.st # "gone"
                        THEN local_socket_flush_outgoing(e, w) ELSE w)
  BY Zenon DEF local_socket_event_func
<1>2. PICK rc \in IF "W" \in ev THEN writev(x) ELSE {0} :
         LET w == IF "W" \in ev THEN local_socket_flush_incoming(e, x, rc) ELSE x
         IN  Step(e, IF "R" \in ev /\ w.s.st # "gone"
                     THEN local_socket_flush_outgoing(e, w) ELSE w)
  BY <1>e
<1> DEFINE w == IF "W" \in ev THEN local_socket_flush_incoming(e, x, rc) ELSE x
           z == IF "R" \in ev /\ w.s.st # "gone"
                THEN local_socket_flush_outgoing(e, w) ELSE w
<1>3. Step(e, z)
  BY <1>2, Zenon
<1>4. "R" \in ev => x.s.rd \/ x.f.shut
  BY <1>1, <1>e, Zenon DEF Ready
<1>5. x.s.st \in {"open", "closing"}
  BY <1>1, Zenon DEF local_socket_event_func
<1>6. w = x \/ \E r \in writev(x) : w = local_socket_flush_incoming(e, x, r)
  BY <1>2
<1> HIDE DEF x, y, w
<1>7. z = w \/ (w.s.st # "gone" /\ (x.s.rd \/ x.f.shut)
                /\ z = local_socket_flush_outgoing(e, w))
  BY <1>4, Zenon
<1> HIDE DEF z
<1>8. Inv(e, z, y)
  BY <1>1, <1>5, <1>6, <1>7, EventStep, Zenon
<1> QED BY <1>3, <1>8, LocalKeeps DEF y

LEMMA OfflineKeeps ==
    ASSUME IInv, NEW e \in End, handle_offline(e)
    PROVE  IInv'
<1> DEFINE x == Context(e)
           y == Context(Other(e))
           z == IF Found(e) THEN local_socket_close(x, "offline") ELSE x
<1>1. /\ Inv(e, x, y) /\ broken \in BOOLEAN
      /\ x.s = sock[e] /\ x.out = chan[e] /\ x.f = fd[e]
      /\ y.s = sock[Other(e)] /\ y.out = chan[Other(e)] /\ y.f = fd[Other(e)]
      /\ y \in Ctx /\ Other(e) \in End /\ Other(e) # e
  BY ContextFacts, OtherFacts
<1>2. broken /\ sock' = [sock EXCEPT ![e] = z.s] /\ UNCHANGED <<chan, fd, broken>>
  BY DEF handle_offline
<1>3. online' \in [End -> BOOLEAN]
  BY DEF IInv, handle_offline
<1> HIDE DEF x, y
<1>4. Inv(e, z, y) /\ z.out = x.out /\ z.f = x.f
  <2>1. CASE x.s.st = "open"
    <3>1. z = local_socket_close(x, "offline")
      BY <1>1, <2>1 DEF Found
    <3> QED BY <1>1, <1>2, <2>1, <3>1, OfflineStep, Zenon
  <2>2. CASE x.s.st # "open"
    BY <1>1, <2>2, Zenon DEF Found
  <2> QED BY <2>1, <2>2, Zenon
<1> HIDE DEF z
<1>5. z \in Ctx /\ z.s \in Asocket
  BY <1>4 DEF Inv, Mid, EndInv, Ctx
<1>6. /\ sock \in [End -> Asocket] /\ chan \in [End -> Seq(Packet)] /\ fd \in [End -> Fd]
  BY DEF IInv
<1>7. /\ sock' \in [End -> Asocket] /\ sock'[e] = z.s /\ sock'[Other(e)] = y.s
      /\ chan' \in [End -> Seq(Packet)] /\ chan'[e] = z.out /\ chan'[Other(e)] = y.out
      /\ fd' \in [End -> Fd] /\ fd'[e] = z.f /\ fd'[Other(e)] = y.f
      /\ broken' = broken
  BY <1>1, <1>2, <1>4, <1>5, <1>6
<1> QED BY <1>1, <1>3, <1>4, <1>5, <1>7, StepKeeps, ZenonT(60)

LEMMA AppKeeps ==
    ASSUME IInv, NEW e \in End, AppWrite(e) \/ AppRead(e) \/ AppClose(e)
    PROVE  IInv'
<1> DEFINE x == Context(e)
           y == Context(Other(e))
           g == fd'[e]
           z == [s |-> x.s, out |-> x.out, f |-> g]
<1>1. /\ Inv(e, x, y) /\ broken \in BOOLEAN /\ x \in Ctx
      /\ x.s = sock[e] /\ x.out = chan[e] /\ x.f = fd[e]
      /\ y.s = sock[Other(e)] /\ y.out = chan[Other(e)] /\ y.f = fd[Other(e)]
      /\ y \in Ctx /\ Other(e) \in End /\ Other(e) # e
  BY ContextFacts, OtherFacts
<1>2. /\ sock \in [End -> Asocket] /\ chan \in [End -> Seq(Packet)] /\ fd \in [End -> Fd]
      /\ online \in [End -> BOOLEAN] /\ fd[e] \in Fd
  BY DEF IInv
<1>3. UNCHANGED <<sock, chan, broken, online>>
  BY Zenon DEF AppWrite, AppRead, AppClose
<1>4. /\ fd' \in [End -> Fd] /\ fd'[Other(e)] = fd[Other(e)] /\ g \in Fd
      /\ g.read = fd[e].read /\ fd[e].wrote <= g.wrote
      /\ fd[e].shut => g.shut
      /\ fd[e].deaf => g.deaf
      /\ sock[e].st = "none" => g.shut = fd[e].shut /\ g.deaf = fd[e].deaf
  <2>0. /\ fd[e].wrote \in Nat /\ fd[e].read \in Nat /\ fd[e].buf \in Nat
        /\ fd[e].shut \in BOOLEAN /\ fd[e].deaf \in BOOLEAN
    BY <1>2 DEF Fd
  <2>1. CASE AppWrite(e)
    <3>1. fd' = [fd EXCEPT ![e] = [fd[e] EXCEPT !.wrote = fd[e].wrote + 1]]
      BY <1>2, <2>1 DEF AppWrite
    <3>2. [fd[e] EXCEPT !.wrote = fd[e].wrote + 1] \in Fd
      <4>1. fd[e].wrote + 1 \in Nat
        BY <2>0
      <4> QED BY <1>2, <2>0, <4>1, ZenonT(60) DEF Fd
    <3>3. g = [fd[e] EXCEPT !.wrote = fd[e].wrote + 1]
      BY <1>2, <3>1
    <3>4. fd' \in [End -> Fd] /\ fd'[Other(e)] = fd[Other(e)]
      BY <1>1, <1>2, <3>1, <3>2, Zenon
    <3> HIDE DEF g
    <3> QED BY <1>2, <2>0, <3>2, <3>3, <3>4, SMTT(60), SMTT(60) DEF Fd
  <2>2. CASE AppRead(e)
    <3>1. fd' = [fd EXCEPT ![e] = [fd[e] EXCEPT !.buf = fd[e].buf - 1]]
      BY <1>2, <2>2 DEF AppRead
    <3>2. [fd[e] EXCEPT !.buf = fd[e].buf - 1] \in Fd
      <4>1. fd[e].buf - 1 \in Nat
        BY <2>0, <2>2 DEF AppRead
      <4> QED BY <1>2, <2>0, <4>1, ZenonT(60) DEF Fd
    <3>3. g = [fd[e] EXCEPT !.buf = fd[e].buf - 1]
      BY <1>2, <3>1
    <3>4. fd' \in [End -> Fd] /\ fd'[Other(e)] = fd[Other(e)]
      BY <1>1, <1>2, <3>1, <3>2
    <3> HIDE DEF g
    <3>5. /\ g \in Fd /\ g.read = fd[e].read /\ g.wrote = fd[e].wrote
          /\ g.shut = fd[e].shut /\ g.deaf = fd[e].deaf
      BY <1>2, <2>0, <3>2, <3>3, Zenon DEF Fd
    <3>6. fd[e].wrote <= g.wrote
      BY <1>2, <2>0, <3>5 DEF Fd
    <3> QED BY <3>4, <3>5, <3>6
  <2>3. CASE AppClose(e)
    <3>0. PICK shut \in BOOLEAN, deaf \in BOOLEAN :
             /\ fd[e].shut => shut
             /\ fd[e].deaf => deaf
             /\ fd' = [fd EXCEPT ![e].shut = shut, ![e].deaf = deaf]
      BY <2>3, ZenonT(60) DEF AppClose
    <3>1. fd' = [fd EXCEPT ![e] = [fd[e] EXCEPT !.shut = shut, !.deaf = deaf]]
      BY <1>2, <3>0, ZenonT(60)
    <3>2. [fd[e] EXCEPT !.shut = shut, !.deaf = deaf] \in Fd
      BY <1>2, <2>0, Zenon DEF Fd
    <3>3. g = [fd[e] EXCEPT !.shut = shut, !.deaf = deaf]
      BY <1>2, <3>1
    <3>4. fd' \in [End -> Fd] /\ fd'[Other(e)] = fd[Other(e)]
      BY <1>1, <1>2, <3>1, <3>2, Zenon
    <3>5. sock[e].st # "none"
      BY <2>3 DEF AppClose
    <3> HIDE DEF g
    <3>6. g.shut = shut /\ g.deaf = deaf /\ g.wrote = fd[e].wrote /\ g.read = fd[e].read
      BY <1>2, <3>3, Zenon DEF Fd
    <3> QED BY <1>2, <2>0, <3>0, <3>2, <3>3, <3>4, <3>5, <3>6
  <2> QED BY <2>1, <2>2, <2>3
<1> HIDE DEF x, y, g
<1>5. x.s.st = "none" => ~g.shut /\ ~g.deaf
  BY <1>1, <1>4, ZenonT(60) DEF Inv, Mid, EndInv, SocketInv
<1>6. Inv(e, z, y)
  BY <1>1, <1>4, <1>5, AppStep, ZenonT(60)
<1>7. z \in Ctx /\ z.s = x.s /\ z.out = x.out /\ z.f = g
  BY <1>1, <1>4, Zenon DEF Ctx
<1> HIDE DEF z
<1>8. /\ sock' \in [End -> Asocket] /\ sock'[e] = z.s /\ sock'[Other(e)] = y.s
      /\ chan' \in [End -> Seq(Packet)] /\ chan'[e] = z.out /\ chan'[Other(e)] = y.out
      /\ fd' \in [End -> Fd] /\ fd'[e] = z.f /\ fd'[Other(e)] = y.f
      /\ broken' = broken /\ online' \in [End -> BOOLEAN]
  BY <1>1, <1>2, <1>3, <1>4, <1>7, Zenon DEF g
<1> QED BY <1>1, <1>6, <1>7, <1>8, StepKeeps, ZenonT(60)

LEMMA BreakKeeps ==
    ASSUME IInv, Break
    PROVE  IInv'
<1>1. opener \in End /\ acceptor \in End
  BY DEF End
<1>2. broken = FALSE /\ broken' = TRUE /\ UNCHANGED <<sock, chan, fd, online>>
  BY DEF IInv, Break
<1>3. Context(opener)' = Context(opener) /\ Context(acceptor)' = Context(acceptor)
  BY <1>2 DEF Context
<1>4. Inv(opener, Context(opener)', Context(acceptor)')
  BY <1>3 DEF IInv
<1>5. Inv(opener, Context(opener), Context(acceptor))'
  BY <1>1, <1>2, <1>4, BreakStep, ZenonT(60)
<1> QED BY <1>2, <1>5 DEF IInv

LEMMA InitIInv ==
    ASSUME Init
    PROVE  IInv
<1> DEFINE x == Context(opener)
           y == Context(acceptor)
           new == [wrote |-> 0, read |-> 0, buf |-> 0, shut |-> FALSE, deaf |-> FALSE]
<1>0. opener \in End /\ acceptor \in End /\ Other(opener) = acceptor /\ opener # acceptor
      /\ Other(acceptor) = opener
  BY DEF End, Other, opener, acceptor
<1>1. NewSocket \in Asocket /\ new \in Fd
  BY NewSocketFields DEF Fd
<1>2. /\ sock \in [End -> Asocket] /\ chan \in [End -> Seq(Packet)] /\ fd \in [End -> Fd]
      /\ broken = FALSE /\ online \in [End -> BOOLEAN]
      /\ sock[opener] = NewSocket /\ sock[acceptor] = NewSocket
      /\ chan[opener] = <<>> /\ chan[acceptor] = <<>>
      /\ fd[opener] = new /\ fd[acceptor] = new
  BY <1>0, <1>1 DEF Init
<1>3. /\ x = [s |-> NewSocket, out |-> <<>>, f |-> new] /\ y = x
  BY <1>2 DEF Context
<1>4. x.s = NewSocket /\ x.out = <<>> /\ x.f = new
  BY <1>3
<1>5. x \in Ctx
  BY <1>1, <1>3 DEF Ctx
<1>7. new.read = 0 /\ new.wrote = 0 /\ new.shut = FALSE /\ new.deaf = FALSE
  OBVIOUS
<1> HIDE DEF x, new
<1>8. ASSUME NEW e \in End
      PROVE  EndInv(e, x)
  <2>1. SocketInv(e, NewSocket, new)
    BY <1>7, NewSocketFields, ConstantsAssumption DEF SocketInv
  <2>2. Linked(<<>>) /\ EndsAt(<<>>, NewSocket, broken)
    BY DEF Linked, EndsAt
  <2> QED BY <1>4, <1>5, <2>1, <2>2 DEF EndInv
<1>9. ASSUME NEW e \in End
      PROVE  Pair(e, x, x)
  <2>1. BytesAt(<<>>, NewSocket, NewSocket, broken) /\ CreditAt(<<>>, NewSocket, NewSocket, broken)
    BY NewSocketFields DEF BytesAt, CreditAt
  <2>2. 0 <= InitialAck + 0 + PeerMax - 1
    BY ConstantsAssumption
  <2> QED BY <1>4, <2>1, <2>2, NewSocketFields DEF Pair
<1>10. Told(x, x) /\ Start(x, x) /\ WaitsToWrite(x.s)
  BY <1>4, NewSocketFields DEF Told, Start, WaitsToWrite
<1>11. Inv(opener, x, x)
  BY <1>0, <1>8, <1>9, <1>10, Zenon DEF Inv, Mid
<1> QED BY <1>2, <1>3, <1>11, ZenonT(60) DEF IInv, x

LEMMA NextIInv ==
    ASSUME IInv, [Next]_vars
    PROVE  IInv'
<1>1. CASE connect_to_remote
  BY <1>1, ConnectKeeps
<1>2. CASE handle_open_refused \/ handle_open_accepted
  BY <1>2, OpenKeeps
<1>3. ASSUME NEW e \in End, handle_okay(e)
      PROVE  IInv'
  BY <1>3, OkayKeeps
<1>4. ASSUME NEW e \in End, handle_wrte(e)
      PROVE  IInv'
  BY <1>4, WrteKeeps, Zenon
<1>5. ASSUME NEW e \in End, handle_clse(e)
      PROVE  IInv'
  BY <1>5, ClseKeeps
<1>6. ASSUME NEW e \in End, local_socket_event_func(e)
      PROVE  IInv'
  BY <1>6, EventKeeps
<1>7. ASSUME NEW e \in End, handle_offline(e)
      PROVE  IInv'
  BY <1>7, OfflineKeeps
<1>8. ASSUME NEW e \in End, AppWrite(e) \/ AppRead(e) \/ AppClose(e)
      PROVE  IInv'
  BY <1>8, AppKeeps
<1>9. CASE Break
  BY <1>9, BreakKeeps
<1>10. CASE UNCHANGED vars
  <2>1. broken' = broken /\ UNCHANGED <<sock, chan, fd, online>>
    BY <1>10 DEF vars
  <2>2. Context(opener)' = Context(opener) /\ Context(acceptor)' = Context(acceptor)
    BY <2>1 DEF Context
  <2>3. Inv(opener, Context(opener)', Context(acceptor)') /\ opener \in End
    BY <2>2 DEF IInv, End
  <2>4. Inv(opener, Context(opener), Context(acceptor))'
    BY <2>1, <2>3, InvKept
  <2> QED BY <2>1, <2>4 DEF IInv
<1> QED BY <1>1, <1>2, <1>3, <1>4, <1>5, <1>6, <1>7, <1>8, <1>9, <1>10, Zenon DEF Next, Looper

-----------------------------------------------------------------------------
(* The inductive invariant holds of every behaviour.                        *)
THEOREM Invariance == Spec => []IInv
<1>1. Init => IInv
  BY InitIInv
<1>2. IInv /\ [Next]_vars => IInv'
  BY NextIInv
<1> QED BY <1>1, <1>2, PTL DEF Spec

(* The handlers keep the asocket fields, packets and fds well typed: no     *)
(* queue length or byte count goes below zero (socket.h).                   *)
THEOREM TypeCorrect == Spec => []TypeOK
<1>1. IInv => TypeOK
  BY Zenon DEF IInv, TypeOK
<1> QED BY <1>1, Invariance, PTL

(* No A_WRTE is lost, duplicated or reordered on its way into the fd of an  *)
(* open socket, whatever the partial writes of local_socket_flush_incoming, *)
(* the payload size and the acknowledgement mode.                           *)
THEOREM NothingLost == Spec => []NothingLostWhileOpen
<1>1. IInv => NothingLostWhileOpen
  <2> SUFFICES ASSUME IInv, NEW e \in End, sock[Other(e)].st = "open"
               PROVE  /\ ~broken => sock[Other(e)].flushed + sock[Other(e)].q = NextPos(e)
                      /\ sock[Other(e)].flushed + sock[Other(e)].q <= sock[e].sent
    BY Zenon DEF NothingLostWhileOpen
  <2>1. Pair(e, Context(e), Context(Other(e)))
    BY ContextFacts, Zenon DEF Inv, Mid
  <2>2. /\ Context(e).s = sock[e] /\ Context(e).out = chan[e]
        /\ Context(Other(e)).s = sock[Other(e)]
    BY ContextFacts, OtherFacts, Zenon
  <2>3. /\ BytesAt(chan[e], sock[e], sock[Other(e)], broken)
        /\ sock[Other(e)].flushed + sock[Other(e)].q <= sock[e].sent
    BY <2>1, <2>2 DEF Pair
  <2>4. chan[e] # <<>> => Head(chan[e]) = chan[e][1]
    BY DEF IInv
  <2> QED BY <2>3, <2>4 DEF BytesAt, NextPos
<1> QED BY <1>1, Invariance, PTL

(* With delayed acks the receiver's backlog stays below the initial credit  *)
(* plus one packet, for every INITIAL_DELAYED_ACK_BYTES and packet size, as *)
(* long as the sender's fd is not half-closed.                              *)
THEOREM WindowHolds == Spec => []ReceiveWindow
<1>1. IInv => ReceiveWindow
  <2> SUFFICES ASSUME IInv, NEW e \in End, Delayed[e], Delayed[Other(e)], ~fd[e].shut
               PROVE  sock[e].sent - sock[Other(e)].flushed <= InitialAck + PeerMax - 1
    BY Zenon DEF ReceiveWindow
  <2>1. Pair(Other(e), Context(Other(e)), Context(e))
    BY ContextFacts, Zenon DEF Inv, Mid
  <2>2. /\ Context(e).s = sock[e] /\ Context(e).f = fd[e]
        /\ Context(Other(e)).s = sock[Other(e)]
        /\ sock[e] \in Asocket /\ sock[Other(e)] \in Asocket
    BY ContextFacts, OtherFacts, Zenon DEF IInv
  <2>3. sock[e].sent <= InitialAck + sock[Other(e)].flushed + PeerMax - 1
    BY <2>1, <2>2, OtherFacts, ZenonT(60) DEF Pair
  <2>4. sock[e].sent \in Nat /\ sock[Other(e)].flushed \in Nat
        /\ InitialAck \in Nat /\ PeerMax \in Nat
    BY <2>2, Numbers, ConstantsAssumption
  <2> QED BY <2>3, <2>4
<1> QED BY <1>1, Invariance, PTL

(* The CHECK in local_socket_close never fails: a socket on the closing     *)
(* list always has FDE_WRITE set, and bytes left to write.                  *)
THEOREM ClosingCheckHolds == Spec => []ClosingWantsWrite
<1>1. IInv => ClosingWantsWrite
  <2> SUFFICES ASSUME IInv, NEW e \in End, sock[e].st = "closing"
               PROVE  sock[e].wr /\ sock[e].q > 0
    BY DEF ClosingWantsWrite
  <2>1. WaitsToWrite(Context(e).s) /\ Context(e).s = sock[e]
    BY ContextFacts, Zenon DEF Inv
  <2> QED BY <2>1 DEF WaitsToWrite
<1> QED BY <1>1, Invariance, PTL

(* A graceful close loses nothing: the closing list keeps a socket until    *)
(* all that was sent before the A_CLSE is written.                          *)
THEOREM DrainsOnClose == Spec => []GracefulDrain
<1>1. IInv => GracefulDrain
  <2> SUFFICES ASSUME IInv, NEW e \in End,
                      sock[Other(e)].st = "gone", sock[Other(e)].why = "clse",
                      sock[e].why = "eof", ~fd[Other(e)].shut, ~fd[Other(e)].deaf
               PROVE  sock[Other(e)].flushed = sock[e].sent
    BY Zenon DEF GracefulDrain
  <2>1. Pair(e, Context(e), Context(Other(e))) /\ EndInv(Other(e), Context(Other(e)))
    BY ContextFacts, ZenonT(60) DEF Inv, Mid
  <2>2. /\ Context(e).s = sock[e] /\ Context(Other(e)).s = sock[Other(e)]
        /\ Context(Other(e)).f = fd[Other(e)] /\ sock[Other(e)] \in Asocket
    BY ContextFacts, OtherFacts, Zenon DEF IInv
  <2>3. sock[Other(e)].q = 0
    BY <2>1, <2>2, ZenonT(60) DEF EndInv, SocketInv
  <2>4. sock[Other(e)].flushed + sock[Other(e)].q = sock[e].sent
    BY <2>1, <2>2, ZenonT(60) DEF Pair
  <2> QED BY <2>2, <2>3, <2>4, Numbers
<1> QED BY <1>1, Invariance, PTL

(* No orphan: while the transport works, an end whose other end has closed  *)
(* has an A_CLSE coming, or an A_OKAY on its way that will be answered by   *)
(* one (the A_OKAY case of handle_packet for an unknown socket).            *)
THEOREM NoOrphanEver == Spec => []NoOrphan
<1>1. IInv => NoOrphan
  <2> SUFFICES ASSUME IInv, NEW e \in End, sock[e].st = "open", ~broken,
                      sock[Other(e)].st \in {"closing", "gone"}
               PROVE  \/ \E i \in DOMAIN chan[Other(e)] : chan[Other(e)][i].cmd = "CLSE"
                      \/ \E i \in DOMAIN chan[e] : chan[e][i].cmd = "OKAY"
    BY Zenon DEF NoOrphan
  <2>1. Told(Context(e), Context(Other(e)))
    BY ContextFacts, ZenonT(60) DEF Inv, Mid
  <2>2. /\ Context(e).s = sock[e] /\ Context(Other(e)).s = sock[Other(e)]
        /\ Context(e).out = chan[e] /\ Context(Other(e)).out = chan[Other(e)]
    BY ContextFacts, OtherFacts, Zenon
  <2>3. Has(chan[Other(e)], "CLSE") \/ Has(chan[e], "OKAY")
    BY <2>1, <2>2, Zenon DEF Told
  <2>4. DOMAIN chan[e] = 1..Len(chan[e]) /\ DOMAIN chan[Other(e)] = 1..Len(chan[Other(e)])
    BY OtherFacts DEF IInv
  <2> QED BY <2>3, <2>4, Zenon DEF Has
<1> QED BY <1>1, Invariance, PTL
=============================================================================
