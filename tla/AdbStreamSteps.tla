-------------------------- MODULE AdbStreamSteps ---------------------------
(***************************************************************************)
(* What a step of AdbStream does to its two ends: the invariant of         *)
(* AdbStreamLemmas holds again when a handler is done, with the packet it  *)
(* handles taken from the sender's channel.                                *)
(***************************************************************************)
EXTENDS AdbStreamLemmas

-----------------------------------------------------------------------------
(* A_WRTE, A_OKAY and A_CLSE.                                               *)


(* Which socket a packet finds: a WRTE or a CLSE that finds none belongs to *)
(* a socket that has closed.                                                *)
LEMMA NotFoundIsClosed ==
    ASSUME NEW e \in End, NEW x, NEW y, Mid(e, x, y), y.out # <<>>,
           y.out[1].cmd \in {"OKAY", "WRTE", "CLSE"},
           x.s.st = "open" => /\ y.out[1].cmd # "OKAY"
                              /\ ~x.s.peer
                              /\ y.out[1].cmd = "CLSE" => y.out[1].arg # 0
    PROVE  x.s.st \in {"closing", "gone"}
<1>0. /\ x.s.st \in {"none", "open", "closing", "gone"}
      /\ y.s.st \in {"none", "open", "closing", "gone"}
      /\ PacketInv(Other(e), y.s, y.out[1])
  BY OtherFacts, TakenFacts, Zenon DEF Mid, EndInv, Ctx, Asocket
<1>1. x.s.st # "none"
  <2>1. CASE e = opener
    BY <2>1 DEF Mid, Start
  <2>2. CASE e = acceptor
    BY <2>2 DEF Mid, Start
  <2> QED BY <2>1, <2>2, OtherFacts
<1>2. x.s.st # "open"
  <2> SUFFICES ASSUME x.s.st = "open"
               PROVE  FALSE
    OBVIOUS
  <2>1. e = opener
    BY OtherFacts DEF Mid, Start
  <2>2. y.s.st = "none"
    BY <2>1 DEF Mid, Start
  <2> QED BY <1>0, <2>2 DEF PacketInv
<1> QED BY <1>0, <1>1, <1>2, Zenon

(* A packet for a socket that has closed is dropped.                        *)
LEMMA DropStep ==
    ASSUME NEW e \in End, broken \in BOOLEAN, NEW x, NEW y, Inv(e, x, y), y.out # <<>>,
           y.out[1].cmd \in {"WRTE", "CLSE"}, x.s.st \in {"closing", "gone"}
    PROVE  Inv(e, x, Taken(y))
<1> DEFINE t == Taken(y)
           p == y.out[1]
<1>0. Mid(e, x, y) /\ EndInv(e, x) /\ EndInv(Other(e), y) /\ Other(e) \in End
  BY OtherFacts DEF Inv, Mid
<1>1. /\ t.s = y.s /\ t.f = y.f /\ t \in Ctx /\ y \in Ctx
      /\ EndInv(Other(e), t)
      /\ \A cmd : (Has(y.out, cmd) /\ p.cmd # cmd) => Has(t.out, cmd)
      /\ \A i \in 1..Len(t.out) : i + 1 \in 1..Len(y.out) /\ t.out[i] = y.out[i + 1]
      /\ Len(t.out) = Len(y.out) - 1
  BY <1>0, TakenFacts, ZenonT(60)
<1> HIDE DEF t
<1>2. Pair(e, x, t)
  BY <1>0, <1>1 DEF Mid, Pair
<1>3. Pair(Other(e), t, x)
  BY <1>0, <1>1 DEF Mid, Pair
<1>4. Told(x, t) /\ Told(t, x)
  BY <1>0, <1>1 DEF Mid, Told
<1>5. e = opener => Start(x, t)
  <2> SUFFICES ASSUME e = opener
               PROVE  Start(x, t)
    OBVIOUS
  <2>0. Start(x, y)
    BY <1>0 DEF Mid
  <2> QED BY <1>1, <2>0 DEF Start
<1>6. e = acceptor => Start(t, x)
  <2> SUFFICES ASSUME e = acceptor
               PROVE  Start(t, x)
    OBVIOUS
  <2>0. Start(y, x) /\ x.s.st # "none"
    BY <1>0 DEF Mid
  <2>1. ASSUME NEW i \in 1..Len(t.out), t.out[i].cmd = "OPEN"
        PROVE  FALSE
    <3>1. x.s.st = "none"
      BY <1>1, <2>0, <2>1 DEF Start
    <3> QED BY <2>0, <3>1
  <2>2. y.s.st # "none"
    BY <2>0 DEF Start
  <2> QED BY <1>1, <2>0, <2>1, <2>2 DEF Start
<1> QED BY <1>0, <1>1, <1>2, <1>3, <1>4, <1>5, <1>6 DEF Inv, Mid, t

(* A_WRTE for an open socket: its payload joins the queue at its place in   *)
(* the stream.                                                              *)
LEMMA WrteStep ==
    ASSUME NEW e \in End, broken \in BOOLEAN, NEW x, NEW y, Inv(e, x, y), y.out # <<>>,
           y.out[1].cmd = "WRTE", x.s.st = "open", x.s.peer
    PROVE  Mid(e, [x EXCEPT !.s.q = @ + y.out[1].len], Taken(y))
<1> DEFINE t == Taken(y)
           p == y.out[1]
           u == [x.s EXCEPT !.q = @ + p.len]
           z == [x EXCEPT !.s.q = @ + p.len]
<1>0. /\ Mid(e, x, y) /\ EndInv(e, x) /\ EndInv(Other(e), y) /\ Other(e) \in End
      /\ x \in Ctx /\ x.s \in Asocket /\ x.f \in Fd /\ x.out \in Seq(Packet)
  BY OtherFacts DEF Inv, Mid, EndInv, Ctx
<1>1. /\ t.s = y.s /\ t.f = y.f /\ t \in Ctx /\ y \in Ctx
      /\ p \in Packet /\ PacketInv(Other(e), y.s, p)
      /\ EndInv(Other(e), t)
      /\ \A cmd : (Has(y.out, cmd) /\ p.cmd # cmd) => Has(t.out, cmd)
      /\ \A i \in 1..Len(t.out) : i + 1 \in 1..Len(y.out) /\ t.out[i] = y.out[i + 1]
      /\ Len(t.out) = Len(y.out) - 1
      /\ \A r : r.flushed + r.q = p.pos + p.len => BytesAt(t.out, y.s, r, broken)
      /\ \A r : r.avail + r.sent = p.cum + Credit(p) => CreditAt(t.out, y.s, r, broken)
      /\ p.pos + p.len <= y.s.sent
  BY <1>0, TakenFacts, ZenonT(60)
<1>2. p.len \in Nat /\ p.pos \in Nat /\ p.cum \in Nat /\ Credit(p) = 0
  <2>1. p.arg = 0 /\ p.len \in Nat /\ p.pos \in Nat /\ p.cum \in Nat
    BY <1>1 DEF PacketInv, Packet
  <2> QED BY <2>1 DEF Credit
<1> HIDE DEF t, p
<1>3. /\ x.s.q \in Nat /\ x.s.flushed \in Nat /\ x.s.sent \in Nat /\ x.s.avail \in Int
      /\ x.s.q + p.len \in Nat
  BY <1>0, <1>2, Numbers
<1>4. u \in Asocket
  BY <1>0, <1>3, Zenon DEF Asocket
<1>5. /\ u.q = x.s.q + p.len /\ u.flushed = x.s.flushed /\ u.werr = x.s.werr
      /\ u.sent = x.s.sent /\ u.granted = x.s.granted /\ u.avail = x.s.avail
      /\ u.st = x.s.st /\ u.why = x.s.why /\ u.peer = x.s.peer /\ u.rd = x.s.rd
  BY <1>0, ZenonT(60) DEF Asocket
<1>6. z = [s |-> u, out |-> x.out, f |-> x.f]
  BY <1>0 DEF Ctx
<1> HIDE DEF u
<1>7. z.s = u /\ z.out = x.out /\ z.f = x.f /\ z \in Ctx
  BY <1>0, <1>4, <1>6 DEF Ctx
<1> HIDE DEF z
<1>8. EndInv(e, z)
  <2>1. SocketInv(e, u, x.f)
    BY <1>0, <1>5 DEF EndInv, SocketInv
  <2>2. \A i \in 1..Len(x.out) : PacketInv(e, u, x.out[i])
    BY <1>0, <1>5, Zenon DEF EndInv, PacketInv
  <2>3. EndsAt(x.out, u, broken)
    BY <1>0, <1>5, Zenon DEF EndInv, EndsAt
  <2> QED BY <1>0, <1>7, <2>1, <2>2, <2>3 DEF EndInv
<1>9. Pair(e, z, t)
  <2>1. BytesAt(x.out, x.s, y.s, broken) => BytesAt(x.out, u, y.s, broken)
    BY <1>5 DEF BytesAt
  <2>2. CreditAt(x.out, x.s, y.s, broken) => CreditAt(x.out, u, y.s, broken)
    BY <1>5 DEF CreditAt
  <2>3. Pair(e, x, y)
    BY <1>0 DEF Mid
  <2>4. y.s.why # "clse"
    BY <2>3, Zenon DEF Pair
  <2> QED BY <1>1, <1>5, <1>7, <2>1, <2>2, <2>3, <2>4 DEF Pair
<1>10. Pair(Other(e), t, z)
  <2>0. Pair(Other(e), y, x)
    BY <1>0 DEF Mid
  <2>1. x.s.flushed + x.s.q = p.pos
    BY <2>0 DEF Pair, BytesAt, p
  <2>2. u.flushed + u.q = p.pos + p.len
    BY <1>2, <1>3, <1>5, <2>1
  <2>3. BytesAt(t.out, y.s, u, broken) /\ u.flushed + u.q <= y.s.sent
    BY <1>1, <2>2
  <2>4. CreditAt(y.out, y.s, x.s, broken) => CreditAt(t.out, y.s, u, broken)
    <3>1. CreditAt(y.out, y.s, x.s, broken) => x.s.avail + x.s.sent = p.cum
      BY DEF CreditAt, p
    <3>2. u.avail + u.sent = x.s.avail + x.s.sent /\ p.cum + Credit(p) = p.cum
      BY <1>2, <1>3, <1>5
    <3> QED BY <1>1, <3>1, <3>2
  <2>5. x.s.why # "clse"
    BY <1>0, Zenon DEF EndInv, SocketInv
  <2> QED BY <1>1, <1>5, <1>7, <2>0, <2>3, <2>4, <2>5, Zenon DEF Pair
<1>11. Told(z, t) /\ Told(t, z)
  <2>1. p.cmd = "WRTE"
    BY DEF p
  <2> QED BY <1>0, <1>1, <1>5, <1>7, <2>1 DEF Mid, Told
<1>12. e = opener => Start(z, t)
  <2> SUFFICES ASSUME e = opener
               PROVE  Start(z, t)
    OBVIOUS
  <2>0. Start(x, y)
    BY <1>0 DEF Mid
  <2>1. y.s.st # "none"
    BY <2>0 DEF Start
  <2> QED BY <1>1, <1>5, <1>7, <2>0, <2>1, ZenonT(60) DEF Start
<1>13. e = acceptor => Start(t, z)
  <2> SUFFICES ASSUME e = acceptor
               PROVE  Start(t, z)
    OBVIOUS
  <2>0. Start(y, x)
    BY <1>0 DEF Mid
  <2>1. ASSUME NEW i \in 1..Len(t.out), t.out[i].cmd = "OPEN"
        PROVE  FALSE
    BY <1>1, <2>0, <2>1 DEF Start
  <2>2. y.s.st # "none"
    BY <2>0 DEF Start
  <2>3. (y.s.st = "open" /\ ~y.s.peer) =>
           /\ ~broken => x.out # <<>>
           /\ x.out # <<>> => x.out[1].cmd = "OKAY"
    BY <2>0, Zenon DEF Start
  <2> QED BY <1>1, <1>5, <1>7, <2>1, <2>2, <2>3, ZenonT(60) DEF Start
<1>14. WaitsToWrite(t.s)
  BY <1>0, <1>1 DEF Mid
<1> QED BY <1>1, <1>8, <1>9, <1>10, <1>11, <1>12, <1>13, <1>14, Zenon DEF Mid, t, z, p

(* A_OKAY for an open socket: local_socket_ack adds the credit the packet   *)
(* carries, and reading is enabled only with credit left.                   *)
LEMMA AckStep ==
    ASSUME NEW e \in End, broken \in BOOLEAN, NEW x, NEW y, Inv(e, x, y), y.out # <<>>,
           y.out[1].cmd = "OKAY", x.s.st = "open"
    PROVE  Inv(e, local_socket_ack(e, [x EXCEPT !.s.peer = TRUE], y.out[1].arg), Taken(y))
<1> DEFINE t == Taken(y)
           p == y.out[1]
           agree == Delayed[e] = (p.arg # NoAck)
           bytes == IF Delayed[e] /\ agree THEN p.arg ELSE 0
           on == IF ~agree THEN x.s.rd
                 ELSE IF Delayed[e] THEN x.s.rd \/ x.s.avail + p.arg > 0 ELSE TRUE
           u == [x.s EXCEPT !.peer = TRUE, !.avail = x.s.avail + bytes, !.rd = on]
           z == local_socket_ack(e, [x EXCEPT !.s.peer = TRUE], p.arg)
<1>0. /\ Mid(e, x, y) /\ EndInv(e, x) /\ EndInv(Other(e), y) /\ Other(e) \in End
      /\ WaitsToWrite(x.s)
      /\ x \in Ctx /\ x.s \in Asocket /\ x.f \in Fd /\ x.out \in Seq(Packet)
  BY OtherFacts DEF Inv, Mid, EndInv, Ctx
<1>1. /\ t.s = y.s /\ t.f = y.f /\ t \in Ctx /\ y \in Ctx
      /\ p \in Packet /\ PacketInv(Other(e), y.s, p)
      /\ EndInv(Other(e), t)
      /\ \A cmd : (Has(y.out, cmd) /\ p.cmd # cmd) => Has(t.out, cmd)
      /\ \A i \in 1..Len(t.out) : i + 1 \in 1..Len(y.out) /\ t.out[i] = y.out[i + 1]
      /\ Len(t.out) = Len(y.out) - 1
      /\ \A r : r.flushed + r.q = p.pos + p.len => BytesAt(t.out, y.s, r, broken)
      /\ \A r : r.avail + r.sent = p.cum + Credit(p) => CreditAt(t.out, y.s, r, broken)
      /\ p.cum + Credit(p) <= y.s.granted
  BY <1>0, TakenFacts, ZenonT(60)
<1>2. /\ p.arg \in Int /\ p.arg >= -1 /\ p.pos \in Nat /\ p.cum \in Nat /\ p.len = 0
      /\ Delayed[Other(e)] = (p.arg # NoAck) /\ y.s.st # "none"
  BY <1>1 DEF PacketInv, Packet
<1>d. Delayed[e] \in BOOLEAN /\ Delayed[Other(e)] \in BOOLEAN
  BY <1>0, ConstantsAssumption
<1>3. /\ bytes \in Nat
      /\ (Delayed[e] /\ Delayed[Other(e)]) => bytes = Credit(p)
  <2>1. CASE Delayed[e] /\ agree
    <3>1. p.arg # -1 /\ bytes = p.arg
      BY <2>1, ZenonT(60) DEF NoAck
    <3>2. p.arg \in Nat
      BY <1>2, <3>1
    <3>3. Credit(p) = p.arg
      BY <3>2 DEF Credit
    <3> QED BY <3>1, <3>2, <3>3
  <2>2. CASE ~(Delayed[e] /\ agree)
    <3>1. ~(Delayed[e] /\ Delayed[Other(e)])
      BY <1>2, <2>2, ZenonT(60)
    <3> QED BY <2>2, <3>1
  <2> QED BY <2>1, <2>2
<1>4. on \in BOOLEAN
  BY <1>0, Zenon DEF Asocket
<1>5. (Delayed[e] /\ on) => x.s.avail + bytes > 0
  <2>1. x.s.avail \in Int /\ ((Delayed[e] /\ x.s.rd) => x.s.avail > 0)
    BY <1>0, Numbers DEF EndInv, SocketInv
  <2>2. CASE ~agree
    <3>1. bytes = 0 /\ (on => x.s.rd)
      BY <2>2
    <3> HIDE DEF bytes, on, agree
    <3> QED BY <2>1, <3>1
  <2>3. CASE agree /\ Delayed[e]
    <3>1. bytes = p.arg /\ (on => (x.s.rd \/ x.s.avail + p.arg > 0))
      BY <2>3, ZenonT(60)
    <3> HIDE DEF bytes, on, agree
    <3> QED BY <1>3, <2>1, <3>1
  <2> QED BY <2>2, <2>3, ZenonT(60)
<1>6. z = [x EXCEPT !.s = u]
  <2>a. x.s.avail + 0 = x.s.avail
    BY <1>0, Numbers
  <2>1. CASE ~agree
    BY <1>0, <2>1, <2>a, ZenonT(60) DEF local_socket_ack, Ctx, Asocket
  <2>2. CASE agree /\ Delayed[e]
    BY <1>0, <2>2, ZenonT(60) DEF local_socket_ack, Ctx, Asocket
  <2>3. CASE agree /\ ~Delayed[e]
    <3>1. x.s.avail + bytes = x.s.avail /\ on = TRUE
      BY <2>3, <2>a
    <3>2. z = [[x EXCEPT !.s.peer = TRUE] EXCEPT !.s.rd = TRUE]
      BY <2>3 DEF local_socket_ack
    <3> HIDE DEF z, on, bytes, agree
    <3> QED BY <1>0, <3>1, <3>2, ZenonT(60) DEF Ctx, Asocket
  <2> QED BY <2>1, <2>2, <2>3
<1> HIDE DEF t, p, bytes, on, agree, z
<1>7. /\ x.s.q \in Nat /\ x.s.flushed \in Nat /\ x.s.sent \in Nat /\ x.s.avail \in Int
      /\ x.s.avail + bytes \in Int
  BY <1>0, <1>3, Numbers
<1>8. u \in Asocket
  BY <1>0, <1>4, <1>7, ZenonT(60) DEF Asocket
<1>9. /\ u.q = x.s.q /\ u.flushed = x.s.flushed /\ u.werr = x.s.werr
      /\ u.sent = x.s.sent /\ u.granted = x.s.granted /\ u.avail = x.s.avail + bytes
      /\ u.st = "open" /\ u.why = x.s.why /\ u.peer = TRUE /\ u.rd = on /\ u.wr = x.s.wr
  BY <1>0 DEF Asocket
<1> HIDE DEF u
<1>10. z.s = u /\ z.out = x.out /\ z.f = x.f /\ z \in Ctx
  BY <1>0, <1>6, <1>8 DEF Ctx
<1>11. EndInv(e, z)
  <2>1. SocketInv(e, u, x.f)
    BY <1>0, <1>5, <1>9, Zenon DEF EndInv, SocketInv
  <2>2. \A i \in 1..Len(x.out) : PacketInv(e, u, x.out[i])
    BY <1>0, <1>9, ZenonT(60) DEF EndInv, PacketInv
  <2>3. EndsAt(x.out, u, broken)
    BY <1>0, <1>9, ZenonT(60) DEF EndInv, EndsAt
  <2> QED BY <1>0, <1>10, <2>1, <2>2, <2>3 DEF EndInv
<1>12. Pair(e, z, t)
  <2>1. BytesAt(x.out, x.s, y.s, broken) => BytesAt(x.out, u, y.s, broken)
    BY <1>9 DEF BytesAt
  <2>2. CreditAt(x.out, x.s, y.s, broken) => CreditAt(x.out, u, y.s, broken)
    BY <1>9 DEF CreditAt
  <2>3. Pair(e, x, y)
    BY <1>0, Zenon DEF Mid
  <2>4. y.s.why # "clse"
    BY <2>3, Zenon DEF Pair
  <2> QED BY <1>1, <1>9, <1>10, <2>1, <2>2, <2>3, <2>4, ZenonT(60) DEF Pair
<1>13. Pair(Other(e), t, z)
  <2>0. Pair(Other(e), y, x)
    BY <1>0, Zenon DEF Mid
  <2>1. x.s.flushed + x.s.q = p.pos /\ p.pos + p.len = p.pos
    BY <1>2, <2>0 DEF Pair, BytesAt, p
  <2>3. BytesAt(t.out, y.s, u, broken) /\ u.flushed + u.q <= y.s.sent
    BY <1>1, <1>9, <2>0, <2>1 DEF Pair
  <2>4. (Delayed[e] /\ Delayed[Other(e)]) =>
           CreditAt(t.out, y.s, u, broken) /\ u.avail + u.sent <= y.s.granted
    <3> SUFFICES ASSUME Delayed[e], Delayed[Other(e)]
                 PROVE  CreditAt(t.out, y.s, u, broken) /\ u.avail + u.sent <= y.s.granted
      OBVIOUS
    <3>0. Other(Other(e)) = e
      BY OtherFacts
    <3>1. x.s.avail + x.s.sent = p.cum
      BY <2>0, <3>0 DEF Pair, CreditAt, p
    <3>2. bytes = Credit(p)
      BY <1>3
    <3>3. u.avail + u.sent = p.cum + Credit(p)
      <4>1. u.avail + u.sent = (x.s.avail + x.s.sent) + bytes
        BY <1>3, <1>7, <1>9
      <4> QED BY <3>1, <3>2, <4>1
    <3> QED BY <1>1, <3>3
  <2>5. x.s.why # "clse"
    BY <1>0 DEF EndInv, SocketInv
  <2>6. Other(Other(e)) = e
    BY OtherFacts, Zenon
  <2> QED BY <1>1, <1>9, <1>10, <2>0, <2>3, <2>4, <2>5, <2>6, ZenonT(60) DEF Pair
<1>14. Told(z, t) /\ Told(t, z)
  <2>1. p.cmd = "OKAY"
    BY Zenon DEF p
  <2> QED BY <1>0, <1>1, <1>9, <1>10, <2>1, Zenon DEF Mid, Told
<1>15. e = opener => Start(z, t)
  <2> SUFFICES ASSUME e = opener
               PROVE  Start(z, t)
    OBVIOUS
  <2>0. Start(x, y)
    BY <1>0 DEF Mid
  <2> QED BY <1>1, <1>2, <1>9, <1>10, <2>0, ZenonT(60) DEF Start
<1>16. e = acceptor => Start(t, z)
  <2> SUFFICES ASSUME e = acceptor
               PROVE  Start(t, z)
    OBVIOUS
  <2>0. Start(y, x)
    BY <1>0, Zenon DEF Mid
  <2>1. ASSUME NEW i \in 1..Len(t.out), t.out[i].cmd = "OPEN"
        PROVE  FALSE
    BY <1>1, <2>0, <2>1, Zenon DEF Start
  <2>3. (y.s.st = "open" /\ ~y.s.peer) =>
           /\ ~broken => x.out # <<>>
           /\ x.out # <<>> => x.out[1].cmd = "OKAY"
    BY <2>0, Zenon DEF Start
  <2> QED BY <1>1, <1>2, <1>9, <1>10, <2>1, <2>3, ZenonT(60) DEF Start
<1>17. WaitsToWrite(t.s) /\ WaitsToWrite(z.s)
  BY <1>0, <1>1, <1>9, <1>10, ZenonT(60) DEF Mid, WaitsToWrite
<1> QED BY <1>1, <1>11, <1>12, <1>13, <1>14, <1>15, <1>16, <1>17, Zenon DEF Inv, Mid, t, z, p

(* A_OKAY for a socket that has closed is answered by an A_CLSE, which is   *)
(* how an end learns that its A_OPEN or A_OKAY came too late.               *)
LEMMA LateOkayStep ==
    ASSUME NEW e \in End, broken \in BOOLEAN, NEW x, NEW y, Inv(e, x, y), y.out # <<>>,
           y.out[1].cmd = "OKAY", x.s.st \in {"closing", "gone"}
    PROVE  Inv(e, send_close(x, 1), Taken(y))
<1> DEFINE t == Taken(y)
           p == y.out[1]
           m == Stamp(x.s, "CLSE", 1, 0)
           z == send_close(x, 1)
<1>0. /\ Mid(e, x, y) /\ EndInv(e, x) /\ EndInv(Other(e), y) /\ Other(e) \in End
      /\ WaitsToWrite(x.s)
      /\ x \in Ctx /\ x.s \in Asocket /\ x.f \in Fd /\ x.out \in Seq(Packet)
  BY OtherFacts, Zenon DEF Inv, Mid, EndInv, Ctx
<1>1. /\ t.s = y.s /\ t.f = y.f /\ t \in Ctx /\ y \in Ctx /\ p \in Packet
      /\ PacketInv(Other(e), y.s, p)
      /\ EndInv(Other(e), t)
      /\ \A cmd : (Has(y.out, cmd) /\ p.cmd # cmd) => Has(t.out, cmd)
      /\ \A i \in 1..Len(t.out) : i + 1 \in 1..Len(y.out) /\ t.out[i] = y.out[i + 1]
      /\ Len(t.out) = Len(y.out) - 1
  BY <1>0, TakenFacts, ZenonT(60)
<1>2. y.s.st # "none"
  BY <1>1, Zenon DEF PacketInv
<1> HIDE DEF t, p
<1>3. /\ m \in Packet /\ m.cmd = "CLSE" /\ m.arg = 1 /\ m.len = 0
      /\ m.pos = x.s.sent /\ m.cum = x.s.granted /\ Credit(m) = 0
  <2>0. x.s \in Asocket
    BY <1>0
  <2>1. m \in Packet
    BY <2>0, StampType
  <2> QED BY <2>1 DEF Stamp, Credit
<1>4. x.s.sent \in Nat /\ x.s.granted \in Nat /\ y.s.flushed \in Nat /\ y.s.q \in Nat
      /\ y.s.avail \in Int /\ y.s.sent \in Nat
  BY <1>0, <1>1, Numbers DEF Ctx
<1> HIDE DEF m
<1>5. z = [s |-> x.s, out |-> Send(x.out, m), f |-> x.f]
  BY <1>0 DEF send_close, Ctx, m
<1> DEFINE d == Send(x.out, m)
<1>6. z.s = x.s /\ z.f = x.f /\ z.out = d
  BY <1>5
<1> HIDE DEF z
<1>7. /\ d \in Seq(Packet)
      /\ Linked(d)
      /\ EndsAt(d, x.s, broken)
      /\ \A i \in 1..Len(d) : PacketInv(e, x.s, d[i])
  <2>1. PacketInv(e, x.s, m)
    BY <1>3 DEF PacketInv
  <2>2. \A i \in 1..Len(x.out) : PacketInv(e, x.s, x.out[i])
    BY <1>0 DEF EndInv
  <2>3. x.s.sent = x.s.sent + m.len /\ x.s.granted = x.s.granted + Credit(m)
    BY <1>3, <1>4
  <2>4. Credit(m) \in Nat /\ m.cmd # "OPEN"
    BY <1>3
  <2>5. EndInv(e, x) /\ x.s \in Asocket
    BY <1>0, Zenon
  <2> QED BY <1>3, <2>1, <2>2, <2>3, <2>4, <2>5, EmitLemma, ZenonT(60)
<1>8. /\ broken => d = x.out
      /\ ~broken => Has(d, "CLSE") /\ Len(d) = Len(x.out) + 1 /\ d[Len(d)] = m
      /\ \A i \in 1..Len(x.out) : d[i] = x.out[i]
  <2>1. CASE broken
    BY <2>1 DEF Send
  <2>2. CASE ~broken
    <3>1. d = Append(x.out, m)
      BY <2>2, Zenon DEF Send
    <3>2. /\ Len(d) = Len(x.out) + 1 /\ d[Len(x.out) + 1] = m
          /\ \A i \in 1..Len(x.out) : d[i] = x.out[i]
      BY <1>0, <1>3, <3>1
    <3>3. Len(d) \in 1..Len(d)
      BY <1>0, <3>2
    <3> QED BY <1>3, <2>2, <3>2, <3>3 DEF Has
  <2> QED BY <2>1, <2>2
<1> HIDE DEF d
<1>9. /\ x.out # <<>> => d # <<>> /\ d[1] = x.out[1]
      /\ (x.out = <<>> /\ d # <<>>) => d[1] = m /\ ~broken
      /\ \A cmd : Has(x.out, cmd) => Has(d, cmd)
      /\ ~broken => d # <<>>
  BY <1>0, <1>7, <1>8 DEF Has
<1>10. z \in Ctx /\ EndInv(e, z)
  <2>1. z \in Ctx
    BY <1>0, <1>5, <1>7, Zenon DEF Ctx, d
  <2> QED BY <1>0, <1>6, <1>7, <2>1, Zenon DEF EndInv
<1>11. Pair(e, z, t)
  <2>0. Pair(e, x, y)
    BY <1>0, ZenonT(60) DEF Mid
  <2>1. BytesAt(x.out, x.s, y.s, broken) => BytesAt(d, x.s, y.s, broken)
    BY <1>3, <1>9, Zenon DEF BytesAt
  <2>2. CreditAt(x.out, x.s, y.s, broken) => CreditAt(d, x.s, y.s, broken)
    BY <1>3, <1>9 DEF CreditAt
  <2>3. x.s.st # "none"
    BY Zenon
  <2> QED BY <1>1, <1>6, <2>0, <2>1, <2>2, <2>3, ZenonT(60) DEF Pair
<1>12. Pair(Other(e), t, z)
  <2>0. Pair(Other(e), y, x)
    BY <1>0, Zenon DEF Mid
  <2> QED BY <1>1, <1>2, <1>6, <2>0, Zenon DEF Pair
<1>13. Told(z, t) /\ Told(t, z)
  BY <1>1, <1>6, <1>8 DEF Told
<1>14. ASSUME NEW i \in 1..Len(d), d[i].cmd = "OPEN"
       PROVE  i \in 1..Len(x.out) /\ d[i] = x.out[i]
  <2>1. CASE broken
    BY <1>8, <1>14, <2>1
  <2>2. CASE ~broken
    <3>1. i # Len(d)
      BY <1>3, <1>8, <1>14, <2>2, Zenon
    <3> QED BY <1>0, <1>8, <2>2, <3>1
  <2> QED BY <2>1, <2>2
<1>15. e = opener => Start(z, t)
  <2> SUFFICES ASSUME e = opener
               PROVE  Start(z, t)
    BY Zenon
  <2>0. Start(x, y)
    BY <1>0, Zenon DEF Mid
  <2>1. ASSUME NEW i \in 1..Len(d), d[i].cmd = "OPEN"
        PROVE  FALSE
    BY <1>2, <1>14, <2>0, <2>1, Zenon DEF Start
  <2> QED BY <1>1, <1>2, <1>6, <2>0, <2>1, Zenon DEF Start
<1>16. e = acceptor => Start(t, z)
  <2> SUFFICES ASSUME e = acceptor
               PROVE  Start(t, z)
    BY Zenon
  <2>0. Start(y, x)
    BY <1>0, Zenon DEF Mid
  <2>1. ASSUME NEW i \in 1..Len(t.out), t.out[i].cmd = "OPEN"
        PROVE  FALSE
    BY <1>1, <2>0, <2>1, Zenon DEF Start
  <2>3. (y.s.st = "open" /\ ~y.s.peer) =>
           /\ ~broken => d # <<>>
           /\ d # <<>> => d[1].cmd = "OKAY"
    BY <1>8, <1>9, <2>0, Zenon DEF Start
  <2> QED BY <1>1, <1>2, <1>6, <2>0, <2>1, <2>3, Zenon DEF Start
<1>17. WaitsToWrite(t.s) /\ WaitsToWrite(z.s)
  BY <1>0, <1>1, <1>6, Zenon DEF Mid
<1> QED BY <1>1, <1>10, <1>11, <1>12, <1>13, <1>15, <1>16, <1>17, ZenonT(60) DEF Inv, Mid, t, z

(* A_CLSE for an open socket: its sender has closed and sent nothing after  *)
(* it, so everything it sent is in the queue or already written.            *)
LEMMA ClseStep ==
    ASSUME NEW e \in End, broken \in BOOLEAN, NEW x, NEW y, Inv(e, x, y), y.out # <<>>,
           y.out[1].cmd = "CLSE", x.s.st = "open"
    PROVE  Inv(e, local_socket_close(x, "clse"), Taken(y))
<1> DEFINE t == Taken(y)
           p == y.out[1]
           z == local_socket_close(x, "clse")
<1>0. /\ Mid(e, x, y) /\ EndInv(e, x) /\ EndInv(Other(e), y) /\ Other(e) \in End
      /\ WaitsToWrite(x.s)
      /\ x \in Ctx /\ x.s \in Asocket /\ x.f \in Fd /\ x.out \in Seq(Packet)
  BY OtherFacts, Zenon DEF Inv, Mid, EndInv, Ctx
<1>1. /\ t.s = y.s /\ t.f = y.f /\ t \in Ctx /\ y \in Ctx /\ p \in Packet
      /\ PacketInv(Other(e), y.s, p)
      /\ EndInv(Other(e), t)
      /\ \A i \in 1..Len(t.out) : i + 1 \in 1..Len(y.out) /\ t.out[i] = y.out[i + 1]
      /\ Len(t.out) = Len(y.out) - 1
  BY <1>0, TakenFacts, ZenonT(60)
<1>2. /\ EndInv(e, z) /\ WaitsToWrite(z.s) /\ Frame(e, x, z)
      /\ z.s.st \in {"closing", "gone"} /\ z.s.why = "clse" /\ z.f = x.f
      /\ z.s.sent = x.s.sent /\ z.s.q = x.s.q
  <2>1. x.s.why = "not"
    BY <1>0, Zenon DEF EndInv, SocketInv
  <2>2. (x.s.st = "open" /\ x.s.q > 0 /\ ~x.s.werr) => x.s.wr
    BY <1>0, Zenon DEF WaitsToWrite
  <2>3. "clse" \in {"not", "eof", "clse", "offline"} /\ "clse" # "not"
        /\ x.s.st \in {"open", "closing"} /\ x.s.st # "closing"
    OBVIOUS
  <2>4. x.s.st = "open" => "clse" # "not"
    BY <2>3
  <2>5. x.s.st = "closing" => x.s.q = 0 \/ x.s.werr \/ x.f.shut
    BY <2>3
  <2>6. EndInv(e, x)
    BY <1>0
  <2>7. /\ EndInv(e, z) /\ WaitsToWrite(z.s) /\ Frame(e, x, z)
        /\ z.s.st \in {"closing", "gone"}
        /\ z.s.why = IF x.s.why = "not" THEN "clse" ELSE x.s.why
        /\ z.f = x.f /\ z.s.sent = x.s.sent /\ z.s.q = x.s.q
    BY <2>2, <2>3, <2>4, <2>5, <2>6, CloseLemma, ZenonT(60)
  <2> HIDE DEF z
  <2> QED BY <2>1, <2>7, Zenon
<1>p. p.cmd = "CLSE"
  OBVIOUS
<1>b. y.out[1] = p
  OBVIOUS
<1> HIDE DEF t, p, z
<1>3. /\ z \in Ctx /\ z.out \in Seq(Packet)
      /\ x.s.flushed \in Nat /\ x.s.q \in Nat /\ x.s.sent \in Nat /\ x.s.avail \in Int
      /\ z.s.flushed \in Nat /\ z.s.q \in Nat /\ z.s.sent \in Nat /\ z.s.avail \in Int
  BY <1>0, <1>2, Numbers, Zenon DEF EndInv, Ctx
<1>4. /\ p.arg # 0 => y.s.st \in {"closing", "gone"} /\ p.pos = y.s.sent
      /\ p.arg = 0 => y.s.st = "none" /\ Other(e) = acceptor
  BY <1>1, <1>p, Zenon DEF PacketInv
<1>5. ASSUME y.s.st = "none"
      PROVE  e = opener /\ x.out = <<>> /\ z.out = <<>> /\ ~z.s.peer
  <2>1. e = opener
    BY <1>4, <1>5, OtherFacts, Zenon
  <2>2. Start(x, y)
    BY <1>0, <2>1 DEF Mid
  <2>3. ~x.s.peer
    BY <1>5, <2>2 DEF Start
  <2>4. x.out = <<>>
    <3> SUFFICES ASSUME x.out # <<>>
                 PROVE  FALSE
      OBVIOUS
    <3>1. x.out[1].cmd = "OPEN" /\ 1 \in 1..Len(x.out)
      BY <1>0, <1>5, <2>2 DEF Start
    <3> QED BY <2>2, <3>1 DEF Start
  <2> QED BY <1>2, <2>1, <2>3, <2>4, Zenon DEF Frame
<1>6. Pair(e, z, t)
  <2>0. Pair(e, x, y)
    BY <1>0, Zenon DEF Mid
  <2>1. Pair(e, x, t)
    BY <1>1, <2>0, Zenon DEF Pair
  <2> QED BY <1>0, <1>1, <1>2, <1>3, <2>1, PairSend, Zenon
<1>7. Pair(Other(e), t, z)
  <2>0. Pair(Other(e), y, x) /\ Other(Other(e)) = e
    BY <1>0, OtherFacts, Zenon DEF Mid
  <2>1. z.s.flushed + z.s.q <= y.s.sent
    BY <1>2, <2>0, ZenonT(60) DEF Pair, Frame
  <2>2. (Delayed[e] /\ Delayed[Other(e)]) =>
           /\ z.s.avail + z.s.sent <= y.s.granted
           /\ ~z.f.shut => z.s.sent <= InitialAck + y.s.flushed + PeerMax - 1
    BY <1>2, <2>0, ZenonT(60) DEF Pair, Frame
  <2>3. y.s.st # "open"
    BY <1>4
  <2>4. y.s.st = "none" => z.out = <<>>
    BY <1>5, Zenon
  <2>5. y.s.why = "eof" => z.s.flushed + z.s.q = y.s.sent
    <3> SUFFICES ASSUME y.s.why = "eof"
                 PROVE  z.s.flushed + z.s.q = y.s.sent
      BY Zenon
    <3>1. y.s.st # "none"
      BY <1>0, ZenonT(60) DEF EndInv, SocketInv
    <3>2. p.pos = y.s.sent
      BY <1>4, <3>1, Zenon
    <3>3. x.s.flushed + x.s.q = p.pos
      BY <1>b, <2>0, Zenon DEF Pair, BytesAt
    <3> QED BY <1>2, <3>2, <3>3 DEF Frame
  <2> QED BY <1>1, <1>2, <2>0, <2>1, <2>2, <2>3, <2>4, <2>5, ZenonT(60) DEF Pair
<1>8. Told(z, t) /\ Told(t, z)
  BY <1>1, <1>2, <1>4, Zenon DEF Told
<1>9. e = opener => Start(z, t)
  <2> SUFFICES ASSUME e = opener
               PROVE  Start(z, t)
    BY Zenon
  <2>0. Start(x, y)
    BY <1>0 DEF Mid
  <2>1. ASSUME NEW i \in 1..Len(z.out), z.out[i].cmd = "OPEN"
        PROVE  FALSE
    <3>1. i \in 1..Len(x.out) /\ z.out[i] = x.out[i]
      <4>1. Keeps(x.out, z.out)
        BY <1>2, Zenon DEF Frame
      <4>2. x.out \in Seq(Packet)
        BY <1>0, Zenon DEF Mid, EndInv, Ctx
      <4>3. Len(x.out) \in Nat /\ Len(z.out) \in Nat
        BY <1>3, <4>2
      <4>4. i \notin (Len(x.out) + 1)..Len(z.out)
        BY <2>1, <4>1, Zenon DEF Keeps
      <4>5. i \in 1..Len(x.out)
        BY <4>3, <4>4
      <4> QED BY <4>1, <4>5, Zenon DEF Keeps
    <3> QED BY <2>0, <2>1, <3>1, Zenon DEF Start
  <2>2. y.s.st = "none" => ~z.s.peer /\ Len(z.out) <= 1 /\ z.out = <<>>
    BY <1>3, <1>5
  <2> QED BY <1>1, <1>2, <1>4, <2>1, <2>2, Zenon DEF Start
<1>10. e = acceptor => Start(t, z)
  <2> SUFFICES ASSUME e = acceptor
               PROVE  Start(t, z)
    BY Zenon
  <2>0. Start(y, x)
    BY <1>0, Zenon DEF Mid
  <2>1. ASSUME NEW i \in 1..Len(t.out), t.out[i].cmd = "OPEN"
        PROVE  FALSE
    BY <1>1, <2>0, <2>1, Zenon DEF Start
  <2>2. y.s.st # "none" /\ y.s.st # "open"
    BY <1>4, <2>0, Zenon DEF Start
  <2> QED BY <1>1, <1>2, <2>1, <2>2, Zenon DEF Start
<1>11. WaitsToWrite(t.s)
  BY <1>0, <1>1, Zenon DEF Mid
<1> QED BY <1>1, <1>2, <1>6, <1>7, <1>8, <1>9, <1>10, <1>11, ZenonT(60) DEF Inv, Mid, t, z

-----------------------------------------------------------------------------
(* A_OPEN, the events of the fd, the application and the loss of the        *)
(* transport.                                                               *)

(* What is known when an A_OPEN arrives.                                    *)
LEMMA OpenArrives ==
    ASSUME broken \in BOOLEAN, NEW x, NEW y, Inv(acceptor, x, y), y.out # <<>>,
           y.out[1].cmd = "OPEN"
    PROVE  /\ x.s = NewSocket /\ x.out = <<>> /\ x \in Ctx /\ EndInv(acceptor, x)
           /\ y.s.st # "none" /\ ~y.s.peer /\ y.s.why # "clse"
           /\ Taken(y).out = <<>>
           /\ y.out[1].cum = 0 /\ y.out[1].pos = 0 /\ y.out[1].len = 0
           /\ y.out[1].arg \in Nat
<1> DEFINE p == y.out[1]
<1>0. /\ Mid(acceptor, x, y) /\ EndInv(acceptor, x) /\ EndInv(opener, y)
      /\ Start(y, x) /\ Pair(acceptor, x, y) /\ Pair(opener, y, x)
      /\ acceptor \in End /\ opener \in End
  BY Zenon DEF Inv, Mid, End, Other, opener, acceptor
<1>1. y.out \in Seq(Packet) /\ x \in Ctx /\ p \in Packet /\ PacketInv(opener, y.s, p)
  BY <1>0, TakenFacts, ZenonT(60) DEF EndInv, Ctx
<1>2. 1 \in 1..Len(y.out)
  BY <1>1
<1>3. x.s.st = "none" /\ x.out = <<>> /\ p.cum = 0
  BY <1>0, <1>2, Zenon DEF Start
<1>4. x.s = NewSocket
  BY <1>0, <1>3, ZenonT(60) DEF EndInv, SocketInv
<1>5. y.s.st # "none" /\ ~y.s.peer /\ Len(y.out) <= 1
  BY <1>0, <1>3, Zenon DEF Start
<1>6. Taken(y).out = <<>>
  <2>1. Taken(y).out \in Seq(Packet) /\ Len(Taken(y).out) = Len(y.out) - 1
    BY <1>0, TakenFacts, ZenonT(60) DEF EndInv, Ctx
  <2> QED BY <1>1, <1>2, <1>5, <2>1
<1>7. y.s.why # "clse"
  BY <1>0, <1>3, Zenon DEF Pair
<1>8. p.pos = 0 /\ p.len = 0 /\ p.arg \in Nat
  <2>1. x.s.flushed + x.s.q = p.pos
    BY <1>0, <1>3, Zenon DEF Pair, BytesAt
  <2>2. x.s.flushed = 0 /\ x.s.q = 0
    BY <1>4, NewSocketFields, Zenon
  <2>3. p.len = 0 /\ p.arg \in Int /\ p.arg >= 0
    BY <1>1, Zenon DEF PacketInv, Packet
  <2> QED BY <2>1, <2>2, <2>3
<1> QED BY <1>0, <1>1, <1>3, <1>4, <1>5, <1>6, <1>7, <1>8, Zenon

(* A refused A_OPEN leaves the acceptor with no socket and the opener with  *)
(* an A_CLSE to come.                                                       *)
LEMMA RefuseStep ==
    ASSUME broken \in BOOLEAN, NEW x, NEW y, Inv(acceptor, x, y), y.out # <<>>,
           y.out[1].cmd = "OPEN"
    PROVE  Inv(acceptor, send_close(x, 0), Taken(y))
<1> DEFINE t == Taken(y)
           p == y.out[1]
           m == Stamp(x.s, "CLSE", 0, 0)
           d == Send(x.out, m)
           z == send_close(x, 0)
<1>0. /\ Mid(acceptor, x, y) /\ EndInv(acceptor, x) /\ EndInv(opener, y)
      /\ Start(y, x) /\ Pair(acceptor, x, y) /\ Pair(opener, y, x)
      /\ acceptor \in End /\ opener \in End /\ Other(acceptor) = opener
      /\ acceptor # opener
  BY DEF Inv, Mid, End, Other, opener, acceptor
<1>1. /\ x.s = NewSocket /\ x.out = <<>> /\ x \in Ctx /\ EndInv(acceptor, x)
      /\ y.s.st # "none" /\ ~y.s.peer /\ y.s.why # "clse"
      /\ t.out = <<>>
      /\ p.cum = 0 /\ p.pos = 0 /\ p.len = 0
  BY OpenArrives, Zenon
<1>2. /\ t.s = y.s /\ t.f = y.f /\ EndInv(opener, t)
      /\ \A r : r.flushed + r.q = p.pos + p.len => BytesAt(t.out, y.s, r, broken)
  BY <1>0, TakenFacts, Zenon
<1>3. /\ x.s.sent = 0 /\ x.s.granted = 0 /\ x.s.flushed = 0 /\ x.s.q = 0
      /\ x.s.st = "none" /\ x.s.why = "not" /\ x.s \in Asocket
  BY <1>1, NewSocketFields, Zenon
<1>4. /\ m \in Packet /\ m.cmd = "CLSE" /\ m.arg = 0 /\ m.len = 0
      /\ m.pos = 0 /\ m.cum = 0 /\ Credit(m) = 0
  <2>1. m \in Packet
    BY <1>3, StampType
  <2> QED BY <1>3, <2>1 DEF Stamp, Credit
<1>5. z = [s |-> x.s, out |-> d, f |-> x.f]
  BY <1>1 DEF send_close, Ctx
<1> HIDE DEF t, p, m, z
<1>6. /\ d \in Seq(Packet) /\ Linked(d) /\ EndsAt(d, x.s, broken)
      /\ \A i \in 1..Len(d) : PacketInv(acceptor, x.s, d[i])
  <2>1. PacketInv(acceptor, x.s, m)
    BY <1>3, <1>4, Zenon DEF PacketInv
  <2>2. \A i \in 1..Len(x.out) : PacketInv(acceptor, x.s, x.out[i])
    BY <1>0 DEF EndInv
  <2>3. /\ m.pos = x.s.sent /\ m.cum = x.s.granted /\ x.s.sent = x.s.sent + m.len
        /\ x.s.granted = x.s.granted + Credit(m) /\ Credit(m) \in Nat
    BY <1>3, <1>4
  <2> QED BY <1>0, <1>3, <1>4, <2>1, <2>2, <2>3, EmitLemma, ZenonT(60)
<1>7. d # <<>> => d[1] = m /\ ~broken
  BY <1>1 DEF Send
<1>8. ~broken => d # <<>>
  BY <1>1, <1>4 DEF Send
<1> HIDE DEF d
<1>9. z.s = x.s /\ z.f = x.f /\ z.out = d
  BY <1>5, Zenon
<1>10. EndInv(acceptor, z)
  <2>1. z \in Ctx
    BY <1>1, <1>5, <1>6, Zenon DEF Ctx
  <2> QED BY <1>0, <1>6, <1>9, <2>1, ZenonT(60) DEF EndInv
<1>11. Pair(acceptor, z, t)
  <2>1. BytesAt(x.out, x.s, y.s, broken) => BytesAt(d, x.s, y.s, broken)
    BY <1>1, <1>3, <1>4, <1>7, <1>8, ZenonT(60) DEF BytesAt
  <2>2. CreditAt(x.out, x.s, y.s, broken) => CreditAt(d, x.s, y.s, broken)
    BY <1>1, <1>3, <1>4, <1>7, <1>8, Zenon DEF CreditAt
  <2> QED BY <1>0, <1>1, <1>2, <1>9, <2>1, <2>2, ZenonT(60) DEF Pair
<1>12. Pair(opener, t, z)
  <2>1. BytesAt(t.out, y.s, x.s, broken)
    BY <1>1, <1>2, <1>3, ZenonT(60)
  <2> QED BY <1>0, <1>2, <1>3, <1>9, <2>1, ZenonT(60) DEF Pair
<1>13. Told(z, t) /\ Told(t, z)
  BY <1>2, <1>3, <1>9, Zenon DEF Told
<1>14. Start(t, z)
  BY <1>1, <1>2, <1>3, <1>9 DEF Start
<1>15. WaitsToWrite(t.s) /\ WaitsToWrite(z.s)
  <2>1. WaitsToWrite(y.s)
    BY <1>0 DEF Mid
  <2>2. WaitsToWrite(z.s)
    BY <1>3, <1>9, Zenon DEF WaitsToWrite
  <2> QED BY <1>2, <2>1, <2>2
<1> QED BY <1>0, <1>2, <1>10, <1>11, <1>12, <1>13, <1>14, <1>15, ZenonT(60) DEF Inv, Mid, t, z

(* An accepted A_OPEN: the new socket starts with the credit the A_OPEN     *)
(* carries, and its A_OKAY is the first packet the opener receives.         *)
LEMMA AcceptStep ==
    ASSUME broken \in BOOLEAN, NEW x, NEW y, Inv(acceptor, x, y), y.out # <<>>,
           y.out[1].cmd = "OPEN", Delayed[acceptor] = (y.out[1].arg # 0)
    PROVE  LET a == [x EXCEPT !.s.st = "open", !.s.peer = TRUE,
                              !.s.avail = y.out[1].arg, !.s.rd = TRUE]
           IN  Inv(acceptor, send_ready(acceptor, a, InitialAck), Taken(y))
<1> DEFINE t == Taken(y)
           p == y.out[1]
           u == [NewSocket EXCEPT !.st = "open", !.peer = TRUE, !.avail = p.arg, !.rd = TRUE]
           a == [x EXCEPT !.s.st = "open", !.s.peer = TRUE, !.s.avail = p.arg, !.s.rd = TRUE]
           z == send_ready(acceptor, a, InitialAck)
<1>0. /\ Mid(acceptor, x, y) /\ EndInv(acceptor, x) /\ EndInv(opener, y)
      /\ Start(y, x) /\ Pair(acceptor, x, y) /\ Pair(opener, y, x)
      /\ acceptor \in End /\ opener \in End /\ Other(acceptor) = opener
      /\ Other(opener) = acceptor /\ acceptor # opener
  BY Zenon DEF Inv, Mid, End, Other, opener, acceptor
<1>1. /\ x.s = NewSocket /\ x.out = <<>> /\ x \in Ctx /\ EndInv(acceptor, x)
      /\ y.s.st # "none" /\ ~y.s.peer /\ y.s.why # "clse"
      /\ t.out = <<>>
      /\ p.cum = 0 /\ p.pos = 0 /\ p.len = 0 /\ p.arg \in Nat
  BY OpenArrives, Zenon
<1>2. /\ t.s = y.s /\ t.f = y.f /\ t \in Ctx /\ EndInv(opener, t)
      /\ \A r : r.flushed + r.q = p.pos + p.len => BytesAt(t.out, y.s, r, broken)
      /\ \A r : r.avail + r.sent = p.cum + Credit(p) => CreditAt(t.out, y.s, r, broken)
      /\ p.cum + Credit(p) <= y.s.granted
  BY <1>0, TakenFacts, Zenon
<1>c. Credit(p) = p.arg
  BY <1>1 DEF Credit
<1>d. Delayed[acceptor] => p.arg # 0
  BY ZenonT(60)
<1> HIDE DEF p, t
<1>3. /\ u.st = "open" /\ u.peer = TRUE /\ u.avail = p.arg /\ u.rd = TRUE /\ u.wr = FALSE
      /\ u.werr = FALSE /\ u.q = 0 /\ u.flushed = 0 /\ u.sent = 0 /\ u.granted = 0
      /\ u.why = "not"
  BY NewSocketFields DEF Asocket
<1>4. u \in Asocket
  <2>1. p.arg \in Int
    BY <1>1
  <2> QED BY <2>1, NewSocketFields, ZenonT(60) DEF Asocket
<1>5. a = [s |-> u, out |-> <<>>, f |-> x.f] /\ x.f \in Fd
  <2>1. a = [x EXCEPT !.s = u]
    BY <1>1, ZenonT(60) DEF Ctx
  <2> HIDE DEF u, a
  <2> QED BY <1>1, <2>1 DEF Ctx
<1> HIDE DEF u
<1>6. a.s = u /\ a.out = <<>> /\ a.f = x.f /\ a \in Ctx
  <2>1. <<>> \in Seq(Packet)
    OBVIOUS
  <2> HIDE DEF a
  <2> QED BY <1>4, <1>5, <2>1 DEF Ctx
<1> HIDE DEF a
<1>7. EndInv(acceptor, a)
  <2>1. SocketInv(acceptor, u, x.f)
    <3>1. u.werr => x.f.deaf
      BY <1>3, Zenon
    <3>2. x.f.read <= x.f.wrote
      BY <1>0, Zenon DEF EndInv, SocketInv
    <3>3. (Delayed[acceptor] /\ u.rd) => u.avail > 0
      BY <1>1, <1>3, <1>d
    <3>4. u.granted <= InitialAck + u.flushed
      BY <1>3, ConstantsAssumption
    <3> QED BY <1>3, <3>1, <3>2, <3>3, <3>4 DEF SocketInv
  <2>2. Linked(<<>>) /\ EndsAt(<<>>, u, broken)
    BY DEF Linked, EndsAt
  <2> QED BY <1>6, <2>1, <2>2 DEF EndInv
<1>8. /\ EndInv(acceptor, z) /\ Frame(acceptor, a, z) /\ z.f = a.f
      /\ z.s = [u EXCEPT !.granted = IF Delayed[acceptor] THEN u.granted + InitialAck
                                     ELSE u.granted]
      /\ ~broken => Len(z.out) = 1 /\ z.out[Len(z.out)].cmd = "OKAY"
  <2>1. InitialAck \in Nat /\ a.s.granted + InitialAck <= InitialAck + a.s.flushed
    BY <1>3, <1>6, ConstantsAssumption
  <2>2. a.s.st = "open" /\ a.s.peer /\ Len(a.out) = 0
    BY <1>3, <1>6
  <2>0. acceptor \in End
    BY <1>0
  <2>3. /\ EndInv(acceptor, z) /\ Frame(acceptor, a, z) /\ z.f = a.f
        /\ z.s = [a.s EXCEPT !.granted = IF Delayed[acceptor] THEN a.s.granted + InitialAck
                                         ELSE a.s.granted]
    BY <1>7, <2>0, <2>1, <2>2, ReadyLemma
  <2>4. ~broken => Len(z.out) = 1 /\ z.out[Len(z.out)].cmd = "OKAY"
    <3> DEFINE m == Stamp(a.s, "OKAY", IF Delayed[acceptor] THEN InitialAck ELSE NoAck, 0)
    <3>1. z.out = Send(a.out, m)
      BY <1>6 DEF send_ready, Ctx
    <3>2. m.cmd = "OKAY"
      BY DEF Stamp
    <3> HIDE DEF m
    <3> QED BY <1>6, <3>1, <3>2 DEF Send
  <2> HIDE DEF z
  <2> QED BY <1>6, <2>2, <2>3, <2>4
<1> HIDE DEF z
<1>9. /\ z.s.st = "open" /\ z.s.peer = TRUE /\ z.s.avail = p.arg /\ z.s.q = 0
      /\ z.s.flushed = 0 /\ z.s.sent = 0 /\ z.s.why = "not" /\ z \in Ctx
      /\ z.out \in Seq(Packet)
  <2>1. z \in Ctx
    BY <1>8 DEF EndInv
  <2> QED BY <1>3, <1>4, <1>8, <2>1 DEF Asocket, Ctx
<1>10. /\ broken => z.out = <<>>
       /\ ~broken => z.out # <<>> /\ z.out[1].cmd = "OKAY" /\ Has(z.out, "OKAY")
  <2>1. broken => z.out = <<>>
    BY <1>6, <1>8 DEF Frame
  <2>2. CASE ~broken
    <3>1. Len(z.out) = 1 /\ z.out[1].cmd = "OKAY"
      BY <1>8, <2>2
    <3>2. 1 \in 1..Len(z.out) /\ z.out # <<>>
      BY <1>9, <3>1
    <3> QED BY <2>2, <3>1, <3>2 DEF Has
  <2> QED BY <2>1, <2>2
<1>11. Pair(acceptor, z, t)
  <2>0. /\ x.s.sent = 0 /\ x.s.granted = 0 /\ x.s.flushed = 0 /\ x.s.st = "none"
    BY <1>1, NewSocketFields
  <2>1. BytesAt(<<>>, x.s, y.s, broken) => BytesAt(<<>>, u, y.s, broken)
    BY <1>3, <2>0 DEF BytesAt
  <2>2. CreditAt(<<>>, x.s, y.s, broken) => CreditAt(<<>>, u, y.s, broken)
    BY <1>3, <2>0, Zenon DEF CreditAt
  <2>3. Pair(acceptor, a, t)
    BY <1>0, <1>1, <1>2, <1>3, <1>6, <2>0, <2>1, <2>2, ZenonT(60) DEF Pair
  <2> QED BY <1>0, <1>2, <1>6, <1>8, <1>9, <2>3, PairSend, Zenon
<1>12. Pair(opener, t, z)
  <2>1. BytesAt(t.out, y.s, z.s, broken)
    BY <1>1, <1>2, <1>9, Zenon
  <2>2. CreditAt(t.out, y.s, z.s, broken) /\ z.s.avail + z.s.sent <= y.s.granted
    BY <1>1, <1>2, <1>9, <1>c
  <2>3. z.s.flushed + z.s.q <= y.s.sent
    <3>1. x.s.flushed + x.s.q <= y.s.sent
      BY <1>0 DEF Pair
    <3>2. x.s.flushed = 0 /\ x.s.q = 0
      BY <1>1, NewSocketFields
    <3> QED BY <1>9, <3>1, <3>2, Zenon
  <2>4. z.s.sent <= InitialAck + y.s.flushed + PeerMax - 1
    <3>1. y.s.flushed \in Nat
      BY <1>2, Numbers DEF Ctx
    <3> QED BY <1>9, <3>1, ConstantsAssumption
  <2> QED BY <1>2, <1>9, <2>1, <2>2, <2>3, <2>4, ZenonT(60) DEF Pair
<1>13. Told(z, t) /\ Told(t, z)
  BY <1>9, <1>10, Zenon DEF Told
<1>14. Start(t, z)
  BY <1>1, <1>2, <1>9, <1>10 DEF Start
<1>15. WaitsToWrite(t.s) /\ WaitsToWrite(z.s)
  <2>1. WaitsToWrite(y.s)
    BY <1>0 DEF Mid
  <2>2. WaitsToWrite(z.s)
    BY <1>9 DEF WaitsToWrite
  <2> QED BY <1>2, <2>1, <2>2
<1> QED BY <1>0, <1>2, <1>8, <1>11, <1>12, <1>13, <1>14, <1>15, ZenonT(60) DEF Inv, Mid, t, z, a, p

(* connect_to_remote: the A_OPEN carries the credit the opener grants.      *)
LEMMA ConnectStep ==
    ASSUME broken \in BOOLEAN, NEW x, NEW y, Inv(opener, x, y), x.s.st = "none",
           NEW bytes \in Nat, bytes <= InitialAck
    PROVE  Inv(opener, [x EXCEPT !.s.st = "open", !.s.granted = bytes,
                                 !.out = Send(@, Stamp(x.s, "OPEN", bytes, 0))], y)
<1> DEFINE m == Stamp(x.s, "OPEN", bytes, 0)
           d == Send(x.out, m)
           u == [x.s EXCEPT !.st = "open", !.granted = bytes]
           z == [x EXCEPT !.s.st = "open", !.s.granted = bytes,
                          !.out = Send(@, Stamp(x.s, "OPEN", bytes, 0))]
<1>0. /\ Mid(opener, x, y) /\ EndInv(opener, x) /\ EndInv(acceptor, y)
      /\ Start(x, y) /\ Pair(opener, x, y) /\ Pair(acceptor, y, x)
      /\ acceptor \in End /\ opener \in End /\ Other(opener) = acceptor
      /\ Other(acceptor) = opener /\ acceptor # opener
  BY Zenon DEF Inv, Mid, End, Other, opener, acceptor
<1>1. /\ x \in Ctx /\ y \in Ctx /\ x.s = NewSocket /\ y.s = NewSocket
      /\ x.out = <<>> /\ y.out = <<>> /\ y.s.st = "none"
  BY <1>0, Zenon DEF Start, EndInv, SocketInv
<1>2. x.s \in Asocket /\ x.f \in Fd /\ bytes \in Int
  BY <1>1 DEF Ctx
<1>3. /\ x.s.sent = 0 /\ x.s.granted = 0 /\ x.s.flushed = 0 /\ x.s.q = 0 /\ x.s.avail = 0
      /\ x.s.why = "not" /\ x.s.peer = FALSE /\ x.s.rd = FALSE /\ x.s.werr = FALSE
      /\ y.s.sent = 0 /\ y.s.granted = 0 /\ y.s.flushed = 0 /\ y.s.q = 0 /\ y.s.avail = 0
      /\ y.s.why = "not"
  BY <1>1, NewSocketFields
<1>4. u \in Asocket
  BY <1>2, ZenonT(60) DEF Asocket
<1>5. /\ u.st = "open" /\ u.granted = bytes /\ u.sent = 0 /\ u.flushed = 0 /\ u.q = 0
      /\ u.avail = 0 /\ u.why = "not" /\ u.peer = FALSE /\ u.rd = FALSE /\ u.werr = FALSE
  BY <1>2, <1>3 DEF Asocket
<1>6. z = [s |-> u, out |-> d, f |-> x.f]
  <2>1. z = [x EXCEPT !.s = u, !.out = d]
    BY <1>1, <1>2, ZenonT(60) DEF Ctx, Asocket
  <2> HIDE DEF z, u, d
  <2> QED BY <1>1, <2>1, ZenonT(60) DEF Ctx
<1>7. /\ m \in Packet /\ m.cmd = "OPEN" /\ m.arg = bytes /\ m.len = 0
      /\ m.pos = 0 /\ m.cum = 0
  <2>1. m \in Packet
    BY <1>2, StampType
  <2> QED BY <1>3, <2>1 DEF Stamp
<1>8. Credit(m) = bytes
  BY <1>7 DEF Credit
<1> HIDE DEF u, z, m
<1>9. /\ d \in Seq(Packet) /\ Linked(d) /\ EndsAt(d, u, broken)
      /\ broken => d = <<>>
      /\ ~broken => Len(d) = 1 /\ d[1] = m
  <2>1. EndsAt(x.out, x.s, broken) /\ Linked(x.out) /\ x.out \in Seq(Packet)
    BY <1>0, <1>1 DEF EndInv, Ctx
  <2>2. /\ d \in Seq(Packet) /\ Linked(d) /\ EndsAt(d, u, broken)
    <3>1. /\ m.pos = x.s.sent /\ m.cum = x.s.granted
          /\ u.sent = x.s.sent + m.len /\ u.granted = x.s.granted + Credit(m)
          /\ Credit(m) \in Nat
      BY <1>3, <1>5, <1>7, <1>8
    <3> QED BY <1>1, <1>2, <1>4, <1>7, <2>1, <3>1, SendLinked, ZenonT(60)
  <2> QED BY <1>1, <1>7, <2>2 DEF Send
<1>10. /\ Len(d) <= 1
       /\ d # <<>> => d[1] = m /\ ~broken
       /\ \A i \in 1..Len(d) : i = 1 /\ d[i] = m
       /\ ~broken => d # <<>>
  <2> HIDE DEF d
  <2>1. CASE broken
    BY <1>9, <2>1
  <2>2. CASE ~broken
    <3>1. d \in Seq(Packet) /\ Len(d) = 1 /\ d[1] = m
      BY <1>9, <2>2
    <3>2. d # <<>>
      BY <3>1
    <3>3. \A i \in 1..Len(d) : i = 1
      BY <3>1
    <3> QED BY <2>2, <3>1, <3>2, <3>3
  <2> QED BY <2>1, <2>2
<1> HIDE DEF d
<1>11. z.s = u /\ z.out = d /\ z.f = x.f /\ z \in Ctx
  BY <1>2, <1>4, <1>6, <1>9 DEF Ctx
<1>12. EndInv(opener, z)
  <2>1. SocketInv(opener, u, x.f)
    <3>1. x.f.read <= x.f.wrote
      BY <1>0 DEF EndInv, SocketInv
    <3>2. u.granted <= InitialAck + u.flushed
      BY <1>5, ConstantsAssumption
    <3> QED BY <1>5, <3>1, <3>2, Zenon DEF SocketInv
  <2>2. PacketInv(opener, u, m)
    BY <1>7 DEF PacketInv
  <2> QED BY <1>9, <1>10, <1>11, <2>1, <2>2 DEF EndInv
<1>13. Pair(opener, z, y)
  <2>1. BytesAt(d, u, y.s, broken)
    BY <1>3, <1>5, <1>7, <1>10 DEF BytesAt
  <2>2. y.s.sent <= InitialAck + u.flushed + PeerMax - 1
    BY <1>3, <1>5, ConstantsAssumption
  <2>3. y.s.flushed + y.s.q <= u.sent /\ y.s.avail + y.s.sent <= u.granted
    BY <1>3, <1>5
  <2> QED BY <1>1, <1>3, <1>11, <2>1, <2>2, <2>3, Zenon DEF Pair
<1>14. Pair(acceptor, y, z)
  <2>1. BytesAt(y.out, y.s, u, broken) /\ CreditAt(y.out, y.s, u, broken)
    BY <1>1, <1>3, <1>5 DEF BytesAt, CreditAt
  <2>2. u.sent <= InitialAck + y.s.flushed + PeerMax - 1
    BY <1>3, <1>5, ConstantsAssumption
  <2>3. u.flushed + u.q <= y.s.sent /\ u.avail + u.sent <= y.s.granted
    BY <1>3, <1>5
  <2> QED BY <1>5, <1>11, <2>1, <2>2, <2>3 DEF Pair
<1>15. Told(z, y) /\ Told(y, z)
  BY <1>1, <1>5, <1>11 DEF Told
<1>16. Start(z, y)
  BY <1>1, <1>5, <1>7, <1>10, <1>11, Zenon DEF Start
<1>17. WaitsToWrite(y.s) /\ WaitsToWrite(z.s)
  BY <1>0, <1>5, <1>11 DEF Mid, WaitsToWrite
<1> QED BY <1>0, <1>12, <1>13, <1>14, <1>15, <1>16, <1>17 DEF Inv, Mid, z

(* The application writes, reads or shuts down: the looper's state stays.   *)
LEMMA AppStep ==
    ASSUME NEW e \in End, broken \in BOOLEAN, NEW x, NEW y, Inv(e, x, y),
           NEW g \in Fd, g.read = x.f.read, x.f.wrote <= g.wrote,
           x.f.shut => g.shut, x.f.deaf => g.deaf,
           x.s.st = "none" => ~g.shut /\ ~g.deaf
    PROVE  Inv(e, [s |-> x.s, out |-> x.out, f |-> g], y)
<1> DEFINE z == [s |-> x.s, out |-> x.out, f |-> g]
<1>0. Mid(e, x, y) /\ EndInv(e, x) /\ WaitsToWrite(x.s) /\ x \in Ctx
  BY ZenonT(60) DEF Inv, Mid, EndInv
<1>1. z.s = x.s /\ z.out = x.out /\ z.f = g /\ z \in Ctx
  BY <1>0, ZenonT(60) DEF Ctx
<1> HIDE DEF z
<1>2. EndInv(e, z)
  <2>1. g.read <= g.wrote
    <3>1. x.f \in Fd /\ x.f.read <= x.f.wrote
      BY <1>0 DEF EndInv, SocketInv, Ctx
    <3>2. x.f.read \in Nat /\ x.f.wrote \in Nat /\ g.wrote \in Nat
      BY <3>1, Zenon DEF Fd
    <3> QED BY <3>1, <3>2
  <2>2. SocketInv(e, x.s, g)
    BY <1>0, <2>1 DEF EndInv, SocketInv
  <2> QED BY <1>0, <1>1, <2>2, Zenon DEF EndInv
<1>3. Pair(e, z, y) /\ Pair(Other(e), y, z)
  <2>1. Pair(e, x, y) /\ Pair(Other(e), y, x)
    BY <1>0 DEF Mid
  <2>2. Pair(e, z, y)
    BY <1>1, <2>1, ZenonT(60) DEF Pair
  <2>3. Pair(Other(e), y, z)
    BY <1>1, <2>1, ZenonT(60) DEF Pair
  <2> QED BY <2>2, <2>3
<1>4. Told(z, y) /\ Told(y, z)
  BY <1>0, <1>1, Zenon DEF Mid, Told
<1>5. (e = opener => Start(z, y)) /\ (e = acceptor => Start(y, z))
  BY <1>0, <1>1 DEF Mid, Start
<1> QED BY <1>0, <1>1, <1>2, <1>3, <1>4, <1>5, Zenon DEF Inv, Mid, z

(* What adb_writev returns fits what FlushIncomingLemma asks for.           *)
LEMMA WritevFacts ==
    ASSUME NEW x \in Ctx, NEW rc \in writev(x)
    PROVE  rc \in Int /\ -1 <= rc /\ rc <= x.s.q /\ (rc = -1 => x.f.deaf)
<1>1. x.s.q \in Nat /\ x.f.buf \in Nat /\ FdCap \in Nat
  BY ConstantsAssumption DEF Ctx, Asocket, Fd
<1>2. CASE x.s.q = 0
  BY <1>2 DEF writev
<1>3. CASE x.s.q # 0
  <2>1. \/ rc \in 1..Min(x.s.q, FdCap - x.f.buf)
        \/ rc = -1 /\ x.f.deaf
        \/ rc = 0
    BY <1>3 DEF writev
  <2>2. Min(x.s.q, FdCap - x.f.buf) \in Int /\ Min(x.s.q, FdCap - x.f.buf) <= x.s.q
    BY <1>1 DEF Min
  <2> QED BY <1>1, <2>1, <2>2
<1> QED BY <1>2, <1>3

(* local_socket_event_func: a write event and a read event of one wake-up.  *)
LEMMA EventStep ==
    ASSUME NEW e \in End, broken \in BOOLEAN, NEW x, NEW y, NEW w, NEW z, Inv(e, x, y),
           x.s.st \in {"open", "closing"},
           \/ w = x
           \/ \E rc \in writev(x) : w = local_socket_flush_incoming(e, x, rc),
           \/ z = w
           \/ /\ w.s.st # "gone"
              /\ x.s.rd \/ x.f.shut
              /\ z = local_socket_flush_outgoing(e, w)
    PROVE  Inv(e, z, y)
<1>0. /\ Mid(e, x, y) /\ EndInv(e, x) /\ EndInv(Other(e), y) /\ WaitsToWrite(x.s)
      /\ x \in Ctx /\ y \in Ctx
  BY Zenon DEF Inv, Mid, EndInv
<1>1. w = x \/ /\ EndInv(e, w) /\ WaitsToWrite(w.s) /\ Frame(e, x, w)
               /\ w.s.sent = x.s.sent /\ w.s.why = x.s.why
               /\ w.s.st = x.s.st \/ (x.s.st = "closing" /\ w.s.st = "gone")
               /\ w.s.st # "gone" => w.s.rd = x.s.rd
  <2> SUFFICES ASSUME NEW rc \in writev(x), w = local_socket_flush_incoming(e, x, rc)
               PROVE  /\ EndInv(e, w) /\ WaitsToWrite(w.s) /\ Frame(e, x, w)
                      /\ w.s.sent = x.s.sent /\ w.s.why = x.s.why
                      /\ w.s.st = x.s.st \/ (x.s.st = "closing" /\ w.s.st = "gone")
                      /\ w.s.st # "gone" => w.s.rd = x.s.rd
    OBVIOUS
  <2>1. rc \in Int /\ -1 <= rc /\ rc <= x.s.q /\ (rc = -1 => x.f.deaf)
    BY <1>0, WritevFacts
  <2>2. EndInv(e, x) /\ x.s.st \in {"open", "closing"}
    BY <1>0
  <2> DEFINE v == local_socket_flush_incoming(e, x, rc)
  <2>3. /\ EndInv(e, v) /\ WaitsToWrite(v.s) /\ Frame(e, x, v)
        /\ v.s.sent = x.s.sent
        /\ v.s.st = x.s.st \/ (x.s.st = "closing" /\ v.s.st = "gone")
        /\ v.s.why = x.s.why
        /\ v.s.st # "gone" => v.s.rd = x.s.rd
    BY <2>1, <2>2, FlushIncomingLemma, ZenonT(60)
  <2>4. w = v
    OBVIOUS
  <2> HIDE DEF v
  <2> QED BY <2>3, <2>4, Zenon
<1>2. /\ EndInv(e, w) /\ WaitsToWrite(w.s) /\ w \in Ctx
      /\ w.s.sent = x.s.sent /\ w.s.why = x.s.why /\ w.f.shut = x.f.shut
      /\ w.s.st = x.s.st \/ (x.s.st = "closing" /\ w.s.st = "gone")
      /\ w.s.st # "gone" => w.s.rd = x.s.rd
      /\ Delayed[e] => w.s.avail + w.s.sent = x.s.avail + x.s.sent
  BY <1>0, <1>1, Zenon DEF EndInv, Frame
<1>w. ASSUME Delayed[e], Delayed[Other(e)], ~x.f.shut
      PROVE  /\ x.s.sent <= InitialAck + y.s.flushed + PeerMax - 1
             /\ x.s.avail + x.s.sent <= InitialAck + y.s.flushed
  <2>1. /\ x.s.sent <= InitialAck + y.s.flushed + PeerMax - 1
        /\ x.s.avail + x.s.sent <= y.s.granted
    BY <1>0, <1>w, OtherFacts, Zenon DEF Mid, Pair
  <2>2. y.s.granted <= InitialAck + y.s.flushed
    BY <1>0, ZenonT(60) DEF EndInv, SocketInv
  <2>3. /\ x.s.avail \in Int /\ x.s.sent \in Nat /\ y.s.granted \in Nat /\ y.s.flushed \in Nat
        /\ InitialAck \in Nat
    BY <1>0, Numbers, ConstantsAssumption, Zenon DEF Ctx
  <2> QED BY <2>1, <2>2, <2>3
<1>3. Inv(e, w, y)
  <2>1. CASE w = x
    BY <2>1, Zenon
  <2>2. CASE w # x
    <3>1. Frame(e, x, w)
      BY <1>1, <2>2
    <3> QED BY <1>0, <1>2, <1>w, <3>1, LocalStep, Zenon
  <2> QED BY <2>1, <2>2
<1>4. CASE z = w
  BY <1>3, <1>4, Zenon
<1>5. CASE /\ w.s.st # "gone"
           /\ x.s.rd \/ x.f.shut
           /\ z = local_socket_flush_outgoing(e, w)
  <2>1. w.s.st \in {"open", "closing"} /\ (w.s.rd \/ w.f.shut)
    BY <1>2, <1>5, Zenon
  <2>2. /\ EndInv(e, z)
        /\ WaitsToWrite(z.s)
        /\ Frame(e, w, z)
        /\ (w.s.st = "open" /\ z.s.st # "open") => z.s.why = "eof"
        /\ z.s.sent <= w.s.sent + PeerMax
        /\ (Delayed[e] /\ ~w.f.shut /\ z.s.sent # w.s.sent) => w.s.avail > 0
    BY <1>2, <1>5, <2>1, FlushOutgoingLemma, Zenon
  <2>3. z.s.why = "clse" => w.s.why = "clse"
    BY <2>2, Zenon DEF Frame, EndInv, SocketInv
  <2>4. (Delayed[e] /\ Delayed[Other(e)] /\ ~z.f.shut) =>
           z.s.sent <= InitialAck + y.s.flushed + PeerMax - 1
    <3> SUFFICES ASSUME Delayed[e], Delayed[Other(e)], ~z.f.shut
                 PROVE  z.s.sent <= InitialAck + y.s.flushed + PeerMax - 1
      BY Zenon
    <3>1. ~w.f.shut /\ ~x.f.shut
      BY <1>2, <2>2, Zenon DEF Frame
    <3>2. /\ w.s.sent <= InitialAck + y.s.flushed + PeerMax - 1
          /\ w.s.avail + w.s.sent <= InitialAck + y.s.flushed
      BY <1>2, <1>w, <3>1
    <3>3. /\ w.s.avail \in Int /\ w.s.sent \in Nat /\ y.s.flushed \in Nat /\ z.s.sent \in Nat
          /\ InitialAck \in Nat /\ PeerMax \in Nat
      <4>1. w.s \in Asocket /\ y.s \in Asocket /\ z.s \in Asocket
        BY <1>0, <1>2, <2>2, Zenon DEF EndInv, Ctx
      <4> QED BY <4>1, Numbers, ConstantsAssumption
    <3>4. CASE z.s.sent = w.s.sent
      BY <3>2, <3>4
    <3>5. CASE z.s.sent # w.s.sent
      <4>1. w.s.avail > 0 /\ z.s.sent <= w.s.sent + PeerMax
        BY <2>2, <3>1, <3>5
      <4> QED BY <3>2, <3>3, <4>1
    <3> QED BY <3>4, <3>5
  <2>5. Mid(e, w, y)
    BY <1>3 DEF Inv
  <2> QED BY <2>2, <2>3, <2>4, <2>5, LocalStep, Zenon
<1> QED BY <1>4, <1>5, Zenon

(* handle_offline: close_all_sockets closes an open socket; its A_CLSE goes *)
(* nowhere.                                                                 *)
LEMMA OfflineStep ==
    ASSUME NEW e \in End, broken, broken \in BOOLEAN, NEW x, NEW y, Inv(e, x, y),
           x.s.st = "open"
    PROVE  LET z == local_socket_close(x, "offline")
           IN  Inv(e, z, y) /\ z.out = x.out /\ z.f = x.f
<1> DEFINE z == local_socket_close(x, "offline")
<1>0. Mid(e, x, y) /\ EndInv(e, x) /\ WaitsToWrite(x.s)
  BY DEF Inv, Mid
<1>1. /\ EndInv(e, z) /\ WaitsToWrite(z.s) /\ Frame(e, x, z)
      /\ z.s.why = "offline" /\ z.f = x.f /\ z.s.sent = x.s.sent
  <2>1. x.s.why = "not"
    BY <1>0 DEF EndInv, SocketInv
  <2>2. (x.s.st = "open" /\ x.s.q > 0 /\ ~x.s.werr) => x.s.wr
    BY <1>0 DEF WaitsToWrite
  <2> QED BY <1>0, <2>1, <2>2, CloseLemma, ZenonT(60)
<1> HIDE DEF z
<1>2. z.out = x.out
  BY <1>1 DEF Frame
<1>3. (Delayed[e] /\ Delayed[Other(e)] /\ ~z.f.shut) =>
         z.s.sent <= InitialAck + y.s.flushed + PeerMax - 1
  BY <1>0, <1>1, OtherFacts, ZenonT(60) DEF Mid, Pair
<1>4. Inv(e, z, y)
  BY <1>0, <1>1, <1>3, LocalStep
<1> QED BY <1>1, <1>2, <1>4 DEF z

(* The invariant does not depend on which end is named first.               *)
LEMMA InvSymmetric ==
    ASSUME NEW e \in End, NEW x, NEW y
    PROVE  Inv(e, x, y) <=> Inv(Other(e), y, x)
  BY OtherFacts DEF Inv, Mid

=============================================================================
