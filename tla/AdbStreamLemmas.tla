-------------------------- MODULE AdbStreamLemmas --------------------------
(***************************************************************************)
(* The inductive invariant of AdbStream and what each operator of one end  *)
(* (send_ready, local_socket_close, the two flush functions) does to it.   *)
(* AdbStreamSteps, AdbStreamProofs and AdbStreamRefinement combine these   *)
(* lemmas into the theorems.                                               *)
(***************************************************************************)
EXTENDS AdbStream, TLAPS

(* The credit a packet carries to the end that receives it.                 *)
Credit(p) == IF p.cmd = "CLSE" \/ p.arg < 0 THEN 0 ELSE p.arg

(* The packets in a channel follow each other without a gap, in bytes and   *)
(* in credit.                                                               *)
Linked(c) ==
    \A i \in 1..(Len(c) - 1) :
       /\ c[i].pos + c[i].len = c[i + 1].pos
       /\ c[i].cum + Credit(c[i]) = c[i + 1].cum

(* ... up to what the sender has sent and granted; only a failed transport  *)
(* makes a difference.                                                      *)
EndsAt(c, s, b) ==
    /\ \A i \in 1..Len(c) :
          c[i].pos + c[i].len <= s.sent /\ c[i].cum + Credit(c[i]) <= s.granted
    /\ (c # <<>> /\ ~b) =>
          LET l == c[Len(c)]
          IN  l.pos + l.len = s.sent /\ l.cum + Credit(l) = s.granted

(* What the receiving socket r has got is what precedes the channel.        *)
BytesAt(c, s, r, b) ==
    IF c # <<>> THEN r.flushed + r.q = c[1].pos
    ELSE r.flushed + r.q <= s.sent /\ (~b => r.flushed + r.q = s.sent)

CreditAt(c, s, r, b) ==
    IF c # <<>> THEN r.avail + r.sent = c[1].cum
    ELSE r.avail + r.sent <= s.granted /\ (~b => r.avail + r.sent = s.granted)

-----------------------------------------------------------------------------
(* The inductive invariant of one end: its socket, its fd and the packets   *)
(* it has sent.                                                             *)
Ctx == [s : Asocket, out : Seq(Packet), f : Fd]

SocketInv(e, s, f) ==
    /\ s.st = "none" => s = NewSocket /\ f.read = 0 /\ ~f.shut /\ ~f.deaf
    /\ s.st \in {"closing", "gone"} => ~s.peer /\ ~s.rd
    /\ s.st \in {"none", "open"} <=> s.why = "not"
    /\ (s.st = "gone" /\ s.why = "clse" /\ ~f.shut /\ ~f.deaf) => s.q = 0
    /\ (Delayed[e] /\ s.rd) => s.avail > 0
    /\ s.granted <= InitialAck + s.flushed
    /\ s.werr => f.deaf
    /\ f.read <= f.wrote

(* A handler leaves the socket waiting for FDE_WRITE if it has to.          *)
WaitsToWrite(s) ==
    /\ (s.st = "open" /\ s.q > 0 /\ ~s.werr) => s.wr
    /\ s.st = "closing" => s.wr /\ s.q > 0 /\ ~s.werr

PacketInv(e, s, p) ==
    /\ p.cmd = "OKAY" => Delayed[e] = (p.arg # NoAck) /\ s.st # "none" /\ p.arg >= -1
    /\ p.cmd = "WRTE" => p.arg = 0 /\ s.st # "none"
    /\ p.cmd # "WRTE" => p.len = 0
    /\ p.cmd = "OPEN" => e = opener /\ p.arg >= 0
    /\ (p.cmd = "CLSE" /\ p.arg # 0) => s.st \in {"closing", "gone"} /\ p.pos = s.sent
    /\ (p.cmd = "CLSE" /\ p.arg = 0) => s.st = "none" /\ e = acceptor

EndInv(e, x) ==
    /\ x \in Ctx
    /\ SocketInv(e, x.s, x.f)
    /\ Linked(x.out)
    /\ EndsAt(x.out, x.s, broken)
    /\ \A i \in 1..Len(x.out) : PacketInv(e, x.s, x.out[i])

(* What the sender e, in state x, and the receiver, in state y, agree on.   *)
Pair(e, x, y) ==
    /\ y.s.st \in {"none", "open"} => BytesAt(x.out, x.s, y.s, broken)
    /\ y.s.flushed + y.s.q <= x.s.sent
    /\ (Delayed[e] /\ Delayed[Other(e)]) =>
          /\ y.s.st = "open" => CreditAt(x.out, x.s, y.s, broken)
          /\ y.s.avail + y.s.sent <= x.s.granted
          /\ ~y.f.shut => y.s.sent <= InitialAck + x.s.flushed + PeerMax - 1
    /\ y.s.why = "clse" =>
          /\ x.s.st # "open"
          /\ x.s.st = "none" => y.out = <<>>
          /\ x.s.why = "eof" => y.s.flushed + y.s.q = x.s.sent

Has(c, cmd) == \E i \in 1..Len(c) : c[i].cmd = cmd

(* If y has closed, x is told, or will learn it from the answer to an A_OKAY *)
Told(x, y) ==
    (x.s.st = "open" /\ ~broken /\ y.s.st \in {"closing", "gone"}) =>
       Has(y.out, "CLSE") \/ Has(x.out, "OKAY")

(* How a stream starts: the acceptor y does nothing before the A_OPEN, and  *)
(* its A_OKAY is the first packet the opener x gets.                        *)
Start(x, y) ==
    /\ x.s.st = "none" => y.s.st = "none" /\ x.out = <<>> /\ y.out = <<>>
    /\ \A i \in 1..Len(x.out) :
          x.out[i].cmd = "OPEN" =>
             i = 1 /\ y.s.st = "none" /\ y.out = <<>> /\ x.out[1].cum = 0
    /\ y.s.st = "none" =>
          /\ ~x.s.peer
          /\ Len(x.out) <= 1
          /\ x.out # <<>> => x.out[1].cmd = "OPEN"
    /\ y.s.st = "open" => y.s.peer
    /\ (x.s.st = "open" /\ ~x.s.peer /\ y.s.st # "none") =>
          /\ ~broken => y.out # <<>>
          /\ y.out # <<>> => y.out[1].cmd = "OKAY"

(* The two ends together, x at end e; the second form is the one that holds *)
(* between two handlers.                                                    *)
Mid(e, x, y) ==
    /\ EndInv(e, x) /\ EndInv(Other(e), y)
    /\ Pair(e, x, y) /\ Pair(Other(e), y, x)
    /\ Told(x, y) /\ Told(y, x)
    /\ e = opener => Start(x, y)
    /\ e = acceptor => Start(y, x)
    /\ WaitsToWrite(y.s)

Inv(e, x, y) == Mid(e, x, y) /\ WaitsToWrite(x.s)

IInv ==
    /\ broken \in BOOLEAN
    /\ online \in [End -> BOOLEAN]
    /\ sock \in [End -> Asocket]
    /\ chan \in [End -> Seq(Packet)]
    /\ fd \in [End -> Fd]
    /\ Inv(opener, Context(opener), Context(acceptor))

-----------------------------------------------------------------------------
(* What a handler does to its end, whatever the handler: packets are only   *)
(* appended, bytes move from the queue to the fd, and credit is neither     *)
(* made nor lost.                                                           *)
Keeps(c, d) ==
    /\ Len(c) <= Len(d)
    /\ \A i \in 1..Len(c) : d[i] = c[i]
    /\ \A i \in (Len(c) + 1)..Len(d) : d[i].cmd # "OPEN"

Frame(e, x, z) ==
    /\ Keeps(x.out, z.out)
    /\ broken \/ ~x.s.peer => z.out = x.out
    /\ (x.out = <<>> /\ z.out # <<>>) =>
          z.out[1].pos = x.s.sent /\ z.out[1].cum = x.s.granted
    /\ (z.out = <<>> /\ ~broken) => z.s.sent = x.s.sent /\ z.s.granted = x.s.granted
    /\ x.s.sent <= z.s.sent /\ x.s.granted <= z.s.granted /\ x.s.flushed <= z.s.flushed
    /\ z.s.flushed + z.s.q = x.s.flushed + x.s.q
    /\ Delayed[e] => z.s.avail + z.s.sent = x.s.avail + x.s.sent
    /\ z.s.st = "none" <=> x.s.st = "none"
    /\ z.s.st = "open" => x.s.st = "open" /\ z.s.peer = x.s.peer
    /\ z.s.peer => x.s.peer
    /\ x.s.st # "open" => z.s.sent = x.s.sent /\ z.s.why = x.s.why
    /\ (x.s.st = "open" /\ x.s.peer /\ z.s.st # "open" /\ ~broken) =>
          \E i \in 1..Len(z.out) : z.out[i].cmd = "CLSE"
    /\ z.f.shut = x.f.shut

-----------------------------------------------------------------------------
LEMMA Numbers ==
    ASSUME NEW s \in Asocket
    PROVE  /\ s.sent \in Nat /\ s.granted \in Nat /\ s.flushed \in Nat /\ s.q \in Nat
           /\ s.skipped \in Nat /\ s.avail \in Int
  BY DEF Asocket

LEMMA NewSocketFields ==
    /\ NewSocket \in Asocket
    /\ NewSocket.st = "none" /\ NewSocket.why = "not"
    /\ NewSocket.peer = FALSE /\ NewSocket.rd = FALSE /\ NewSocket.wr = FALSE
    /\ NewSocket.werr = FALSE
    /\ NewSocket.sent = 0 /\ NewSocket.granted = 0 /\ NewSocket.flushed = 0
    /\ NewSocket.q = 0 /\ NewSocket.avail = 0
  BY DEF NewSocket, Asocket

LEMMA StampType ==
    ASSUME NEW s \in Asocket, NEW cmd \in {"OPEN", "OKAY", "WRTE", "CLSE"},
           NEW arg \in Int, NEW len \in Nat
    PROVE  Stamp(s, cmd, arg, len) \in Packet
  BY DEF Stamp, Packet, Asocket

(* Appending a packet that starts where the sender is keeps the channel     *)
(* linked (send_packet, called with every packet of the stream).            *)
LEMMA SendLinked ==
    ASSUME NEW c \in Seq(Packet), NEW s \in Asocket, NEW t \in Asocket, NEW p \in Packet,
           Linked(c), EndsAt(c, s, broken), broken \in BOOLEAN,
           p.pos = s.sent, p.cum = s.granted, p.cmd # "OPEN" \/ c = <<>>,
           t.sent = s.sent + p.len, t.granted = s.granted + Credit(p), Credit(p) \in Nat
    PROVE  /\ Send(c, p) \in Seq(Packet)
           /\ Linked(Send(c, p))
           /\ EndsAt(Send(c, p), t, broken)
           /\ broken => Send(c, p) = c
           /\ ~broken => /\ Len(Send(c, p)) = Len(c) + 1
                         /\ Send(c, p)[Len(c) + 1] = p
           /\ \A i \in 1..Len(c) : Send(c, p)[i] = c[i]
<1>0. /\ s.sent \in Nat /\ s.granted \in Nat /\ p.len \in Nat
      /\ t.sent \in Nat /\ t.granted \in Nat
  BY DEF Asocket, Packet
<1>m. s.sent <= t.sent /\ s.granted <= t.granted
  BY <1>0
<1>w. ASSUME NEW i \in 1..Len(c)
      PROVE  c[i].pos + c[i].len <= t.sent /\ c[i].cum + Credit(c[i]) <= t.granted
  <2>1. c[i] \in Packet
    OBVIOUS
  <2>2. c[i].pos \in Nat /\ c[i].len \in Nat /\ c[i].cum \in Nat /\ c[i].arg \in Int
    BY <2>1, ZenonT(60) DEF Packet
  <2>4. Credit(c[i]) \in Int
    BY <2>2 DEF Credit
  <2>5. c[i].pos + c[i].len \in Int /\ c[i].cum + Credit(c[i]) \in Int
    BY <2>2, <2>4
  <2>3. c[i].pos + c[i].len <= s.sent /\ c[i].cum + Credit(c[i]) <= s.granted
    BY DEF EndsAt
  <2> QED BY <1>0, <1>m, <2>3, <2>5, SMTT(60), SMTT(60)
<1>1. CASE broken
  <2>1. Send(c, p) = c
    BY <1>1 DEF Send
  <2>4. EndsAt(c, t, broken)
    BY <1>1, <1>w DEF EndsAt
  <2> QED BY <1>1, <2>1, <2>4, ZenonT(60)
<1>2. CASE ~broken
  <2>1. Send(c, p) = Append(c, p)
    BY <1>2 DEF Send
  <2>2. /\ Append(c, p) \in Seq(Packet)
        /\ Len(Append(c, p)) = Len(c) + 1
        /\ Append(c, p)[Len(c) + 1] = p
        /\ \A i \in 1..Len(c) : Append(c, p)[i] = c[i]
    OBVIOUS
  <2>3. Linked(Append(c, p))
    <3> SUFFICES ASSUME NEW i \in 1..Len(c)
                 PROVE  LET d == Append(c, p)
                        IN  /\ d[i].pos + d[i].len = d[i + 1].pos
                            /\ d[i].cum + Credit(d[i]) = d[i + 1].cum
      BY <2>2 DEF Linked
    <3>1. CASE i < Len(c)
      BY <2>2, <3>1 DEF Linked
    <3>2. CASE i = Len(c)
      BY <1>2, <2>2, <3>2 DEF EndsAt
    <3> QED BY <3>1, <3>2
  <2>4. EndsAt(Append(c, p), t, broken)
    <3> DEFINE d == Append(c, p)
    <3> HIDE DEF d
    <3>1. ASSUME NEW i \in 1..Len(d)
          PROVE  d[i].pos + d[i].len <= t.sent /\ d[i].cum + Credit(d[i]) <= t.granted
      <4>1. CASE i \in 1..Len(c)
        BY <1>w, <2>2, <4>1 DEF d
      <4>2. CASE i = Len(c) + 1
        BY <1>0, <2>2, <4>2 DEF d
      <4> QED BY <2>2, <4>1, <4>2 DEF d
    <3>2. d[Len(d)].pos + d[Len(d)].len = t.sent /\ d[Len(d)].cum + Credit(d[Len(d)]) = t.granted
      BY <2>2 DEF d
    <3> QED BY <3>1, <3>2 DEF EndsAt, d
  <2> QED BY <1>2, <2>1, <2>2, <2>3, <2>4
<1> QED BY <1>1, <1>2

(* Sending one packet at an end keeps its invariant.                        *)
LEMMA EmitLemma ==
    ASSUME NEW e \in End, broken \in BOOLEAN, NEW x, EndInv(e, x),
           NEW t \in Asocket, NEW p \in Packet, Credit(p) \in Nat,
           p.pos = x.s.sent, p.cum = x.s.granted, p.cmd # "OPEN",
           t.sent = x.s.sent + p.len, t.granted = x.s.granted + Credit(p),
           PacketInv(e, t, p),
           \A i \in 1..Len(x.out) : PacketInv(e, t, x.out[i])
    PROVE  LET d == Send(x.out, p)
           IN  /\ d \in Seq(Packet)
               /\ Linked(d)
               /\ EndsAt(d, t, broken)
               /\ \A i \in 1..Len(d) : PacketInv(e, t, d[i])
               /\ Keeps(x.out, d)
               /\ broken => d = x.out
               /\ (x.out = <<>> /\ d # <<>>) => d[1] = p
               /\ (x.out # <<>>) => d # <<>>
               /\ ~broken => d # <<>> /\ Len(d) = Len(x.out) + 1 /\ d[Len(d)] = p
<1> DEFINE c == x.out
           d == Send(c, p)
<1>1. c \in Seq(Packet) /\ x.s \in Asocket /\ Linked(c) /\ EndsAt(c, x.s, broken)
  BY DEF EndInv, Ctx
<1>2. /\ d \in Seq(Packet)
      /\ Linked(d)
      /\ EndsAt(d, t, broken)
      /\ broken => d = c
      /\ ~broken => Len(d) = Len(c) + 1 /\ d[Len(c) + 1] = p
      /\ \A i \in 1..Len(c) : d[i] = c[i]
  BY <1>1, SendLinked
<1> HIDE DEF c, d
<1>3. /\ \A i \in 1..Len(d) : PacketInv(e, t, d[i])
      /\ Keeps(c, d)
  <2>1. CASE broken
    BY <1>1, <1>2, <2>1 DEF Keeps, c
  <2>2. CASE ~broken
    BY <1>1, <1>2, <2>2 DEF Keeps, c
  <2> QED BY <2>1, <2>2
<1>4. /\ (c = <<>> /\ d # <<>>) => d[1] = p
      /\ c # <<>> => d # <<>>
      /\ ~broken => d # <<>> /\ Len(d) = Len(c) + 1 /\ d[Len(d)] = p
  BY <1>1, <1>2
<1> QED BY <1>2, <1>3, <1>4 DEF c, d

(* local_socket_close: the A_CLSE is sent before the peer is forgotten, and *)
(* the socket is left on the closing list only if FDE_WRITE is set.         *)
LEMMA CloseLemma ==
    ASSUME NEW e \in End, broken \in BOOLEAN, NEW x, EndInv(e, x),
           x.s.st \in {"open", "closing"},
           NEW why \in {"not", "eof", "clse", "offline"},
           x.s.st = "open" => why # "not",
           (x.s.st = "open" /\ x.s.q > 0 /\ ~x.s.werr) => x.s.wr,
           x.s.st = "closing" => x.s.q = 0 \/ x.s.werr \/ x.f.shut
    PROVE  LET z == local_socket_close(x, why)
           IN  /\ EndInv(e, z)
               /\ WaitsToWrite(z.s)
               /\ Frame(e, x, z)
               /\ z.s.st \in {"closing", "gone"}
               /\ z.s.why = IF x.s.why = "not" THEN why ELSE x.s.why
               /\ z.f = x.f
               /\ z.s.sent = x.s.sent
               /\ z.s.q = x.s.q
               /\ x.s.st = "closing" => z.s.st = "gone" /\ z.out = x.out
<1> DEFINE w == IF x.s.why = "not" THEN why ELSE x.s.why
           destroy == x.s.st = "closing" \/ x.s.werr \/ x.s.q = 0
           u == IF destroy
                THEN [x.s EXCEPT !.st = "gone", !.peer = FALSE, !.why = w,
                                 !.rd = FALSE, !.wr = FALSE]
                ELSE [x.s EXCEPT !.st = "closing", !.peer = FALSE, !.why = w,
                                 !.rd = FALSE]
           p == Stamp(x.s, "CLSE", 1, 0)
           d == IF x.s.peer THEN Send(x.out, p) ELSE x.out
           z == local_socket_close(x, why)
<1>0. x \in Ctx /\ x.s \in Asocket /\ x.f \in Fd /\ x.out \in Seq(Packet)
  BY Zenon DEF EndInv, Ctx
<1>1. z = [s |-> u, out |-> d, f |-> x.f]
  BY <1>0, ZenonT(60) DEF local_socket_close, send_close, Ctx, Asocket
<1>2. u \in Asocket
  BY <1>0, ZenonT(60) DEF Asocket
<1>3. /\ u.sent = x.s.sent /\ u.granted = x.s.granted /\ u.flushed = x.s.flushed
      /\ u.q = x.s.q /\ u.avail = x.s.avail /\ u.werr = x.s.werr
      /\ u.st \in {"closing", "gone"} /\ ~u.peer /\ ~u.rd /\ u.why = w
      /\ u.st = "closing" => u.wr = x.s.wr /\ u.q # 0 /\ ~u.werr /\ x.s.st = "open"
      /\ u.st = "gone" => destroy
  BY <1>0 DEF Asocket
<1>4. w # "not" /\ (x.s.st = "closing" => w = x.s.why /\ ~x.s.peer)
  BY <1>0 DEF EndInv, SocketInv
<1>5. p \in Packet /\ p.cmd = "CLSE" /\ p.arg = 1 /\ p.pos = x.s.sent /\ p.cum = x.s.granted
      /\ p.len = 0 /\ Credit(p) = 0
  BY <1>0, StampType DEF Stamp, Credit, Asocket
<1> HIDE DEF u, p, w
<1>6. SocketInv(e, u, x.f)
  BY <1>0, <1>3, <1>4, Zenon DEF EndInv, SocketInv, Asocket, Fd
<1>7. WaitsToWrite(u)
  BY <1>0, <1>3 DEF WaitsToWrite, Asocket
<1>8. \A i \in 1..Len(x.out) : PacketInv(e, u, x.out[i])
  BY <1>0, <1>3, SMTT(60) DEF EndInv, PacketInv, Asocket
<1>9. PacketInv(e, u, p)
  BY <1>3, <1>5 DEF PacketInv, NoAck
<1>10. /\ d \in Seq(Packet) /\ Linked(d) /\ EndsAt(d, u, broken)
       /\ \A i \in 1..Len(d) : PacketInv(e, u, d[i])
       /\ Keeps(x.out, d)
       /\ broken => d = x.out
       /\ (x.out = <<>> /\ d # <<>>) => d[1].pos = x.s.sent /\ d[1].cum = x.s.granted
       /\ (x.s.peer /\ ~broken) => \E i \in 1..Len(d) : d[i].cmd = "CLSE"
       /\ ~x.s.peer => d = x.out
  <2>1. CASE x.s.peer
    <3>1. u.sent = x.s.sent + p.len /\ u.granted = x.s.granted + Credit(p)
      BY <1>0, <1>3, <1>5 DEF Asocket
    <3>2. /\ d \in Seq(Packet) /\ Linked(d) /\ EndsAt(d, u, broken)
          /\ \A i \in 1..Len(d) : PacketInv(e, u, d[i])
          /\ Keeps(x.out, d)
          /\ broken => d = x.out
          /\ (x.out = <<>> /\ d # <<>>) => d[1] = p
          /\ ~broken => d # <<>> /\ Len(d) = Len(x.out) + 1 /\ d[Len(d)] = p
      BY <1>2, <1>5, <1>8, <1>9, <2>1, <3>1, EmitLemma
    <3>3. ASSUME ~broken
          PROVE  \E i \in 1..Len(d) : d[i].cmd = "CLSE"
      <4> Len(d) \in 1..Len(d)
        BY <1>0, <3>2, <3>3
      <4> QED BY <1>5, <3>2, <3>3
    <3> QED BY <1>5, <3>2, <3>3
  <2>2. CASE ~x.s.peer
    <3>1. d = x.out
      BY <2>2
    <3>2. EndsAt(x.out, u, broken)
      BY <1>3 DEF EndInv, EndsAt
    <3>3. Keeps(x.out, x.out)
      BY <1>0 DEF Keeps
    <3> QED BY <1>0, <1>8, <2>2, <3>1, <3>2, <3>3 DEF EndInv
  <2> QED BY <2>1, <2>2, ZenonT(60)
<1>11. d = <<>> => x.out = <<>>
  BY <1>0, <1>10 DEF Keeps
<1> HIDE DEF d, destroy
<1>12. z.s = u /\ z.out = d /\ z.f = x.f /\ z \in Ctx
  BY <1>0, <1>1, <1>2, <1>10 DEF Ctx
<1>13. EndInv(e, z)
  BY <1>6, <1>10, <1>12, Zenon DEF EndInv
<1>14. Frame(e, x, z)
  <2>1. /\ x.s.sent <= u.sent /\ x.s.granted <= u.granted /\ x.s.flushed <= u.flushed
        /\ u.flushed + u.q = x.s.flushed + x.s.q
        /\ u.avail + u.sent = x.s.avail + x.s.sent
    BY <1>0, <1>3, Numbers
  <2> QED BY <1>3, <1>4, <1>10, <1>12, <2>1 DEF Frame
<1>15. x.s.st = "closing" => u.st = "gone" /\ d = x.out
  BY <1>0, <1>3, <1>4, Zenon DEF d
<1> QED BY <1>3, <1>7, <1>12, <1>13, <1>14, <1>15 DEF w

LEMMA FrameTrans ==
    ASSUME NEW e \in End, broken \in BOOLEAN, NEW x \in Ctx, NEW y \in Ctx, NEW z \in Ctx,
           Frame(e, x, y), Frame(e, y, z)
    PROVE  Frame(e, x, z)
<1>1. /\ x.s \in Asocket /\ x.out \in Seq(Packet)
      /\ y.s \in Asocket /\ y.out \in Seq(Packet)
      /\ z.s \in Asocket /\ z.out \in Seq(Packet)
  BY DEF Ctx
<1>2. Keeps(x.out, z.out)
  <2>1. Keeps(x.out, y.out) /\ Keeps(y.out, z.out)
    BY DEF Frame
  <2>2. Len(x.out) \in Nat /\ Len(y.out) \in Nat /\ Len(z.out) \in Nat
    BY <1>1
  <2>3. ASSUME NEW i \in (Len(x.out) + 1)..Len(z.out)
        PROVE  z.out[i].cmd # "OPEN"
    <3>1. CASE i <= Len(y.out)
      BY <2>1, <2>2, <3>1 DEF Keeps
    <3>2. CASE i > Len(y.out)
      BY <2>1, <2>2, <3>2 DEF Keeps
    <3> QED BY <2>2, <3>1, <3>2
  <2> QED BY <2>1, <2>2, <2>3 DEF Keeps
<1>3. (x.out = <<>> /\ z.out # <<>>) =>
         z.out[1].pos = x.s.sent /\ z.out[1].cum = x.s.granted
  <2> SUFFICES ASSUME x.out = <<>>, z.out # <<>>
               PROVE  z.out[1].pos = x.s.sent /\ z.out[1].cum = x.s.granted
    BY Zenon
  <2>0. ~broken
    BY DEF Frame
  <2>1. CASE y.out = <<>>
    BY <2>0, <2>1, Zenon DEF Frame
  <2>2. CASE y.out # <<>>
    <3>1. 1 \in 1..Len(y.out)
      BY <1>1, <2>2
    <3> QED BY <2>2, <3>1 DEF Frame, Keeps
  <2> QED BY <2>1, <2>2
<1>4. (z.out = <<>> /\ ~broken) => z.s.sent = x.s.sent /\ z.s.granted = x.s.granted
  <2>1. z.out = <<>> => y.out = <<>>
    BY <1>1 DEF Frame, Keeps
  <2> QED BY <2>1 DEF Frame
<1>5. (x.s.st = "open" /\ x.s.peer /\ z.s.st # "open" /\ ~broken) =>
         \E i \in 1..Len(z.out) : z.out[i].cmd = "CLSE"
  <2> SUFFICES ASSUME x.s.st = "open", x.s.peer, z.s.st # "open", ~broken
               PROVE  \E i \in 1..Len(z.out) : z.out[i].cmd = "CLSE"
    OBVIOUS
  <2>1. CASE y.s.st = "open"
    BY <2>1, ZenonT(60) DEF Frame
  <2>2. CASE y.s.st # "open"
    <3>1. PICK i \in 1..Len(y.out) : y.out[i].cmd = "CLSE"
      BY <2>2 DEF Frame
    <3>2. i \in 1..Len(z.out) /\ z.out[i] = y.out[i]
      BY <1>1, SMTT(60) DEF Frame, Keeps
    <3> QED BY <3>1, <3>2, Zenon
  <2> QED BY <2>1, <2>2
<1>6. /\ x.s.sent <= z.s.sent /\ x.s.granted <= z.s.granted /\ x.s.flushed <= z.s.flushed
      /\ z.s.flushed + z.s.q = x.s.flushed + x.s.q
      /\ Delayed[e] => z.s.avail + z.s.sent = x.s.avail + x.s.sent
  <2>1. /\ x.s.sent \in Nat /\ x.s.granted \in Nat /\ x.s.flushed \in Nat
        /\ y.s.sent \in Nat /\ y.s.granted \in Nat /\ y.s.flushed \in Nat
        /\ z.s.sent \in Nat /\ z.s.granted \in Nat /\ z.s.flushed \in Nat
    BY <1>1, Numbers, Zenon
  <2>2. x.s.sent <= z.s.sent /\ x.s.granted <= z.s.granted /\ x.s.flushed <= z.s.flushed
    BY <2>1, SMTT(60), SMTT(60) DEF Frame
  <2> QED BY <2>2 DEF Frame
<1>7. /\ z.s.st = "none" <=> x.s.st = "none"
      /\ z.s.st = "open" => x.s.st = "open" /\ z.s.peer = x.s.peer
      /\ x.s.st # "open" => z.s.sent = x.s.sent /\ z.s.why = x.s.why
      /\ z.f.shut = x.f.shut
      /\ z.s.peer => x.s.peer
      /\ (broken \/ ~x.s.peer) => z.out = x.out
  BY <1>1, ZenonT(60) DEF Frame, Asocket
<1> QED BY <1>2, <1>3, <1>4, <1>5, <1>6, <1>7 DEF Frame

(* send_ready: an A_OKAY grants exactly what was flushed.                   *)
LEMMA ReadyLemma ==
    ASSUME NEW e \in End, broken \in BOOLEAN, NEW x, EndInv(e, x),
           x.s.st = "open", x.s.peer, NEW n \in Nat, x.s.granted + n <= InitialAck + x.s.flushed
    PROVE  LET z == send_ready(e, x, n)
           IN  /\ EndInv(e, z)
               /\ Frame(e, x, z)
               /\ z.f = x.f
               /\ z.s = [x.s EXCEPT !.granted = IF Delayed[e] THEN x.s.granted + n
                                                ELSE x.s.granted]
               /\ ~broken => /\ Len(z.out) = Len(x.out) + 1
                             /\ z.out[Len(z.out)].cmd = "OKAY"
<1> DEFINE u == [x.s EXCEPT !.granted = IF Delayed[e] THEN x.s.granted + n ELSE x.s.granted]
           p == Stamp(x.s, "OKAY", IF Delayed[e] THEN n ELSE NoAck, 0)
           d == Send(x.out, p)
           z == send_ready(e, x, n)
<1>0. x \in Ctx /\ x.s \in Asocket /\ x.f \in Fd /\ x.out \in Seq(Packet)
  BY DEF EndInv, Ctx
<1>1. z = [s |-> u, out |-> d, f |-> x.f]
  <2>1. z = [[x EXCEPT !.s = u] EXCEPT !.out = d]
    BY DEF send_ready
  <2> HIDE DEF u, d, z
  <2> QED BY <1>0, <2>1, ZenonT(60) DEF Ctx
<1>2. u \in Asocket
  BY <1>0, SMTT(60) DEF Asocket
<1>3. /\ u.sent = x.s.sent /\ u.flushed = x.s.flushed /\ u.q = x.s.q
      /\ u.avail = x.s.avail /\ u.werr = x.s.werr /\ u.st = "open"
      /\ u.peer = x.s.peer /\ u.rd = x.s.rd /\ u.why = x.s.why
      /\ u.granted = IF Delayed[e] THEN x.s.granted + n ELSE x.s.granted
  BY <1>0, ZenonT(60) DEF Asocket
<1>a. x.s.granted <= u.granted /\ u.granted <= x.s.granted + n
  BY <1>0, <1>3, Numbers
<1>4. /\ p \in Packet /\ p.cmd = "OKAY" /\ p.pos = x.s.sent /\ p.cum = x.s.granted
      /\ p.len = 0 /\ p.arg = IF Delayed[e] THEN n ELSE NoAck
  BY <1>0, StampType DEF Stamp, Asocket, NoAck
<1>5. Credit(p) = (IF Delayed[e] THEN n ELSE 0)
  BY <1>4 DEF Credit, NoAck
<1>6. u.sent = x.s.sent + p.len /\ u.granted = x.s.granted + Credit(p) /\ Credit(p) \in Nat
  BY <1>0, <1>3, <1>4, <1>5, Numbers
<1> HIDE DEF u, p
<1>7. SocketInv(e, u, x.f)
  <2>1. u.granted <= InitialAck + u.flushed
    BY <1>0, <1>2, <1>3, <1>a, Numbers, ConstantsAssumption
  <2> QED BY <1>3, <2>1 DEF EndInv, SocketInv
<1>8. \A i \in 1..Len(x.out) : PacketInv(e, u, x.out[i])
  BY <1>0, <1>3, Zenon DEF EndInv, PacketInv
<1>9. PacketInv(e, u, p)
  BY <1>3, <1>4, ConstantsAssumption DEF PacketInv, NoAck
<1>10. /\ d \in Seq(Packet) /\ Linked(d) /\ EndsAt(d, u, broken)
       /\ \A i \in 1..Len(d) : PacketInv(e, u, d[i])
       /\ Keeps(x.out, d)
       /\ broken => d = x.out
       /\ (x.out = <<>> /\ d # <<>>) => d[1] = p
       /\ ~broken => d # <<>> /\ Len(d) = Len(x.out) + 1 /\ d[Len(d)] = p
  <2>1. p.cmd # "OPEN"
    BY <1>4
  <2> QED BY <1>2, <1>4, <1>6, <1>8, <1>9, <2>1, EmitLemma, ZenonT(60)
<1> HIDE DEF d
<1>11. z.s = u /\ z.out = d /\ z.f = x.f /\ z \in Ctx
  BY <1>0, <1>1, <1>2, <1>10, SMTT(60) DEF Ctx
<1>12. EndInv(e, z)
  BY <1>7, <1>10, <1>11 DEF EndInv
<1>13. Frame(e, x, z)
  <2>1. /\ u.flushed + u.q = x.s.flushed + x.s.q
        /\ u.avail + u.sent = x.s.avail + x.s.sent
        /\ x.s.sent <= u.sent /\ x.s.granted <= u.granted /\ x.s.flushed <= u.flushed
    BY <1>0, <1>3, <1>a, Numbers
  <2>2. (x.out = <<>> /\ d # <<>>) => d[1].pos = x.s.sent /\ d[1].cum = x.s.granted
    BY <1>4, <1>10
  <2> QED BY <1>3, <1>10, <1>11, <2>1, <2>2, ZenonT(60) DEF Frame
<1> QED BY <1>4, <1>10, <1>11, <1>12, <1>13 DEF u

(* local_socket_flush_incoming: the bytes that leave the queue are the      *)
(* bytes that reach the fd and the bytes that are acknowledged.             *)
LEMMA FlushIncomingLemma ==
    ASSUME NEW e \in End, broken \in BOOLEAN, NEW x, EndInv(e, x),
           x.s.st \in {"open", "closing"},
           NEW rc \in Int, -1 <= rc, rc <= x.s.q, rc = -1 => x.f.deaf
    PROVE  LET z == local_socket_flush_incoming(e, x, rc)
           IN  /\ EndInv(e, z)
               /\ WaitsToWrite(z.s)
               /\ Frame(e, x, z)
               /\ z.s.sent = x.s.sent
               /\ z.s.st = x.s.st \/ (x.s.st = "closing" /\ z.s.st = "gone")
               /\ z.s.why = x.s.why
               /\ z.s.st # "gone" => z.s.rd = x.s.rd
<1> DEFINE n == IF rc > 0 THEN rc ELSE 0
           err == x.s.werr \/ rc = -1
           v == [x.s EXCEPT !.q = @ - n, !.flushed = @ + n, !.werr = err]
           g == [x.f EXCEPT !.buf = @ + n]
           a == [s |-> [x.s EXCEPT !.q = @ - n, !.flushed = @ + n, !.werr = @ \/ rc = -1],
                 out |-> x.out,
                 f |-> [x.f EXCEPT !.buf = @ + n]]
           fd_full == a.s.q # 0 /\ ~a.s.werr
           ask == a.s.peer /\ (Delayed[e] \/ (n # 0 /\ a.s.q < MaxPayload))
           b == IF ask THEN send_ready(e, a, n) ELSE a
           z == local_socket_flush_incoming(e, x, rc)
<1>0. x \in Ctx /\ x.s \in Asocket /\ x.f \in Fd /\ x.out \in Seq(Packet)
  BY DEF EndInv, Ctx
<1>1. n \in Nat /\ n <= x.s.q /\ x.s.q - n \in Nat
  BY <1>0, Numbers
<1> HIDE DEF n
<1>2. a = [s |-> v, out |-> x.out, f |-> g]
  BY <1>0 DEF Asocket
<1>e. err \in BOOLEAN
  OBVIOUS
<1> HIDE DEF err
<1>3. v \in Asocket /\ g \in Fd
  <2>1. x.s.flushed \in Nat /\ x.f.buf \in Nat
    BY <1>0, Zenon DEF Asocket, Fd
  <2>2. x.s.flushed + n \in Nat /\ x.f.buf + n \in Nat
    BY <1>1, <2>1
  <2> QED BY <1>0, <1>1, <1>e, <2>2, ZenonT(60) DEF Asocket, Fd
<1>4. /\ v.q = x.s.q - n /\ v.flushed = x.s.flushed + n /\ v.werr = err
      /\ v.sent = x.s.sent /\ v.granted = x.s.granted /\ v.avail = x.s.avail
      /\ v.st = x.s.st /\ v.why = x.s.why /\ v.peer = x.s.peer /\ v.rd = x.s.rd
      /\ g.shut = x.f.shut /\ g.deaf = x.f.deaf /\ g.read = x.f.read /\ g.wrote = x.f.wrote
  BY <1>0, <1>1 DEF Asocket, Fd
<1> HIDE DEF v, g, a
<1>5. a.s = v /\ a.out = x.out /\ a.f = g /\ a \in Ctx
  BY <1>0, <1>2, <1>3 DEF Ctx
<1>6. x.s.granted + n <= InitialAck + v.flushed /\ v.granted <= InitialAck + v.flushed
      /\ v.flushed + v.q = x.s.flushed + x.s.q /\ x.s.flushed <= v.flushed
  <2>1. x.s.granted <= InitialAck + x.s.flushed
    BY DEF EndInv, SocketInv
  <2>2. x.s.granted \in Nat /\ x.s.flushed \in Nat /\ x.s.q \in Nat /\ InitialAck \in Nat
    BY <1>0, Numbers, ConstantsAssumption
  <2> QED BY <1>1, <1>4, <2>1, <2>2
<1>7. SocketInv(e, v, g)
  BY <1>4, <1>6, ZenonT(60) DEF EndInv, SocketInv, err
<1>8. EndInv(e, a)
  <2>1. \A i \in 1..Len(x.out) : PacketInv(e, v, x.out[i])
    BY <1>4, Zenon DEF EndInv, PacketInv
  <2>2. EndsAt(x.out, v, broken)
    BY <1>4, ZenonT(60) DEF EndInv, EndsAt
  <2> QED BY <1>5, <1>7, <2>1, <2>2 DEF EndInv
<1>9. Frame(e, x, a)
  <2>1. Keeps(x.out, x.out)
    BY <1>0 DEF Keeps
  <2>2. x.s.sent <= v.sent /\ x.s.granted <= v.granted
    BY <1>0, <1>4, Numbers
  <2> QED BY <1>4, <1>5, <1>6, <2>1, <2>2 DEF Frame
<1>10. /\ EndInv(e, b) /\ Frame(e, x, b) /\ b.f = g
       /\ b.s.q = v.q /\ b.s.werr = v.werr /\ b.s.sent = x.s.sent /\ b.s.st = x.s.st
       /\ b.s.why = x.s.why /\ b.s.rd = x.s.rd
  <2>1. CASE ask
    <3>1. a.s.st = "open"
      BY <1>0, <1>4, <1>5, <1>8, <2>1, ZenonT(60) DEF EndInv, SocketInv
    <3>2. a.s.granted + n <= InitialAck + a.s.flushed
      BY <1>4, <1>5, <1>6, Zenon
    <3>3. /\ EndInv(e, b) /\ Frame(e, a, b) /\ b.f = a.f
          /\ b.s = [a.s EXCEPT !.granted = IF Delayed[e] THEN a.s.granted + n
                                           ELSE a.s.granted]
      BY <1>1, <1>8, <2>1, <3>1, <3>2, ReadyLemma
    <3>4. b \in Ctx
      BY <3>3 DEF EndInv
    <3>5. Frame(e, x, b)
      BY <1>0, <1>5, <1>9, <3>3, <3>4, FrameTrans
    <3>6. /\ b.s.q = a.s.q /\ b.s.werr = a.s.werr /\ b.s.sent = a.s.sent
          /\ b.s.st = a.s.st /\ b.s.why = a.s.why /\ b.s.rd = a.s.rd
      BY <1>3, <1>5, <3>3, Zenon DEF Asocket
    <3> HIDE DEF b
    <3> QED BY <1>4, <1>5, <3>3, <3>5, <3>6, Zenon
  <2>2. CASE ~ask
    BY <1>4, <1>5, <1>8, <1>9, <2>2
  <2> QED BY <2>1, <2>2, Zenon
<1>11. z = IF b.s.st = "closing" /\ ~fd_full THEN local_socket_close(b, b.s.why)
           ELSE [b EXCEPT !.s.wr = fd_full]
  BY Zenon DEF local_socket_flush_incoming, a, n
<1> HIDE DEF b, z, ask
<1>12. b \in Ctx /\ b.s \in Asocket /\ b.out \in Seq(Packet)
  BY <1>10, Zenon DEF EndInv, Ctx
<1>13. CASE b.s.st = "closing" /\ ~fd_full
  <2>1. b.s.q = 0 \/ b.s.werr
    BY <1>5, <1>10, <1>13
  <2>2. b.s.why \in {"not", "eof", "clse", "offline"}
    BY <1>12 DEF Asocket
  <2>3. z = local_socket_close(b, b.s.why)
    BY <1>11, <1>13, Zenon
  <2>4. /\ EndInv(e, z) /\ WaitsToWrite(z.s) /\ Frame(e, b, z)
        /\ z.s.why = (IF b.s.why = "not" THEN b.s.why ELSE b.s.why)
        /\ z.s.sent = b.s.sent /\ z.s.st = "gone"
    BY <1>10, <1>13, <2>1, <2>2, <2>3, CloseLemma, SMTT(60)
  <2>5. Frame(e, x, z)
    BY <1>0, <1>10, <1>12, <2>4, FrameTrans, ZenonT(60) DEF EndInv
  <2> QED BY <1>10, <1>13, <2>4, <2>5 DEF z
<1>14. CASE ~(b.s.st = "closing" /\ ~fd_full)
  <2> DEFINE u == [b.s EXCEPT !.wr = fd_full]
  <2>1. z = [s |-> u, out |-> b.out, f |-> b.f]
    BY <1>11, <1>12, <1>14, ZenonT(60) DEF Ctx, Asocket
  <2>2. fd_full \in BOOLEAN /\ u \in Asocket
    BY <1>12, ZenonT(60) DEF Asocket
  <2>3. /\ u.q = b.s.q /\ u.flushed = b.s.flushed /\ u.werr = b.s.werr
        /\ u.sent = b.s.sent /\ u.granted = b.s.granted /\ u.avail = b.s.avail
        /\ u.st = b.s.st /\ u.why = b.s.why /\ u.peer = b.s.peer /\ u.rd = b.s.rd
        /\ u.wr = fd_full /\ u.skipped = b.s.skipped
    BY <1>12 DEF Asocket
  <2> HIDE DEF u
  <2>4. z.s = u /\ z.out = b.out /\ z.f = b.f /\ z \in Ctx
    BY <1>12, <2>1, <2>2, Zenon DEF Ctx
  <2>5. SocketInv(e, u, b.f)
    <3>1. b.s.st # "none" /\ u.st # "none"
      BY <1>10, <2>3
    <3>2. SocketInv(e, b.s, b.f)
      BY <1>10, Zenon DEF EndInv
    <3> QED BY <2>3, <3>1, <3>2, Zenon DEF SocketInv
  <2>6. EndInv(e, z)
    <3>1. \A i \in 1..Len(b.out) : PacketInv(e, u, b.out[i])
      BY <1>10, <2>3, ZenonT(60) DEF EndInv, PacketInv
    <3>2. EndsAt(b.out, u, broken)
      BY <1>10, <2>3, Zenon DEF EndInv, EndsAt
    <3> QED BY <1>10, <2>4, <2>5, <3>1, <3>2, Zenon DEF EndInv
  <2>7. WaitsToWrite(u)
    <3>1. fd_full <=> (u.q # 0 /\ ~u.werr)
      BY <1>5, <1>10, <2>3
    <3>2. u.q > 0 <=> u.q # 0
      BY <2>2, Numbers
    <3>3. (u.st = "open" /\ u.q > 0 /\ ~u.werr) => u.wr
      BY <2>3, <3>1, <3>2, Zenon
    <3>4. u.st = "closing" => u.wr /\ u.q > 0 /\ ~u.werr
      BY <1>5, <1>10, <1>14, <2>3, <3>1, <3>2, Zenon
    <3> QED BY <3>3, <3>4, Zenon DEF WaitsToWrite
  <2>8. Frame(e, b, z)
    <3>1. Keeps(b.out, b.out)
      BY <1>12 DEF Keeps
    <3>2. b.s.sent <= u.sent /\ b.s.granted <= u.granted /\ b.s.flushed <= u.flushed
      BY <1>12, <2>3, Numbers
    <3> QED BY <2>3, <2>4, <3>1, <3>2 DEF Frame
  <2>9. Frame(e, x, z)
    BY <1>0, <1>10, <1>12, <2>4, <2>8, FrameTrans, Zenon
  <2> QED BY <1>10, <2>3, <2>4, <2>6, <2>7, <2>9 DEF z
<1> QED BY <1>13, <1>14

(* local_socket_flush_outgoing: the credit spent is the number of bytes     *)
(* sent, and without a half-closed fd some credit was left before.          *)
LEMMA FlushOutgoingLemma ==
    ASSUME NEW e \in End, broken \in BOOLEAN, NEW x, EndInv(e, x), WaitsToWrite(x.s),
           x.s.st \in {"open", "closing"}, x.s.rd \/ x.f.shut
    PROVE  LET z == local_socket_flush_outgoing(e, x)
           IN  /\ EndInv(e, z)
               /\ WaitsToWrite(z.s)
               /\ Frame(e, x, z)
               /\ (x.s.st = "open" /\ z.s.st # "open") => z.s.why = "eof"
               /\ z.s.sent <= x.s.sent + PeerMax
               /\ (Delayed[e] /\ ~x.f.shut /\ z.s.sent # x.s.sent) => x.s.avail > 0
<1> DEFINE n == Min(PeerMax, x.f.wrote - x.f.read)
           is_eof == n < PeerMax /\ x.f.shut
           a == [x EXCEPT !.f.read = @ + n]
           left == x.s.avail - IF Delayed[e] THEN n ELSE 0
           c == remote_socket_enqueue(a, n)
           b == IF n = 0 THEN a
                ELSE IF ~a.s.peer THEN [a EXCEPT !.s.skipped = @ + n]
                ELSE [c EXCEPT !.s.avail = left,
                               !.s.rd = x.s.rd /\ Delayed[e] /\ left > 0]
           g == [x.f EXCEPT !.read = @ + n]
           z == local_socket_flush_outgoing(e, x)
<1>0. x \in Ctx /\ x.s \in Asocket /\ x.f \in Fd /\ x.out \in Seq(Packet)
  BY DEF EndInv, Ctx
<1>1. x.f.wrote \in Nat /\ x.f.read \in Nat /\ x.f.read <= x.f.wrote
  BY <1>0 DEF EndInv, SocketInv, Fd
<1>2. n \in Nat /\ n <= PeerMax /\ x.f.read + n <= x.f.wrote /\ PeerMax \in Nat
  BY <1>1, ConstantsAssumption DEF Min
<1>3. z = IF is_eof THEN local_socket_close(b, "eof") ELSE b
  BY DEF local_socket_flush_outgoing
<1> HIDE DEF n, z
<1>4. /\ g \in Fd /\ g.read = x.f.read + n /\ g.wrote = x.f.wrote
      /\ g.shut = x.f.shut /\ g.deaf = x.f.deaf
  BY <1>0, <1>1, <1>2 DEF Fd
<1>5. a = [s |-> x.s, out |-> x.out, f |-> g]
  BY <1>0 DEF Ctx
<1> HIDE DEF g
<1>6. a.s = x.s /\ a.out = x.out /\ a.f = g /\ a \in Ctx
  BY <1>0, <1>4, <1>5 DEF Ctx
<1> HIDE DEF a
<1>7. SocketInv(e, x.s, g)
  <2>1. SocketInv(e, x.s, x.f)
    BY Zenon DEF EndInv
  <2> QED BY <1>1, <1>2, <1>4, <2>1 DEF SocketInv
<1>8. EndInv(e, a) /\ Frame(e, x, a)
  <2>1. Keeps(x.out, x.out)
    BY <1>0 DEF Keeps
  <2>2. x.s.sent <= x.s.sent /\ x.s.granted <= x.s.granted /\ x.s.flushed <= x.s.flushed
    BY <1>0, Numbers
  <2> QED BY <1>4, <1>6, <1>7, <2>1, <2>2, Zenon DEF EndInv, Frame
<1>9. /\ EndInv(e, b) /\ WaitsToWrite(b.s) /\ Frame(e, x, b)
      /\ b.s.st = x.s.st /\ b.s.why = x.s.why /\ b.f = g
      /\ b.s.sent <= x.s.sent + PeerMax
      /\ (b.s.sent # x.s.sent) => x.s.peer
  <2>0. x.s.sent \in Nat
    BY <1>0, Numbers
  <2>1. CASE n = 0
    BY <1>2, <1>6, <1>8, <2>0, <2>1
  <2>2. CASE n # 0 /\ ~a.s.peer
    <3> DEFINE u == [x.s EXCEPT !.skipped = @ + n]
    <3>1. b = [s |-> u, out |-> x.out, f |-> g]
      BY <1>0, <1>5, <2>2, ZenonT(60) DEF a
    <3>2. u \in Asocket
      <4>1. x.s.skipped + n \in Nat
        BY <1>0, <1>2, Numbers
      <4> QED BY <1>0, <4>1, ZenonT(60) DEF Asocket
    <3>3. /\ u.q = x.s.q /\ u.flushed = x.s.flushed /\ u.werr = x.s.werr
          /\ u.sent = x.s.sent /\ u.granted = x.s.granted /\ u.avail = x.s.avail
          /\ u.st = x.s.st /\ u.why = x.s.why /\ u.peer = x.s.peer /\ u.rd = x.s.rd
          /\ u.wr = x.s.wr
      BY <1>0, Zenon DEF Asocket
    <3> HIDE DEF u, b
    <3>4. b.s = u /\ b.out = x.out /\ b.f = g /\ b \in Ctx
      BY <1>0, <1>4, <3>1, <3>2, Zenon DEF Ctx
    <3>5. SocketInv(e, u, g)
      BY <1>7, <3>3, Zenon DEF SocketInv
    <3>6. EndInv(e, b)
      <4>1. \A i \in 1..Len(x.out) : PacketInv(e, u, x.out[i])
        BY <3>3, ZenonT(60) DEF EndInv, PacketInv
      <4>2. EndsAt(x.out, u, broken)
        BY <3>3, Zenon DEF EndInv, EndsAt
      <4> QED BY <3>4, <3>5, <4>1, <4>2, Zenon DEF EndInv
    <3>7. WaitsToWrite(u)
      BY <3>3, Zenon DEF WaitsToWrite
    <3>8. Frame(e, x, b)
      <4>1. Keeps(x.out, x.out)
        BY <1>0 DEF Keeps
      <4>2. x.s.sent <= u.sent /\ x.s.granted <= u.granted /\ x.s.flushed <= u.flushed
        BY <1>0, <3>3, Numbers
      <4> QED BY <1>4, <3>3, <3>4, <4>1, <4>2, Zenon DEF Frame
    <3> QED BY <1>2, <2>0, <3>3, <3>4, <3>6, <3>7, <3>8
  <2>3. CASE n # 0 /\ a.s.peer
    <3> DEFINE v == [x.s EXCEPT !.sent = @ + n]
               more == x.s.rd /\ Delayed[e] /\ left > 0
               u == [v EXCEPT !.avail = left, !.rd = more]
               p == Stamp(x.s, "WRTE", 0, n)
               d == Send(x.out, p)
    <3>0. left \in Int /\ x.s.sent + n \in Nat /\ more \in BOOLEAN /\ x.s.avail \in Int
      BY <1>0, <1>2, Numbers
    <3> HIDE DEF left
    <3>2. v \in Asocket /\ v.rd = x.s.rd
      BY <1>0, <3>0, ZenonT(60) DEF Asocket
    <3>4. c = [s |-> v, out |-> d, f |-> g]
      BY <1>6 DEF remote_socket_enqueue
    <3>6. b = [s |-> u, out |-> d, f |-> g]
      <4>1. b = [c EXCEPT !.s.avail = left, !.s.rd = more]
        BY <2>3
      <4> HIDE DEF b, c, v, d, more
      <4> QED BY <3>2, <3>4, <4>1, ZenonT(60) DEF Asocket
    <3> HIDE DEF more, b, c
    <3>7. u \in Asocket
      BY <3>0, <3>2, ZenonT(60) DEF Asocket
    <3>8. /\ u.q = x.s.q /\ u.flushed = x.s.flushed /\ u.werr = x.s.werr
          /\ u.sent = x.s.sent + n /\ u.granted = x.s.granted /\ u.avail = left
          /\ u.st = x.s.st /\ u.why = x.s.why /\ u.peer = x.s.peer /\ u.rd = more
          /\ u.wr = x.s.wr
      BY <1>0, <3>0, <3>2, Zenon DEF Asocket
    <3>9. /\ p \in Packet /\ p.cmd = "WRTE" /\ p.arg = 0 /\ p.pos = x.s.sent
          /\ p.cum = x.s.granted /\ p.len = n /\ Credit(p) = 0
      <4>1. p \in Packet
        BY <1>0, <1>2, StampType
      <4>2. /\ p.cmd = "WRTE" /\ p.arg = 0 /\ p.pos = x.s.sent
            /\ p.cum = x.s.granted /\ p.len = n
        BY Zenon DEF Stamp
      <4>3. Credit(p) = 0
        BY <4>2, Zenon DEF Credit
      <4> QED BY <4>1, <4>2, <4>3
    <3> HIDE DEF u, v, p
    <3>10. x.s.st = "open"
      BY <1>6, <2>3 DEF EndInv, SocketInv
    <3>11. SocketInv(e, u, g)
      BY <1>7, <3>8, <3>10, ZenonT(60) DEF SocketInv, more
    <3>12. \A i \in 1..Len(x.out) : PacketInv(e, u, x.out[i])
      BY <3>8, <3>10, Zenon DEF EndInv, PacketInv
    <3>13. PacketInv(e, u, p)
      BY <3>8, <3>9, <3>10 DEF PacketInv
    <3>14. u.sent = x.s.sent + p.len /\ u.granted = x.s.granted + Credit(p) /\ Credit(p) \in Nat
      BY <1>0, <3>8, <3>9, Numbers, SMTT(60)
    <3>15. /\ d \in Seq(Packet) /\ Linked(d) /\ EndsAt(d, u, broken)
           /\ \A i \in 1..Len(d) : PacketInv(e, u, d[i])
           /\ Keeps(x.out, d)
           /\ broken => d = x.out
           /\ (x.out = <<>> /\ d # <<>>) => d[1] = p
           /\ ~broken => d # <<>>
      <4>1. p.cmd # "OPEN"
        BY <3>9
      <4>2. p.pos = x.s.sent /\ p.cum = x.s.granted /\ p \in Packet
        BY <3>9
      <4>3. u.sent = x.s.sent + p.len
        BY <3>14
      <4>4. u.granted = x.s.granted + Credit(p)
        BY <3>14
      <4>5. Credit(p) \in Nat
        BY <3>14
      <4> QED BY <3>7, <3>12, <3>13, <4>1, <4>2, <4>3, <4>4, <4>5, EmitLemma, ZenonT(60)
    <3> HIDE DEF d
    <3>16. b.s = u /\ b.out = d /\ b.f = g /\ b \in Ctx
      BY <1>4, <3>6, <3>7, <3>15, Zenon DEF Ctx
    <3>17. EndInv(e, b)
      BY <3>11, <3>15, <3>16 DEF EndInv
    <3>18. WaitsToWrite(u)
      BY <3>8 DEF WaitsToWrite
    <3>19. /\ x.s.sent <= u.sent /\ x.s.granted <= u.granted /\ x.s.flushed <= u.flushed
           /\ u.flushed + u.q = x.s.flushed + x.s.q
           /\ Delayed[e] => u.avail + u.sent = x.s.avail + x.s.sent
           /\ u.sent <= x.s.sent + PeerMax
      <4>1. Delayed[e] => left = x.s.avail - n
        BY DEF left
      <4>2. x.s.granted \in Nat /\ x.s.flushed \in Nat
        BY <1>0, Numbers
      <4> QED BY <1>2, <2>0, <3>0, <3>8, <4>1, <4>2
    <3>20. Frame(e, x, b)
      <4>1. x.s.peer /\ u.peer = x.s.peer
        BY <1>6, <2>3, <3>8, ZenonT(60)
      <4>2. (x.out = <<>> /\ d # <<>>) => d[1].pos = x.s.sent /\ d[1].cum = x.s.granted
        BY <3>9, <3>15
      <4> QED BY <1>4, <3>8, <3>10, <3>15, <3>16, <3>19, <4>1, <4>2, ZenonT(60) DEF Frame
    <3> QED BY <1>6, <2>3, <3>8, <3>16, <3>17, <3>18, <3>19, <3>20, Zenon
  <2> QED BY <2>1, <2>2, <2>3
<1> HIDE DEF b
<1>10. b.s \in Asocket /\ x.s.sent \in Nat /\ b.s.sent \in Nat
  BY <1>0, <1>9, Numbers, ZenonT(60) DEF EndInv, Ctx
<1>11. (Delayed[e] /\ ~x.f.shut /\ b.s.sent # x.s.sent) => x.s.avail > 0
  BY <1>0, Zenon DEF EndInv, SocketInv
<1>12. CASE is_eof
  <2>1. z = local_socket_close(b, "eof")
    BY <1>3, <1>12
  <2>2. /\ EndInv(e, z) /\ WaitsToWrite(z.s) /\ Frame(e, b, z)
        /\ z.s.why = (IF b.s.why = "not" THEN "eof" ELSE b.s.why)
        /\ z.s.sent = b.s.sent
    <3>1. b.s.st = "closing" => b.f.shut
      BY <1>4, <1>9, <1>12, ZenonT(60)
    <3>2. (b.s.st = "open" /\ b.s.q > 0 /\ ~b.s.werr) => b.s.wr
      BY <1>9 DEF WaitsToWrite
    <3>3. EndInv(e, b) /\ b.s.st \in {"open", "closing"}
      BY <1>9
    <3>4. "eof" \in {"not", "eof", "clse", "offline"} /\ "eof" # "not"
      OBVIOUS
    <3> QED BY <2>1, <3>1, <3>2, <3>3, <3>4, CloseLemma, ZenonT(60)
  <2>3. Frame(e, x, z)
    BY <1>0, <1>9, <2>2, FrameTrans DEF EndInv
  <2>4. x.s.st = "open" => z.s.why = "eof"
    BY <1>9, <2>2, Zenon DEF EndInv, SocketInv
  <2> QED BY <1>9, <1>10, <1>11, <2>2, <2>3, <2>4, Zenon DEF z
<1>13. CASE ~is_eof
  BY <1>3, <1>9, <1>11, <1>13, Zenon DEF z
<1> QED BY <1>12, <1>13

-----------------------------------------------------------------------------
(* Taking the packet at the head of a channel leaves it linked.             *)
LEMMA TailLemma ==
    ASSUME NEW e \in End, NEW y, EndInv(e, y), y.out # <<>>
    PROVE  LET p == y.out[1]
               t == Tail(y.out)
               y2 == [s |-> y.s, out |-> t, f |-> y.f]
           IN  /\ p = Head(y.out) /\ p \in Packet /\ PacketInv(e, y.s, p)
               /\ EndInv(e, y2)
               /\ Len(t) = Len(y.out) - 1
               /\ \A i \in 1..Len(t) : t[i] = y.out[i + 1]
               /\ t # <<>> => t[1].pos = p.pos + p.len /\ t[1].cum = p.cum + Credit(p)
               /\ p.pos + p.len <= y.s.sent /\ p.cum + Credit(p) <= y.s.granted
               /\ (t = <<>> /\ ~broken) =>
                     p.pos + p.len = y.s.sent /\ p.cum + Credit(p) = y.s.granted
<1> DEFINE c == y.out
           p == c[1]
           t == Tail(c)
           y2 == [s |-> y.s, out |-> t, f |-> y.f]
<1>0. y.s \in Asocket /\ y.f \in Fd /\ c \in Seq(Packet) /\ Linked(c) /\ EndsAt(c, y.s, broken)
      /\ \A i \in 1..Len(c) : PacketInv(e, y.s, c[i])
  BY DEF EndInv, Ctx
<1> HIDE DEF c
<1>1. /\ t \in Seq(Packet) /\ Len(t) = Len(c) - 1 /\ \A i \in 1..Len(t) : t[i] = c[i + 1]
      /\ p = Head(c) /\ p \in Packet /\ 1 \in 1..Len(c) /\ Len(c) \in Nat
  BY <1>0 DEF c
<1> HIDE DEF t
<1>2. Linked(t)
  <2> SUFFICES ASSUME NEW i \in 1..(Len(t) - 1)
               PROVE  /\ t[i].pos + t[i].len = t[i + 1].pos
                      /\ t[i].cum + Credit(t[i]) = t[i + 1].cum
    BY DEF Linked
  <2>1. i \in 1..Len(t) /\ i + 1 \in 1..Len(t) /\ i + 1 \in 1..(Len(c) - 1)
    BY <1>1
  <2>2. t[i] = c[i + 1] /\ t[i + 1] = c[(i + 1) + 1]
    BY <1>1, <2>1
  <2> QED BY <1>0, <2>1, <2>2 DEF Linked
<1>3. EndsAt(t, y.s, broken)
  <2>0. ASSUME NEW i \in 1..Len(t)
        PROVE  t[i].pos + t[i].len <= y.s.sent /\ t[i].cum + Credit(t[i]) <= y.s.granted
    <3>1. i + 1 \in 1..Len(c)
      BY <1>1
    <3> QED BY <1>0, <1>1, <3>1, Zenon DEF EndsAt
  <2>1. CASE t = <<>>
    BY <2>0, <2>1 DEF EndsAt
  <2>2. CASE t # <<>>
    <3>1. Len(t) \in 1..Len(t) /\ Len(t) + 1 = Len(c) /\ c # <<>>
      BY <1>1, <2>2
    <3>2. t[Len(t)] = c[Len(c)]
      BY <1>1, <3>1
    <3> QED BY <1>0, <2>0, <3>1, <3>2 DEF EndsAt
  <2> QED BY <2>1, <2>2
<1>4. \A i \in 1..Len(t) : PacketInv(e, y.s, t[i])
  <2> SUFFICES ASSUME NEW i \in 1..Len(t)
               PROVE  PacketInv(e, y.s, t[i])
    OBVIOUS
  <2>1. i + 1 \in 1..Len(c)
    BY <1>1
  <2> QED BY <1>0, <1>1, <2>1
<1>5. EndInv(e, y2)
  <2>1. y2.s = y.s /\ y2.out = t /\ y2.f = y.f /\ y2 \in Ctx
    BY <1>0, <1>1, Zenon DEF Ctx
  <2> HIDE DEF y2
  <2> QED BY <1>2, <1>3, <1>4, <2>1, Zenon DEF EndInv
<1>6. t # <<>> => t[1].pos = p.pos + p.len /\ t[1].cum = p.cum + Credit(p)
  <2> SUFFICES ASSUME t # <<>>
               PROVE  t[1].pos = p.pos + p.len /\ t[1].cum = p.cum + Credit(p)
    OBVIOUS
  <2>1. 1 \in 1..Len(t) /\ 1 \in 1..(Len(c) - 1) /\ t[1] = c[1 + 1]
    BY <1>1
  <2> QED BY <1>0, <2>1 DEF Linked
<1>7. /\ p.pos + p.len <= y.s.sent /\ p.cum + Credit(p) <= y.s.granted
      /\ (t = <<>> /\ ~broken) => p.pos + p.len = y.s.sent /\ p.cum + Credit(p) = y.s.granted
  <2>1. t = <<>> => Len(c) = 1
    BY <1>1
  <2>2. c # <<>>
    BY DEF c
  <2> QED BY <1>0, <1>1, <2>1, <2>2 DEF EndsAt
<1> QED BY <1>0, <1>1, <1>5, <1>6, <1>7, Zenon DEF c, t

LEMMA OtherFacts ==
    ASSUME NEW e \in End
    PROVE  /\ Other(e) \in End /\ Other(Other(e)) = e /\ Other(e) # e
           /\ e \in {opener, acceptor} /\ opener # acceptor
           /\ e = opener <=> Other(e) = acceptor
           /\ e = acceptor <=> Other(e) = opener
  BY Zenon DEF End, Other, opener, acceptor

(* What a handler that consumes no packet does to the pair, seen as sender. *)
LEMMA PairSend ==
    ASSUME NEW e \in End, broken \in BOOLEAN, NEW x \in Ctx, NEW y \in Ctx, NEW z \in Ctx,
           Pair(e, x, y), Frame(e, x, z)
    PROVE  Pair(e, z, y)
<1>0. /\ x.s \in Asocket /\ y.s \in Asocket /\ z.s \in Asocket
      /\ x.out \in Seq(Packet) /\ z.out \in Seq(Packet)
  BY Zenon DEF Ctx
<1>n. /\ x.s.sent \in Nat /\ x.s.granted \in Nat /\ x.s.flushed \in Nat
      /\ z.s.sent \in Nat /\ z.s.granted \in Nat /\ z.s.flushed \in Nat
      /\ y.s.sent \in Nat /\ y.s.flushed \in Nat /\ y.s.q \in Nat /\ y.s.avail \in Int
      /\ InitialAck \in Nat /\ PeerMax \in Nat
  BY <1>0, Numbers, ConstantsAssumption, SMTT(60)
<1>1. x.out # <<>> => z.out # <<>> /\ z.out[1] = x.out[1]
  BY <1>0, SMTT(60) DEF Frame, Keeps
<1>2. /\ x.s.sent <= z.s.sent /\ x.s.granted <= z.s.granted /\ x.s.flushed <= z.s.flushed
      /\ (x.out = <<>> /\ z.out # <<>>) =>
            ~broken /\ z.out[1].pos = x.s.sent /\ z.out[1].cum = x.s.granted
      /\ (z.out = <<>> /\ ~broken) => z.s.sent = x.s.sent /\ z.s.granted = x.s.granted
  BY Zenon DEF Frame
<1>l. x.s.sent <= z.s.sent /\ x.s.granted <= z.s.granted /\ x.s.flushed <= z.s.flushed
  BY <1>2, Zenon
<1>3. BytesAt(x.out, x.s, y.s, broken) => BytesAt(z.out, z.s, y.s, broken)
  BY <1>n, <1>1, <1>2 DEF BytesAt
<1>4. CreditAt(x.out, x.s, y.s, broken) => CreditAt(z.out, z.s, y.s, broken)
  BY <1>n, <1>1, <1>2 DEF CreditAt
<1>5. y.s.flushed + y.s.q <= x.s.sent => y.s.flushed + y.s.q <= z.s.sent
  BY <1>n, <1>l
<1>6. y.s.avail + y.s.sent <= x.s.granted => y.s.avail + y.s.sent <= z.s.granted
  BY <1>n, <1>l
<1>7. y.s.sent <= InitialAck + x.s.flushed + PeerMax - 1 =>
         y.s.sent <= InitialAck + z.s.flushed + PeerMax - 1
  BY <1>n, <1>l
<1>8. /\ z.s.st = "open" => x.s.st = "open"
      /\ z.s.st = "none" => x.s.st = "none"
      /\ x.s.st # "open" => z.s.why = x.s.why /\ z.s.sent = x.s.sent
  BY DEF Frame
<1> QED BY <1>3, <1>4, <1>5, <1>6, <1>7, <1>8, Zenon DEF Pair

(* ... and seen as receiver.                                                *)
LEMMA PairRecv ==
    ASSUME NEW e \in End, broken \in BOOLEAN, NEW x \in Ctx, NEW y \in Ctx, NEW z \in Ctx,
           Pair(Other(e), y, x), Frame(e, x, z), SocketInv(e, x.s, x.f),
           z.s.why = "clse" => x.s.why = "clse",
           (Delayed[e] /\ Delayed[Other(e)] /\ ~z.f.shut) =>
              z.s.sent <= InitialAck + y.s.flushed + PeerMax - 1
    PROVE  Pair(Other(e), y, z)
<1>0. z.s.flushed + z.s.q = x.s.flushed + x.s.q
      /\ (Delayed[e] => z.s.avail + z.s.sent = x.s.avail + x.s.sent)
  BY Zenon DEF Frame
<1>1. BytesAt(y.out, y.s, x.s, broken) => BytesAt(y.out, y.s, z.s, broken)
  BY <1>0, Zenon DEF BytesAt
<1>2. (Delayed[e] /\ CreditAt(y.out, y.s, x.s, broken)) => CreditAt(y.out, y.s, z.s, broken)
  BY <1>0, Zenon DEF CreditAt
<1>3. /\ z.s.st = "open" => x.s.st = "open"
      /\ z.s.st = "none" => x.s.st = "none"
  BY Zenon DEF Frame
<1>4. x.s.why = "clse" => z.out = x.out
  <2>1. x.s.why = "clse" => ~x.s.peer
    BY Zenon DEF SocketInv, Ctx, Asocket
  <2> QED BY <2>1 DEF Frame
<1>5. Other(Other(e)) = e
  BY OtherFacts, Zenon
<1> QED BY <1>0, <1>1, <1>2, <1>3, <1>4, <1>5, ZenonT(60) DEF Pair

(* Every step of a handler that consumes no packet.                         *)
LEMMA LocalStep ==
    ASSUME NEW e \in End, broken \in BOOLEAN, NEW x, NEW y, NEW z,
           Mid(e, x, y), EndInv(e, z), WaitsToWrite(z.s), Frame(e, x, z),
           z.s.why = "clse" => x.s.why = "clse",
           (Delayed[e] /\ Delayed[Other(e)] /\ ~z.f.shut) =>
              z.s.sent <= InitialAck + y.s.flushed + PeerMax - 1
    PROVE  Inv(e, z, y)
<1>0. /\ x \in Ctx /\ y \in Ctx /\ z \in Ctx
      /\ EndInv(e, x) /\ EndInv(Other(e), y)
      /\ SocketInv(e, x.s, x.f) /\ SocketInv(e, z.s, z.f)
  BY ZenonT(60) DEF Mid, EndInv
<1>1. Pair(e, z, y)
  BY <1>0, PairSend, ZenonT(60) DEF Mid
<1>2. Pair(Other(e), y, z)
  BY <1>0, PairRecv, Zenon DEF Mid
<1>t. x.s.st \in {"none", "open", "closing", "gone"} /\ z.s.st \in {"none", "open", "closing", "gone"}
      /\ y.s.st \in {"none", "open", "closing", "gone"}
      /\ x.out \in Seq(Packet) /\ y.out \in Seq(Packet) /\ z.out \in Seq(Packet)
  BY <1>0, ZenonT(60) DEF Ctx, Asocket
<1>p. x.s.st = "none" => ~x.s.peer
  <2>1. x.s.st = "none" => x.s = NewSocket
    BY <1>0, ZenonT(60) DEF SocketInv
  <2>2. ~NewSocket.peer
    BY Zenon DEF NewSocket
  <2> QED BY <2>1, <2>2, ZenonT(60)
<1>k. /\ \A cmd : Has(x.out, cmd) => Has(z.out, cmd)
      /\ x.out # <<>> => z.out # <<>> /\ z.out[1] = x.out[1]
  <2>1. Keeps(x.out, z.out)
    BY Zenon DEF Frame
  <2>2. /\ Len(x.out) \in Nat /\ Len(z.out) \in Nat /\ Len(x.out) <= Len(z.out)
        /\ \A i \in 1..Len(x.out) : z.out[i] = x.out[i]
    BY <1>t, <2>1 DEF Keeps
  <2>3. ASSUME NEW cmd, Has(x.out, cmd)
        PROVE  Has(z.out, cmd)
    <3>1. PICK i \in 1..Len(x.out) : x.out[i].cmd = cmd
      BY <2>3 DEF Has
    <3>2. i \in 1..Len(z.out)
      BY <2>2
    <3>3. z.out[i].cmd = cmd
      BY <2>2, <3>1
    <3> QED BY <3>2, <3>3 DEF Has
  <2>4. x.out # <<>> => Len(x.out) > 0
    BY <1>t
  <2>5. x.out # <<>> => z.out # <<>> /\ z.out[1] = x.out[1]
    BY <1>t, <2>2, <2>4
  <2> QED BY <2>3, <2>5, Zenon
<1>3. Told(z, y)
  BY <1>k, ZenonT(60) DEF Told, Mid, Frame
<1>4. ASSUME y.s.st = "open", ~broken, x.s.st = "open", ~x.s.peer
      PROVE  Has(y.out, "OKAY")
  <2>1. e = opener
    BY <1>4, OtherFacts, ZenonT(60) DEF Mid, Start
  <2>2. y.out # <<>> /\ y.out[1].cmd = "OKAY"
    BY <1>4, <2>1, ZenonT(60) DEF Mid, Start
  <2>3. 1 \in 1..Len(y.out)
    BY <1>t, <2>2
  <2> QED BY <2>2, <2>3, ZenonT(60) DEF Has
<1>5. Told(y, z)
  <2> SUFFICES ASSUME y.s.st = "open", ~broken, z.s.st \in {"closing", "gone"}
               PROVE  Has(z.out, "CLSE") \/ Has(y.out, "OKAY")
    BY Zenon DEF Told
  <2>1. CASE x.s.st \in {"closing", "gone"}
    BY <1>k, <2>1, Zenon DEF Mid, Told
  <2>2. CASE x.s.st = "open" /\ x.s.peer
    BY <2>2 DEF Frame, Has
  <2>3. CASE x.s.st = "open" /\ ~x.s.peer
    BY <1>4, <2>3, Zenon
  <2>4. x.s.st # "none"
    BY Zenon DEF Frame
  <2> QED BY <1>t, <2>1, <2>2, <2>3, <2>4, Zenon
<1>6. e = opener => Start(z, y)
  <2> SUFFICES ASSUME e = opener
               PROVE  Start(z, y)
    BY Zenon
  <2>0. Start(x, y)
    BY Zenon DEF Mid
  <2>1. z.s.st = "none" => y.s.st = "none" /\ z.out = <<>> /\ y.out = <<>>
    <3>1. z.s.st = "none" => x.s.st = "none" /\ ~x.s.peer
      BY <1>p, Zenon DEF Frame
    <3> QED BY <2>0, <3>1, ZenonT(60) DEF Start, Frame
  <2>2. ASSUME NEW i \in 1..Len(z.out), z.out[i].cmd = "OPEN"
        PROVE  i = 1 /\ y.s.st = "none" /\ y.out = <<>> /\ z.out[1].cum = 0
    <3>1. i \in 1..Len(x.out) /\ z.out[i] = x.out[i]
      <4>1. Keeps(x.out, z.out)
        BY DEF Frame
      <4> QED BY <1>t, <2>2, <4>1, SMTT(60) DEF Keeps
    <3>2. x.out # <<>>
      BY <1>t, <3>1
    <3> QED BY <1>k, <2>0, <2>2, <3>1, <3>2, Zenon DEF Start
  <2>3. y.s.st = "none" => ~z.s.peer /\ z.out = x.out
    BY <2>0, ZenonT(60) DEF Start, Frame
  <2>4. (z.s.st = "open" /\ ~z.s.peer) => x.s.st = "open" /\ ~x.s.peer
    BY Zenon DEF Frame
  <2> QED BY <2>0, <2>1, <2>2, <2>3, <2>4, Zenon DEF Start
<1>7. e = acceptor => Start(y, z)
  <2> SUFFICES ASSUME e = acceptor
               PROVE  Start(y, z)
    OBVIOUS
  <2>0. Start(y, x)
    BY Zenon DEF Mid
  <2>1. z.s.st = "none" <=> x.s.st = "none"
    BY Zenon DEF Frame
  <2>2. x.s.st = "none" => z.out = x.out
    BY <1>p, Zenon DEF Frame
  <2>3. z.s.st = "open" => z.s.peer
    BY <2>0, Zenon DEF Start, Frame
  <2>4. broken => z.out = x.out
    BY Zenon DEF Frame
  <2>5. (y.s.st = "open" /\ ~y.s.peer /\ z.s.st # "none") =>
           /\ ~broken => z.out # <<>>
           /\ z.out # <<>> => z.out[1].cmd = "OKAY"
    BY <1>k, <2>0, <2>1, <2>4, Zenon DEF Start
  <2> QED BY <2>0, <2>1, <2>2, <2>3, <2>5 DEF Start
<1> QED BY <1>0, <1>1, <1>2, <1>3, <1>5, <1>6, <1>7, ZenonT(60) DEF Inv, Mid

-----------------------------------------------------------------------------
(* An end after the packet at the head of its channel has been taken.       *)
Taken(y) == [s |-> y.s, out |-> Tail(y.out), f |-> y.f]

LEMMA TakenFacts ==
    ASSUME NEW e \in End, NEW y, EndInv(e, y), y.out # <<>>
    PROVE  LET p == y.out[1]
               t == Taken(y)
           IN  /\ t.s = y.s /\ t.f = y.f /\ t \in Ctx /\ y \in Ctx
               /\ p = Head(y.out) /\ p \in Packet /\ PacketInv(e, y.s, p)
               /\ EndInv(e, t)
               /\ \A cmd : (Has(y.out, cmd) /\ p.cmd # cmd) => Has(t.out, cmd)
               /\ \A i \in 1..Len(t.out) : i + 1 \in 1..Len(y.out) /\ t.out[i] = y.out[i + 1]
               /\ Len(t.out) = Len(y.out) - 1
               /\ \A r : r.flushed + r.q = p.pos + p.len => BytesAt(t.out, y.s, r, broken)
               /\ \A r : r.avail + r.sent = p.cum + Credit(p) => CreditAt(t.out, y.s, r, broken)
               /\ p.pos + p.len <= y.s.sent /\ p.cum + Credit(p) <= y.s.granted
<1> DEFINE p == y.out[1]
           t == Taken(y)
<1>1. /\ t.s = y.s /\ t.out = Tail(y.out) /\ t.f = y.f /\ y \in Ctx
      /\ y.out \in Seq(Packet) /\ y.s \in Asocket
  BY Zenon DEF Taken, EndInv, Ctx
<1>2. /\ p = Head(y.out) /\ p \in Packet /\ PacketInv(e, y.s, p)
      /\ EndInv(e, t)
      /\ Len(t.out) = Len(y.out) - 1
      /\ \A i \in 1..Len(t.out) : t.out[i] = y.out[i + 1]
      /\ t.out # <<>> => t.out[1].pos = p.pos + p.len /\ t.out[1].cum = p.cum + Credit(p)
      /\ p.pos + p.len <= y.s.sent /\ p.cum + Credit(p) <= y.s.granted
      /\ (t.out = <<>> /\ ~broken) =>
            p.pos + p.len = y.s.sent /\ p.cum + Credit(p) = y.s.granted
  BY <1>1, TailLemma, ZenonT(60) DEF Taken
<1>3. t \in Ctx /\ t.out \in Seq(Packet)
  BY <1>2, ZenonT(60) DEF EndInv, Ctx
<1>4. \A i \in 1..Len(t.out) : i + 1 \in 1..Len(y.out) /\ t.out[i] = y.out[i + 1]
  <2>1. y.out \in Seq(Packet) /\ Len(t.out) = Len(y.out) - 1
    BY <1>1, <1>2, Zenon
  <2>2. \A i \in 1..Len(t.out) : i + 1 \in 1..Len(y.out)
    BY <2>1
  <2> QED BY <1>2, <2>2, Zenon
<1>5. ASSUME NEW cmd, Has(y.out, cmd), p.cmd # cmd
      PROVE  Has(t.out, cmd)
  <2>1. PICK i \in 1..Len(y.out) : y.out[i].cmd = cmd
    BY <1>5 DEF Has
  <2>2. i # 1
    BY <1>5, <2>1, Zenon
  <2>3. i - 1 \in 1..Len(t.out) /\ (i - 1) + 1 = i
    BY <1>1, <1>2, <2>2
  <2>4. t.out[i - 1] = y.out[i]
    BY <1>2, <2>3
  <2> QED BY <2>1, <2>3, <2>4 DEF Has
<1>6. ASSUME NEW r, r.flushed + r.q = p.pos + p.len
      PROVE  BytesAt(t.out, y.s, r, broken)
  BY <1>2, <1>6 DEF BytesAt
<1>7. ASSUME NEW r, r.avail + r.sent = p.cum + Credit(p)
      PROVE  CreditAt(t.out, y.s, r, broken)
  BY <1>2, <1>7 DEF CreditAt
<1> QED BY <1>1, <1>2, <1>3, <1>4, <1>5, <1>6, <1>7, ZenonT(60)
=============================================================================
