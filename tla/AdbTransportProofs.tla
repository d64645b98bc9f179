------------------------- MODULE AdbTransportProofs -------------------------
(***************************************************************************)
(* What holds of a transport and its connections whatever their number:    *)
(* the inductive invariant of AdbTransport, and the theorems.              *)
(***************************************************************************)
EXTENDS AdbTransport, FiniteSetTheorems, TLAPS

-----------------------------------------------------------------------------
(* The inductive invariant.                                                 *)
StopCall == [pc : {"none", "lock", "close", "move", "join", "return"},
             c : 0..MaxConn, r : {Nobody} \cup Readers,
             k : {"none", "destroy", "kick", "exit"}]
TlsThread == [pc : {"none", "start", "locked", "shaking", "failed", "kicking", "done"},
              c : 0..MaxConn]
Transport == [cur : Conns, kicked : BOOLEAN, list : {"pending", "transport", "none"},
              deleted : BOOLEAN]
Reconnector == [running : BOOLEAN, pc : {"top", "waiting", "reconnecting", "exited"},
                timed : BOOLEAN, notified : BOOLEAN, tracked : BOOLEAN,
                left : 0..MaxAttempts]

Types ==
    /\ call \in [Threads -> StopCall]
    /\ conn \in [Conns -> Adapter]
    /\ tls \in [Conns -> TlsThread]
    /\ tr \in Transport
    /\ rec \in Reconnector
    /\ exit \in {"no", "join", "kick", "done"}

(* One adapter.  A handshake in the wrong place may spoil all but the first *)
(* two facts.                                                               *)
Active(a, i) == a.reader[i] \in {"reading", "leaving"}

AdapterInv(a) ==
    /\ a.error => a.closed \/ ~a.peer
    /\ a.stopped => a.started
    /\ ~a.stray =>
          /\ ~a.fatal
          /\ ~a.started => a = NewAdapter
          /\ a.stopped => a.mutex = None
          /\ ~a.closed => \A i \in Readers : Active(a, i) => a.read_thread = i

(* A thread has set stopped_ and will take the threads to join.             *)
Stopping(c) == \E th \in Threads : call[th].c = c /\ call[th].pc \in {"close", "move"}

JoinInv(c) ==
    (~conn[c].stray /\ conn[c].stopped) =>
       Stopping(c) \/ (conn[c].read_thread = Nobody /\ ~conn[c].write_thread)

(* The connections before the current one are over, the others not begun.   *)
OrderInv(c) ==
    /\ c < tr.cur => conn[c].started /\ conn[c].stopped /\ conn[c].error
    /\ c > tr.cur => conn[c] = NewAdapter /\ tls[c].pc = "none"

CallInv(th) ==
    LET x == call[th]
    IN  /\ x.pc = "none" => x = NoCall
        /\ x.pc # "none" => x.c \in 1..tr.cur /\ x.k # "none"
        /\ x.pc \in {"close", "move", "join"} => conn[x.c].started /\ conn[x.c].stopped
        /\ x.pc \in {"move", "join"} => conn[x.c].closed

TlsInv(i) ==
    /\ tls[i].pc \in {"locked", "shaking"} =>
          tls[i].c \in 1..tr.cur /\ conn[tls[i].c].mutex = i
    /\ tls[i].pc = "shaking" => conn[tls[i].c].read_thread = Nobody
    /\ call[i].pc # "none" => tls[i].pc = "kicking"
    /\ (i = tr.cur /\ tls[i].pc # "none") => conn[i].got

(* The closures of the current connection, in the order in which they run.  *)
Line(c, r, s, e) ==
    LET R == Closure("register", c)
        S == Closure("STLS", c)
        E == Closure("error", c)
    IN  IF r THEN IF s THEN IF e THEN <<R, S, E>> ELSE <<R, S>>
                       ELSE IF e THEN <<R, E>> ELSE <<R>>
             ELSE IF s THEN IF e THEN <<S, E>> ELSE <<S>>
                       ELSE IF e THEN <<E>> ELSE <<>>

(* Who sees to a connection that has failed: the looper, the                *)
(* ReconnectHandler, or nobody any more.  Never two of them.                *)
Destroying == call[Looper].k = "destroy"
Reconnecting == rec.pc = "reconnecting"
Ended == Destroying \/ rec.tracked \/ Reconnecting \/ tr.deleted

QueueInv ==
    LET a == conn[tr.cur]
    IN  \/ \E r, s, e \in BOOLEAN :
             /\ queue = Line(tr.cur, r, s, e)
             /\ r <=> ~a.started
             /\ s => a.got /\ tls[tr.cur].pc = "none"
             /\ e => a.error
             /\ Ended => ~r /\ ~s /\ ~e /\ a.error
        \/ /\ queue = <<Closure("unregister", tr.cur)>>
           /\ ~Ended
           /\ a.started /\ a.stopped /\ a.error

OneOwner ==
    /\ Destroying => ~rec.tracked /\ ~Reconnecting /\ ~tr.deleted
    /\ rec.tracked => ~Reconnecting /\ ~tr.deleted
    /\ Reconnecting => ~tr.deleted
    /\ (rec.tracked \/ Reconnecting \/ tr.deleted) => conn[tr.cur].stopped
    /\ Destroying => call[Looper].c = tr.cur /\ call[Looper].pc # "none"
    /\ (Destroying /\ call[Looper].pc = "return") => conn[tr.cur].stopped
    /\ exit = "join" => call[Looper] = NoCall

IInv ==
    /\ Types
    /\ \A c \in Conns : AdapterInv(conn[c]) /\ JoinInv(c) /\ OrderInv(c) /\ TlsInv(c)
    /\ \A th \in Threads : CallInv(th)
    /\ QueueInv
    /\ OneOwner

-----------------------------------------------------------------------------
(* What a step leaves alone.                                                *)
Grows(a, b) ==
    /\ a.started => b.started
    /\ a.stopped => b.stopped
    /\ a.closed => b.closed
    /\ a.error => b.error
    /\ a.got => b.got

SameThreads(a, b) ==
    /\ b.mutex = a.mutex /\ b.read_thread = a.read_thread
    /\ b.write_thread = a.write_thread
    /\ b.stray = a.stray /\ b.stopped = a.stopped

LEMMA ConnFacts ==
    /\ Conns = 1..MaxConn /\ Threads = 0..MaxConn /\ Readers = 0..MaxConn
    /\ Looper = 0 /\ Looper \in Threads /\ Conns \subseteq Threads
    /\ Looper \notin Conns /\ None \notin Conns
  BY TransportAssumption DEF Conns, Threads, Readers, Looper, None

LEMMA CurFacts ==
    ASSUME IInv
    PROVE  /\ tr.cur \in Conns /\ conn[tr.cur] \in Adapter
           /\ \A c \in Conns : c \in Int /\ tr.cur \in Int /\ MaxConn \in Nat
  BY TransportAssumption DEF IInv, Types, Transport, Conns

(* A new value for one adapter.                                             *)
LEMMA AdapterChange ==
    ASSUME IInv, NEW c \in Conns, NEW a \in Adapter, conn' = [conn EXCEPT ![c] = a],
           tr'.cur = tr.cur, c <= tr.cur, Grows(conn[c], a), AdapterInv(a)
    PROVE  /\ conn' \in [Conns -> Adapter]
           /\ conn'[c] = a
           /\ \A d \in Conns : d # c => conn'[d] = conn[d]
           /\ \A d \in Conns : Grows(conn[d], conn'[d]) /\ AdapterInv(conn'[d])
           /\ (\A d \in Conns : d > tr.cur => tls'[d].pc = tls[d].pc)
                 => \A d \in Conns : OrderInv(d)'
<1>1. /\ conn' \in [Conns -> Adapter]
      /\ conn'[c] = a
      /\ \A d \in Conns : d # c => conn'[d] = conn[d]
  BY DEF IInv, Types
<1>2. \A d \in Conns : Grows(conn[d], conn'[d]) /\ AdapterInv(conn'[d])
  BY <1>1 DEF Grows, IInv
<1>3. ASSUME \A d \in Conns : d > tr.cur => tls'[d].pc = tls[d].pc, NEW d \in Conns
      PROVE  OrderInv(d)'
  <2>1. OrderInv(d)
    BY DEF IInv
  <2>2. d > tr.cur => conn'[d] = conn[d]
    BY <1>1, CurFacts
  <2> QED BY <1>2, <1>3, <2>1, <2>2 DEF OrderInv, Grows
<1> QED BY <1>1, <1>2, <1>3

LEMMA CallsKept ==
    ASSUME IInv, tr'.cur = tr.cur, \A d \in Conns : Grows(conn[d], conn'[d]),
           NEW th \in Threads, call'[th] = call[th]
    PROVE  CallInv(th)'
<1>1. CallInv(th)
  BY DEF IInv
<1>2. call[th].pc # "none" => call[th].c \in Conns
  BY <1>1, CurFacts DEF CallInv, Conns
<1> QED BY <1>1, <1>2 DEF CallInv, Grows

LEMMA TlsKept ==
    ASSUME IInv, NEW i \in Conns, tr'.cur = tr.cur, tls'[i] = tls[i], call'[i] = call[i],
           tls[i].c \in Conns =>
              /\ conn'[tls[i].c].mutex = conn[tls[i].c].mutex
              /\ conn'[tls[i].c].read_thread = conn[tls[i].c].read_thread,
           conn[i].got => conn'[i].got
    PROVE  TlsInv(i)'
<1>1. TlsInv(i)
  BY DEF IInv
<1>2. tls[i].pc \in {"locked", "shaking"} => tls[i].c \in Conns
  BY <1>1, CurFacts DEF TlsInv, Conns
<1> QED BY <1>1, <1>2 DEF TlsInv

LEMMA JoinKept ==
    ASSUME IInv, NEW d \in Conns, Stopping(d) => Stopping(d)',
           conn'[d] = conn[d] \/ SameThreads(conn[d], conn'[d])
    PROVE  JoinInv(d)'
<1>1. JoinInv(d)
  BY DEF IInv
<1> QED BY <1>1, Zenon DEF JoinInv, SameThreads

LEMMA OwnerKept ==
    ASSUME IInv, call'[Looper] = call[Looper], tr'.cur = tr.cur, tr'.deleted = tr.deleted,
           rec'.tracked = rec.tracked, rec'.pc = "reconnecting" <=> rec.pc = "reconnecting",
           exit' = "join" => exit = "join" \/ call[Looper] = NoCall,
           conn[tr.cur].stopped => conn'[tr.cur].stopped
    PROVE  OneOwner' /\ (Ended' <=> Ended)
  BY DEF IInv, OneOwner, Ended, Destroying, Reconnecting

-----------------------------------------------------------------------------
(* The run queue.                                                           *)
LEMMA SameSequence ==
    ASSUME NEW S, NEW q \in Seq(S), NEW t \in Seq(S),
           Len(q) = Len(t), \A i \in 1..Len(q) : q[i] = t[i]
    PROVE  q = t
  OBVIOUS

LEMMA LineFacts ==
    ASSUME NEW c, NEW r \in BOOLEAN, NEW s \in BOOLEAN, NEW e \in BOOLEAN
    PROVE  /\ ~s /\ ~e => Append(Line(c, r, s, e), Closure("STLS", c)) = Line(c, r, TRUE, e)
           /\ ~e => Append(Line(c, r, s, e), Closure("error", c)) = Line(c, r, s, TRUE)
           /\ ~r /\ ~s /\ ~e => Line(c, r, s, e) = <<>>
<1>1. \A x, y, z : /\ Append(<<>>, x) = <<x>> /\ Append(<<x>>, y) = <<x, y>>
                   /\ Append(<<x, y>>, z) = <<x, y, z>>
  <2>1. \A x : Append(<<>>, x) = <<x>>
    OBVIOUS
  <2>2. ASSUME NEW x, NEW y
        PROVE  Append(<<x>>, y) = <<x, y>>
    <3>1. <<x>> \in Seq({x, y}) /\ <<x, y>> \in Seq({x, y}) /\ y \in {x, y}
      OBVIOUS
    <3>2. Append(<<x>>, y) \in Seq({x, y}) /\ Len(Append(<<x>>, y)) = 2
      BY <3>1
    <3>3. Len(<<x, y>>) = 2 /\ \A i \in 1..2 : Append(<<x>>, y)[i] = <<x, y>>[i]
      BY <3>1
    <3> QED BY <3>1, <3>2, <3>3, SameSequence, Zenon
  <2>3. ASSUME NEW x, NEW y, NEW z
        PROVE  Append(<<x, y>>, z) = <<x, y, z>>
    <3>1. /\ <<x, y>> \in Seq({x, y, z}) /\ <<x, y, z>> \in Seq({x, y, z})
          /\ z \in {x, y, z}
      OBVIOUS
    <3>2. Append(<<x, y>>, z) \in Seq({x, y, z}) /\ Len(Append(<<x, y>>, z)) = 3
      BY <3>1
    <3>3. Len(<<x, y, z>>) = 3 /\ \A i \in 1..3 : Append(<<x, y>>, z)[i] = <<x, y, z>>[i]
      BY <3>1
    <3> QED BY <3>1, <3>2, <3>3, SameSequence, Zenon
  <2> QED BY <2>1, <2>2, <2>3, Zenon
<1>2. ~s /\ ~e => Append(Line(c, r, s, e), Closure("STLS", c)) = Line(c, r, TRUE, e)
  BY <1>1, Zenon DEF Line
<1>3. ~e => Append(Line(c, r, s, e), Closure("error", c)) = Line(c, r, s, TRUE)
  BY <1>1, Zenon DEF Line
<1>4. ~r /\ ~s /\ ~e => Line(c, r, s, e) = <<>>
  BY Zenon DEF Line
<1> QED BY <1>2, <1>3, <1>4, Zenon

LEMMA LineMembers ==
    ASSUME NEW c, NEW r \in BOOLEAN, NEW s \in BOOLEAN, NEW e \in BOOLEAN
    PROVE  \A n \in DOMAIN Line(c, r, s, e) :
              /\ Line(c, r, s, e)[n].c = c
              /\ Line(c, r, s, e)[n].op # "unregister"
  BY DEF Line, Closure

(* The queue of a transport whose connection nobody has seen to yet.        *)
Waiting(r, s, e) ==
    /\ queue = Line(tr.cur, r, s, e)
    /\ r <=> ~conn[tr.cur].started
    /\ s => conn[tr.cur].got /\ tls[tr.cur].pc = "none"
    /\ e => conn[tr.cur].error
    /\ Ended => ~r /\ ~s /\ ~e /\ conn[tr.cur].error

Leaving ==
    /\ queue = <<Closure("unregister", tr.cur)>>
    /\ ~Ended
    /\ conn[tr.cur].started /\ conn[tr.cur].stopped /\ conn[tr.cur].error

LEMMA QueueCases ==
    QueueInv <=> Leaving \/ \E r, s, e \in BOOLEAN : Waiting(r, s, e)
  BY Zenon DEF QueueInv, Leaving, Waiting

LEMMA QueueKept ==
    ASSUME IInv, tr'.cur = tr.cur, queue' = queue, Ended' => Ended,
           Grows(conn[tr.cur], conn'[tr.cur]),
           conn'[tr.cur].started = conn[tr.cur].started,
           tls[tr.cur].pc = "none" => tls'[tr.cur].pc = "none"
    PROVE  QueueInv'
  BY DEF IInv, QueueInv, Grows

(* HandleError posts a closure once for each connection, and none for an    *)
(* old one.                                                                 *)
LEMMA QueueError ==
    ASSUME IInv, NEW c \in Conns, c <= tr.cur, HandleError(c), tr'.cur = tr.cur,
           Ended' => Ended, Grows(conn[tr.cur], conn'[tr.cur]),
           conn'[tr.cur].started = conn[tr.cur].started, conn'[c].error,
           tls[tr.cur].pc = "none" => tls'[tr.cur].pc = "none"
    PROVE  QueueInv'
<1>1. CASE conn[c].error
  BY <1>1, QueueKept DEF HandleError
<1>2. CASE ~conn[c].error
  <2>1. c = tr.cur
    BY <1>2, CurFacts DEF IInv, OrderInv
  <2>2. PICK r, s, e \in BOOLEAN : Waiting(r, s, e)
    BY <1>2, <2>1, QueueCases, Zenon DEF IInv, Leaving
  <2>3. ~e /\ ~Ended
    BY <1>2, <2>1, <2>2 DEF Waiting
  <2>4. queue' = Line(tr.cur, r, s, TRUE)
    <3>1. queue' = Append(queue, Closure("error", tr.cur)) /\ queue = Line(tr.cur, r, s, e)
      BY <1>2, <2>1, <2>2 DEF HandleError, Waiting
    <3> QED BY <2>3, <3>1, LineFacts, ZenonT(40)
  <2>5. Waiting(r, s, TRUE)'
    BY <2>1, <2>2, <2>3, <2>4 DEF Waiting, Grows
  <2>6. QueueInv'
    BY <2>5, Zenon DEF QueueInv, Waiting
  <2> QED BY <2>6, Zenon
<1> QED BY <1>1, <1>2

-----------------------------------------------------------------------------
(* The threads of an adapter, and its peer.                                 *)
LEMMA InUse ==
    ASSUME IInv, NEW c \in Conns, conn[c] # NewAdapter
    PROVE  c <= tr.cur /\ (conn[c].started \/ conn[c].stray)
<1>1. OrderInv(c) /\ AdapterInv(conn[c])
  BY DEF IInv
<1> QED BY <1>1, CurFacts DEF OrderInv, AdapterInv

LEMMA NewFields ==
    /\ NewAdapter \in Adapter
    /\ \A i \in Readers : NewAdapter.reader[i] = "none"
    /\ NewAdapter.writer = "none" /\ NewAdapter.read_thread = Nobody
    /\ ~NewAdapter.started /\ ~NewAdapter.stopped /\ ~NewAdapter.got
    /\ ~NewAdapter.error /\ ~NewAdapter.closed /\ ~NewAdapter.fatal /\ ~NewAdapter.stray
    /\ NewAdapter.mutex = None /\ NewAdapter.peer /\ ~NewAdapter.write_thread
  BY TransportAssumption DEF NewAdapter, Adapter, None

(* What threads other than those in Stop and DoTlsHandshake may change.     *)
LEMMA SameAdapter ==
    ASSUME NEW x, NEW a \in Adapter, AdapterInv(x), x.started \/ x.stray,
           SameThreads(x, a), a.started = x.started, a.fatal = x.fatal,
           a.closed = x.closed, a.error => a.closed \/ ~a.peer,
           \A i \in Readers : Active(a, i) => Active(x, i)
    PROVE  AdapterInv(a)
  BY DEF AdapterInv, SameThreads

LEMMA ThreadStep ==
    ASSUME IInv, NEW c \in Conns, conn[c] # NewAdapter,
           NEW a \in Adapter, conn' = [conn EXCEPT ![c] = a],
           UNCHANGED <<call, tls, tr, rec, exit>>,
           Grows(conn[c], a), a.started = conn[c].started, SameThreads(conn[c], a),
           AdapterInv(a),
           queue' = queue \/ (HandleError(c) /\ a.error) \/ QueueInv'
    PROVE  IInv'
<1>0. c <= tr.cur /\ tr.cur \in Conns
  BY InUse, CurFacts
<1>1. /\ conn' \in [Conns -> Adapter]
      /\ conn'[c] = a
      /\ \A d \in Conns : d # c => conn'[d] = conn[d]
      /\ \A d \in Conns : Grows(conn[d], conn'[d]) /\ AdapterInv(conn'[d])
      /\ \A d \in Conns : OrderInv(d)'
  BY <1>0, AdapterChange, Zenon
<1>2. \A d \in Conns : SameThreads(conn[d], conn'[d])
  BY <1>1 DEF SameThreads
<1>3. Types'
  BY <1>1 DEF IInv, Types
<1>4. ASSUME NEW d \in Conns
      PROVE  JoinInv(d)'
  <2>1. Stopping(d)' <=> Stopping(d)
    BY Zenon DEF Stopping
  <2> QED BY <1>2, <2>1, JoinKept
<1>5. ASSUME NEW d \in Conns
      PROVE  TlsInv(d)'
  BY <1>1, <1>2, TlsKept DEF SameThreads, Grows
<1>6. \A th \in Threads : CallInv(th)'
  BY <1>1, CallsKept
<1>7. OneOwner' /\ (Ended' <=> Ended)
  BY <1>0, <1>1, OwnerKept DEF Grows
<1>8. conn'[tr.cur].started = conn[tr.cur].started
  BY <1>0, <1>1, Zenon
<1>9. QueueInv'
  BY <1>0, <1>1, <1>7, <1>8, QueueKept, QueueError
<1> QED BY <1>1, <1>3, <1>4, <1>5, <1>6, <1>7, <1>9 DEF IInv

LEMMA ReadStls ==
    ASSUME IInv, NEW c \in Conns, NEW i \in Readers, read_stls(c, i)
    PROVE  IInv'
<1> DEFINE x == conn[c]
           a == [x EXCEPT !.got = TRUE, !.reader[i] = "leaving"]
<1>1. /\ x \in Adapter /\ x.reader[i] = "reading" /\ ~Broken(c) /\ ~x.got
      /\ conn' = [conn EXCEPT ![c] = a] /\ HandleRead(c)
      /\ UNCHANGED <<call, tls, tr, rec, exit>>
  BY Zenon DEF read_stls, IInv, Types
<1>2. /\ a \in Adapter /\ a.got
      /\ a.started = x.started /\ a.stopped = x.stopped /\ a.closed = x.closed
      /\ a.error = x.error /\ a.mutex = x.mutex /\ a.read_thread = x.read_thread
      /\ a.write_thread = x.write_thread /\ a.stray = x.stray /\ a.fatal = x.fatal
      /\ a.peer = x.peer /\ a.reader = [x.reader EXCEPT ![i] = "leaving"]
  BY <1>1, Zenon DEF Adapter
<1>3. \A j \in Readers : Active(a, j) => Active(x, j)
  BY <1>1, <1>2 DEF Active, Adapter
<1>4. x # NewAdapter
  BY <1>1, NewFields
<1>5. AdapterInv(x) /\ (x.started \/ x.stray) /\ c <= tr.cur
  BY <1>4, InUse, Zenon DEF IInv
<1> HIDE DEF a
<1>6. Grows(x, a) /\ SameThreads(x, a) /\ AdapterInv(a)
  BY <1>2, <1>3, <1>5, SameAdapter DEF Grows, SameThreads, AdapterInv
<1>7. QueueInv'
  <2>1. c = tr.cur /\ ~x.error
    BY <1>1, <1>5, CurFacts DEF IInv, OrderInv, AdapterInv, Broken
  <2>2. PICK r, s, e \in BOOLEAN : Waiting(r, s, e)
    BY <2>1, QueueCases, Zenon DEF IInv, Leaving
  <2>3. ~e /\ ~s /\ ~Ended
    BY <1>1, <2>1, <2>2, Zenon DEF Waiting
  <2>4. queue' = Append(queue, Closure("STLS", tr.cur)) /\ queue = Line(tr.cur, r, s, e)
    BY <1>1, <2>1, <2>2 DEF HandleRead, Waiting
  <2>5. queue' = Line(tr.cur, r, TRUE, e)
    BY <2>3, <2>4, LineFacts, Zenon
  <2>6. tls[tr.cur].pc = "none"
    BY <1>1, <2>1 DEF IInv, TlsInv
  <2>7. conn'[tr.cur] = a
    BY <1>1, <2>1, Zenon DEF IInv, Types
  <2>8. Waiting(r, TRUE, e)'
    BY <1>1, <1>2, <2>1, <2>2, <2>3, <2>5, <2>6, <2>7
       DEF Waiting, Ended, Destroying, Reconnecting
  <2> QED BY <2>8, Zenon DEF QueueInv, Waiting
<1> QED BY <1>1, <1>2, <1>4, <1>6, <1>7, ThreadStep, Zenon

LEMMA ReaderEnds ==
    ASSUME IInv, NEW c \in Conns, NEW i \in Readers, reader_leaves(c, i) \/ read_failed(c, i)
    PROVE  IInv'
<1> DEFINE x == conn[c]
<1>0. x \in Adapter /\ AdapterInv(x)
  BY DEF IInv, Types
<1>1. CASE reader_leaves(c, i)
  <2> DEFINE a == [x EXCEPT !.reader[i] = "done"]
  <2>1. /\ x.reader[i] = "leaving" /\ conn' = [conn EXCEPT ![c] = a]
        /\ UNCHANGED <<queue, call, tls, tr, rec, exit>>
    BY <1>1 DEF reader_leaves
  <2>2. /\ a \in Adapter /\ a.got = x.got
        /\ a.started = x.started /\ a.stopped = x.stopped /\ a.closed = x.closed
        /\ a.error = x.error /\ a.mutex = x.mutex /\ a.read_thread = x.read_thread
        /\ a.write_thread = x.write_thread /\ a.stray = x.stray /\ a.fatal = x.fatal
        /\ a.peer = x.peer /\ a.reader = [x.reader EXCEPT ![i] = "done"]
    BY <1>0 DEF Adapter
  <2>3. \A j \in Readers : Active(a, j) => Active(x, j)
    BY <1>0, <2>2 DEF Active, Adapter
  <2>4. x # NewAdapter /\ (x.started \/ x.stray)
    BY <2>1, NewFields, InUse, Zenon
  <2> HIDE DEF a
  <2>5. Grows(x, a) /\ SameThreads(x, a) /\ AdapterInv(a)
    BY <1>0, <2>2, <2>3, <2>4, SameAdapter, ZenonT(40) DEF Grows, SameThreads, AdapterInv
  <2> QED BY <2>1, <2>2, <2>4, <2>5, ThreadStep, Zenon
<1>2. CASE read_failed(c, i)
  <2> DEFINE a == [x EXCEPT !.reader[i] = "done", !.error = TRUE]
  <2>1. /\ x.reader[i] = "reading" /\ conn' = [conn EXCEPT ![c] = a]
        /\ Broken(c) /\ HandleError(c)
        /\ UNCHANGED <<call, tls, tr, rec, exit>>
    BY <1>2, Zenon DEF read_failed
  <2>2. /\ a \in Adapter /\ a.got = x.got
        /\ a.started = x.started /\ a.stopped = x.stopped /\ a.closed = x.closed
        /\ a.error /\ a.mutex = x.mutex /\ a.read_thread = x.read_thread
        /\ a.write_thread = x.write_thread /\ a.stray = x.stray /\ a.fatal = x.fatal
        /\ a.peer = x.peer /\ a.reader = [x.reader EXCEPT ![i] = "done"]
    BY <1>0, Zenon DEF Adapter
  <2>3. \A j \in Readers : Active(a, j) => Active(x, j)
    BY <1>0, <2>2 DEF Active, Adapter
  <2>4. x # NewAdapter /\ (x.started \/ x.stray)
    BY <2>1, NewFields, InUse, Zenon
  <2> HIDE DEF a
  <2>5. Grows(x, a) /\ SameThreads(x, a)
    BY <2>2, Zenon DEF Grows, SameThreads
  <2>6. AdapterInv(a)
    BY <1>0, <2>1, <2>2, <2>3, <2>4, <2>5, SameAdapter, Zenon DEF Broken
  <2> QED BY <2>1, <2>2, <2>4, <2>5, <2>6, ThreadStep, Zenon
<1> QED BY <1>1, <1>2

LEMMA WriterGoesOn ==
    ASSUME IInv, NEW c \in Conns, writer_wakes(c) \/ writer_writes(c)
    PROVE  IInv'
<1> DEFINE x == conn[c]
<1>0. x \in Adapter /\ AdapterInv(x)
  BY DEF IInv, Types
<1>1. CASE writer_wakes(c)
  <2>1. PICK a : /\ \/ a = [x EXCEPT !.writer = "done"]
                    \/ x.write_queue # <<>>
                       /\ a = [x EXCEPT !.writer = Head(x.write_queue), !.write_queue = Tail(@)]
                 /\ x.writer = "waiting" /\ conn' = [conn EXCEPT ![c] = a]
                 /\ UNCHANGED <<queue, call, tls, tr, rec, exit>>
    <3>1. CASE conn' = [conn EXCEPT ![c].writer = "done"]
      <4> WITNESS [x EXCEPT !.writer = "done"]
      <4> QED BY <1>1, <3>1 DEF writer_wakes
    <3>2. CASE /\ conn[c].write_queue # <<>>
               /\ conn' = [conn EXCEPT ![c].writer = Head(conn[c].write_queue),
                                       ![c].write_queue = Tail(@)]
      <4> WITNESS [x EXCEPT !.writer = Head(x.write_queue), !.write_queue = Tail(@)]
      <4> QED BY <1>1, <3>2, Zenon DEF writer_wakes
    <3> QED BY <1>1, <3>1, <3>2, ZenonT(60) DEF writer_wakes
  <2>2. x.write_queue # <<>> =>
          Head(x.write_queue) \in {"CNXN", "STLS"} /\ Tail(x.write_queue) \in Seq({"CNXN", "STLS"})
    BY <1>0 DEF Adapter
  <2>3. /\ a \in Adapter /\ a.got = x.got
        /\ a.started = x.started /\ a.stopped = x.stopped /\ a.closed = x.closed
        /\ a.error = x.error /\ a.mutex = x.mutex /\ a.read_thread = x.read_thread
        /\ a.write_thread = x.write_thread /\ a.stray = x.stray /\ a.fatal = x.fatal
        /\ a.peer = x.peer /\ a.reader = x.reader
    BY <1>0, <2>1, <2>2, ZenonT(40) DEF Adapter
  <2>4. x # NewAdapter /\ (x.started \/ x.stray)
    BY <2>1, NewFields, InUse
  <2>5. Grows(x, a) /\ SameThreads(x, a) /\ AdapterInv(a)
    BY <1>0, <2>3, <2>4, SameAdapter, Zenon DEF Grows, SameThreads, AdapterInv, Active
  <2> QED BY <2>1, <2>3, <2>4, <2>5, ThreadStep, Zenon
<1>2. CASE writer_writes(c)
  <2>1. PICK a : /\ \/ /\ a = [x EXCEPT !.writer = "done", !.error = TRUE]
                       /\ Broken(c) /\ HandleError(c)
                    \/ /\ a = [x EXCEPT !.writer = "waiting",
                                        !.sent = @ \/ x.writer = "STLS"]
                       /\ queue' = queue
                 /\ x.writer \in {"CNXN", "STLS"} /\ conn' = [conn EXCEPT ![c] = a]
                 /\ UNCHANGED <<call, tls, tr, rec, exit>>
    <3>1. CASE Broken(c)
      <4> WITNESS [x EXCEPT !.writer = "done", !.error = TRUE]
      <4> QED BY <1>2, <3>1, Zenon DEF writer_writes
    <3>2. CASE ~Broken(c)
      <4> WITNESS [x EXCEPT !.writer = "waiting", !.sent = @ \/ x.writer = "STLS"]
      <4> QED BY <1>2, <3>2, Zenon DEF writer_writes
    <3> QED BY <3>1, <3>2
  <2>3. /\ a \in Adapter /\ a.got = x.got
        /\ a.started = x.started /\ a.stopped = x.stopped /\ a.closed = x.closed
        /\ a.mutex = x.mutex /\ a.read_thread = x.read_thread
        /\ a.write_thread = x.write_thread /\ a.stray = x.stray /\ a.fatal = x.fatal
        /\ a.peer = x.peer /\ a.reader = x.reader
        /\ a.error = x.error \/ (a.error /\ Broken(c))
    <3>1. CASE a = [x EXCEPT !.writer = "done", !.error = TRUE] /\ Broken(c)
      BY <1>0, <3>1, Zenon DEF Adapter
    <3>2. CASE a = [x EXCEPT !.writer = "waiting", !.sent = @ \/ x.writer = "STLS"]
      BY <1>0, <3>2, ZenonT(40) DEF Adapter
    <3> QED BY <2>1, <3>1, <3>2
  <2>4. x # NewAdapter /\ (x.started \/ x.stray)
    BY <2>1, NewFields, InUse
  <2>5. Grows(x, a) /\ SameThreads(x, a)
    BY <2>3 DEF Grows, SameThreads
  <2>6. AdapterInv(a)
    BY <1>0, <2>3, <2>4, <2>5, SameAdapter, ZenonT(60) DEF Broken, AdapterInv, Active
  <2>7. queue' = queue \/ (HandleError(c) /\ a.error)
    BY <1>0, <2>1, Zenon DEF Adapter
  <2> QED BY <2>1, <2>3, <2>4, <2>5, <2>6, <2>7, ThreadStep, Zenon
<1> QED BY <1>1, <1>2

LEMMA PeerHangsUp ==
    ASSUME IInv, NEW c \in Conns, Hangup(c)
    PROVE  IInv'
<1> DEFINE x == conn[c]
           a == [x EXCEPT !.peer = FALSE]
<1>0. x \in Adapter /\ AdapterInv(x)
  BY DEF IInv, Types
<1>1. /\ x.started /\ conn' = [conn EXCEPT ![c] = a]
      /\ UNCHANGED <<queue, call, tls, tr, rec, exit>>
  BY DEF Hangup
<1>2. /\ a \in Adapter /\ a.got = x.got
      /\ a.started = x.started /\ a.stopped = x.stopped /\ a.closed = x.closed
      /\ a.error = x.error /\ a.mutex = x.mutex /\ a.read_thread = x.read_thread
      /\ a.write_thread = x.write_thread /\ a.stray = x.stray /\ a.fatal = x.fatal
      /\ ~a.peer /\ a.reader = x.reader
  BY <1>0, Zenon DEF Adapter
<1>3. x # NewAdapter
  BY <1>1, NewFields, Zenon
<1> HIDE DEF a
<1>4. Grows(x, a) /\ SameThreads(x, a) /\ AdapterInv(a)
  BY <1>0, <1>1, <1>2, SameAdapter DEF Grows, SameThreads, AdapterInv, Active
<1> QED BY <1>1, <1>2, <1>3, <1>4, ThreadStep, Zenon

-----------------------------------------------------------------------------
(* Stop().                                                                  *)
LEMMA StopStep ==
    ASSUME IInv, NEW th \in Threads, NEW c, c = call[th].c, call[th].pc # "none",
           NEW y \in StopCall, call' = [call EXCEPT ![th] = y],
           y.c = c, y.k = call[th].k, y.pc # "none",
           NEW a \in Adapter, conn' = [conn EXCEPT ![c] = a],
           UNCHANGED <<tls, tr, rec, exit>>,
           Grows(conn[c], a), a.started = conn[c].started,
           a.mutex = conn[c].mutex,
           a.read_thread = conn[c].read_thread \/ Free(c),
           AdapterInv(a),
           queue' = queue \/ (HandleError(c) /\ a.error),
           CallInv(th)', JoinInv(c)', y.pc = "return" => a.stopped \/ ~a.started
    PROVE  IInv'
<1>0. c \in Conns /\ c <= tr.cur /\ tr.cur \in Conns
  <2>1. c \in 1..tr.cur
    BY Zenon DEF IInv, CallInv
  <2>2. tr.cur \in Conns
    BY CurFacts, Zenon
  <2> QED BY <2>1, <2>2, TransportAssumption DEF Conns
<1>1. /\ conn' \in [Conns -> Adapter]
      /\ conn'[c] = a
      /\ \A d \in Conns : d # c => conn'[d] = conn[d]
      /\ \A d \in Conns : Grows(conn[d], conn'[d]) /\ AdapterInv(conn'[d])
      /\ \A d \in Conns : OrderInv(d)'
  BY <1>0, AdapterChange, Zenon
<1>2. /\ call' \in [Threads -> StopCall] /\ call'[th] = y
      /\ \A t \in Threads : t # th => call'[t] = call[t]
  BY DEF IInv, Types
<1>3. Types'
  BY <1>1, <1>2 DEF IInv, Types
<1>4. ASSUME NEW d \in Conns
      PROVE  JoinInv(d)'
  <2>1. CASE d = c
    BY <2>1, Zenon
  <2>2. CASE d # c
    <3>1. Stopping(d) => Stopping(d)'
      BY <1>2, <2>2, Zenon DEF Stopping
    <3> QED BY <1>1, <2>2, <3>1, JoinKept, Zenon
  <2> QED BY <2>1, <2>2, Zenon
<1>5. ASSUME NEW i \in Conns
      PROVE  TlsInv(i)'
  <2>1. TlsInv(i) /\ i \in Threads /\ i # None
    BY ConnFacts DEF IInv, None, Conns
  <2>2. call'[i].pc # "none" => tls[i].pc = "kicking"
    BY <1>2, <2>1, Zenon DEF TlsInv
  <2>3. tls[i].pc \in {"locked", "shaking"} =>
          tls[i].c \in 1..tr.cur /\ tls[i].c \in Conns /\ conn'[tls[i].c].mutex = i
    <3>1. \A d \in 1..tr.cur : d \in Conns
      BY <1>0, TransportAssumption DEF Conns
    <3>2. \A d \in Conns : conn'[d].mutex = conn[d].mutex
      BY <1>1, Zenon
    <3> QED BY <2>1, <3>1, <3>2, Zenon DEF TlsInv
  <2>4. tls[i].pc = "shaking" => conn'[tls[i].c].read_thread = Nobody
    BY <1>1, <2>1, <2>3, ZenonT(40) DEF TlsInv, Free
  <2>5. conn[i].got => conn'[i].got
    BY <1>1 DEF Grows
  <2> QED BY <2>1, <2>2, <2>3, <2>4, <2>5, Zenon DEF TlsInv
<1>6. \A t \in Threads : CallInv(t)'
  BY <1>1, <1>2, CallsKept
<1>7. Ended' <=> Ended
  BY <1>2, ConnFacts, ZenonT(40) DEF Ended, Destroying, Reconnecting
<1>8. OneOwner'
  <2>1. Destroying' <=> Destroying
    BY <1>2, ConnFacts, Zenon DEF Destroying
  <2>2. conn[tr.cur].stopped => conn'[tr.cur].stopped
    BY <1>0, <1>1 DEF Grows
  <2>3. Destroying => call'[Looper].c = tr.cur /\ call'[Looper].pc # "none"
    BY <1>2, ConnFacts, Zenon DEF IInv, OneOwner
  <2>4. exit = "join" => call'[Looper] = NoCall
    <3>1. exit = "join" => call[Looper] = NoCall
      BY Zenon DEF IInv, OneOwner
    <3>2. NoCall.pc = "none"
      BY DEF NoCall
    <3>3. CASE th = Looper
      BY <3>1, <3>2, <3>3, Zenon
    <3>4. CASE th # Looper
      BY <1>2, <3>1, <3>4, ConnFacts, Zenon
    <3> QED BY <3>3, <3>4, Zenon
  <2>5. (Destroying /\ call'[Looper].pc = "return") => conn'[tr.cur].stopped
    <3>1. Destroying => conn[tr.cur].started
      BY Zenon DEF IInv, QueueInv, Ended
    <3>2. CASE th = Looper
      BY <1>0, <1>1, <1>2, <3>1, <3>2, Zenon DEF IInv, OneOwner
    <3>3. CASE th # Looper
      BY <1>2, <2>2, <3>3, ConnFacts, Zenon DEF IInv, OneOwner
    <3> QED BY <3>2, <3>3, Zenon
  <2> QED BY <2>1, <2>2, <2>3, <2>4, <2>5, ZenonT(60) DEF IInv, OneOwner, Reconnecting
<1>9. conn'[tr.cur].started = conn[tr.cur].started
  BY <1>0, <1>1, Zenon
<1>10. QueueInv'
  BY <1>0, <1>1, <1>7, <1>9, QueueKept, QueueError, Zenon
<1> QED BY <1>1, <1>3, <1>4, <1>5, <1>6, <1>8, <1>10, ZenonT(40) DEF IInv

LEMMA StopLock ==
    ASSUME IInv, NEW th \in Threads, stop_lock(th)
    PROVE  IInv'
<1> PICK c : c = call[th].c
  OBVIOUS
<1> DEFINE x == conn[c]
           y == [call[th] EXCEPT !.pc = IF ~x.started \/ x.stopped THEN "return" ELSE "close"]
           a == IF ~x.started \/ x.stopped THEN x ELSE [x EXCEPT !.stopped = TRUE]
<1>0. call[th] \in StopCall /\ call[th].pc = "lock"
  BY Zenon DEF IInv, Types, stop_lock, Calls
<1>1. c \in Conns /\ c \in 1..tr.cur /\ x \in Adapter /\ AdapterInv(x) /\ JoinInv(c)
  BY <1>0, CurFacts DEF IInv, Types, CallInv, Conns
<1>2. /\ call' = [call EXCEPT ![th] = y] /\ conn' = [conn EXCEPT ![c] = a]
      /\ x.mutex = None /\ UNCHANGED <<queue, tls, tr, rec, exit>>
  BY <1>1 DEF stop_lock, Free, IInv, Types
<1>3. /\ y \in StopCall /\ y.c = c /\ y.k = call[th].k
      /\ y.pc = IF ~x.started \/ x.stopped THEN "return" ELSE "close"
  BY <1>0, Zenon DEF StopCall
<1>4. /\ a \in Adapter /\ a.got = x.got
      /\ a.started = x.started /\ a.closed = x.closed
      /\ a.error = x.error /\ a.mutex = x.mutex /\ a.read_thread = x.read_thread
      /\ a.write_thread = x.write_thread /\ a.stray = x.stray /\ a.fatal = x.fatal
      /\ a.peer = x.peer /\ a.reader = x.reader
      /\ a.stopped = (x.started \/ x.stopped)
      /\ ~a.started => a = x
  <2>1. CASE ~x.started \/ x.stopped
    BY <1>1, <2>1, Zenon DEF Adapter, AdapterInv
  <2>2. CASE ~(~x.started \/ x.stopped)
    BY <1>1, <2>2, Zenon DEF Adapter, AdapterInv
  <2> QED BY <2>1, <2>2, Zenon
<1>5. conn'[c] = a /\ call'[th] = y /\ \A t \in Threads : t # th => call'[t] = call[t]
  BY <1>1, <1>2, <1>3, Zenon DEF IInv, Types
<1> HIDE DEF a, y
<1>6. Grows(x, a)
  BY <1>4, Zenon DEF Grows
<1>7. AdapterInv(a)
  BY <1>1, <1>2, <1>4, Zenon DEF AdapterInv, Active
<1>8. CallInv(th)'
  <2>1. y.pc # "none" /\ y.c \in 1..tr'.cur /\ y.k # "none"
    BY <1>0, <1>1, <1>2, <1>3, Zenon DEF IInv, CallInv
  <2>2. y.pc \notin {"move", "join"} /\ (y.pc = "close" => a.started /\ a.stopped)
    BY <1>3, <1>4, Zenon
  <2> QED BY <1>3, <1>5, <2>1, <2>2, Zenon DEF CallInv
<1>9. JoinInv(c)'
  <2>1. CASE ~x.started \/ x.stopped
    <3>1. Stopping(c) => Stopping(c)'
      BY <1>0, <1>5, Zenon DEF Stopping
    <3>2. conn'[c] = x
      BY <1>5, <2>1 DEF a
    <3> QED BY <1>1, <3>1, <3>2, JoinKept
  <2>2. CASE ~(~x.started \/ x.stopped)
    <3>1. Stopping(c)'
      BY <1>3, <1>5, <2>2, Zenon DEF Stopping
    <3> QED BY <3>1 DEF JoinInv
  <2> QED BY <2>1, <2>2
<1>10. y.pc = "return" => a.stopped \/ ~a.started
  BY <1>3, <1>4, Zenon
<1> QED BY <1>0, <1>2, <1>3, <1>4, <1>6, <1>7, <1>8, <1>9, <1>10, StopStep, Zenon

LEMMA StopClose ==
    ASSUME IInv, NEW th \in Threads, stop_close(th)
    PROVE  IInv'
<1> PICK c : c = call[th].c
  OBVIOUS
<1> DEFINE x == conn[c]
           y == [call[th] EXCEPT !.pc = "move"]
           a == [x EXCEPT !.closed = TRUE]
<1>0. call[th] \in StopCall /\ call[th].pc = "close" /\ CallInv(th)
  BY Zenon DEF IInv, Types, stop_close, Calls
<1>1. c \in Conns /\ c \in 1..tr.cur /\ x \in Adapter /\ AdapterInv(x)
  BY <1>0, CurFacts DEF IInv, Types, CallInv, Conns
<1>2. /\ call' = [call EXCEPT ![th] = y] /\ conn' = [conn EXCEPT ![c] = a]
      /\ x.started /\ x.stopped /\ UNCHANGED <<queue, tls, tr, rec, exit>>
  BY <1>0, <1>1 DEF stop_close, CallInv
<1>3. y \in StopCall /\ y.c = c /\ y.k = call[th].k /\ y.pc = "move"
  BY <1>0 DEF StopCall
<1>4. /\ a \in Adapter /\ a.got = x.got
      /\ a.started = x.started /\ a.closed /\ a.stopped = x.stopped
      /\ a.error = x.error /\ a.mutex = x.mutex /\ a.read_thread = x.read_thread
      /\ a.write_thread = x.write_thread /\ a.stray = x.stray /\ a.fatal = x.fatal
  BY <1>1, ZenonT(40) DEF Adapter
<1>5. conn'[c] = a /\ call'[th] = y
  BY <1>1, <1>2, Zenon DEF IInv, Types
<1> HIDE DEF a, y
<1>6. Grows(x, a) /\ AdapterInv(a)
  BY <1>1, <1>2, <1>4, Zenon DEF Grows, AdapterInv
<1>7. CallInv(th)'
  BY <1>0, <1>1, <1>2, <1>3, <1>4, <1>5, ZenonT(40) DEF CallInv
<1>8. JoinInv(c)'
  BY <1>3, <1>5 DEF JoinInv, Stopping
<1> QED BY <1>0, <1>2, <1>3, <1>4, <1>6, <1>7, <1>8, StopStep, Zenon

LEMMA StopMove ==
    ASSUME IInv, NEW th \in Threads, stop_move(th)
    PROVE  IInv'
<1> PICK c : c = call[th].c
  OBVIOUS
<1> DEFINE x == conn[c]
           y == [call[th] EXCEPT !.pc = "join", !.r = x.read_thread]
           a == [x EXCEPT !.read_thread = Nobody, !.write_thread = FALSE]
<1>0. call[th] \in StopCall /\ call[th].pc = "move" /\ CallInv(th) /\ Free(c)
  BY DEF IInv, Types, stop_move, Calls
<1>1. c \in Conns /\ c \in 1..tr.cur /\ x \in Adapter /\ AdapterInv(x)
  BY <1>0, CurFacts DEF IInv, Types, CallInv, Conns
<1>2. /\ call' = [call EXCEPT ![th] = y] /\ conn' = [conn EXCEPT ![c] = a]
      /\ x.started /\ x.stopped /\ x.closed /\ UNCHANGED <<queue, tls, tr, rec, exit>>
  BY <1>0, <1>1, Zenon DEF stop_move, CallInv
<1>3. y \in StopCall /\ y.c = c /\ y.k = call[th].k /\ y.pc = "join"
  BY <1>0, <1>1, Zenon DEF StopCall, Adapter
<1>4. /\ a \in Adapter /\ a.got = x.got
      /\ a.started = x.started /\ a.closed = x.closed /\ a.stopped = x.stopped
      /\ a.error = x.error /\ a.mutex = x.mutex /\ a.read_thread = Nobody
      /\ ~a.write_thread /\ a.stray = x.stray /\ a.fatal = x.fatal /\ a.peer = x.peer
  BY <1>1, ZenonT(40) DEF Adapter
<1>5. conn'[c] = a /\ call'[th] = y
  BY <1>1, <1>2, Zenon DEF IInv, Types
<1> HIDE DEF a, y
<1>6. Grows(x, a) /\ AdapterInv(a)
  BY <1>1, <1>2, <1>4 DEF Grows, AdapterInv
<1>7. CallInv(th)'
  <2>1. y.c \in 1..tr'.cur /\ y.k # "none"
    BY <1>0, <1>1, <1>2, <1>3, Zenon DEF CallInv
  <2>2. conn'[y.c].started /\ conn'[y.c].stopped /\ conn'[y.c].closed
    BY <1>2, <1>3, <1>4, <1>5, ZenonT(40)
  <2> QED BY <1>3, <1>5, <2>1, <2>2, Zenon DEF CallInv
<1>8. JoinInv(c)'
  BY <1>4, <1>5 DEF JoinInv
<1> QED BY <1>0, <1>2, <1>3, <1>4, <1>6, <1>7, <1>8, StopStep, Zenon

LEMMA StopJoin ==
    ASSUME IInv, NEW th \in Threads, stop_join(th)
    PROVE  IInv'
<1> PICK c : c = call[th].c
  OBVIOUS
<1> DEFINE x == conn[c]
           y == [call[th] EXCEPT !.pc = "return"]
           a == [x EXCEPT !.error = TRUE]
<1>0. call[th] \in StopCall /\ call[th].pc = "join" /\ CallInv(th)
  BY Zenon DEF IInv, Types, stop_join, Calls
<1>1. c \in Conns /\ c \in 1..tr.cur /\ x \in Adapter /\ AdapterInv(x) /\ JoinInv(c)
  BY <1>0, CurFacts DEF IInv, Types, CallInv, Conns
<1>2. /\ call' = [call EXCEPT ![th] = y] /\ conn' = [conn EXCEPT ![c] = a]
      /\ x.started /\ x.stopped /\ x.closed /\ HandleError(c)
      /\ UNCHANGED <<tls, tr, rec, exit>>
  BY <1>0, <1>1 DEF stop_join, CallInv
<1>3. y \in StopCall /\ y.c = c /\ y.k = call[th].k /\ y.pc = "return"
  BY <1>0 DEF StopCall
<1>4. /\ a \in Adapter /\ a.got = x.got
      /\ a.started = x.started /\ a.closed = x.closed /\ a.stopped = x.stopped
      /\ a.error /\ a.mutex = x.mutex /\ a.read_thread = x.read_thread
      /\ a.write_thread = x.write_thread /\ a.stray = x.stray /\ a.fatal = x.fatal
  BY <1>1, ZenonT(40) DEF Adapter
<1>5. conn'[c] = a /\ call'[th] = y /\ \A t \in Threads : t # th => call'[t] = call[t]
  BY <1>1, <1>2, Zenon DEF IInv, Types
<1> HIDE DEF a, y
<1>6. Grows(x, a) /\ AdapterInv(a)
  BY <1>1, <1>2, <1>4, Zenon DEF Grows, AdapterInv
<1>7. CallInv(th)'
  BY <1>0, <1>1, <1>2, <1>3, <1>5, ZenonT(40) DEF CallInv
<1>8. JoinInv(c)'
  <2>1. Stopping(c) => Stopping(c)'
    BY <1>0, <1>5, Zenon DEF Stopping
  <2> QED BY <1>1, <1>4, <1>5, <2>1, Zenon DEF JoinInv
<1> QED BY <1>0, <1>2, <1>3, <1>4, <1>6, <1>7, <1>8, StopStep, Zenon

-----------------------------------------------------------------------------
(* The looper.                                                              *)
Locals ==
    /\ \A c \in Conns : AdapterInv(conn[c]) /\ JoinInv(c) /\ OrderInv(c) /\ TlsInv(c)
    /\ \A th \in Threads : CallInv(th)

LEMMA SameLocals ==
    ASSUME IInv, UNCHANGED <<call, conn, tls>>, tr'.cur = tr.cur
    PROVE  Locals'
  BY ZenonT(60) DEF IInv, Locals, JoinInv, OrderInv, TlsInv, CallInv, Stopping

(* A thread calls Stop, or comes back from it.                              *)
LEMMA CallChange ==
    ASSUME IInv, NEW th \in Threads, call[th].pc \in {"none", "return"},
           NEW y \in StopCall, call' = [call EXCEPT ![th] = y],
           y = NoCall \/ (y.pc = "lock" /\ y.c = tr.cur /\ y.k # "none"),
           conn' = conn, tr'.cur = tr.cur
    PROVE  /\ call' \in [Threads -> StopCall] /\ call'[th] = y
           /\ \A t \in Threads : t # th => call'[t] = call[t]
           /\ \A t \in Threads : CallInv(t)'
           /\ \A c \in Conns : AdapterInv(conn[c])' /\ JoinInv(c)'
           /\ tls' = tls => \A c \in Conns : OrderInv(c)'
           /\ (tls' = tls /\ th = Looper) => \A c \in Conns : TlsInv(c)'
<1>1. /\ call' \in [Threads -> StopCall] /\ call'[th] = y
      /\ \A t \in Threads : t # th => call'[t] = call[t]
  BY DEF IInv, Types
<1>2. ASSUME NEW t \in Threads
      PROVE  CallInv(t)'
  <2>1. CASE t = th
    <3>1. tr.cur \in 1..tr.cur
      BY CurFacts DEF Conns
    <3> QED BY <1>1, <2>1, <3>1 DEF CallInv, NoCall
  <2>2. CASE t # th
    BY <1>1, <2>2, Zenon DEF IInv, CallInv
  <2> QED BY <2>1, <2>2
<1>3. ASSUME NEW c \in Conns
      PROVE  AdapterInv(conn[c])' /\ JoinInv(c)'
  <2>1. Stopping(c) => Stopping(c)'
    BY <1>1, Zenon DEF Stopping
  <2> QED BY <2>1, JoinKept DEF IInv
<1>4. tls' = tls => \A c \in Conns : OrderInv(c)'
  BY DEF IInv, OrderInv
<1>5. ASSUME tls' = tls, th = Looper, NEW c \in Conns
      PROVE  TlsInv(c)'
  <2>1. call'[c] = call[c]
    BY <1>1, <1>5, ConnFacts
  <2> QED BY <1>5, <2>1, TlsKept
<1> QED BY <1>1, <1>2, <1>3, <1>4, <1>5

(* What the looper finds at the head of the queue.                          *)
LEMMA RunsFacts ==
    ASSUME IInv, NEW op, Runs(op)
    PROVE  /\ call[Looper] = NoCall /\ exit = "no" /\ ~Destroying /\ ~Ended
           /\ op = "unregister" => Leaving /\ queue' = <<>>
           /\ op = "register" => \E s, e \in BOOLEAN :
                 Waiting(TRUE, s, e) /\ queue' = Line(tr.cur, FALSE, s, e)
           /\ op = "STLS" => Head(queue).c = tr.cur /\ \E e \in BOOLEAN :
                 Waiting(FALSE, TRUE, e) /\ queue' = Line(tr.cur, FALSE, FALSE, e)
           /\ op = "error" => Waiting(FALSE, FALSE, TRUE) /\ queue' = <<>>
<1>1. /\ call[Looper] = NoCall /\ exit = "no" /\ ~Destroying
      /\ queue # <<>> /\ Head(queue).op = op /\ queue' = Tail(queue)
  BY ConnFacts
     DEF Runs, LooperIdle, Calls, IInv, CallInv, Destroying, NoCall
<1>2. CASE Leaving
  <2>1. Head(queue).op = "unregister" /\ Tail(queue) = <<>> /\ ~Ended
    BY <1>2 DEF Leaving, Closure
  <2> QED BY <1>1, <1>2, <2>1, Zenon
<1>3. ASSUME NEW r \in BOOLEAN, NEW s \in BOOLEAN, NEW e \in BOOLEAN, Waiting(r, s, e)
      PROVE  /\ ~Ended
             /\ op # "unregister"
             /\ op = "register" => r /\ queue' = Line(tr.cur, FALSE, s, e)
             /\ op = "STLS" => /\ ~r /\ s /\ Head(queue).c = tr.cur
                               /\ queue' = Line(tr.cur, FALSE, FALSE, e)
             /\ op = "error" => ~r /\ ~s /\ e /\ queue' = <<>>
  <2>0. queue = Line(tr.cur, r, s, e)
    BY <1>3, Zenon DEF Waiting
  <2>1. /\ r => Head(queue) = Closure("register", tr.cur) /\ Tail(queue) = Line(tr.cur, FALSE, s, e)
        /\ ~r /\ s => Head(queue) = Closure("STLS", tr.cur) /\ Tail(queue) = Line(tr.cur, FALSE, FALSE, e)
        /\ ~r /\ ~s => e /\ Head(queue) = Closure("error", tr.cur) /\ Tail(queue) = <<>>
    BY <1>1, <2>0 DEF Line
  <2>2. ~Ended
    BY <1>1, <1>3, <2>0, LineFacts, Zenon DEF Waiting
  <2>3. /\ r => op = "register"
        /\ ~r /\ s => op = "STLS" /\ Head(queue).c = tr.cur
        /\ ~r /\ ~s => op = "error"
    <3> DEFINE h == Head(queue)
    <3>1. /\ r => h = Closure("register", tr.cur)
          /\ ~r /\ s => h = Closure("STLS", tr.cur)
          /\ ~r /\ ~s => h = Closure("error", tr.cur)
      BY <2>1, Zenon
    <3>2. h.op = op
      BY <1>1
    <3> HIDE DEF h
    <3>3. /\ r => op = "register"
          /\ ~r /\ s => op = "STLS" /\ h.c = tr.cur
          /\ ~r /\ ~s => op = "error"
      BY <3>1, <3>2 DEF Closure
    <3> QED BY <3>3 DEF h
  <2>4. CASE r
    BY <1>1, <2>1, <2>2, <2>3, <2>4, Zenon
  <2>5. CASE ~r /\ s
    BY <1>1, <2>1, <2>2, <2>3, <2>5, Zenon
  <2>6. CASE ~r /\ ~s
    BY <1>1, <2>1, <2>2, <2>3, <2>6, Zenon
  <2> QED BY <2>4, <2>5, <2>6, Zenon
<1>4. Leaving \/ \E r, s, e \in BOOLEAN : Waiting(r, s, e)
  BY QueueCases DEF IInv
<1>5. CASE \E r, s, e \in BOOLEAN : Waiting(r, s, e)
  <2>1. PICK r, s, e \in BOOLEAN : Waiting(r, s, e)
    BY <1>5
  <2>2. op = "register" => Waiting(TRUE, s, e)
    BY <1>3, <2>1, Zenon
  <2>3. op = "STLS" => Waiting(FALSE, TRUE, e)
    BY <1>3, <2>1, Zenon
  <2>4. op = "error" => Waiting(FALSE, FALSE, TRUE)
    BY <1>3, <2>1, Zenon
  <2> QED BY <1>1, <1>3, <2>1, <2>2, <2>3, <2>4, Zenon
<1> QED BY <1>2, <1>4, <1>5, Zenon

LEMMA EmptyQueue ==
    ASSUME queue' = <<>>, conn'[tr'.cur].started, Ended' => conn'[tr'.cur].error
    PROVE  QueueInv'
<1>1. Waiting(FALSE, FALSE, FALSE)'
  BY LineFacts, Zenon DEF Waiting
<1> QED BY <1>1, Zenon DEF QueueInv, Waiting

LEMMA Destroys ==
    ASSUME IInv, transport_destroy
    PROVE  IInv'
<1> DEFINE y == [pc |-> "lock", c |-> tr.cur, r |-> Nobody, k |-> "destroy"]
<1>1. Runs("error") /\ call' = [call EXCEPT ![Looper] = y] /\ UNCHANGED <<conn, tls, tr, rec, exit>>
  BY DEF transport_destroy, Stop
<1>2. /\ call[Looper] = NoCall /\ exit = "no" /\ ~Ended
      /\ Waiting(FALSE, FALSE, TRUE) /\ queue' = <<>>
  BY <1>1, RunsFacts, Zenon
<1>3. conn[tr.cur].started /\ conn[tr.cur].error
  BY <1>2, Zenon DEF Waiting
<1>4. y \in StopCall /\ Looper \in Threads
  BY CurFacts, ConnFacts DEF StopCall, Conns
<1>5. /\ call' \in [Threads -> StopCall] /\ call'[Looper] = y /\ Locals'
  <2>1. call[Looper].pc = "none"
    BY <1>2 DEF NoCall
  <2> QED BY <1>1, <1>4, <2>1, CallChange, ZenonT(40) DEF Locals
<1>6. Types'
  BY <1>1, <1>5, Zenon DEF IInv, Types
<1>7. OneOwner'
  BY <1>1, <1>2, <1>5, SMTT(30) DEF IInv, OneOwner, Ended, Destroying, Reconnecting
<1>8. QueueInv'
  BY <1>1, <1>2, <1>3, EmptyQueue, Zenon
<1> QED BY <1>5, <1>6, <1>7, <1>8 DEF IInv, Locals

LEMMA Unregisters ==
    ASSUME IInv, fdevent_unregister_transport
    PROVE  IInv'
<1>1. /\ Runs("unregister") /\ tr' = [tr EXCEPT !.list = "none", !.deleted = TRUE]
      /\ UNCHANGED <<call, conn, tls, rec, exit>>
  BY DEF fdevent_unregister_transport
<1>2. ~Ended /\ Leaving /\ queue' = <<>>
  BY <1>1, RunsFacts, Zenon
<1>3. tr' \in Transport /\ tr'.cur = tr.cur /\ tr'.deleted
  BY <1>1, Zenon DEF IInv, Types, Transport
<1>4. Locals'
  BY <1>1, <1>3, SameLocals
<1>5. Types'
  BY <1>1, <1>3, Zenon DEF IInv, Types
<1>6. OneOwner'
  BY <1>1, <1>2, <1>3 DEF IInv, OneOwner, Ended, Destroying, Reconnecting, Leaving
<1>7. QueueInv'
  BY <1>1, <1>2, <1>3, EmptyQueue DEF Leaving
<1> QED BY <1>4, <1>5, <1>6, <1>7, Zenon DEF IInv, Locals

LEMMA NotifyFacts ==
    ASSUME NEW r \in Reconnector
    PROVE  /\ notify(r) \in Reconnector /\ notify(r).pc = r.pc
           /\ notify(r).tracked = r.tracked
  BY Zenon DEF notify, Reconnector

LEMMA Kicks ==
    ASSUME IInv, kick_transport
    PROVE  IInv'
<1>0. call[Looper] = NoCall /\ ~Destroying /\ exit = "no"
  BY ConnFacts, SMTT(30)
     DEF kick_transport, LooperIdle, Calls, IInv, CallInv, Destroying, NoCall
<1>1. CASE tr.list = "transport" /\ ~tr.kicked
  <2> DEFINE y == [pc |-> "lock", c |-> tr.cur, r |-> Nobody, k |-> "kick"]
  <2>1. /\ call' = [call EXCEPT ![Looper] = y] /\ tr' = [tr EXCEPT !.kicked = TRUE]
        /\ UNCHANGED <<queue, conn, tls, rec, exit>>
    BY <1>1 DEF kick_transport, Stop
  <2>2. tr' \in Transport /\ tr'.cur = tr.cur /\ tr'.deleted = tr.deleted
    BY <2>1, Zenon DEF IInv, Types, Transport
  <2>3. y \in StopCall /\ Looper \in Threads
    BY CurFacts, ConnFacts DEF StopCall, Conns
  <2>4. call' \in [Threads -> StopCall] /\ call'[Looper] = y /\ Locals'
    <3>1. call[Looper].pc = "none"
      BY <1>0 DEF NoCall
    <3> QED BY <2>1, <2>2, <2>3, <3>1, CallChange, Zenon DEF Locals
  <2>5. Types'
    BY <2>1, <2>2, <2>4 DEF IInv, Types
  <2>6. OneOwner' /\ (Ended' <=> Ended)
    BY <1>0, <2>1, <2>2, <2>4 DEF IInv, OneOwner, Ended, Destroying, Reconnecting
  <2>7. QueueInv'
    BY <2>1, <2>2, <2>6, QueueKept, Zenon DEF Grows
  <2> QED BY <2>4, <2>5, <2>6, <2>7 DEF IInv, Locals
<1>2. CASE ~(tr.list = "transport" /\ ~tr.kicked)
  <2>1. rec' = notify(rec) /\ UNCHANGED <<queue, call, conn, tls, tr, exit>>
    BY <1>2 DEF kick_transport
  <2>2. rec' \in Reconnector /\ rec'.pc = rec.pc /\ rec'.tracked = rec.tracked
    BY <2>1, NotifyFacts, Zenon DEF IInv, Types
  <2>3. Types'
    BY <2>1, <2>2 DEF IInv, Types
  <2>4. Locals'
    BY <2>1, SameLocals, Zenon
  <2>5. OneOwner' /\ (Ended' <=> Ended)
    BY <2>1, <2>2, OwnerKept, Zenon
  <2>6. QueueInv'
    BY <2>1, <2>5, QueueKept DEF Grows
  <2> QED BY <2>3, <2>4, <2>5, <2>6 DEF IInv, Locals
<1> QED BY <1>1, <1>2

LEMMA TrackFacts ==
    ASSUME NEW r \in Reconnector
    PROVE  TrackTransport(r) \in Reconnector /\ TrackTransport(r).pc = r.pc
<1> DEFINE t == [r EXCEPT !.tracked = TRUE, !.left = MaxAttempts]
<1>0. MaxAttempts \in 0..MaxAttempts
  BY TransportAssumption
<1>1. t \in Reconnector /\ t.pc = r.pc
  BY <1>0, Zenon DEF Reconnector
<1> HIDE DEF t
<1>2. notify(t) \in Reconnector /\ notify(t).pc = r.pc
  BY <1>1, NotifyFacts
<1>3. TrackTransport(r) = r \/ TrackTransport(r) = notify(t)
  BY DEF TrackTransport, t
<1> QED BY <1>2, <1>3

(* Stop returns to the looper.                                              *)
LEMMA LooperReturns ==
    ASSUME IInv, looper_returns
    PROVE  IInv'
<1> DEFINE k == call[Looper].k
<1>0. /\ call[Looper].pc = "return" /\ call[Looper] \in StopCall /\ Looper \in Threads
      /\ CallInv(Looper) /\ k \in {"destroy", "kick", "exit"}
  BY ConnFacts DEF looper_returns, Calls, IInv, Types, CallInv, StopCall
<1>1. call' = [call EXCEPT ![Looper] = NoCall] /\ UNCHANGED <<conn, tls, tr>>
  BY DEF looper_returns
<1>2. NoCall \in StopCall
  BY TransportAssumption DEF NoCall, StopCall, None
<1>3. call' \in [Threads -> StopCall] /\ call'[Looper] = NoCall /\ Locals'
  BY <1>0, <1>1, <1>2, CallChange, Zenon DEF Locals
<1>4. ~Destroying' /\ exit # "join"
  BY <1>0, <1>3 DEF Destroying, NoCall, IInv, OneOwner
<1>5. CASE k = "destroy"
  <2>1. /\ Destroying /\ Ended /\ ~rec.tracked /\ ~Reconnecting /\ ~tr.deleted
        /\ conn[tr.cur].stopped
    BY <1>0, <1>5 DEF IInv, OneOwner, Destroying, Ended
  <2>2. queue = <<>> /\ conn[tr.cur].started /\ conn[tr.cur].error
    BY <2>1, LineFacts, Zenon DEF IInv, QueueInv
  <2>3. CASE tr.kicked
    <3>1. queue' = Append(queue, Closure("unregister", tr.cur)) /\ UNCHANGED <<rec, exit>>
      BY <1>0, <1>5, <2>3, Zenon DEF looper_returns
    <3>2. ~Ended'
      BY <1>1, <1>4, <2>1, <3>1 DEF Ended, Reconnecting
    <3>3. queue' = <<Closure("unregister", tr.cur)>>
      BY <2>2, <3>1
    <3>4. QueueInv'
      BY <1>1, <2>1, <2>2, <3>2, <3>3, Zenon DEF QueueInv
    <3>5. OneOwner'
      BY <1>3, <1>4, <3>1, <3>2, Zenon DEF OneOwner, Ended
    <3>6. Types'
      BY <1>1, <1>3, <3>1, Zenon DEF IInv, Types
    <3> QED BY <1>3, <3>4, <3>5, <3>6, ZenonT(60) DEF IInv, Locals
  <2>4. CASE ~tr.kicked
    <3>1. rec' = TrackTransport(rec) /\ UNCHANGED <<queue, exit>>
      BY <1>0, <1>5, <2>4 DEF looper_returns
    <3>2. rec' \in Reconnector /\ rec'.pc = rec.pc
      BY <3>1, TrackFacts DEF IInv, Types
    <3>3. QueueInv'
      BY <1>1, <2>2, <3>1, EmptyQueue
    <3>4. OneOwner'
      BY <1>1, <1>3, <1>4, <2>1, <3>1, <3>2, ZenonT(40) DEF OneOwner, Reconnecting
    <3>5. Types'
      BY <1>1, <1>3, <3>1, <3>2, Zenon DEF IInv, Types
    <3> QED BY <1>3, <3>3, <3>4, <3>5 DEF IInv, Locals
  <2> QED BY <2>3, <2>4, Zenon
<1>6. CASE k # "destroy"
  <2>1. /\ queue' = queue
        /\ \/ rec' = notify(rec) /\ UNCHANGED exit
           \/ rec' = rec /\ exit' = "done"
    BY <1>0, <1>6, Zenon DEF looper_returns
  <2>2. /\ rec' \in Reconnector /\ rec'.pc = rec.pc /\ rec'.tracked = rec.tracked
        /\ exit' \in {"no", "join", "kick", "done"} /\ exit' # "join"
    BY <1>4, <2>1, NotifyFacts, Zenon DEF IInv, Types
  <2>3. OneOwner' /\ (Ended' <=> Ended)
    BY <1>1, <1>3, <1>4, <1>6, <2>2, Zenon DEF IInv, OneOwner, Ended, Destroying, Reconnecting
  <2>4. QueueInv'
    BY <1>1, <2>1, <2>3, QueueKept DEF Grows
  <2>5. Types'
    BY <1>1, <1>3, <2>2, Zenon DEF IInv, Types
  <2> QED BY <1>3, <2>3, <2>4, <2>5 DEF IInv, Locals
<1> QED BY <1>5, <1>6

LEMMA HandlerStops ==
    ASSUME IInv, ReconnectHandler_Stop
    PROVE  IInv'
<1>0. call[Looper] = NoCall
  BY ConnFacts
     DEF ReconnectHandler_Stop, LooperIdle, Calls, IInv, CallInv
<1>1. /\ rec' = notify([rec EXCEPT !.running = FALSE]) /\ exit' = "join"
      /\ UNCHANGED <<queue, call, conn, tls, tr>>
  BY DEF ReconnectHandler_Stop
<1>2. rec' \in Reconnector /\ rec'.pc = rec.pc /\ rec'.tracked = rec.tracked
  <2> DEFINE t == [rec EXCEPT !.running = FALSE]
  <2>1. t \in Reconnector /\ t.pc = rec.pc /\ t.tracked = rec.tracked
    BY Zenon DEF IInv, Types, Reconnector
  <2> HIDE DEF t
  <2> QED BY <1>1, <2>1, NotifyFacts, Zenon DEF t
<1>3. Types'
  BY <1>1, <1>2 DEF IInv, Types
<1>4. Locals'
  BY <1>1, SameLocals
<1>5. OneOwner' /\ (Ended' <=> Ended)
  BY <1>0, <1>1, <1>2, OwnerKept
<1>6. QueueInv'
  BY <1>1, <1>5, QueueKept DEF Grows
<1> QED BY <1>3, <1>4, <1>5, <1>6 DEF IInv, Locals

-----------------------------------------------------------------------------
(* The ReconnectHandler, and the end of the server.                         *)
LEMMA OwnedFacts ==
    ASSUME IInv, rec.tracked \/ Reconnecting
    PROVE  /\ queue = <<>> /\ ~Destroying /\ ~tr.deleted
           /\ rec.tracked => ~Reconnecting
           /\ conn[tr.cur].started /\ conn[tr.cur].stopped /\ conn[tr.cur].error
<1>1. Ended /\ ~Destroying /\ ~tr.deleted /\ conn[tr.cur].stopped
      /\ (rec.tracked => ~Reconnecting)
  BY DEF IInv, OneOwner, Ended
<1>2. queue = <<>> /\ conn[tr.cur].started /\ conn[tr.cur].error
  BY <1>1, LineFacts, Zenon DEF IInv, QueueInv
<1> QED BY <1>1, <1>2

LEMMA GivesUp ==
    ASSUME IInv, rec.tracked \/ Reconnecting, conn' = conn, tr'.cur = tr.cur, ~Ended',
           queue' = Append(queue, Closure("unregister", tr.cur))
    PROVE  QueueInv'
<1>1. queue' = <<Closure("unregister", tr.cur)>>
  <2>1. queue' = Append(<<>>, Closure("unregister", tr.cur))
    BY OwnedFacts, Zenon
  <2>2. \A x : Append(<<>>, x) = <<x>>
    OBVIOUS
  <2> QED BY <2>1, <2>2, Zenon
<1> QED BY <1>1, OwnedFacts, Zenon DEF QueueInv

LEMMA KicksAll ==
    ASSUME IInv, kick_all_transports
    PROVE  IInv'
<1> DEFINE y == [pc |-> "lock", c |-> tr.cur, r |-> Nobody, k |-> "exit"]
<1>0. call[Looper] = NoCall /\ ~Destroying /\ ~Reconnecting /\ Looper \in Threads
  BY ConnFacts
     DEF kick_all_transports, IInv, OneOwner, Destroying, Reconnecting, NoCall
<1>1. /\ rec' = [rec EXCEPT !.tracked = FALSE] /\ UNCHANGED <<conn, tls>>
      /\ queue' = IF rec.tracked THEN Append(queue, Closure("unregister", tr.cur)) ELSE queue
      /\ \/ /\ call' = [call EXCEPT ![Looper] = y] /\ exit' = "kick"
            /\ tr' = [tr EXCEPT !.kicked = TRUE]
         \/ exit' = "done" /\ UNCHANGED <<call, tr>>
  BY DEF kick_all_transports, Stop
<1>2. /\ rec' \in Reconnector /\ rec'.pc = rec.pc /\ ~rec'.tracked
      /\ exit' \in {"kick", "done"}
      /\ tr' \in Transport /\ tr'.cur = tr.cur /\ tr'.deleted = tr.deleted
  BY <1>1, Zenon DEF IInv, Types, Reconnector, Transport
<1>3. y \in StopCall /\ call[Looper].pc = "none"
  BY <1>0, CurFacts, ConnFacts DEF StopCall, Conns, NoCall
<1>4. call' \in [Threads -> StopCall] /\ Locals' /\ ~Destroying'
  <2>1. CASE call' = [call EXCEPT ![Looper] = y]
    <3>1. call' \in [Threads -> StopCall] /\ Locals' /\ call'[Looper] = y
      BY <1>0, <1>1, <1>2, <1>3, <2>1, CallChange, Zenon DEF Locals
    <3> QED BY <3>1 DEF Destroying
  <2>2. CASE call' = call
    BY <1>0, <1>1, <1>2, <2>2, SameLocals DEF IInv, Types, Destroying
  <2> QED BY <1>1, <2>1, <2>2
<1>5. Types'
  BY <1>1, <1>2, <1>4 DEF IInv, Types
<1>6. OneOwner'
  BY <1>0, <1>1, <1>2, <1>4 DEF IInv, OneOwner, Destroying, Reconnecting
<1>7. QueueInv'
  <2>1. CASE rec.tracked
    <3>1. ~Ended'
      BY <1>0, <1>2, <1>4, <2>1, OwnedFacts DEF Ended, Reconnecting
    <3> QED BY <1>1, <1>2, <2>1, <3>1, GivesUp
  <2>2. CASE ~rec.tracked
    <3>1. Ended' => Ended
      BY <1>0, <1>2, <1>4 DEF Ended, Reconnecting
    <3> QED BY <1>1, <1>2, <2>2, <3>1, QueueKept DEF Grows
  <2> QED BY <2>1, <2>2
<1> QED BY <1>4, <1>5, <1>6, <1>7 DEF IInv, Locals

(* A step of the handler that changes only its own state, or gives the      *)
(* transport up.                                                            *)
LEMMA HandlerStep ==
    ASSUME IInv, UNCHANGED <<call, conn, tls, tr, exit>>, rec' \in Reconnector,
           ~(rec'.tracked /\ rec'.pc = "reconnecting"),
           \/ /\ queue' = queue
              /\ rec'.tracked \/ rec'.pc = "reconnecting" => rec.tracked \/ Reconnecting
           \/ /\ queue' = Append(queue, Closure("unregister", tr.cur))
              /\ rec.tracked \/ Reconnecting
              /\ ~rec'.tracked /\ rec'.pc # "reconnecting"
    PROVE  IInv'
<1>1. Types'
  BY DEF IInv, Types
<1>2. Locals'
  BY SameLocals, Zenon
<1>3. OneOwner'
  BY OwnedFacts DEF IInv, OneOwner, Destroying, Reconnecting
<1>4. CASE queue' = queue /\ (rec'.tracked \/ rec'.pc = "reconnecting" => rec.tracked \/ Reconnecting)
  <2>1. Ended' => Ended
    BY <1>4 DEF Ended, Destroying, Reconnecting
  <2>2. QueueInv'
    BY <1>4, <2>1, QueueKept, Zenon DEF Grows
  <2> QED BY <1>1, <1>2, <1>3, <2>2, Zenon DEF IInv, Locals
<1>5. CASE /\ queue' = Append(queue, Closure("unregister", tr.cur))
           /\ rec.tracked \/ Reconnecting
           /\ ~rec'.tracked /\ rec'.pc # "reconnecting"
  <2>1. ~Ended'
    BY <1>5, OwnedFacts DEF Ended, Destroying, Reconnecting
  <2>2. QueueInv'
    BY <1>5, <2>1, GivesUp
  <2> QED BY <1>1, <1>2, <1>3, <2>2 DEF IInv, Locals
<1> QED BY <1>4, <1>5

LEMMA HandlerRuns ==
    ASSUME IInv, \/ run_waits \/ (\E due \in BOOLEAN : run_wakes(due))
                 \/ reconnect_retry \/ reconnect_abort
    PROVE  IInv'
<1>0. rec \in Reconnector
  BY DEF IInv, Types
<1>1. CASE run_waits
  <2>1. /\ rec' \in Reconnector /\ rec'.pc = "waiting" /\ rec'.tracked = rec.tracked
        /\ UNCHANGED <<queue, call, conn, tls, tr, exit>>
    BY <1>0, <1>1, Zenon DEF run_waits, Reconnector
  <2> QED BY <2>1, HandlerStep
<1>2. ASSUME NEW due \in BOOLEAN, run_wakes(due)
      PROVE  IInv'
  <2> DEFINE w == [rec EXCEPT !.pc = "top", !.timed = FALSE, !.notified = FALSE]
  <2>1. w \in Reconnector /\ w.pc = "top" /\ w.tracked = rec.tracked
    BY <1>0, Zenon DEF Reconnector
  <2>2. UNCHANGED <<call, conn, tls, tr, exit>>
    BY <1>2 DEF run_wakes
  <2>3. CASE rec.running /\ rec.tracked /\ tr.kicked
    <3>1. /\ rec' = [w EXCEPT !.tracked = FALSE, !.left = 0]
          /\ queue' = Append(queue, Closure("unregister", tr.cur))
      BY <1>2, <2>3 DEF run_wakes
    <3> HIDE DEF w
    <3>2. 0 \in 0..MaxAttempts
      BY TransportAssumption
    <3>3. rec' \in Reconnector /\ rec'.pc = "top" /\ ~rec'.tracked
      BY <2>1, <3>1, <3>2, Zenon DEF Reconnector
    <3> QED BY <2>2, <2>3, <3>1, <3>3, HandlerStep
  <2>4. CASE ~(rec.running /\ rec.tracked /\ tr.kicked)
    <3>1. /\ \/ rec' = [w EXCEPT !.pc = "exited"]
             \/ rec' = w
             \/ rec' = [w EXCEPT !.pc = "reconnecting", !.tracked = FALSE] /\ rec.tracked
          /\ queue' = queue
      BY <1>2, <2>4 DEF run_wakes
    <3> HIDE DEF w
    <3>2. /\ rec' \in Reconnector
          /\ \/ rec'.pc # "reconnecting" /\ rec'.tracked = rec.tracked
             \/ rec'.pc = "reconnecting" /\ ~rec'.tracked /\ rec.tracked
      BY <2>1, <3>1, Zenon DEF Reconnector
    <3> QED BY <2>2, <3>1, <3>2, HandlerStep
  <2> QED BY <2>3, <2>4
<1>3. CASE reconnect_retry
  <2>0. Reconnecting /\ rec.left \in 0..MaxAttempts /\ UNCHANGED <<call, conn, tls, tr, exit>>
    BY <1>0, <1>3 DEF reconnect_retry, Reconnecting, Reconnector
  <2>1. ~rec.tracked
    BY <2>0, OwnedFacts
  <2>2. CASE rec.left = 0
    <3>1. /\ rec' = [rec EXCEPT !.pc = "top", !.left = 0]
          /\ queue' = Append(queue, Closure("unregister", tr.cur))
      BY <1>3, <2>2 DEF reconnect_retry
    <3>2. rec' \in Reconnector /\ rec'.pc = "top" /\ ~rec'.tracked
      BY <1>0, <2>0, <2>1, <2>2, <3>1, Zenon DEF Reconnector
    <3> QED BY <2>0, <3>1, <3>2, HandlerStep
  <2>3. CASE rec.left # 0
    <3>1. /\ rec' = [rec EXCEPT !.pc = "top", !.tracked = TRUE, !.left = @ - 1]
          /\ queue' = queue
      BY <1>3, <2>3 DEF reconnect_retry
    <3>2. rec.left - 1 \in 0..MaxAttempts
      BY <2>0, <2>3, TransportAssumption
    <3>3. rec' \in Reconnector /\ rec'.pc = "top"
      BY <1>0, <3>1, <3>2, Zenon DEF Reconnector
    <3> QED BY <2>0, <3>1, <3>3, HandlerStep
  <2> QED BY <2>2, <2>3
<1>4. CASE reconnect_abort
  <2>1. /\ Reconnecting /\ UNCHANGED <<call, conn, tls, tr, exit>>
        /\ rec' = [rec EXCEPT !.pc = "top", !.left = 0]
        /\ queue' = Append(queue, Closure("unregister", tr.cur))
    BY <1>4 DEF reconnect_abort, Reconnecting
  <2>2. ~rec.tracked /\ 0 \in 0..MaxAttempts
    BY <2>1, OwnedFacts, TransportAssumption
  <2>3. rec' \in Reconnector /\ rec'.pc = "top" /\ ~rec'.tracked
    BY <1>0, <2>1, <2>2, Zenon DEF Reconnector
  <2> QED BY <2>1, <2>3, HandlerStep
<1> QED BY <1>1, <1>2, <1>3, <1>4, Zenon

(* A new connection takes the place of the one that has failed.             *)
LEMMA Reconnects ==
    ASSUME IInv, reconnect_success
    PROVE  IInv'
<1> PICK c : c = tr.cur
  OBVIOUS
<1> DEFINE x == conn[c]
<1>0. c \in Conns /\ c + 1 \in Conns /\ c \in Nat /\ x \in Adapter /\ AdapterInv(x)
  BY CurFacts, TransportAssumption DEF reconnect_success, IInv, Conns
<1>1. /\ tr' = [tr EXCEPT !.cur = @ + 1]
      /\ conn' = IF Held(c) THEN conn ELSE [conn EXCEPT ![c] = Destroyed(@)]
      /\ queue' = Append(queue, Closure("register", c + 1))
      /\ rec' = [rec EXCEPT !.pc = "top", !.left = 0] /\ Reconnecting
      /\ UNCHANGED <<call, tls, exit>>
  BY DEF reconnect_success, Reconnecting
<1>2. /\ queue = <<>> /\ ~Destroying /\ ~tr.deleted /\ ~rec.tracked
      /\ x.started /\ x.stopped /\ x.error
  BY <1>1, OwnedFacts
<1>3. /\ tr' \in Transport /\ tr'.cur = c + 1 /\ tr'.deleted = tr.deleted
      /\ rec' \in Reconnector /\ rec'.pc = "top" /\ rec'.tracked = rec.tracked
  <2>1. 0 \in 0..MaxAttempts
    BY TransportAssumption
  <2> QED BY <1>0, <1>1, <2>1, Zenon DEF IInv, Types, Transport, Reconnector
<1> DEFINE a == Destroyed(x)
<1>4. /\ a \in Adapter /\ a.started = x.started /\ a.stopped = x.stopped /\ a.closed
      /\ a.error /\ a.mutex = None /\ a.read_thread = x.read_thread
      /\ a.write_thread = x.write_thread /\ a.stray = x.stray /\ a.fatal = x.fatal
  <2>1. None \in 0..MaxConn
    BY TransportAssumption DEF None
  <2> DEFINE f == [i \in Readers |-> "none"]
             q == <<>>
  <2>2. f \in [Readers -> {"none", "reading", "leaving", "done"}] /\ q \in Seq({"CNXN", "STLS"})
    OBVIOUS
  <2> DEFINE b == [x EXCEPT !.closed = TRUE, !.peer = FALSE, !.error = TRUE, !.mutex = None]
  <2>3. a = [b EXCEPT !.reader = f, !.writer = "none", !.write_queue = q,
                      !.sent = FALSE, !.got = FALSE]
    BY DEF Destroyed
  <2>4. b \in Adapter
    BY <1>0, <2>1, ZenonT(40) DEF Adapter
  <2>5. /\ b.started = x.started /\ b.stopped = x.stopped /\ b.closed
        /\ b.error /\ b.mutex = None /\ b.read_thread = x.read_thread
        /\ b.write_thread = x.write_thread /\ b.stray = x.stray /\ b.fatal = x.fatal
    BY <1>0 DEF Adapter
  <2> HIDE DEF a, b, f, q
  <2>6. a \in Adapter
    BY <2>2, <2>3, <2>4, Zenon DEF Adapter
  <2>7. /\ a.started = b.started /\ a.stopped = b.stopped /\ a.closed = b.closed
        /\ a.error = b.error /\ a.mutex = b.mutex /\ a.read_thread = b.read_thread
        /\ a.write_thread = b.write_thread /\ a.stray = b.stray /\ a.fatal = b.fatal
    BY <2>3, <2>4 DEF Adapter
  <2> QED BY <2>5, <2>6, <2>7
<1>5. /\ conn' \in [Conns -> Adapter]
      /\ \A d \in Conns : d # c => conn'[d] = conn[d]
      /\ conn'[c] = x \/ (conn'[c] = a /\ ~Held(c))
  BY <1>0, <1>1, <1>4, Zenon DEF IInv, Types
<1> HIDE DEF a
<1>6. AdapterInv(a)
  BY <1>0, <1>2, <1>4 DEF AdapterInv
<1>7. \A d \in Conns : AdapterInv(conn'[d])
  BY <1>5, <1>6 DEF IInv
<1>8. ASSUME NEW d \in Conns
      PROVE  JoinInv(d)'
  <2>1. Stopping(d)' <=> Stopping(d)
    BY <1>1 DEF Stopping
  <2>2. CASE conn'[d] = conn[d]
    BY <2>1, <2>2, JoinKept
  <2>3. CASE conn'[d] # conn[d]
    <3>1. d = c /\ conn'[c] = a
      BY <1>5, <2>3
    <3>2. JoinInv(d)
      BY DEF IInv
    <3> QED BY <1>4, <2>1, <3>1, <3>2 DEF JoinInv
  <2> QED BY <2>2, <2>3
<1>9. ASSUME NEW d \in Conns
      PROVE  OrderInv(d)'
  <2>1. OrderInv(d)
    BY DEF IInv
  <2>2. CASE d = c
    <3>1. conn'[d].started /\ conn'[d].stopped /\ conn'[d].error
      BY <1>2, <1>4, <1>5, <2>2, Zenon
    <3>2. ~(c > c + 1)
      BY <1>0
    <3> QED BY <1>3, <2>2, <3>1, <3>2 DEF OrderInv
  <2>3. CASE d # c
    <3>1. d \in Int /\ (d < c + 1 => d < c) /\ (d > c + 1 => d > c)
      BY <1>0, <2>3, SMTT(30) DEF Conns
    <3> QED BY <1>1, <1>3, <1>5, <2>1, <2>3, <3>1 DEF OrderInv
  <2> QED BY <2>2, <2>3
<1>10. ASSUME NEW i \in Conns
       PROVE  TlsInv(i)'
  <2>1. TlsInv(i) /\ OrderInv(i)
    BY DEF IInv
  <2>2. tls[i].pc \in {"locked", "shaking"} =>
          /\ tls[i].c \in Conns /\ tls[i].c \in 1..(c + 1)
          /\ conn'[tls[i].c] = conn[tls[i].c]
    <3>1. tls[i].pc \in {"locked", "shaking"} => tls[i].c \in Conns /\ tls[i].c \in 1..(c + 1)
      <4>1. \A n \in 1..c : n \in Conns /\ n \in 1..(c + 1)
        BY <1>0, TransportAssumption DEF Conns
      <4> QED BY <2>1, <4>1 DEF TlsInv
    <3>2. (tls[i].pc \in {"locked", "shaking"} /\ tls[i].c = c) => Held(c)
      BY DEF Held
    <3> QED BY <1>5, <3>1, <3>2
  <2>3. i = c + 1 => tls[i].pc = "none"
    BY <1>0, <2>1, SMTT(30) DEF OrderInv
  <2> QED BY <1>1, <1>3, <2>1, <2>2, <2>3 DEF TlsInv
<1>11. ASSUME NEW th \in Threads
       PROVE  CallInv(th)'
  <2>1. CallInv(th)
    BY DEF IInv
  <2>2. call[th].pc # "none" => call[th].c \in Conns /\ call[th].c \in 1..(c + 1)
    <3>1. \A n \in 1..c : n \in Conns /\ n \in 1..(c + 1)
      BY <1>0, TransportAssumption DEF Conns
    <3> QED BY <2>1, <3>1 DEF CallInv
  <2>3. \A d \in Conns : /\ conn[d].started => conn'[d].started
                         /\ conn[d].stopped => conn'[d].stopped
                         /\ conn[d].closed => conn'[d].closed
    BY <1>4, <1>5
  <2> QED BY <1>1, <1>3, <2>1, <2>2, <2>3 DEF CallInv
<1>12. ~Ended'
  BY <1>1, <1>2, <1>3 DEF Ended, Destroying, Reconnecting
<1>13. QueueInv'
  <2>1. conn'[c + 1] = NewAdapter
    BY <1>0, <1>5 DEF IInv, OrderInv
  <2>2. queue' = <<Closure("register", c + 1)>>
    <3>1. queue' = Append(<<>>, Closure("register", c + 1))
      BY <1>1, <1>2
    <3>2. \A z : Append(<<>>, z) = <<z>>
      OBVIOUS
    <3> QED BY <3>1, <3>2, Zenon
  <2>3. queue' = Line(tr'.cur, TRUE, FALSE, FALSE)
    BY <1>3, <2>2 DEF Line
  <2>4. Waiting(TRUE, FALSE, FALSE)'
    BY <1>3, <1>12, <2>1, <2>3, NewFields DEF Waiting
  <2> QED BY <2>4, Zenon DEF QueueInv, Waiting
<1>14. OneOwner'
  BY <1>1, <1>12 DEF IInv, OneOwner, Ended
<1>15. Types'
  BY <1>1, <1>3, <1>5, Zenon DEF IInv, Types
<1> QED BY <1>7, <1>8, <1>9, <1>10, <1>11, <1>13, <1>14, <1>15 DEF IInv

-----------------------------------------------------------------------------
(* A connection is started, and the handshake of TLS.                       *)

(* One adapter changes, and what a TLS thread is doing.                     *)
LEMMA ConnStep ==
    ASSUME IInv, NEW c \in Conns, c <= tr.cur, NEW a \in Adapter,
           conn' = [conn EXCEPT ![c] = a], UNCHANGED <<call, rec, exit>>,
           tr' \in Transport, tr'.cur = tr.cur, tr'.deleted = tr.deleted,
           tls' \in [Conns -> TlsThread],
           \A d \in Conns : d > tr.cur => tls'[d] = tls[d],
           Grows(conn[c], a), AdapterInv(a), JoinInv(c)',
           \A i \in Conns : TlsInv(i)',
           QueueInv' \/ (/\ queue' = queue /\ a.started = conn[c].started
                         /\ tls[tr.cur].pc = "none" => tls'[tr.cur].pc = "none")
    PROVE  IInv'
<1>0. tr.cur \in Conns
  BY CurFacts
<1>1. /\ conn' \in [Conns -> Adapter]
      /\ conn'[c] = a
      /\ \A d \in Conns : d # c => conn'[d] = conn[d]
      /\ \A d \in Conns : Grows(conn[d], conn'[d]) /\ AdapterInv(conn'[d])
      /\ \A d \in Conns : OrderInv(d)'
  BY AdapterChange, Zenon
<1>2. Types'
  BY <1>1 DEF IInv, Types
<1>3. ASSUME NEW d \in Conns
      PROVE  JoinInv(d)'
  <2>1. Stopping(d)' <=> Stopping(d)
    BY DEF Stopping
  <2> QED BY <1>1, <2>1, JoinKept
<1>4. \A th \in Threads : CallInv(th)'
  BY <1>1, CallsKept, Zenon
<1>5. OneOwner' /\ (Ended' <=> Ended)
  BY <1>0, <1>1, OwnerKept DEF Grows
<1>6. QueueInv'
  BY <1>0, <1>1, <1>5, QueueKept
<1> QED BY <1>1, <1>2, <1>3, <1>4, <1>5, <1>6, Zenon DEF IInv

LEMMA Registers ==
    ASSUME IInv, fdevent_register_transport
    PROVE  IInv'
<1> PICK c : c = tr.cur
  OBVIOUS
<1> DEFINE x == conn[c]
           b == StartReadThread(x, Looper)
           z == [b EXCEPT !.started = TRUE, !.writer = "waiting", !.write_thread = TRUE]
           a == [z EXCEPT !.write_queue = Append(@, "CNXN")]
<1>0. c \in Conns /\ c <= tr.cur /\ x \in Adapter /\ AdapterInv(x) /\ Looper \in Readers
  BY CurFacts, ConnFacts DEF IInv
<1>1. /\ Runs("register") /\ x.mutex = None
      /\ conn' = [conn EXCEPT ![c] = a]
      /\ tr' = [tr EXCEPT !.list = "transport"] /\ UNCHANGED <<call, tls, rec, exit>>
  BY DEF fdevent_register_transport, Start, Write, Free
<1>2. PICK s, e \in BOOLEAN : Waiting(TRUE, s, e) /\ queue' = Line(tr.cur, FALSE, s, e)
  BY <1>1, RunsFacts, Zenon
<1>3. ~Ended /\ ~x.started /\ ~x.stopped
  BY <1>0, <1>1, <1>2, RunsFacts DEF Waiting, AdapterInv
<1>4. tr' \in Transport /\ tr'.cur = tr.cur /\ tr'.deleted = tr.deleted
  BY <1>1 DEF IInv, Types, Transport
<1>5. /\ b \in Adapter /\ b.got = x.got /\ b.stopped = x.stopped /\ b.closed = x.closed
      /\ b.error = x.error /\ b.mutex = x.mutex /\ b.read_thread = Looper
      /\ b.stray = x.stray /\ b.peer = x.peer
      /\ b.fatal = (x.fatal \/ x.read_thread # Nobody)
      /\ b.reader = [x.reader EXCEPT ![Looper] = "reading"]
  BY <1>0, ZenonT(40) DEF StartReadThread, Adapter
<1> HIDE DEF b
<1>6. /\ z \in Adapter /\ z.got = b.got /\ z.stopped = b.stopped /\ z.closed = b.closed
      /\ z.error = b.error /\ z.mutex = b.mutex /\ z.read_thread = b.read_thread
      /\ z.stray = b.stray /\ z.peer = b.peer /\ z.fatal = b.fatal
      /\ z.reader = b.reader /\ z.started
  BY <1>5, Zenon DEF Adapter
<1> HIDE DEF z
<1>7. /\ a \in Adapter /\ a.got = z.got /\ a.stopped = z.stopped /\ a.closed = z.closed
      /\ a.error = z.error /\ a.mutex = z.mutex /\ a.read_thread = z.read_thread
      /\ a.stray = z.stray /\ a.peer = z.peer /\ a.fatal = z.fatal
      /\ a.reader = z.reader /\ a.started
  <2> DEFINE w == Append(z.write_queue, "CNXN")
  <2>1. w \in Seq({"CNXN", "STLS"}) /\ a = [z EXCEPT !.write_queue = w]
    BY <1>6 DEF Adapter
  <2> HIDE DEF w, a
  <2> QED BY <1>6, <2>1 DEF Adapter
<1>8. conn'[c] = a /\ \A d \in Conns : d # c => conn'[d] = conn[d]
  BY <1>0, <1>1, ZenonT(40) DEF IInv, Types
<1> HIDE DEF a
<1>9. Grows(x, a)
  BY <1>3, <1>5, <1>6, <1>7 DEF Grows
<1>10. AdapterInv(a)
  <2>1. CASE x.stray
    BY <1>0, <1>5, <1>6, <1>7, <2>1, ZenonT(40) DEF AdapterInv
  <2>2. CASE ~x.stray
    <3>1. x = NewAdapter
      BY <1>0, <1>3, <2>2 DEF AdapterInv
    <3>2. ~a.fatal /\ ~a.stopped
      BY <1>3, <1>5, <1>6, <1>7, <3>1, NewFields, Zenon
    <3>3. \A i \in Readers : Active(a, i) => a.read_thread = i
      <4>1. a.reader = [x.reader EXCEPT ![Looper] = "reading"] /\ a.read_thread = Looper
        BY <1>5, <1>6, <1>7, Zenon
      <4>2. \A i \in Readers : x.reader[i] = "none"
        BY <3>1, NewFields, Zenon
      <4>3. x.reader \in [Readers -> {"none", "reading", "leaving", "done"}]
        BY <1>0, Zenon DEF Adapter
      <4>4. \A i \in Readers : i # Looper => a.reader[i] = "none"
        BY <4>1, <4>2, <4>3, Zenon
      <4> QED BY <4>1, <4>4 DEF Active
    <3> QED BY <1>0, <1>5, <1>6, <1>7, <3>2, <3>3 DEF AdapterInv
  <2> QED BY <2>1, <2>2, Zenon
<1>11. JoinInv(c)'
  BY <1>3, <1>5, <1>6, <1>7, <1>8, Zenon DEF JoinInv
<1>12. ASSUME NEW i \in Conns
       PROVE  TlsInv(i)'
  <2>1. TlsInv(i) /\ i # None
    BY ConnFacts DEF IInv
  <2>2. tls[i].pc \in {"locked", "shaking"} => tls[i].c # c /\ tls[i].c \in Conns
    BY <1>1, <2>1, CurFacts, SMTT(30) DEF TlsInv, Conns
  <2>3. conn[i].got => conn'[i].got
    BY <1>5, <1>6, <1>7, <1>8
  <2> QED BY <1>1, <1>4, <1>8, <2>1, <2>2, <2>3 DEF TlsInv
<1>13. QueueInv'
  <2>1. Waiting(FALSE, s, e)'
    <3>1. Ended' <=> Ended
      BY <1>1, <1>4 DEF Ended, Destroying, Reconnecting
    <3>2. a.got = x.got /\ a.error = x.error
      BY <1>5, <1>6, <1>7
    <3> QED BY <1>1, <1>2, <1>3, <1>4, <1>7, <1>8, <3>1, <3>2 DEF Waiting
  <2> QED BY <2>1, Zenon DEF QueueInv, Waiting
<1>14. tls' \in [Conns -> TlsThread]
  BY <1>1, Zenon DEF IInv, Types
<1> QED BY <1>0, <1>1, <1>4, <1>7, <1>9, <1>10, <1>11, <1>12, <1>13, <1>14, ConnStep, Zenon

LEMMA PacketStls ==
    ASSUME IInv, packet_stls
    PROVE  IInv'
<1> PICK c : c = tr.cur
  OBVIOUS
<1> DEFINE x == conn[c]
           w == Append(x.write_queue, "STLS")
           a == [x EXCEPT !.write_queue = w]
           t == [tls[c] EXCEPT !.pc = "start"]
<1>0. c \in Conns /\ c <= tr.cur /\ x \in Adapter /\ AdapterInv(x) /\ tls[c] \in TlsThread
  BY CurFacts DEF IInv, Types
<1>1. Runs("STLS") /\ UNCHANGED <<call, tr, rec, exit>>
  BY DEF packet_stls
<1>2. PICK e \in BOOLEAN : Waiting(FALSE, TRUE, e) /\ queue' = Line(tr.cur, FALSE, FALSE, e)
  BY <1>1, RunsFacts, Zenon
<1>3. /\ Head(queue).c = c /\ ~Ended /\ x.started /\ x.got /\ tls[c].pc = "none"
  BY <1>1, <1>2, RunsFacts, Zenon DEF Waiting
<1>4. conn' = [conn EXCEPT ![c] = a] /\ tls' = [tls EXCEPT ![c] = t]
  BY <1>3, Zenon DEF packet_stls, Write
<1>5. w \in Seq({"CNXN", "STLS"})
  BY <1>0 DEF Adapter
<1> HIDE DEF w
<1>6. /\ a \in Adapter /\ a.got = x.got
      /\ a.started = x.started /\ a.stopped = x.stopped /\ a.closed = x.closed
      /\ a.error = x.error /\ a.mutex = x.mutex /\ a.read_thread = x.read_thread
      /\ a.write_thread = x.write_thread /\ a.stray = x.stray /\ a.fatal = x.fatal
      /\ a.peer = x.peer /\ a.reader = x.reader
  BY <1>0, <1>5 DEF Adapter
<1>7. t \in TlsThread /\ t.pc = "start"
  BY <1>0 DEF TlsThread
<1>8. /\ conn'[c] = a /\ \A d \in Conns : d # c => conn'[d] = conn[d]
      /\ tls' \in [Conns -> TlsThread] /\ tls'[c] = t
      /\ \A d \in Conns : d # c => tls'[d] = tls[d]
  BY <1>0, <1>4, <1>7, Zenon DEF IInv, Types
<1> HIDE DEF a, t
<1>9. Grows(x, a) /\ SameThreads(x, a) /\ AdapterInv(a)
  BY <1>0, <1>3, <1>6, SameAdapter, Zenon DEF Grows, SameThreads, AdapterInv, Active
<1>10. JoinInv(c)'
  <2>1. Stopping(c)' <=> Stopping(c)
    BY <1>1 DEF Stopping
  <2> QED BY <1>0, <1>8, <1>9, <2>1, JoinKept, Zenon
<1>11. ASSUME NEW i \in Conns
       PROVE  TlsInv(i)'
  <2>1. TlsInv(i)
    BY Zenon DEF IInv
  <2>2. CASE i = c
    BY <1>1, <1>3, <1>6, <1>7, <1>8, <2>1, <2>2, Zenon DEF TlsInv
  <2>3. CASE i # c
    <3>1. tls'[i] = tls[i] /\ call'[i] = call[i]
      BY <1>1, <1>8, <2>3, Zenon
    <3>2. \A d \in Conns : SameThreads(conn[d], conn'[d]) /\ (conn[d].got => conn'[d].got)
      BY <1>6, <1>8, <1>9 DEF SameThreads
    <3> QED BY <1>1, <3>1, <3>2, TlsKept DEF SameThreads
  <2> QED BY <2>2, <2>3
<1>12. QueueInv'
  <2>1. Ended' <=> Ended
    BY <1>1 DEF Ended, Destroying, Reconnecting
  <2>2. Waiting(FALSE, FALSE, e)'
    BY <1>1, <1>2, <1>3, <1>6, <1>8, <2>1, ZenonT(40) DEF Waiting
  <2> QED BY <2>2, Zenon DEF QueueInv, Waiting
<1>13. tr' \in Transport /\ \A d \in Conns : d > tr.cur => tls'[d] = tls[d]
  BY <1>1, <1>8, CurFacts DEF IInv, Types
<1> QED BY <1>0, <1>1, <1>4, <1>6, <1>8, <1>9, <1>10, <1>11, <1>12, <1>13, ConnStep, Zenon

(* DoTlsHandshake, by thread i.                                             *)
LEMMA TlsLock ==
    ASSUME IInv, NEW i \in Conns, tls_lock(i)
    PROVE  IInv'
<1> PICK c : c = tr.cur
  OBVIOUS
<1> DEFINE x == conn[c]
           a == [x EXCEPT !.mutex = i, !.stray = @ \/ x.stopped \/ c # i]
           t == [pc |-> "locked", c |-> c]
<1>0. /\ c \in Conns /\ c \in 1..tr.cur /\ x \in Adapter /\ AdapterInv(x)
      /\ i \in 0..MaxConn /\ c \in 0..MaxConn /\ TlsInv(i) /\ i # None
  BY CurFacts, ConnFacts DEF IInv, Conns
<1>1. /\ tls[i].pc = "start" /\ x.mutex = None
      /\ conn' = [conn EXCEPT ![c] = a] /\ tls' = [tls EXCEPT ![i] = t]
      /\ UNCHANGED <<queue, call, tr, rec, exit>>
  BY Zenon DEF tls_lock, Free
<1>2. i <= tr.cur
  BY <1>0, <1>1, CurFacts DEF IInv, OrderInv
<1>3. /\ a \in Adapter /\ a.got = x.got
      /\ a.started = x.started /\ a.stopped = x.stopped /\ a.closed = x.closed
      /\ a.error = x.error /\ a.mutex = i /\ a.read_thread = x.read_thread
      /\ a.write_thread = x.write_thread /\ a.fatal = x.fatal
      /\ a.peer = x.peer /\ a.reader = x.reader
      /\ a.stray = (x.stray \/ x.stopped \/ c # i)
  BY <1>0, Zenon DEF Adapter
<1>4. t \in TlsThread /\ t.pc = "locked" /\ t.c = c
  BY <1>0 DEF TlsThread
<1>5. /\ conn'[c] = a /\ \A d \in Conns : d # c => conn'[d] = conn[d]
      /\ tls' \in [Conns -> TlsThread] /\ tls'[i] = t
      /\ \A d \in Conns : d # i => tls'[d] = tls[d]
  BY <1>0, <1>1, <1>4, Zenon DEF IInv, Types
<1> HIDE DEF a, t
<1>6. Grows(x, a)
  BY <1>3, Zenon DEF Grows
<1>7. AdapterInv(a)
  <2>1. ~a.stray => ~x.stray /\ ~x.stopped /\ x.got
    BY <1>0, <1>1, <1>3, Zenon DEF TlsInv
  <2>2. ~a.stray => a.started
    BY <1>0, <1>3, <2>1, NewFields DEF AdapterInv
  <2> QED BY <1>0, <1>3, <2>1, <2>2, Zenon DEF AdapterInv, Active
<1>8. JoinInv(c)'
  BY <1>3, <1>5, Zenon DEF JoinInv
<1>9. ASSUME NEW j \in Conns
      PROVE  TlsInv(j)'
  <2>1. TlsInv(j) /\ j # None
    BY ConnFacts DEF IInv
  <2>2. CASE j = i
    <3>1. /\ tls'[j].pc = "locked" /\ tls'[j].c = c /\ call'[j].pc = "none"
          /\ conn'[c].mutex = j
      BY <1>1, <1>3, <1>4, <1>5, <2>1, <2>2, ZenonT(40) DEF TlsInv
    <3>2. j = tr.cur => conn'[j].got
      <4>1. j = tr.cur => conn[j].got /\ j = c
        BY <1>1, <2>1, <2>2, Zenon DEF TlsInv
      <4>2. conn'[c] = a /\ a.got = x.got
        BY <1>3, <1>5, Zenon
      <4> QED BY <4>1, <4>2, Zenon
    <3> QED BY <1>0, <1>1, <3>1, <3>2, Zenon DEF TlsInv
  <2>3. CASE j # i
    <3>1. tls[j].pc \in {"locked", "shaking"} => tls[j].c \in Conns /\ tls[j].c # c
      BY <1>1, <2>1, CurFacts, SMTT(30) DEF TlsInv, Conns
    <3>2. conn[j].got => conn'[j].got
      BY <1>3, <1>5, Zenon
    <3> QED BY <1>1, <1>5, <2>1, <2>3, <3>1, <3>2, SMTT(30) DEF TlsInv
  <2> QED BY <2>2, <2>3
<1>10. /\ tr' \in Transport /\ \A d \in Conns : d > tr.cur => tls'[d] = tls[d]
       /\ tls[tr.cur].pc = "none" => tls'[tr.cur].pc = "none"
  BY <1>0, <1>1, <1>2, <1>5, CurFacts DEF IInv, Types
<1>11. c <= tr.cur /\ tr'.cur = tr.cur /\ tr'.deleted = tr.deleted
  BY <1>1, CurFacts
<1> HIDE DEF x
<1> QED BY <1>0, <1>1, <1>3, <1>5, <1>6, <1>7, <1>8, <1>9, <1>10, <1>11, ConnStep, Zenon DEF x

(* The thread that holds mutex_ in DoTlsHandshake.                          *)
LEMMA HolderFacts ==
    ASSUME IInv, NEW i \in Conns, tls[i].pc \in {"locked", "shaking"}
    PROVE  /\ tls[i].c \in Conns /\ tls[i].c <= tr.cur /\ i <= tr.cur
           /\ conn[tls[i].c] \in Adapter /\ AdapterInv(conn[tls[i].c])
           /\ conn[tls[i].c].mutex = i /\ i # None
           /\ ~conn[tls[i].c].stray => conn[tls[i].c].started /\ ~conn[tls[i].c].stopped
<1>1. TlsInv(i) /\ OrderInv(i) /\ i # None
  BY ConnFacts DEF IInv
<1>2. tls[i].c \in 1..tr.cur /\ conn[tls[i].c].mutex = i
  BY <1>1 DEF TlsInv
<1>3. tls[i].c \in Conns /\ tls[i].c <= tr.cur /\ i <= tr.cur
  BY <1>1, <1>2, CurFacts DEF Conns, OrderInv
<1>4. conn[tls[i].c] \in Adapter /\ AdapterInv(conn[tls[i].c])
  BY <1>3, Zenon DEF IInv, Types
<1>5. ~conn[tls[i].c].stray => conn[tls[i].c].started /\ ~conn[tls[i].c].stopped
  BY <1>1, <1>2, <1>4, NewFields DEF AdapterInv
<1> QED BY <1>1, <1>2, <1>3, <1>4, <1>5, Zenon

LEMMA HolderStep ==
    ASSUME IInv, NEW i \in Conns, tls[i].pc \in {"locked", "shaking"},
           NEW c, c = tls[i].c,
           NEW a \in Adapter, conn' = [conn EXCEPT ![c] = a],
           NEW p \in {"shaking", "done", "failed"}, tls' = [tls EXCEPT ![i].pc = p],
           UNCHANGED <<queue, call, tr, rec, exit>>,
           a.started = conn[c].started, a.stopped = conn[c].stopped,
           a.closed = conn[c].closed, a.error = conn[c].error, a.got = conn[c].got,
           a.stray = conn[c].stray, AdapterInv(a),
           p = "shaking" => a.mutex = i /\ a.read_thread = Nobody
    PROVE  IInv'
<1> DEFINE t == [tls[i] EXCEPT !.pc = p]
<1>0. /\ c \in Conns /\ c <= tr.cur /\ i <= tr.cur /\ conn[c].mutex = i /\ i # None
      /\ ~conn[c].stray => ~conn[c].stopped
  BY HolderFacts
<1>1. tls[i] \in TlsThread /\ tls' = [tls EXCEPT ![i] = t]
  BY DEF IInv, Types
<1>2. t \in TlsThread /\ t.pc = p /\ t.c = c
  BY <1>1 DEF TlsThread
<1> HIDE DEF t
<1>3. /\ conn'[c] = a /\ \A d \in Conns : d # c => conn'[d] = conn[d]
      /\ tls' \in [Conns -> TlsThread] /\ tls'[i] = t
      /\ \A d \in Conns : d # i => tls'[d] = tls[d]
  BY <1>0, <1>1, <1>2, Zenon DEF IInv, Types
<1>4. Grows(conn[c], a)
  BY DEF Grows
<1>5. JoinInv(c)'
  BY <1>0, <1>3 DEF JoinInv
<1>6. ASSUME NEW j \in Conns
      PROVE  TlsInv(j)'
  <2>1. TlsInv(j) /\ TlsInv(i)
    BY DEF IInv
  <2>2. conn[j].got => conn'[j].got
    BY <1>3
  <2>3. CASE j = i
    BY <1>2, <1>3, <2>1, <2>2, <2>3, SMTT(30) DEF TlsInv
  <2>4. CASE j # i
    <3>1. tls[j].pc \in {"locked", "shaking"} => tls[j].c \in Conns /\ tls[j].c # c
      BY <1>0, <2>1, <2>4, CurFacts, SMTT(30) DEF TlsInv, Conns
    <3> QED BY <1>3, <2>1, <2>2, <2>4, <3>1, SMTT(30) DEF TlsInv
  <2> QED BY <2>3, <2>4
<1>7. /\ tr' \in Transport /\ tr'.cur = tr.cur /\ tr'.deleted = tr.deleted
      /\ \A d \in Conns : d > tr.cur => tls'[d] = tls[d]
      /\ tls[tr.cur].pc = "none" => tls'[tr.cur].pc = "none"
  BY <1>0, <1>3, CurFacts, SMTT(30) DEF IInv, Types
<1> QED BY <1>0, <1>3, <1>4, <1>5, <1>6, <1>7, ConnStep, Zenon

LEMMA TlsJoin ==
    ASSUME IInv, NEW i \in Conns, tls_join(i)
    PROVE  IInv'
<1> PICK c : c = tls[i].c
  OBVIOUS
<1> DEFINE x == conn[c]
           a == [x EXCEPT !.read_thread = Nobody]
<1>1. /\ tls[i].pc = "locked"
      /\ x.read_thread # Nobody => x.reader[x.read_thread] = "done"
      /\ conn' = [conn EXCEPT ![c] = a] /\ tls' = [tls EXCEPT ![i].pc = "shaking"]
      /\ UNCHANGED <<queue, call, tr, rec, exit>>
  BY DEF tls_join
<1>2. /\ x \in Adapter /\ AdapterInv(x) /\ x.mutex = i
      /\ ~x.stray => x.started /\ ~x.stopped
  BY <1>1, HolderFacts
<1>3. /\ a \in Adapter /\ a.got = x.got /\ a.mutex = x.mutex
      /\ a.started = x.started /\ a.stopped = x.stopped /\ a.closed = x.closed
      /\ a.error = x.error /\ a.stray = x.stray /\ a.fatal = x.fatal
      /\ a.peer = x.peer /\ a.reader = x.reader /\ a.read_thread = Nobody
  BY <1>2 DEF Adapter
<1> HIDE DEF a
<1>4. \A j \in Readers : j # Nobody
  BY ConnFacts, TransportAssumption, SMTT(30) DEF Nobody
<1>5. AdapterInv(a)
  BY <1>1, <1>2, <1>3, <1>4, ZenonT(40) DEF AdapterInv, Active
<1> QED BY <1>1, <1>2, <1>3, <1>5, HolderStep, ZenonT(40)

LEMMA TlsEnds ==
    ASSUME IInv, NEW i \in Conns, tls_ends(i)
    PROVE  IInv'
<1> PICK c : c = tls[i].c
  OBVIOUS
<1> DEFINE x == conn[c]
           b == StartReadThread(x, i)
           a == [b EXCEPT !.mutex = None]
<1>1. /\ tls[i].pc = "shaking" /\ conn' = [conn EXCEPT ![c] = a]
      /\ UNCHANGED <<queue, call, tr, rec, exit>>
  BY DEF tls_ends
<1>2. PICK p \in {"done", "failed"} : tls' = [tls EXCEPT ![i].pc = p]
  BY DEF tls_ends
<1>3. /\ x \in Adapter /\ AdapterInv(x) /\ i \in Readers
      /\ ~x.stray => x.started /\ ~x.stopped
  BY <1>1, HolderFacts, ConnFacts
<1>4. x.read_thread = Nobody
  BY <1>1, Zenon DEF IInv, TlsInv
<1>5. /\ b \in Adapter /\ b.got = x.got /\ b.stopped = x.stopped /\ b.closed = x.closed
      /\ b.error = x.error /\ b.read_thread = i /\ b.started = x.started
      /\ b.stray = x.stray /\ b.peer = x.peer
      /\ b.fatal = (x.fatal \/ x.read_thread # Nobody)
      /\ b.reader = [x.reader EXCEPT ![i] = "reading"]
  <2> DEFINE f == [x.reader EXCEPT ![i] = "reading"]
             g == x.fatal \/ x.read_thread # Nobody
  <2>1. /\ f \in [Readers -> {"none", "reading", "leaving", "done"}] /\ g \in BOOLEAN
        /\ b = [x EXCEPT !.reader = f, !.fatal = g, !.read_thread = i]
    BY <1>3 DEF StartReadThread, Adapter
  <2> HIDE DEF f, g, b
  <2>2. /\ b \in Adapter /\ b.got = x.got /\ b.stopped = x.stopped /\ b.closed = x.closed
        /\ b.error = x.error /\ b.read_thread = i /\ b.started = x.started
        /\ b.stray = x.stray /\ b.peer = x.peer /\ b.fatal = g /\ b.reader = f
    BY <1>3, <2>1, ZenonT(40) DEF Adapter
  <2> QED BY <2>2 DEF f, g
<1> HIDE DEF b
<1>6. /\ a \in Adapter /\ a.got = b.got /\ a.stopped = b.stopped /\ a.closed = b.closed
      /\ a.error = b.error /\ a.read_thread = b.read_thread /\ a.started = b.started
      /\ a.stray = b.stray /\ a.peer = b.peer /\ a.fatal = b.fatal
      /\ a.reader = b.reader
  BY <1>5, TransportAssumption DEF Adapter, None
<1> HIDE DEF a, x
<1>7. \A j \in Readers : j # Nobody
  BY ConnFacts, TransportAssumption DEF Nobody
<1>8. AdapterInv(a)
  <2>1. ~a.stray /\ ~a.closed => \A j \in Readers : Active(a, j) => a.read_thread = j
    <3>1. x.reader \in [Readers -> {"none", "reading", "leaving", "done"}]
      BY <1>3 DEF Adapter
    <3> QED BY <1>3, <1>4, <1>5, <1>6, <1>7, <3>1 DEF AdapterInv, Active
  <2> QED BY <1>3, <1>4, <1>5, <1>6, <2>1, Zenon DEF AdapterInv
<1>9. /\ a.started = x.started /\ a.stopped = x.stopped /\ a.closed = x.closed
      /\ a.error = x.error /\ a.got = x.got /\ a.stray = x.stray
  BY <1>5, <1>6
<1> QED BY <1>1, <1>2, <1>6, <1>8, <1>9, HolderStep, Zenon DEF x

(* A handshake thread without mutex_, whose call of Stop begins or ends.    *)
LEMMA TlsMoves ==
    ASSUME IInv, NEW i \in Conns, tls[i].pc # "none",
           NEW p \in {"kicking", "done"}, tls' = [tls EXCEPT ![i].pc = p],
           call' \in [Threads -> StopCall],
           \A th \in Threads : CallInv(th)' /\ (th # i => call'[th] = call[th]),
           \A c \in Conns : JoinInv(c)',
           call'[i].pc # "none" => p = "kicking",
           tr' \in Transport, tr'.cur = tr.cur, tr'.deleted = tr.deleted,
           UNCHANGED <<queue, conn, rec, exit>>
    PROVE  IInv'
<1> DEFINE t == [tls[i] EXCEPT !.pc = p]
<1>1. tls[i] \in TlsThread /\ tls' = [tls EXCEPT ![i] = t]
  BY DEF IInv, Types
<1>2. t \in TlsThread /\ t.pc = p
  BY <1>1 DEF TlsThread
<1> HIDE DEF t
<1>3. /\ tls' \in [Conns -> TlsThread] /\ tls'[i] = t
      /\ \A d \in Conns : d # i => tls'[d] = tls[d]
  BY <1>1, <1>2 DEF IInv, Types
<1>4. Types'
  BY <1>3 DEF IInv, Types
<1>5. ASSUME NEW c \in Conns
      PROVE  AdapterInv(conn[c])' /\ OrderInv(c)' /\ TlsInv(c)'
  <2>1. AdapterInv(conn[c]) /\ OrderInv(c) /\ OrderInv(i) /\ TlsInv(c)
    BY DEF IInv
  <2>2. c # i => call'[c] = call[c]
    BY ConnFacts
  <2>3. AdapterInv(conn[c])'
    BY <2>1
  <2>4. OrderInv(c)'
    BY <1>3, <2>1 DEF OrderInv
  <2>5. TlsInv(c)'
    BY <1>2, <1>3, <2>1, <2>2 DEF TlsInv
  <2> QED BY <2>3, <2>4, <2>5
<1>6. OneOwner' /\ (Ended' <=> Ended)
  <2>1. call'[Looper] = call[Looper]
    BY ConnFacts
  <2> QED BY <2>1, OwnerKept
<1>7. QueueInv'
  <2>1. tls[tr.cur].pc = "none" => tls'[tr.cur].pc = "none"
    BY <1>3, CurFacts
  <2>2. Grows(conn[tr.cur], conn'[tr.cur])
    BY DEF Grows
  <2> QED BY <1>6, <2>1, <2>2, QueueKept
<1> QED BY <1>4, <1>5, <1>6, <1>7 DEF IInv

LEMMA TlsKick ==
    ASSUME IInv, NEW i \in Conns, tls_kick(i)
    PROVE  IInv'
<1> DEFINE y == [pc |-> "lock", c |-> tr.cur, r |-> Nobody, k |-> "kick"]
<1>1. /\ tls[i].pc = "failed" /\ tr' = [tr EXCEPT !.kicked = TRUE]
      /\ UNCHANGED <<queue, conn, rec, exit>>
  BY DEF tls_kick
<1>2. i \in Threads /\ call[i].pc = "none"
  BY <1>1, ConnFacts DEF IInv, TlsInv
<1>3. tr' \in Transport /\ tr'.cur = tr.cur /\ tr'.deleted = tr.deleted
  BY <1>1, Zenon DEF IInv, Types, Transport
<1>4. CASE tr.kicked
  <2>1. tls' = [tls EXCEPT ![i].pc = "done"] /\ call' = call
    BY <1>4 DEF tls_kick
  <2>2. \A th \in Threads : CallInv(th)' /\ (th # i => call'[th] = call[th])
    BY <1>1, <1>3, <2>1 DEF IInv, CallInv
  <2>3. \A c \in Conns : JoinInv(c)'
    BY <1>1, <2>1 DEF IInv, JoinInv, Stopping
  <2>4. call' \in [Threads -> StopCall]
    BY <2>1 DEF IInv, Types
  <2> QED BY <1>1, <1>2, <1>3, <2>1, <2>2, <2>3, <2>4, TlsMoves, Zenon
<1>5. CASE ~tr.kicked
  <2>1. tls' = [tls EXCEPT ![i].pc = "kicking"] /\ call' = [call EXCEPT ![i] = y]
    BY <1>5 DEF tls_kick, Stop
  <2>2. y \in StopCall /\ y.pc = "lock" /\ y.c = tr.cur /\ y.k # "none"
    BY CurFacts, ConnFacts DEF StopCall, Conns
  <2> HIDE DEF y
  <2>3. /\ call' \in [Threads -> StopCall]
        /\ \A th \in Threads : CallInv(th)' /\ (th # i => call'[th] = call[th])
        /\ \A c \in Conns : JoinInv(c)'
    BY <1>1, <1>2, <1>3, <2>1, <2>2, CallChange, Zenon
  <2> QED BY <1>1, <1>3, <2>1, <2>3, TlsMoves, Zenon
<1> QED BY <1>4, <1>5

LEMMA TlsReturns ==
    ASSUME IInv, NEW i \in Conns, tls_returns(i)
    PROVE  IInv'
<1>1. /\ call[i].pc = "return" /\ call' = [call EXCEPT ![i] = NoCall]
      /\ tls' = [tls EXCEPT ![i].pc = "done"] /\ UNCHANGED <<queue, conn, tr, rec, exit>>
  BY DEF tls_returns, Calls
<1>2. i \in Threads /\ tls[i].pc = "kicking" /\ tr' \in Transport
  BY <1>1, ConnFacts DEF IInv, TlsInv, Types
<1>3. NoCall \in StopCall /\ NoCall.pc = "none"
  BY TransportAssumption DEF NoCall, StopCall, None
<1>4. /\ call' \in [Threads -> StopCall] /\ call'[i] = NoCall
      /\ \A th \in Threads : CallInv(th)' /\ (th # i => call'[th] = call[th])
      /\ \A c \in Conns : JoinInv(c)'
  BY <1>1, <1>2, <1>3, CallChange, Zenon
<1> QED BY <1>1, <1>2, <1>3, <1>4, TlsMoves, Zenon

-----------------------------------------------------------------------------
LEMMA InitInv == Init => IInv
<1> SUFFICES ASSUME Init
             PROVE  IInv
  OBVIOUS
<1>1. 1 \in Conns /\ tr.cur = 1 /\ \A c \in Conns : c >= 1 /\ c \in Int
  BY TransportAssumption DEF Init, Conns
<1>2. \A c \in Conns : conn[c] = NewAdapter /\ tls[c].pc = "none"
  BY DEF Init
<1>3. \A th \in Threads : call[th] = NoCall
  BY DEF Init
<1>4. NoCall \in StopCall /\ NoCall.pc = "none" /\ NoCall.k = "none"
  BY TransportAssumption DEF NoCall, StopCall, None
<1>5. Types
  <2>1. call \in [Threads -> StopCall] /\ conn \in [Conns -> Adapter]
    BY <1>4, NewFields DEF Init
  <2>2. tls \in [Conns -> TlsThread] /\ tr \in Transport
    BY <1>1, TransportAssumption DEF Init, TlsThread, Transport, None
  <2>3. rec \in Reconnector /\ exit \in {"no", "join", "kick", "done"}
    BY TransportAssumption DEF Init, Reconnector
  <2> QED BY <2>1, <2>2, <2>3 DEF Types
<1>6. ASSUME NEW c \in Conns
      PROVE  AdapterInv(conn[c]) /\ JoinInv(c) /\ OrderInv(c) /\ TlsInv(c)
  <2>1. conn[c] = NewAdapter /\ tls[c].pc = "none" /\ call[c] = NoCall
    BY <1>2, <1>3, ConnFacts
  <2>2. AdapterInv(conn[c]) /\ JoinInv(c)
    BY <2>1, NewFields DEF AdapterInv, JoinInv, Active
  <2>3. OrderInv(c) /\ TlsInv(c)
    BY <1>1, <1>4, <2>1 DEF OrderInv, TlsInv
  <2> QED BY <2>2, <2>3
<1>7. \A th \in Threads : CallInv(th)
  BY <1>3, <1>4 DEF CallInv
<1>8. ~Ended /\ OneOwner
  BY <1>3, <1>4, ConnFacts, Zenon DEF Init, Ended, Destroying, Reconnecting, OneOwner
<1>9. QueueInv
  <2>1. Waiting(TRUE, FALSE, FALSE)
    BY <1>1, <1>2, <1>8, NewFields DEF Waiting, Line, Init
  <2> QED BY <2>1, Zenon DEF QueueInv, Waiting
<1> QED BY <1>5, <1>6, <1>7, <1>8, <1>9 DEF IInv

(* One step of every action; StopSteps is Stop, called by thread th.        *)
LEMMA StopSteppers ==
    ASSUME IInv, NEW th \in Threads, StopSteps(th)
    PROVE  IInv'
  BY StopLock, StopClose, StopMove, StopJoin DEF StopSteps

LEMMA NextInv == IInv /\ [Next]_vars => IInv'
<1> SUFFICES ASSUME IInv, [Next]_vars
             PROVE  IInv'
  OBVIOUS
<1>1. CASE LooperSteps
  BY <1>1, ConnFacts, Registers, Unregisters, PacketStls, Destroys, StopSteppers,
     LooperReturns, KicksAll, ZenonT(40) DEF LooperSteps
<1>2. CASE RunSteps
  BY <1>2, HandlerRuns, Reconnects DEF RunSteps
<1>3. CASE Environment
  BY <1>3, Kicks, HandlerStops, PeerHangsUp, ReadStls, Zenon DEF Environment
<1>4. ASSUME NEW c \in Conns, ReaderSteps(c)
      PROVE  IInv'
  BY <1>4, ReaderEnds DEF ReaderSteps
<1>5. ASSUME NEW c \in Conns, WriterSteps(c)
      PROVE  IInv'
  BY <1>5, WriterGoesOn DEF WriterSteps
<1>6. ASSUME NEW c \in Conns, TlsSteps(c)
      PROVE  IInv'
  BY <1>6, ConnFacts, TlsLock, TlsJoin, TlsEnds, TlsKick, StopSteppers, TlsReturns, ZenonT(40)
     DEF TlsSteps
<1>7. CASE UNCHANGED vars
  BY <1>7, ZenonT(40) DEF vars, IInv, Types, JoinInv, Stopping, OrderInv, TlsInv, CallInv,
              QueueInv, OneOwner, Ended, Destroying, Reconnecting
<1> QED BY <1>1, <1>2, <1>3, <1>4, <1>5, <1>6, <1>7 DEF Next

(* The closures, the threads of every connection and whoever sees to a      *)
(* failed one stay in step, for any number of reconnections and attempts    *)
(* (BlockingConnectionAdapter, ReconnectHandler, the looper's closures).    *)
THEOREM Invariance == Spec => []IInv
<1>1. Init => IInv
  BY InitInv
<1>2. IInv /\ [Next]_vars => IInv'
  BY NextInv
<1> QED BY <1>1, <1>2, PTL DEF Spec

-----------------------------------------------------------------------------
(* The adapters, the closures and the reconnection attempts stay in their   *)
(* types (BlockingConnectionAdapter, ReconnectHandler).                     *)
THEOREM TypeCorrect == Spec => []TypeOK
<1>1. IInv => TypeOK
  <2> SUFFICES ASSUME IInv
               PROVE  TypeOK
    OBVIOUS
  <2>1. conn \in [Conns -> Adapter] /\ tr.cur \in Conns /\ rec.left \in 0..MaxAttempts
    BY Zenon DEF IInv, Types, Transport, Reconnector
  <2>2. \A n \in DOMAIN queue : queue[n].c = tr.cur
    <3>1. ASSUME NEW r \in BOOLEAN, NEW s \in BOOLEAN, NEW e \in BOOLEAN, Waiting(r, s, e)
          PROVE  \A n \in DOMAIN queue : queue[n].c = tr.cur
      BY <3>1, LineMembers DEF Waiting
    <3>2. CASE Leaving
      BY <3>2, SMTT(30) DEF Leaving, Closure
    <3> QED BY <3>1, <3>2, QueueCases, Zenon DEF IInv
  <2> QED BY <2>1, <2>2 DEF TypeOK
<1> QED BY <1>1, Invariance, PTL

(* A connection has one thread that reads packets, and none while a TLS     *)
(* handshake runs on it, however Stop, DoTlsHandshake, errors and kicks     *)
(* overlap, unless a handshake begins on a connection already stopped       *)
(* (BlockingConnectionAdapter::DoTlsHandshake).                             *)
THEOREM ReadsAlone == Spec => []OneReader
<1>1. IInv => OneReader
  <2> SUFFICES ASSUME IInv
               PROVE  \A c \in Conns : (~conn[c].stray /\ ~conn[c].closed) =>
                         LET active == {i \in Readers :
                                           conn[c].reader[i] \in {"reading", "leaving"}}
                         IN  /\ Cardinality(active) <= 1
                             /\ (\E i \in Conns : tls[i].pc = "shaking" /\ tls[i].c = c)
                                   => active = {}
    BY Zenon DEF OneReader
  <2> TAKE c \in Conns
  <2> HAVE ~conn[c].stray /\ ~conn[c].closed
  <2> DEFINE active == {i \in Readers : conn[c].reader[i] \in {"reading", "leaving"}}
             one == {conn[c].read_thread}
  <2>1. active \subseteq one
    BY DEF IInv, AdapterInv, Active
  <2>2. IsFiniteSet(one) /\ Cardinality(one) = 1
    BY FS_Singleton, Zenon
  <2>3. Cardinality(active) \in Nat /\ Cardinality(active) <= 1
    <3> HIDE DEF active, one
    <3>1. IsFiniteSet(active) /\ Cardinality(active) <= Cardinality(one)
      BY <2>1, <2>2, FS_Subset
    <3>2. Cardinality(active) \in Nat
      BY <3>1, FS_CardinalityType
    <3> QED BY <2>2, <3>1, <3>2
  <2>4. ASSUME NEW i \in Conns, tls[i].pc = "shaking", tls[i].c = c
        PROVE  active = {}
    <3>1. conn[c].read_thread = Nobody
      BY <2>4 DEF IInv, TlsInv
    <3>2. Nobody \notin Readers
      BY ConnFacts, TransportAssumption DEF Nobody
    <3> QED BY <2>1, <3>1, <3>2, Zenon
  <2> QED BY <2>3, <2>4
<1> QED BY <1>1, Invariance, PTL

(* Whoever ends a connection on which no handshake begins after its end,    *)
(* its threads are joined before it goes and before another takes its       *)
(* place; and the transport is deleted once, after the last closure about   *)
(* it, stray handshakes or not, for any number of reconnections             *)
(* (BlockingConnectionAdapter::Stop, ReconnectHandler, transport_destroy).  *)
THEOREM EndsOrderly == Spec => []EndsInOrder
<1>1. IInv => ThreadsJoined
  <2> SUFFICES ASSUME IInv, NEW c \in Conns, ~conn[c].stray
               PROVE  /\ ~conn[c].fatal
                      /\ (Unreferenced(c) /\ conn[c].started) =>
                            /\ conn[c].stopped /\ conn[c].read_thread = Nobody
                            /\ ~conn[c].write_thread
    BY DEF ThreadsJoined
  <2>1. AdapterInv(conn[c]) /\ JoinInv(c) /\ OrderInv(c)
    BY DEF IInv
  <2>2. ASSUME Unreferenced(c), conn[c].started
        PROVE  conn[c].stopped
    <3>1. c <= tr.cur
      BY <2>1, <2>2, NewFields, CurFacts, SMTT(30) DEF OrderInv
    <3>2. CASE c < tr.cur
      BY <2>1, <3>2, Zenon DEF OrderInv
    <3>3. CASE c = tr.cur
      <4>1. tr.deleted => conn[tr.cur].stopped
        BY Zenon DEF IInv, OneOwner
      <4>2. tr.deleted
        <5>1. ~(c < tr.cur)
          BY <3>3, CurFacts
        <5> QED BY <2>2, <5>1, Zenon DEF Unreferenced
      <4> QED BY <3>3, <4>1, <4>2, Zenon
    <3>4. c \in Int /\ tr.cur \in Int
      BY CurFacts, Zenon
    <3>5. c < tr.cur \/ c = tr.cur
      BY <3>1, <3>4
    <3> QED BY <3>2, <3>3, <3>5, Zenon
  <2>3. Unreferenced(c) => ~Stopping(c)
    BY DEF Unreferenced, Held, Stopping
  <2> QED BY <2>1, <2>2, <2>3 DEF AdapterInv, JoinInv
<1>2. IInv => DeletedLast
  <2> SUFFICES ASSUME IInv
               PROVE  DeletedLast
    OBVIOUS
  <2>1. ASSUME NEW n \in DOMAIN queue, queue[n].op = "unregister"
        PROVE  n = Len(queue) /\ conn[tr.cur].stopped
    <3>1. ASSUME NEW r \in BOOLEAN, NEW s \in BOOLEAN, NEW e \in BOOLEAN, Waiting(r, s, e)
          PROVE  FALSE
      BY <2>1, <3>1, LineMembers DEF Waiting
    <3>2. Leaving
      BY <3>1, QueueCases DEF IInv
    <3> QED BY <2>1, <3>2 DEF Leaving
  <2>2. ASSUME tr.deleted
        PROVE  queue = <<>> /\ ~rec.tracked /\ rec.pc # "reconnecting"
    <3>1. Ended /\ ~rec.tracked /\ ~Reconnecting
      BY <2>2 DEF IInv, OneOwner, Ended
    <3>2. PICK r, s, e \in BOOLEAN : Waiting(r, s, e)
      BY <3>1, QueueCases DEF IInv, Leaving
    <3>3. ~r /\ ~s /\ ~e /\ queue = Line(tr.cur, r, s, e)
      BY <3>1, <3>2 DEF Waiting
    <3> QED BY <3>1, <3>3, LineFacts, Zenon DEF Reconnecting
  <2> QED BY <2>1, <2>2 DEF DeletedLast
<1> QED BY <1>1, <1>2, Invariance, PTL DEF EndsInOrder
=============================================================================
