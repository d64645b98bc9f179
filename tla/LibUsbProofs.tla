---------------------------- MODULE LibUsbProofs ----------------------------
(***************************************************************************)
(* What LibUsb promises, for every number of plugs, requests and packets.  *)
(***************************************************************************)
EXTENDS LibUsb, FiniteSetTheorems, SequenceTheorems, TLAPS

(* The devices whose arrival is not over. *)
Arriving(u) == {p \in Devices : p <= u.plugs /\ u.arrival[p] # "done"}

(* Plug p is in the queue of hotplug events. *)
Announced(q, p) == \E i \in DOMAIN q : ~q[i].left /\ q[i].dev = p

AnnouncedOnce(q) ==
    \A i, j \in DOMAIN q : ~q[i].left /\ ~q[j].left /\ q[i].dev = q[j].dev => i = j

(* Each plug arrives once, and connecting counts those that have not ended. *)
Arrivals(u) ==
    /\ u.connecting = Cardinality(Arriving(u))
    /\ u.plugged => u.plugs # 0
    /\ AnnouncedOnce(u.hotplug_queue)
    /\ \A p \in Devices :
          /\ Announced(u.hotplug_queue, p) => p <= u.plugs /\ u.arrival[p] = "none"
          /\ u.arrival[p] # "none" => p <= u.plugs

(* A closure of the looper for p is still to run. *)
Posted(q, op, p) == \E i \in DOMAIN q : q[i].op = op /\ q[i].dev = p

RegisteredOnce(q) ==
    \A i, j \in DOMAIN q :
        q[i].op = "register" /\ q[j].op = "register" /\ q[i].dev = q[j].dev => i = j

(* A transport is removed after the packets that its connection read. *)
RemovedLast(q) ==
    \A i, j \in DOMAIN q :
        q[i].op = "remove" /\ q[j].op = "packet" /\ q[i].dev = q[j].dev => j < i

InOrder(q) == RegisteredOnce(q) /\ RemovedLast(q)

(* A closure that may be put at the end of the queue. *)
Fits(q, c) ==
    /\ c.op = "register" => ~Posted(q, "register", c.dev)
    /\ c.op = "packet" => ~Posted(q, "remove", c.dev)

(* The transport of one device, with what the looper has still to do for it. *)
Tracked(u, p) ==
    LET c == u.conn[p] IN
    /\ Posted(u.looper, "register", p) => u.list[p] = "pending" /\ ~c.transport /\ ~c.error
    /\ Posted(u.looper, "error", p) \/ Posted(u.looper, "remove", p) => c.error
    /\ c.error => \/ Posted(u.looper, "error", p) \/ Posted(u.looper, "remove", p)
                  \/ u.list[p] = "deleted"
    /\ u.list[p] = "none" => ~c.transport /\ ~c.error
    /\ u.list[p] = "listed" => c.transport
    /\ u.arrival[p] # "done" => u.list[p] = "none"

(* Somebody reads from the connection, or it has failed. *)
ReadFrom(c) == c.thread["read"] \in {"running", "reports"} \/ c.error

(* Its connection: a running one has a transport and is not detached, a usable *)
(* one is read from or was detached, and one whose detach was granted knows it. *)
Connected(u, p) ==
    LET c == u.conn[p] IN
    /\ ~c.running => \A t \in IoThreads : c.thread[t] = "none"
    /\ c.detached => ~c.running
    /\ c.detached /\ u.list[p] \in {"none", "pending"} => StartDetached
    /\ c.running => c.transport
    /\ u.list[p] = "listed" /\ u.state[p] # "detached" /\ ~u.detach_okay[p] => ReadFrom(c)
    /\ u.detach_okay[p] =>
          u.list[p] \in {"listed", "deleted"} /\ (u.list[p] = "listed" => c.detached)

(* What it has read: the packets of a listed transport, which makes it usable *)
(* only if it was detached since or is read from still.                       *)
Delivered(u, p) ==
    LET c == u.conn[p] IN
    /\ c.running => u.list[p] = "listed" /\ ReadFrom(c)
    /\ Posted(u.looper, "remove", p) => ~c.running
    /\ Posted(u.looper, "packet", p) =>
          u.list[p] = "listed" /\ (u.detach_okay[p] \/ ReadFrom(c))

(* The inductive invariant. *)
Steady(u) ==
    /\ ~u.crashed
    /\ InOrder(u.looper)
    /\ u.attached => \E p \in Devices : u.list[p] \in {"listed", "deleted"}

Alive(u) ==
    Steady(u) /\ \A p \in Devices : Tracked(u, p) /\ Connected(u, p) /\ Delivered(u, p)

(* Between two flushes, when a request is handled, no transport waits to be *)
(* removed, and the packets that wait are of connections that run.          *)
Settled(u) ==
    ~u.flushing =>
        \A p \in Devices :
            /\ ~Posted(u.looper, "remove", p)
            /\ Posted(u.looper, "packet", p) => u.conn[p].running

UsbInv ==
    TypeOK /\ Arrivals(lu) /\ (Reattaches \/ (Alive(lu) /\ Settled(lu)))

-----------------------------------------------------------------------------
(***************************************************************************)
(* The two queues.                                                         *)
(***************************************************************************)
(* A closure posted to the looper is the only one added. *)
LEMMA PostedAppend ==
    ASSUME NEW s \in Seq(Closure), NEW c \in Closure
    PROVE  /\ Append(s, c) \in Seq(Closure)
           /\ \A op, p : Posted(Append(s, c), op, p) <=>
                             Posted(s, op, p) \/ (c.op = op /\ c.dev = p)
           /\ InOrder(s) /\ Fits(s, c) => InOrder(Append(s, c))
<1> DEFINE a == Append(s, c)
<1>1. a \in Seq(Closure) /\ Len(a) = Len(s) + 1 /\ a[Len(s) + 1] = c
      /\ \A i \in 1 .. Len(s) : a[i] = s[i]
  BY AppendProperties
<1>2. Len(s) \in Nat /\ DOMAIN s = 1 .. Len(s) /\ DOMAIN a = 1 .. Len(s) + 1
  BY <1>1
<1> HIDE DEF a
<1>3. \A i \in DOMAIN a : i \in DOMAIN s \/ i = Len(s) + 1
  BY <1>2
<1>4. DOMAIN s \subseteq DOMAIN a /\ Len(s) + 1 \in DOMAIN a
  BY <1>2
<1>5. \A op, p : Posted(a, op, p) <=> Posted(s, op, p) \/ (c.op = op /\ c.dev = p)
  BY <1>1, <1>2, <1>3, <1>4, Zenon DEF Posted
<1>6. ASSUME RegisteredOnce(s), c.op = "register" => ~Posted(s, "register", c.dev)
      PROVE  RegisteredOnce(a)
  BY <1>1, <1>2, <1>3, <1>6, Zenon DEF Posted, RegisteredOnce
<1>7. ASSUME RemovedLast(s), c.op = "packet" => ~Posted(s, "remove", c.dev)
      PROVE  RemovedLast(a)
  <2> SUFFICES ASSUME NEW i \in DOMAIN a, NEW j \in DOMAIN a, a[i].op = "remove",
                      a[j].op = "packet", a[i].dev = a[j].dev
               PROVE  j < i
    BY DEF RemovedLast
  <2>1. j \in DOMAIN s
    <3>1. ASSUME j = Len(s) + 1
          PROVE  FALSE
      <4>1. c.op = "packet" /\ c.dev = a[i].dev /\ i # j
        BY <1>1, <3>1
      <4>2. i \in DOMAIN s /\ s[i] = a[i]
        BY <1>1, <1>2, <1>3, <3>1, <4>1
      <4> QED
        BY <1>7, <4>1, <4>2, Zenon DEF Posted
    <3> QED
      BY <1>3, <3>1
  <2>2. CASE i \in DOMAIN s
    BY <1>1, <1>2, <1>7, <2>1, <2>2 DEF RemovedLast
  <2>3. CASE i = Len(s) + 1
    BY <1>2, <2>1, <2>3
  <2> QED
    BY <1>3, <2>2, <2>3
<1> QED
  BY <1>1, <1>5, <1>6, <1>7 DEF a, InOrder, Fits

(* Taking the first closure removes that one; no other register of its device *)
(* is left, nor a packet of a transport that is removed.                      *)
LEMMA PostedTail ==
    ASSUME NEW s \in Seq(Closure), s # <<>>
    PROVE  /\ Tail(s) \in Seq(Closure) /\ s[1] \in Closure
           /\ \A op, p : Posted(s, op, p) <=>
                             Posted(Tail(s), op, p) \/ (s[1].op = op /\ s[1].dev = p)
           /\ InOrder(s) =>
                 /\ InOrder(Tail(s))
                 /\ s[1].op = "register" => ~Posted(Tail(s), "register", s[1].dev)
                 /\ s[1].op = "remove" => ~Posted(Tail(s), "packet", s[1].dev)
<1> DEFINE r == Tail(s)
<1>1. r \in Seq(Closure) /\ Len(r) = Len(s) - 1 /\ \A i \in 1 .. Len(r) : r[i] = s[i + 1]
  BY HeadTailProperties
<1>2. Len(s) \in Nat /\ Len(s) >= 1 /\ DOMAIN s = 1 .. Len(s) /\ DOMAIN r = 1 .. Len(s) - 1
  BY <1>1, EmptySeq
<1> HIDE DEF r
<1>3. 1 \in DOMAIN s /\ s[1] \in Closure
  BY <1>2
<1>4. \A i \in DOMAIN r : i + 1 \in DOMAIN s /\ r[i] = s[i + 1] /\ i + 1 # 1
  BY <1>1, <1>2
<1>5. \A i \in DOMAIN s : i = 1 \/ \E j \in DOMAIN r : i = j + 1
  <2> TAKE i \in DOMAIN s
  <2>1. i # 1 => i - 1 \in DOMAIN r /\ i = (i - 1) + 1
    BY <1>2
  <2> QED
    BY <2>1
<1>6. \A op, p : Posted(s, op, p) <=> Posted(r, op, p) \/ (s[1].op = op /\ s[1].dev = p)
  <2> TAKE op, p
  <2>1. ASSUME Posted(s, op, p), ~(s[1].op = op /\ s[1].dev = p)
        PROVE  Posted(r, op, p)
    <3>1. PICK i \in DOMAIN s : s[i].op = op /\ s[i].dev = p
      BY <2>1 DEF Posted
    <3>2. PICK j \in DOMAIN r : i = j + 1
      BY <1>5, <2>1, <3>1
    <3>3. r[j] = s[i]
      BY <1>4, <3>2
    <3> QED
      BY <3>1, <3>2, <3>3, Zenon DEF Posted
  <2>2. ASSUME Posted(r, op, p)
        PROVE  Posted(s, op, p)
    <3>1. PICK j \in DOMAIN r : r[j].op = op /\ r[j].dev = p
      BY <2>2 DEF Posted
    <3>2. j + 1 \in DOMAIN s /\ s[j + 1] = r[j]
      BY <1>4, <3>1
    <3> QED
      BY <3>1, <3>2, Zenon DEF Posted
  <2>3. s[1].op = op /\ s[1].dev = p => Posted(s, op, p)
    BY <1>3, Zenon DEF Posted
  <2> QED
    BY <2>1, <2>2, <2>3
<1>7. ASSUME RegisteredOnce(s)
      PROVE  RegisteredOnce(r) /\ (s[1].op = "register" => ~Posted(r, "register", s[1].dev))
  <2>1. \A i, j \in DOMAIN r : i + 1 = j + 1 => i = j
    BY <1>2
  <2>2. ASSUME NEW i \in DOMAIN r, NEW j \in DOMAIN r, r[i].op = "register", r[j].op = "register", r[i].dev = r[j].dev
        PROVE  i = j
    <3>1. /\ i + 1 \in DOMAIN s /\ j + 1 \in DOMAIN s
          /\ r[i] = s[i + 1] /\ r[j] = s[j + 1]
      BY <1>4
    <3>2. i + 1 = j + 1
      BY <1>7, <2>2, <3>1, Zenon DEF RegisteredOnce
    <3> QED
      BY <2>1, <3>2
  <2>3. ASSUME NEW i \in DOMAIN r, s[1].op = "register", r[i].op = "register", r[i].dev = s[1].dev
        PROVE  FALSE
    <3>1. i + 1 \in DOMAIN s /\ r[i] = s[i + 1] /\ i + 1 # 1
      BY <1>4
    <3> QED
      BY <1>3, <1>7, <2>3, <3>1, Zenon DEF RegisteredOnce
  <2> QED
    BY <2>2, <2>3, Zenon DEF Posted, RegisteredOnce
<1>8. ASSUME RemovedLast(s)
      PROVE  RemovedLast(r) /\ (s[1].op = "remove" => ~Posted(r, "packet", s[1].dev))
  <2>1. ASSUME NEW i \in DOMAIN r, NEW j \in DOMAIN r, r[i].op = "remove", r[j].op = "packet", r[i].dev = r[j].dev
        PROVE  j < i
    <3>1. /\ i + 1 \in DOMAIN s /\ j + 1 \in DOMAIN s
          /\ r[i] = s[i + 1] /\ r[j] = s[j + 1]
      BY <1>4
    <3>2. j + 1 < i + 1
      BY <1>8, <2>1, <3>1, Zenon DEF RemovedLast
    <3> QED
      BY <1>2, <3>2
  <2>2. ASSUME NEW i \in DOMAIN r, s[1].op = "remove", r[i].op = "packet", r[i].dev = s[1].dev
        PROVE  FALSE
    <3>1. i + 1 \in DOMAIN s /\ r[i] = s[i + 1]
      BY <1>4
    <3>2. i + 1 < 1
      BY <1>3, <1>8, <2>2, <3>1, Zenon DEF RemovedLast
    <3> QED
      BY <1>2, <3>2
  <2> QED
    BY <2>1, <2>2, Zenon DEF Posted, RemovedLast
<1> QED
  BY <1>1, <1>3, <1>6, <1>7, <1>8 DEF r, InOrder

(* The hotplug events, in the same way. *)
LEMMA AnnouncedAppend ==
    ASSUME NEW s \in Seq(Arrived), NEW e \in Arrived
    PROVE  /\ Append(s, e) \in Seq(Arrived)
           /\ \A p : Announced(Append(s, e), p) <=> Announced(s, p) \/ (~e.left /\ e.dev = p)
           /\ AnnouncedOnce(s) /\ (~e.left => ~Announced(s, e.dev)) => AnnouncedOnce(Append(s, e))
<1> DEFINE a == Append(s, e)
<1>1. a \in Seq(Arrived) /\ Len(a) = Len(s) + 1 /\ a[Len(s) + 1] = e
      /\ \A i \in 1 .. Len(s) : a[i] = s[i]
  BY AppendProperties
<1>2. Len(s) \in Nat /\ DOMAIN s = 1 .. Len(s) /\ DOMAIN a = 1 .. Len(s) + 1
  BY <1>1
<1> HIDE DEF a
<1>3. \A i \in DOMAIN a : i \in DOMAIN s \/ i = Len(s) + 1
  BY <1>2
<1>4. DOMAIN s \subseteq DOMAIN a /\ Len(s) + 1 \in DOMAIN a
  BY <1>2
<1>5. \A p : Announced(a, p) <=> Announced(s, p) \/ (~e.left /\ e.dev = p)
  BY <1>1, <1>2, <1>3, <1>4, Zenon DEF Announced
<1>6. ASSUME AnnouncedOnce(s), ~e.left => ~Announced(s, e.dev)
      PROVE  AnnouncedOnce(a)
  BY <1>1, <1>2, <1>3, <1>6, Zenon DEF Announced, AnnouncedOnce
<1> QED
  BY <1>1, <1>5, <1>6 DEF a

(* Taking the head of the hotplug queue announces nothing new. *)
LEMMA AnnouncedTail ==
    ASSUME NEW s \in Seq(Arrived), s # <<>>
    PROVE  /\ Tail(s) \in Seq(Arrived) /\ s[1] \in Arrived
           /\ \A p : Announced(s, p) <=> Announced(Tail(s), p) \/ (~s[1].left /\ s[1].dev = p)
           /\ AnnouncedOnce(s) =>
                 /\ AnnouncedOnce(Tail(s))
                 /\ ~s[1].left => ~Announced(Tail(s), s[1].dev)
<1> DEFINE r == Tail(s)
<1>1. r \in Seq(Arrived) /\ Len(r) = Len(s) - 1 /\ \A i \in 1 .. Len(r) : r[i] = s[i + 1]
  BY HeadTailProperties
<1>2. Len(s) \in Nat /\ Len(s) >= 1 /\ DOMAIN s = 1 .. Len(s) /\ DOMAIN r = 1 .. Len(s) - 1
  BY <1>1, EmptySeq
<1> HIDE DEF r
<1>3. 1 \in DOMAIN s /\ s[1] \in Arrived
  BY <1>2
<1>4. \A i \in DOMAIN r : i + 1 \in DOMAIN s /\ r[i] = s[i + 1] /\ i + 1 # 1
  BY <1>1, <1>2
<1>5. \A i \in DOMAIN s : i = 1 \/ \E j \in DOMAIN r : i = j + 1
  <2> TAKE i \in DOMAIN s
  <2>1. i # 1 => i - 1 \in DOMAIN r /\ i = (i - 1) + 1
    BY <1>2
  <2> QED
    BY <2>1
<1>6. \A p : Announced(s, p) <=> Announced(r, p) \/ (~s[1].left /\ s[1].dev = p)
  <2> TAKE p
  <2>1. ASSUME Announced(s, p), ~(~s[1].left /\ s[1].dev = p)
        PROVE  Announced(r, p)
    <3>1. PICK i \in DOMAIN s : ~s[i].left /\ s[i].dev = p
      BY <2>1 DEF Announced
    <3>2. PICK j \in DOMAIN r : i = j + 1
      BY <1>5, <2>1, <3>1
    <3>3. r[j] = s[i]
      BY <1>4, <3>2
    <3> QED
      BY <3>1, <3>2, <3>3, Zenon DEF Announced
  <2>2. ASSUME Announced(r, p)
        PROVE  Announced(s, p)
    <3>1. PICK j \in DOMAIN r : ~r[j].left /\ r[j].dev = p
      BY <2>2 DEF Announced
    <3>2. j + 1 \in DOMAIN s /\ s[j + 1] = r[j]
      BY <1>4, <3>1
    <3> QED
      BY <3>1, <3>2, Zenon DEF Announced
  <2>3. ~s[1].left /\ s[1].dev = p => Announced(s, p)
    BY <1>3, Zenon DEF Announced
  <2> QED
    BY <2>1, <2>2, <2>3
<1>7. ASSUME AnnouncedOnce(s)
      PROVE  AnnouncedOnce(r) /\ (~s[1].left => ~Announced(r, s[1].dev))
  <2>1. \A i, j \in DOMAIN r : i + 1 = j + 1 => i = j
    BY <1>2
  <2>2. ASSUME NEW i \in DOMAIN r, NEW j \in DOMAIN r, ~r[i].left, ~r[j].left, r[i].dev = r[j].dev
        PROVE  i = j
    <3>1. /\ i + 1 \in DOMAIN s /\ j + 1 \in DOMAIN s
          /\ r[i] = s[i + 1] /\ r[j] = s[j + 1]
      BY <1>4
    <3>2. i + 1 = j + 1
      BY <1>7, <2>2, <3>1, Zenon DEF AnnouncedOnce
    <3> QED
      BY <2>1, <3>2
  <2>3. ASSUME NEW i \in DOMAIN r, ~s[1].left, ~r[i].left, r[i].dev = s[1].dev
        PROVE  FALSE
    <3>1. i + 1 \in DOMAIN s /\ r[i] = s[i + 1] /\ i + 1 # 1
      BY <1>4
    <3> QED
      BY <1>3, <1>7, <2>3, <3>1, Zenon DEF AnnouncedOnce
  <2> QED
    BY <2>2, <2>3, Zenon DEF Announced, AnnouncedOnce
<1> QED
  BY <1>1, <1>3, <1>6, <1>7 DEF r

-----------------------------------------------------------------------------
(***************************************************************************)
(* What a connection's operations do to the state.                         *)
(***************************************************************************)
(* v is u but for the connection of p, the looper and a crash. *)
Touches(u, v, p) ==
    /\ v \in LibUsbState
    /\ v.plugs = u.plugs /\ v.plugged = u.plugged /\ v.requests = u.requests
    /\ v.hotplug_queue = u.hotplug_queue /\ v.connections = u.connections
    /\ v.connecting = u.connecting /\ v.scan_complete = u.scan_complete
    /\ v.arrival = u.arrival /\ v.state = u.state /\ v.list = u.list
    /\ v.attached = u.attached /\ v.detach_okay = u.detach_okay
    /\ v.packets = u.packets /\ v.flushing = u.flushing
    /\ \A q \in Devices : q # p => v.conn[q] = u.conn[q]

(* OnError marks the connection and posts its closure, the first time. *)
LEMMA OnErrorIs ==
    ASSUME NEW u \in LibUsbState, NEW p \in Devices
    PROVE  LET v == OnError(u, p)
           IN /\ Touches(u, v, p)
              /\ v.conn[p] = [u.conn[p] EXCEPT !.error = TRUE]
              /\ IF u.conn[p].error THEN v.looper = u.looper
                 ELSE v.looper = Append(u.looper, [op |-> "error", dev |-> p])
              /\ v.crashed => u.crashed \/ ~(u.conn[p].error \/ u.conn[p].transport)
<1> DEFINE k == [u.conn[p] EXCEPT !.error = TRUE]
           c == [op |-> "error", dev |-> p]
           v == [u EXCEPT !.conn = [u.conn EXCEPT ![p] = k],
                          !.crashed = u.crashed \/ ~u.conn[p].transport]
           w == [v EXCEPT !.looper = Append(u.looper, c)]
<1>1. u.conn[p] \in Connection
  BY DEF LibUsbState
<1>2. k \in Connection /\ (u.conn[p].error => k = u.conn[p])
  BY <1>1, Zenon DEF Connection
<1>3. c \in Closure
  BY DEF Closure
<1>4. Append(u.looper, c) \in Seq(Closure)
  BY <1>3 DEF LibUsbState
<1>5. OnError(u, p) = IF u.conn[p].error THEN u ELSE w
  BY DEF OnError, Post, LibUsbState
<1> HIDE DEF k, c
<1>6. [u.conn EXCEPT ![p] = k] \in [Devices -> Connection]
  BY <1>2 DEF LibUsbState
<1>7. (u.crashed \/ ~u.conn[p].transport) \in BOOLEAN
  OBVIOUS
<1>8. w \in LibUsbState
  BY <1>4, <1>6, <1>7, ZenonT(60) DEF LibUsbState
<1>9. Touches(u, w, p) /\ w.conn[p] = k /\ w.looper = Append(u.looper, c)
      /\ w.crashed = (u.crashed \/ ~u.conn[p].transport)
  BY <1>8 DEF Touches, LibUsbState
<1> HIDE DEF w
<1>10. Touches(u, u, p)
  BY DEF Touches
<1>11. CASE u.conn[p].error
  BY <1>2, <1>5, <1>10, <1>11 DEF k
<1>12. CASE ~u.conn[p].error
  BY <1>5, <1>9, <1>12, Zenon DEF k, c
<1> QED
  BY <1>11, <1>12

(* An error of p is posted when, and only when, it is new. *)
Reports(u, v, p) ==
    \/ v.looper = u.looper /\ (v.conn[p].error <=> u.conn[p].error)
    \/ /\ v.looper = Append(u.looper, [op |-> "error", dev |-> p])
       /\ v.conn[p].error /\ ~u.conn[p].error

(* The connection of p, but for its threads and its error, is the same. *)
SameLink(u, v, p) ==
    /\ v.conn[p].detached <=> u.conn[p].detached
    /\ v.conn[p].transport <=> u.conn[p].transport

(* LibUsbConnection::OnError, in those terms. *)
LEMMA OnErrorReports ==
    ASSUME NEW u \in LibUsbState, NEW p \in Devices
    PROVE  LET v == OnError(u, p)
           IN /\ Touches(u, v, p) /\ Reports(u, v, p) /\ SameLink(u, v, p)
              /\ v.conn[p].error
              /\ v.conn[p].running <=> u.conn[p].running
              /\ v.conn[p].thread = u.conn[p].thread
              /\ v.crashed => u.crashed \/ ~(u.conn[p].error \/ u.conn[p].transport)
<1> DEFINE v == OnError(u, p)
<1>1. /\ Touches(u, v, p)
      /\ v.conn[p] = [u.conn[p] EXCEPT !.error = TRUE]
      /\ IF u.conn[p].error THEN v.looper = u.looper
         ELSE v.looper = Append(u.looper, [op |-> "error", dev |-> p])
      /\ v.crashed => u.crashed \/ ~(u.conn[p].error \/ u.conn[p].transport)
  BY OnErrorIs
<1>2. u.conn[p] \in Connection
  BY DEF LibUsbState
<1> HIDE DEF v
<1>3. /\ v.conn[p].error = TRUE /\ v.conn[p].detached = u.conn[p].detached
      /\ v.conn[p].transport = u.conn[p].transport /\ v.conn[p].running = u.conn[p].running
      /\ v.conn[p].thread = u.conn[p].thread
  BY <1>1, <1>2 DEF Connection
<1>4. Reports(u, v, p) /\ SameLink(u, v, p)
  BY <1>1, <1>3, Zenon DEF Reports, SameLink
<1> QED
  BY <1>1, <1>3, <1>4, Zenon DEF v

(* The fields that closing a connection changes, before it reports. *)
LEMMA ClosedIs ==
    ASSUME NEW u \in LibUsbState, NEW p \in Devices
    PROVE  LET v == [u EXCEPT !.conn[p].running = FALSE,
                              !.conn[p].thread = [t \in IoThreads |-> "none"]]
           IN /\ Touches(u, v, p) /\ SameLink(u, v, p)
              /\ v.looper = u.looper /\ v.crashed = u.crashed
              /\ v.conn[p].error <=> u.conn[p].error
              /\ ~v.conn[p].running
              /\ \A t \in IoThreads : v.conn[p].thread[t] = "none"
<1> DEFINE n == [t \in IoThreads |-> "none"]
           k == [u.conn[p] EXCEPT !.running = FALSE, !.thread = n]
           w == [u EXCEPT !.conn = [u.conn EXCEPT ![p] = k]]
           v == [u EXCEPT !.conn[p].running = FALSE, !.conn[p].thread = n]
<1>1. u.conn[p] \in Connection
  BY DEF LibUsbState
<1>2. n \in [IoThreads -> {"none", "running", "reports", "exited"}]
  OBVIOUS
<1>3. \A t \in IoThreads : n[t] = "none"
  OBVIOUS
<1>4. v = w
  BY Zenon DEF LibUsbState
<1> HIDE DEF n
<1>5. /\ k \in Connection /\ k.error = u.conn[p].error /\ k.running = FALSE /\ k.thread = n
      /\ k.detached = u.conn[p].detached /\ k.transport = u.conn[p].transport
  BY <1>1, <1>2, Zenon DEF Connection
<1> HIDE DEF k
<1>6. w \in LibUsbState
  BY <1>5, Zenon DEF LibUsbState
<1>7. Touches(u, w, p) /\ w.looper = u.looper /\ w.crashed = u.crashed /\ w.conn[p] = k
  BY <1>6, ZenonT(60) DEF Touches, LibUsbState
<1> HIDE DEF w, v
<1>8. SameLink(u, w, p)
  BY <1>5, <1>7, Zenon DEF SameLink
<1> QED
  BY <1>3, <1>4, <1>5, <1>7, <1>8, Zenon DEF v, n

(* Such changes of the same connection add up. *)
LEMMA TouchesTwice ==
    ASSUME NEW u, NEW v, NEW w, NEW p, Touches(u, v, p), Touches(v, w, p)
    PROVE  Touches(u, w, p)
BY Zenon DEF Touches

(* LibUsbConnection::Stop leaves a connection that does not run, and reports *)
(* the stop of one that was not detached.                                    *)
LEMMA StopIs ==
    ASSUME NEW u \in LibUsbState, NEW p \in Devices
    PROVE  LET v == Stop(u, p)
           IN /\ Touches(u, v, p) /\ Reports(u, v, p) /\ SameLink(u, v, p)
              /\ ~v.conn[p].running
              /\ u.conn[p].running => \A t \in IoThreads : v.conn[p].thread[t] = "none"
              /\ u.conn[p].running /\ ~u.conn[p].detached => v.conn[p].error
              /\ ~u.conn[p].running => v = u
              /\ v.crashed =>
                    u.crashed \/ (u.conn[p].running /\ ~u.conn[p].error /\ ~u.conn[p].transport)
<1> DEFINE n == [t \in IoThreads |-> "none"]
           reporting == \E t \in IoThreads : u.conn[p].thread[t] = "reports"
           v == IF reporting THEN OnError(u, p) ELSE u
           w == [v EXCEPT !.conn[p].running = FALSE, !.conn[p].thread = n]
           x == HandleStop(w, p)
<1>1. CASE ~u.conn[p].running
  <2>1. Stop(u, p) = u
    BY <1>1 DEF Stop
  <2>2. Touches(u, u, p) /\ Reports(u, u, p) /\ SameLink(u, u, p)
    BY DEF Touches, Reports, SameLink
  <2> QED
    BY <1>1, <2>1, <2>2
<1>2. CASE u.conn[p].running
  <2>1. Stop(u, p) = x
    BY <1>2 DEF Stop
  <2>2. /\ Touches(u, v, p) /\ Reports(u, v, p) /\ SameLink(u, v, p)
        /\ v.crashed => u.crashed \/ ~(u.conn[p].error \/ u.conn[p].transport)
    <3>1. CASE reporting
      <4>1. v = OnError(u, p)
        BY <3>1
      <4> QED
        BY <4>1, OnErrorReports
    <3>2. CASE ~reporting
      <4>1. v = u
        BY <3>2, Zenon
      <4> QED
        BY <4>1 DEF Touches, Reports, SameLink
    <3> QED
      BY <3>1, <3>2
  <2>3. v \in LibUsbState
    BY <2>2, Zenon DEF Touches
  <2> HIDE DEF v
  <2>4. /\ Touches(v, w, p) /\ SameLink(v, w, p)
        /\ w.looper = v.looper /\ w.crashed = v.crashed
        /\ w.conn[p].error <=> v.conn[p].error
        /\ ~w.conn[p].running
        /\ \A t \in IoThreads : w.conn[p].thread[t] = "none"
    BY <2>3, ClosedIs, Zenon
  <2>5. w \in LibUsbState
    BY <2>4 DEF Touches
  <2> HIDE DEF w
  <2>6. Touches(u, w, p) /\ Reports(u, w, p) /\ SameLink(u, w, p)
    BY <2>2, <2>4, TouchesTwice, Zenon DEF Reports, SameLink
  <2>7. CASE w.conn[p].detached
    <3>1. x = w
      BY <2>7 DEF HandleStop
    <3> HIDE DEF x
    <3> QED
      BY <1>2, <2>1, <2>2, <2>4, <2>6, <2>7, <3>1, Zenon DEF SameLink
  <2>8. CASE ~w.conn[p].detached
    <3>1. x = OnError(w, p)
      BY <2>8 DEF HandleStop
    <3>2. /\ Touches(w, x, p) /\ Reports(w, x, p) /\ SameLink(w, x, p)
          /\ x.conn[p].error
          /\ x.conn[p].running <=> w.conn[p].running
          /\ x.conn[p].thread = w.conn[p].thread
          /\ x.crashed => w.crashed \/ ~(w.conn[p].error \/ w.conn[p].transport)
      BY <2>5, <3>1, OnErrorReports
    <3> HIDE DEF x
    <3>3. Touches(u, x, p)
      BY <2>6, <3>2, TouchesTwice
    <3>4. Reports(u, x, p) /\ SameLink(u, x, p)
      BY <2>6, <3>2, Zenon DEF Reports, SameLink
    <3>5. x.crashed => u.crashed \/ (~u.conn[p].error /\ ~u.conn[p].transport)
      <4>1. w.conn[p].error \/ ~u.conn[p].error
        BY <2>6, Zenon DEF Reports
      <4>2. w.conn[p].transport <=> u.conn[p].transport
        BY <2>6, Zenon DEF SameLink
      <4> QED
        BY <2>2, <2>4, <3>2, <4>1, <4>2, Zenon
    <3> QED
      BY <1>2, <2>1, <2>4, <3>2, <3>3, <3>4, <3>5, Zenon
  <2> QED
    BY <2>7, <2>8
<1> QED
  BY <1>1, <1>2

-----------------------------------------------------------------------------
(***************************************************************************)
(* Arrivals.                                                               *)
(***************************************************************************)
(* There are no more arrivals under way than plugs. *)
LEMMA ArrivingCount ==
    ASSUME NEW u \in LibUsbState
    PROVE  IsFiniteSet(Arriving(u)) /\ Cardinality(Arriving(u)) \in 0 .. u.plugs
<1>1. u.plugs \in 0 .. MaxPlugs /\ MaxPlugs \in Nat
  BY UsbAssumption DEF LibUsbState
<1>2. Arriving(u) \subseteq 1 .. u.plugs
  BY <1>1 DEF Arriving, Devices
<1>3. IsFiniteSet(1 .. u.plugs) /\ Cardinality(1 .. u.plugs) = u.plugs
  <2>1. 1 \in Int /\ u.plugs \in Int
    BY <1>1
  <2>2. /\ IsFiniteSet(1 .. u.plugs)
        /\ Cardinality(1 .. u.plugs) = IF 1 > u.plugs THEN 0 ELSE u.plugs - 1 + 1
    BY <2>1, FS_Interval
  <2> QED
    BY <1>1, <2>2
<1>4. /\ IsFiniteSet(Arriving(u))
      /\ Cardinality(Arriving(u)) <= u.plugs
  BY <1>2, <1>3, FS_Subset, ZenonT(60)
<1>5. Cardinality(Arriving(u)) \in Nat
  BY <1>4, FS_CardinalityType
<1> QED
  BY <1>1, <1>4, <1>5

(* What an arrival does not touch. *)
Aside(u, v) ==
    /\ v.conn = u.conn /\ v.state = u.state /\ v.list = u.list /\ v.attached = u.attached
    /\ v.detach_okay = u.detach_okay /\ v.crashed = u.crashed
    /\ v.flushing = u.flushing

(* hotplug_callback counts an arrival and queues it. *)
LEMMA PlugIs ==
    ASSUME lu \in LibUsbState, Arrivals(lu), Plug
    PROVE  /\ lu' \in LibUsbState /\ Arrivals(lu')
           /\ Aside(lu, lu') /\ lu'.arrival = lu.arrival /\ lu'.looper = lu.looper
<1> DEFINE n == lu.plugs + 1
           e == [left |-> FALSE, dev |-> n]
           s == Append(lu.hotplug_queue, e)
<1>1. lu.plugs \in 0 .. MaxPlugs /\ MaxPlugs \in Nat /\ lu.plugs < MaxPlugs
  BY UsbAssumption DEF LibUsbState, Plug
<1>2. n \in Devices /\ n \in 0 .. MaxPlugs
  BY <1>1 DEF Devices
<1>3. e \in Arrived
  BY <1>2 DEF Arrived
<1>4. lu.hotplug_queue \in Seq(Arrived) /\ lu.connecting \in 0 .. MaxPlugs
  BY DEF LibUsbState
<1>5. lu.arrival[n] = "none" /\ ~Announced(lu.hotplug_queue, n)
  BY <1>1, <1>2 DEF Arrivals
<1>6. /\ s \in Seq(Arrived)
      /\ \A p : Announced(s, p) <=> Announced(lu.hotplug_queue, p) \/ (~e.left /\ e.dev = p)
      /\ AnnouncedOnce(lu.hotplug_queue) /\ (~e.left => ~Announced(lu.hotplug_queue, e.dev))
             => AnnouncedOnce(s)
  BY <1>3, <1>4, AnnouncedAppend, ZenonT(60)
<1>7. e.left = FALSE /\ e.dev = n
  OBVIOUS
<1> HIDE DEF e
<1>8. /\ \A p : Announced(s, p) <=> Announced(lu.hotplug_queue, p) \/ n = p
      /\ AnnouncedOnce(s)
  BY <1>5, <1>6, <1>7, Zenon DEF Arrivals
<1> HIDE DEF s
<1>9. /\ lu' = [lu EXCEPT !.plugged = TRUE, !.plugs = n, !.connecting = lu.connecting + 1,
                          !.hotplug_queue = s]
  BY DEF Plug, s, e, LibUsbState
<1>10. /\ lu'.plugs = n /\ lu'.connecting = lu.connecting + 1 /\ lu'.hotplug_queue = s
       /\ lu'.arrival = lu.arrival /\ lu'.looper = lu.looper /\ Aside(lu, lu')
  BY <1>9 DEF LibUsbState, Aside
<1>11. Arriving(lu') = Arriving(lu) \cup {n}
  BY <1>1, <1>2, <1>5, <1>10 DEF Arriving, Devices
<1>12. n \notin Arriving(lu)
  BY <1>1 DEF Arriving
<1>13. Cardinality(Arriving(lu')) = lu.connecting + 1
  <2>1. IsFiniteSet(Arriving(lu))
    BY ArrivingCount
  <2> QED
    BY <1>11, <1>12, <2>1, FS_AddElement, ZenonT(60) DEF Arrivals
<1>14. lu'.connecting \in 0 .. MaxPlugs
  <2>1. IsFiniteSet(Arriving(lu)) /\ Cardinality(Arriving(lu)) \in 0 .. lu.plugs
    BY ArrivingCount
  <2> QED
    BY <1>1, <1>10, <2>1 DEF Arrivals
<1>15. lu' \in LibUsbState
  BY <1>2, <1>6, <1>9, <1>10, <1>14, Zenon DEF LibUsbState
<1>16. \A p \in Devices :
          /\ Announced(lu'.hotplug_queue, p) => p <= lu'.plugs /\ lu'.arrival[p] = "none"
          /\ lu'.arrival[p] # "none" => p <= lu'.plugs
  <2> SUFFICES ASSUME NEW p \in Devices
               PROVE  /\ Announced(s, p) => p <= n /\ lu.arrival[p] = "none"
                      /\ lu.arrival[p] # "none" => p <= n
    BY <1>10
  <2>1. \A q \in Devices : q <= lu.plugs => q <= n
    BY <1>1 DEF Devices
  <2>2. n <= n
    BY <1>1
  <2> HIDE DEF n
  <2> QED
    BY <1>5, <1>8, <2>1, <2>2, Zenon DEF Arrivals
<1>17. lu'.plugs # 0
  BY <1>1, <1>10
<1> QED
  BY <1>8, <1>10, <1>13, <1>15, <1>16, <1>17 DEF Arrivals

(* The departure is queued behind it. *)
LEMMA UnplugIs ==
    ASSUME lu \in LibUsbState, Arrivals(lu), Unplug
    PROVE  /\ lu' \in LibUsbState /\ Arrivals(lu')
           /\ Aside(lu, lu') /\ lu'.arrival = lu.arrival /\ lu'.looper = lu.looper
<1> DEFINE e == [left |-> TRUE, dev |-> lu.plugs]
           s == Append(lu.hotplug_queue, e)
<1>1. lu.plugs \in Devices
  BY UsbAssumption DEF LibUsbState, Unplug, Arrivals, Devices
<1>2. e \in Arrived /\ e.left = TRUE
  BY <1>1 DEF Arrived
<1>3. lu.hotplug_queue \in Seq(Arrived)
  BY DEF LibUsbState
<1> HIDE DEF e
<1>4. /\ s \in Seq(Arrived)
      /\ \A p : Announced(s, p) <=> Announced(lu.hotplug_queue, p) \/ (~e.left /\ e.dev = p)
      /\ AnnouncedOnce(lu.hotplug_queue) /\ (~e.left => ~Announced(lu.hotplug_queue, e.dev))
             => AnnouncedOnce(s)
  BY <1>2, <1>3, AnnouncedAppend
<1>5. /\ \A p : Announced(s, p) <=> Announced(lu.hotplug_queue, p)
      /\ AnnouncedOnce(s)
  BY <1>2, <1>4, Zenon DEF Arrivals
<1> HIDE DEF s
<1>6. lu' = [lu EXCEPT !.plugged = FALSE, !.hotplug_queue = s]
  BY DEF Unplug, s, e, LibUsbState
<1>7. /\ lu'.plugs = lu.plugs /\ lu'.connecting = lu.connecting /\ lu'.hotplug_queue = s
      /\ lu'.arrival = lu.arrival /\ lu'.looper = lu.looper /\ Aside(lu, lu')
      /\ lu'.plugged = FALSE
  BY <1>6 DEF LibUsbState, Aside
<1>8. lu' \in LibUsbState
  BY <1>4, <1>6, Zenon DEF LibUsbState
<1>9. Arriving(lu') = Arriving(lu)
  BY <1>7, Zenon DEF Arriving
<1>10. Arrivals(lu')
  BY <1>5, <1>7, <1>9, Zenon DEF Arrivals
<1> QED
  BY <1>7, <1>8, <1>10

(* The fields that Arrivals speaks of, when an event leaves the queue. *)
LEMMA ArrivalsShrink ==
    ASSUME NEW u \in LibUsbState, NEW v, Arrivals(u), u.hotplug_queue # <<>>,
           v.hotplug_queue = Tail(u.hotplug_queue), v.plugs = u.plugs,
           v.plugged = u.plugged, v.connecting = u.connecting,
           LET e == u.hotplug_queue[1]
           IN v.arrival = IF e.left THEN u.arrival
                          ELSE [u.arrival EXCEPT ![e.dev] = "waits"]
    PROVE  Arrivals(v)
<1> DEFINE s == u.hotplug_queue
           e == s[1]
<1>1. s \in Seq(Arrived) /\ s # <<>>
  BY DEF LibUsbState
<1>2. /\ e \in Arrived
      /\ \A p : Announced(s, p) <=> Announced(Tail(s), p) \/ (~e.left /\ e.dev = p)
      /\ AnnouncedOnce(s) =>
            AnnouncedOnce(Tail(s)) /\ (~e.left => ~Announced(Tail(s), e.dev))
  BY <1>1, AnnouncedTail
<1>3. e.dev \in Devices /\ e.left \in BOOLEAN
  BY <1>2 DEF Arrived
<1>4. u.arrival \in [Devices -> {"none", "waits", "built", "emplaced", "done"}]
  BY DEF LibUsbState
<1> HIDE DEF e
<1>5. CASE e.left
  <2>1. v.arrival = u.arrival
    BY <1>5 DEF e
  <2>2. Arriving(v) = Arriving(u)
    BY <2>1, Zenon DEF Arriving
  <2> QED
    BY <1>2, <1>5, <2>1, <2>2, Zenon DEF Arrivals
<1>6. CASE ~e.left
  <2>1. v.arrival = [u.arrival EXCEPT ![e.dev] = "waits"]
    BY <1>6 DEF e
  <2>2. /\ v.arrival[e.dev] = "waits"
        /\ \A p \in Devices : p # e.dev => v.arrival[p] = u.arrival[p]
    BY <1>3, <1>4, <2>1
  <2>3. u.arrival[e.dev] = "none" /\ e.dev <= u.plugs
    BY <1>2, <1>3, <1>6, Zenon DEF Arrivals
  <2>4. "waits" # "done" /\ "none" # "done" /\ "waits" # "none"
    OBVIOUS
  <2>5. Arriving(v) = Arriving(u)
    <3>1. \A p \in Devices : v.arrival[p] # "done" <=> u.arrival[p] # "done"
      BY <2>2, <2>3, <2>4
    <3> QED
      BY <3>1, Zenon DEF Arriving
  <2>6. \A p \in Devices : Announced(Tail(s), p) => p # e.dev /\ Announced(s, p)
    BY <1>2, <1>6, Zenon DEF Arrivals
  <2>7. \A p \in Devices :
           /\ Announced(v.hotplug_queue, p) => p <= v.plugs /\ v.arrival[p] = "none"
           /\ v.arrival[p] # "none" => p <= v.plugs
    BY <2>2, <2>3, <2>6, Zenon DEF Arrivals
  <2> QED
    BY <1>2, <1>6, <2>5, <2>7, Zenon DEF Arrivals
<1> QED
  BY <1>5, <1>6

(* A step that takes nothing from a connection that runs, and after which no *)
(* other has packets that wait.                                              *)
Calm(u, v) ==
    /\ v.flushing = u.flushing
    /\ \A p \in Devices :
          /\ Posted(v.looper, "remove", p) => Posted(u.looper, "remove", p)
          /\ Posted(v.looper, "packet", p) =>
                Posted(u.looper, "packet", p) \/ v.conn[p].running
          /\ u.conn[p].running => v.conn[p].running

(* What was settled stays so. *)
LEMMA StaysSettled ==
    ASSUME NEW u, NEW v, Calm(u, v), Settled(u)
    PROVE  Settled(v)
BY Zenon DEF Calm, Settled

(* What hotplug does before it registers a transport leaves the transports be. *)
LEMMA AsideAlive ==
    ASSUME NEW u, NEW v, Alive(u), Aside(u, v), InOrder(v.looper),
           \A p \in Devices, op \in {"register", "error", "remove", "packet"} :
               Posted(v.looper, op, p) <=> Posted(u.looper, op, p),
           \A p \in Devices : v.arrival[p] # "done" => u.arrival[p] # "done"
    PROVE  Alive(v) /\ Calm(u, v)
<1>1. Steady(v)
  BY Zenon DEF Alive, Steady, Aside
<1>2. ASSUME NEW p \in Devices
      PROVE  Tracked(v, p)
  <2>1. /\ Posted(v.looper, "register", p) <=> Posted(u.looper, "register", p)
        /\ Posted(v.looper, "error", p) <=> Posted(u.looper, "error", p)
        /\ Posted(v.looper, "remove", p) <=> Posted(u.looper, "remove", p)
    OBVIOUS
  <2>2. v.list[p] = u.list[p] /\ v.conn[p] = u.conn[p]
    BY DEF Aside
  <2> QED
    BY <2>1, <2>2, Zenon DEF Alive, Tracked
<1>3. ASSUME NEW p \in Devices
      PROVE  Connected(v, p)
  <2>1. /\ v.list[p] = u.list[p] /\ v.conn[p] = u.conn[p] /\ v.state[p] = u.state[p]
        /\ v.detach_okay[p] = u.detach_okay[p]
    BY DEF Aside
  <2>2. Connected(u, p)
    BY DEF Alive
  <2> QED
    BY <2>1, <2>2, Zenon DEF Connected
<1>4. ASSUME NEW p \in Devices
      PROVE  /\ Delivered(v, p)
             /\ Posted(v.looper, "remove", p) => Posted(u.looper, "remove", p)
             /\ Posted(v.looper, "packet", p) => Posted(u.looper, "packet", p)
             /\ u.conn[p].running => v.conn[p].running
  <2>1. /\ Posted(v.looper, "packet", p) <=> Posted(u.looper, "packet", p)
        /\ Posted(v.looper, "remove", p) <=> Posted(u.looper, "remove", p)
    OBVIOUS
  <2>2. /\ v.list[p] = u.list[p] /\ v.conn[p] = u.conn[p]
        /\ v.detach_okay[p] = u.detach_okay[p]
    BY DEF Aside
  <2>3. Delivered(u, p)
    BY DEF Alive
  <2> QED
    BY <2>1, <2>2, <2>3, Zenon DEF Delivered
<1>5. v.flushing = u.flushing
  BY DEF Aside
<1> QED
  BY <1>1, <1>2, <1>3, <1>4, <1>5, Zenon DEF Alive, Calm

(* The hotplug thread takes an event: it starts an arrival's thread, or posts *)
(* the departure.                                                             *)
LEMMA HotplugIs ==
    ASSUME lu \in LibUsbState, Arrivals(lu), hotplug_thread
    PROVE  /\ lu' \in LibUsbState /\ Arrivals(lu')
           /\ Alive(lu) => Alive(lu') /\ Calm(lu, lu')
<1> DEFINE s == lu.hotplug_queue
           e == s[1]
           u == [lu EXCEPT !.hotplug_queue = Tail(lu.hotplug_queue)]
           c == [op |-> "left", dev |-> e.dev]
           w == [lu.arrival EXCEPT ![e.dev] = "waits"]
<1>1. s \in Seq(Arrived) /\ s # <<>> /\ lu.looper \in Seq(Closure)
  BY DEF LibUsbState, hotplug_thread
<1>2. Tail(s) \in Seq(Arrived) /\ e \in Arrived
  BY <1>1, AnnouncedTail
<1>3. e.dev \in Devices /\ e.left \in BOOLEAN
  BY <1>2 DEF Arrived
<1>4. lu' = IF e.left THEN device_disconnected(u, e.dev) ELSE device_connected(u, e.dev)
  BY DEF hotplug_thread
<1> HIDE DEF e
<1>5. CASE ~e.left
  <2>1. lu' = [lu EXCEPT !.hotplug_queue = Tail(s), !.arrival = w]
    BY <1>4, <1>5 DEF device_connected, LibUsbState
  <2>2. w \in [Devices -> {"none", "waits", "built", "emplaced", "done"}]
    BY <1>3 DEF LibUsbState
  <2>3. \A p \in Devices : w[p] # "done" => lu.arrival[p] # "done"
    <3>1. ~lu.arrival[e.dev] = "done"
      <4>1. Announced(s, e.dev)
        BY <1>1, <1>5, AnnouncedTail, Zenon DEF e
      <4> QED
        BY <1>3, <4>1 DEF Arrivals
    <3> QED
      BY <1>3, <3>1 DEF LibUsbState
  <2> HIDE DEF w
  <2>4. lu' \in LibUsbState
    BY <1>2, <2>1, <2>2, Zenon DEF LibUsbState
  <2>5. /\ lu'.hotplug_queue = Tail(s) /\ lu'.plugs = lu.plugs /\ lu'.plugged = lu.plugged
        /\ lu'.connecting = lu.connecting /\ lu'.arrival = w /\ lu'.looper = lu.looper
        /\ Aside(lu, lu')
    BY <2>1 DEF LibUsbState, Aside
  <2>6. Arrivals(lu')
    BY <1>1, <1>5, <2>5, ArrivalsShrink DEF e, w
  <2>7. Alive(lu) => Alive(lu') /\ Calm(lu, lu')
    <3> HAVE Alive(lu)
    <3>1. InOrder(lu.looper)
      BY DEF Alive, Steady
    <3> QED
      BY <2>3, <2>5, <3>1, AsideAlive
  <2> QED
    BY <2>4, <2>6, <2>7
<1>6. CASE e.left /\ e.dev \in lu.connections
  <2>1. lu' = [lu EXCEPT !.hotplug_queue = Tail(s), !.connections = lu.connections \ {e.dev},
                         !.looper = Append(lu.looper, c)]
    BY <1>4, <1>6 DEF device_disconnected, Post, LibUsbState
  <2>2. c \in Closure /\ c.op = "left"
    BY <1>3 DEF Closure
  <2> HIDE DEF c
  <2>3. /\ Append(lu.looper, c) \in Seq(Closure)
        /\ \A op, p : Posted(Append(lu.looper, c), op, p) <=>
                          Posted(lu.looper, op, p) \/ (c.op = op /\ c.dev = p)
        /\ InOrder(lu.looper) /\ Fits(lu.looper, c)
                  => InOrder(Append(lu.looper, c))
    BY <1>1, <2>2, PostedAppend
  <2>4. lu.connections \ {e.dev} \subseteq Devices
    BY DEF LibUsbState
  <2>5. lu' \in LibUsbState
    BY <1>2, <2>1, <2>3, <2>4, Zenon DEF LibUsbState
  <2>6. /\ lu'.hotplug_queue = Tail(s) /\ lu'.plugs = lu.plugs /\ lu'.plugged = lu.plugged
        /\ lu'.connecting = lu.connecting /\ lu'.arrival = lu.arrival
        /\ lu'.looper = Append(lu.looper, c) /\ Aside(lu, lu')
    BY <2>1 DEF LibUsbState, Aside
  <2>7. Arrivals(lu')
    BY <1>1, <1>6, <2>6, ArrivalsShrink, Zenon DEF e
  <2>8. Alive(lu) => Alive(lu') /\ Calm(lu, lu')
    <3> HAVE Alive(lu)
    <3>1. InOrder(lu'.looper)
      BY <2>2, <2>3, <2>6 DEF Alive, Steady, Fits
    <3>2. \A p \in Devices, op \in {"register", "error", "remove", "packet"} :
               Posted(lu'.looper, op, p) <=> Posted(lu.looper, op, p)
      BY <2>2, <2>3, <2>6
    <3> QED
      BY <2>6, <3>1, <3>2, AsideAlive, Zenon
  <2> QED
    BY <2>5, <2>7, <2>8
<1>7. CASE e.left /\ e.dev \notin lu.connections
  <2>1. lu' = u
    BY <1>4, <1>7 DEF device_disconnected, LibUsbState
  <2>2. lu' \in LibUsbState
    BY <1>2, <2>1, Zenon DEF LibUsbState
  <2>3. /\ lu'.hotplug_queue = Tail(s) /\ lu'.plugs = lu.plugs /\ lu'.plugged = lu.plugged
        /\ lu'.connecting = lu.connecting /\ lu'.arrival = lu.arrival
        /\ lu'.looper = lu.looper /\ Aside(lu, lu')
    BY <2>1 DEF LibUsbState, Aside
  <2>4. Arrivals(lu')
    BY <1>1, <1>7, <2>3, ArrivalsShrink, Zenon DEF e
  <2>5. Alive(lu) => Alive(lu') /\ Calm(lu, lu')
    BY <2>3, AsideAlive DEF Alive, Steady
  <2> QED
    BY <2>2, <2>4, <2>5
<1> QED
  BY <1>5, <1>6, <1>7, Zenon

(* The end of an arrival's thread is counted once. *)
LEMMA ArrivalEndsIs ==
    ASSUME NEW u \in LibUsbState, Arrivals(u), NEW p \in Devices,
           u.arrival[p] \notin {"none", "done"}
    PROVE  LET v == ArrivalEnds(u, p)
           IN /\ v \in LibUsbState /\ Arrivals(v) /\ Aside(u, v)
              /\ v.looper = u.looper
              /\ v.arrival = [u.arrival EXCEPT ![p] = "done"]
<1> DEFINE a == [u.arrival EXCEPT ![p] = "done"]
           b == u.scan_complete \/ u.connecting = 1
           v == [u EXCEPT !.arrival = a, !.connecting = u.connecting - 1, !.scan_complete = b]
<1>1. ArrivalEnds(u, p) = v
  BY DEF ArrivalEnds, LibUsbState
<1>2. a \in [Devices -> {"none", "waits", "built", "emplaced", "done"}] /\ b \in BOOLEAN
  BY DEF LibUsbState
<1>3. a[p] = "done" /\ \A q \in Devices : q # p => a[q] = u.arrival[q]
  BY DEF LibUsbState
<1> HIDE DEF a, b
<1>4. /\ v.plugs = u.plugs /\ v.plugged = u.plugged /\ v.connecting = u.connecting - 1
      /\ v.hotplug_queue = u.hotplug_queue /\ v.looper = u.looper /\ v.arrival = a
      /\ Aside(u, v)
  BY DEF LibUsbState, Aside
<1>5. p <= u.plugs /\ ~Announced(u.hotplug_queue, p)
  BY DEF Arrivals
<1>6. p \in Arriving(u)
  BY <1>5 DEF Arriving
<1>7. Arriving(v) = Arriving(u) \ {p}
  BY <1>3, <1>4 DEF Arriving
<1>8. IsFiniteSet(Arriving(u)) /\ Cardinality(Arriving(u)) \in 0 .. u.plugs
  BY ArrivingCount
<1>9. /\ Cardinality(Arriving(v)) = Cardinality(Arriving(u)) - 1
      /\ IsFiniteSet(Arriving(v))
  BY <1>6, <1>7, <1>8, FS_RemoveElement
<1>10. Cardinality(Arriving(v)) \in Nat
  BY <1>9, FS_CardinalityType
<1>11. u.connecting - 1 \in 0 .. MaxPlugs
  BY <1>8, <1>9, <1>10, UsbAssumption DEF Arrivals, LibUsbState
<1>12. v \in LibUsbState
  BY <1>2, <1>11, Zenon DEF LibUsbState
<1> HIDE DEF v
<1>13. v.connecting = Cardinality(Arriving(v))
  BY <1>4, <1>9 DEF Arrivals
<1>14. \A q \in Devices :
          /\ Announced(v.hotplug_queue, q) => q <= v.plugs /\ v.arrival[q] = "none"
          /\ v.arrival[q] # "none" => q <= v.plugs
  BY <1>3, <1>4, <1>5, Zenon DEF Arrivals
<1>15. Arrivals(v)
  BY <1>4, <1>13, <1>14, Zenon DEF Arrivals
<1> QED
  BY <1>1, <1>4, <1>12, <1>15 DEF a

(* A state that differs from another in the device p only. *)
Beside(u, v, p) ==
    \A q \in Devices : q # p =>
        /\ v.conn[q] = u.conn[q] /\ v.list[q] = u.list[q] /\ v.state[q] = u.state[q]
        /\ v.arrival[q] = u.arrival[q] /\ v.detach_okay[q] = u.detach_okay[q]
        /\ \A op : Posted(v.looper, op, q) <=> Posted(u.looper, op, q)

(* What is to be shown of a step that concerns one device. *)
LEMMA AliveStep ==
    ASSUME NEW u, NEW v, NEW p \in Devices, Alive(u), Beside(u, v, p),
           ~v.crashed, InOrder(v.looper),
           v.attached => u.attached \/ v.list[p] \in {"listed", "deleted"},
           u.list[p] \in {"listed", "deleted"} => v.list[p] \in {"listed", "deleted"},
           Tracked(v, p), Connected(v, p), Delivered(v, p)
    PROVE  Alive(v)
<1>1. Steady(v)
  <2>1. ASSUME u.attached
        PROVE  \E q \in Devices : v.list[q] \in {"listed", "deleted"}
    <3>1. PICK q \in Devices : u.list[q] \in {"listed", "deleted"}
      BY <2>1, Zenon DEF Alive, Steady
    <3>2. v.list[q] \in {"listed", "deleted"}
      BY <3>1, Zenon DEF Beside
    <3> QED
      BY <3>2
  <2> QED
    BY <2>1, Zenon DEF Steady
<1>2. ASSUME NEW q \in Devices
      PROVE  Tracked(v, q) /\ Connected(v, q) /\ Delivered(v, q)
  <2>1. CASE q = p
    BY <2>1
  <2>2. CASE q # p
    <3>1. /\ v.conn[q] = u.conn[q] /\ v.list[q] = u.list[q] /\ v.state[q] = u.state[q]
          /\ v.arrival[q] = u.arrival[q] /\ v.detach_okay[q] = u.detach_okay[q]
          /\ \A op : Posted(v.looper, op, q) <=> Posted(u.looper, op, q)
      BY <2>2, Zenon DEF Beside
    <3>2. Tracked(u, q) /\ Connected(u, q) /\ Delivered(u, q)
      BY DEF Alive
    <3>3. Tracked(v, q)
      BY <3>1, <3>2, Zenon DEF Tracked
    <3>4. Connected(v, q)
      BY <3>1, <3>2, Zenon DEF Connected
    <3>5. Delivered(v, q)
      BY <3>1, <3>2, Zenon DEF Delivered
    <3> QED
      BY <3>3, <3>4, <3>5
  <2> QED
    BY <2>1, <2>2
<1> QED
  BY <1>1, <1>2 DEF Alive

(* A step that concerns one device, and leaves what waits for it. *)
LEMMA CalmStep ==
    ASSUME NEW u, NEW v, NEW p \in Devices, Beside(u, v, p), v.flushing = u.flushing,
           Posted(v.looper, "remove", p) => Posted(u.looper, "remove", p),
           Posted(v.looper, "packet", p) =>
               Posted(u.looper, "packet", p) \/ v.conn[p].running,
           u.conn[p].running => v.conn[p].running
    PROVE  Calm(u, v)
BY Zenon DEF Calm, Beside

(* A device that has not been registered has an idle connection. *)
LEMMA Unregistered ==
    ASSUME NEW u, NEW p \in Devices, Alive(u), u.list[p] = "none"
    PROVE  /\ ~u.conn[p].transport /\ ~u.conn[p].running /\ ~u.detach_okay[p]
           /\ \A t \in IoThreads : u.conn[p].thread[t] = "none"
           /\ ~Posted(u.looper, "register", p) /\ ~u.conn[p].error
           /\ ~Posted(u.looper, "error", p) /\ ~Posted(u.looper, "remove", p)
           /\ ~Posted(u.looper, "packet", p)
<1>1. Tracked(u, p) /\ Connected(u, p) /\ Delivered(u, p)
  BY DEF Alive
<1>2. /\ "none" # "pending" /\ "none" # "deleted" /\ "none" \notin {"listed", "deleted"}
      /\ "none" # "listed"
  OBVIOUS
<1>3. /\ ~u.conn[p].transport /\ ~Posted(u.looper, "register", p) /\ ~u.conn[p].error
      /\ ~Posted(u.looper, "error", p) /\ ~Posted(u.looper, "remove", p)
  BY <1>1, <1>2, Zenon DEF Tracked
<1> QED
  BY <1>1, <1>2, <1>3, Zenon DEF Connected, Delivered

(* process_device: a connection that is detached from the start or not, or none. *)
LEMMA ProcessIs ==
    ASSUME lu \in LibUsbState, Arrivals(lu), NEW p \in Devices, process_device(p)
    PROVE  /\ lu' \in LibUsbState /\ Arrivals(lu')
           /\ Alive(lu) => Alive(lu') /\ Calm(lu, lu')
<1> DEFINE a == [lu.arrival EXCEPT ![p] = "built"]
           k == [lu.conn[p] EXCEPT !.detached = StartDetached]
           c == [lu.conn EXCEPT ![p] = k]
<1>1. lu.arrival[p] = "waits"
  BY DEF process_device
<1>2. CASE lu' = ArrivalEnds(lu, p)
  <2>1. /\ lu' \in LibUsbState /\ Arrivals(lu') /\ Aside(lu, lu')
        /\ lu'.looper = lu.looper
        /\ lu'.arrival = [lu.arrival EXCEPT ![p] = "done"]
    BY <1>1, <1>2, ArrivalEndsIs
  <2>2. \A q \in Devices : lu'.arrival[q] # "done" => lu.arrival[q] # "done"
    BY <2>1 DEF LibUsbState
  <2> QED
    BY <2>1, <2>2, AsideAlive, Zenon DEF Alive, Steady
<1>3. CASE lu' = [lu EXCEPT !.arrival[p] = "built", !.conn[p].detached = StartDetached]
  <2>1. lu' = [lu EXCEPT !.arrival = a, !.conn = c]
    BY <1>3 DEF LibUsbState
  <2>2. /\ a \in [Devices -> {"none", "waits", "built", "emplaced", "done"}]
        /\ a[p] = "built" /\ \A q \in Devices : q # p => a[q] = lu.arrival[q]
    BY DEF LibUsbState
  <2>3. lu.conn[p] \in Connection
    BY DEF LibUsbState
  <2>4. /\ k \in Connection /\ k.detached = StartDetached /\ k.running = lu.conn[p].running
        /\ k.transport = lu.conn[p].transport /\ k.error = lu.conn[p].error
        /\ k.thread = lu.conn[p].thread
    BY <2>3, UsbAssumption DEF Connection
  <2> HIDE DEF a, k
  <2>5. /\ c \in [Devices -> Connection]
        /\ c[p] = k /\ \A q \in Devices : q # p => c[q] = lu.conn[q]
    BY <2>4 DEF LibUsbState
  <2> HIDE DEF c
  <2>6. lu' \in LibUsbState
    BY <2>1, <2>2, <2>5, Zenon DEF LibUsbState
  <2>7. /\ lu'.hotplug_queue = lu.hotplug_queue /\ lu'.plugs = lu.plugs
        /\ lu'.plugged = lu.plugged /\ lu'.connecting = lu.connecting /\ lu'.arrival = a
        /\ lu'.looper = lu.looper /\ lu'.conn = c /\ lu'.list = lu.list
        /\ lu'.state = lu.state /\ lu'.attached = lu.attached
        /\ lu'.detach_okay = lu.detach_okay /\ lu'.crashed = lu.crashed
        /\ lu'.flushing = lu.flushing
    BY <2>1 DEF LibUsbState
  <2>8. Arrivals(lu')
    <3>1. p <= lu.plugs /\ ~Announced(lu.hotplug_queue, p)
      BY <1>1 DEF Arrivals
    <3>2. Arriving(lu') = Arriving(lu)
      <4>1. \A q \in Devices : lu'.arrival[q] # "done" <=> lu.arrival[q] # "done"
        BY <1>1, <2>2, <2>7
      <4> QED
        BY <2>7, <4>1, Zenon DEF Arriving
    <3>3. \A q \in Devices :
            /\ Announced(lu'.hotplug_queue, q) => q <= lu'.plugs /\ lu'.arrival[q] = "none"
            /\ lu'.arrival[q] # "none" => q <= lu'.plugs
      BY <2>2, <2>7, <3>1, Zenon DEF Arrivals
    <3> QED
      BY <2>7, <3>2, <3>3, Zenon DEF Arrivals
  <2>9. ASSUME Alive(lu)
        PROVE  Alive(lu') /\ Calm(lu, lu')
    <3>1. lu.list[p] = "none"
      BY <1>1, <2>9 DEF Alive, Tracked
    <3>2. /\ ~lu.conn[p].transport /\ ~lu.conn[p].running /\ ~lu.detach_okay[p]
          /\ \A t \in IoThreads : lu.conn[p].thread[t] = "none"
          /\ ~Posted(lu.looper, "register", p) /\ ~lu.conn[p].error
          /\ ~Posted(lu.looper, "error", p) /\ ~Posted(lu.looper, "remove", p)
          /\ ~Posted(lu.looper, "packet", p)
      BY <2>9, <3>1, Unregistered
    <3>3. "none" # "listed" /\ "none" # "deleted" /\ "none" # "pending"
      OBVIOUS
    <3>4. Tracked(lu', p)
      BY <2>4, <2>5, <2>7, <3>1, <3>2, <3>3, Zenon DEF Tracked
    <3>5. Connected(lu', p)
      BY <2>4, <2>5, <2>7, <3>1, <3>2, <3>3, Zenon DEF Connected
    <3>6. Beside(lu, lu', p)
      BY <2>2, <2>5, <2>7, Zenon DEF Beside
    <3>7. ~lu'.crashed /\ InOrder(lu'.looper)
      BY <2>7, <2>9, Zenon DEF Alive, Steady
    <3>8. Delivered(lu', p)
      BY <2>4, <2>5, <2>7, <3>2, Zenon DEF Delivered
    <3>9. Calm(lu, lu')
      BY <2>4, <2>5, <2>7, <3>2, <3>6, CalmStep, Zenon
    <3> QED
      BY <2>7, <2>9, <3>4, <3>5, <3>6, <3>7, <3>8, <3>9, AliveStep, Zenon
  <2> QED
    BY <2>6, <2>8, <2>9
<1> QED
  BY <1>2, <1>3 DEF process_device

(* The connection is put in the table. *)
LEMMA EmplaceIs ==
    ASSUME lu \in LibUsbState, Arrivals(lu), NEW p \in Devices, process_device_emplace(p)
    PROVE  /\ lu' \in LibUsbState /\ Arrivals(lu')
           /\ Alive(lu) => Alive(lu') /\ Calm(lu, lu')
<1> DEFINE a == [lu.arrival EXCEPT ![p] = "emplaced"]
<1>1. lu.arrival[p] = "built"
      /\ lu' = [lu EXCEPT !.connections = lu.connections \cup {p}, !.arrival = a]
  BY DEF process_device_emplace, LibUsbState
<1>2. /\ a \in [Devices -> {"none", "waits", "built", "emplaced", "done"}]
      /\ a[p] = "emplaced" /\ \A q \in Devices : q # p => a[q] = lu.arrival[q]
  BY DEF LibUsbState
<1> HIDE DEF a
<1>3. lu.connections \cup {p} \subseteq Devices
  BY DEF LibUsbState
<1>4. lu' \in LibUsbState
  BY <1>1, <1>2, <1>3, Zenon DEF LibUsbState
<1>5. /\ lu'.hotplug_queue = lu.hotplug_queue /\ lu'.plugs = lu.plugs
      /\ lu'.plugged = lu.plugged /\ lu'.connecting = lu.connecting /\ lu'.arrival = a
      /\ lu'.looper = lu.looper /\ Aside(lu, lu')
  BY <1>1 DEF LibUsbState, Aside
<1>6. \A q \in Devices : lu'.arrival[q] # "done" <=> lu.arrival[q] # "done"
  BY <1>1, <1>2, <1>5
<1>7. Arrivals(lu')
  <2>1. p <= lu.plugs /\ ~Announced(lu.hotplug_queue, p)
    BY <1>1 DEF Arrivals
  <2>2. Arriving(lu') = Arriving(lu)
    BY <1>5, <1>6, Zenon DEF Arriving
  <2>3. \A q \in Devices :
          /\ Announced(lu'.hotplug_queue, q) => q <= lu'.plugs /\ lu'.arrival[q] = "none"
          /\ lu'.arrival[q] # "none" => q <= lu'.plugs
    BY <1>2, <1>5, <2>1, Zenon DEF Arrivals
  <2> QED
    BY <1>5, <2>2, <2>3, Zenon DEF Arrivals
<1>8. Alive(lu) => Alive(lu') /\ Calm(lu, lu')
  BY <1>5, <1>6, AsideAlive DEF Alive, Steady
<1> QED
  BY <1>4, <1>7, <1>8

(* register_libusb_transport: the transport waits for the looper, and the *)
(* arrival is over.                                                       *)
LEMMA RegisterIs ==
    ASSUME lu \in LibUsbState, Arrivals(lu), NEW p \in Devices, register_libusb_transport(p)
    PROVE  /\ lu' \in LibUsbState /\ Arrivals(lu')
           /\ Alive(lu) => Alive(lu') /\ Calm(lu, lu')
<1> DEFINE l == [lu.list EXCEPT ![p] = "pending"]
           u == [lu EXCEPT !.list = l]
           v == ArrivalEnds(u, p)
           c == [op |-> "register", dev |-> p]
<1>1. lu.arrival[p] = "emplaced" /\ lu' = Post(v, "register", p)
  BY DEF register_libusb_transport, LibUsbState
<1>2. /\ l \in [Devices -> {"none", "pending", "listed", "deleted"}]
      /\ l[p] = "pending" /\ \A q \in Devices : q # p => l[q] = lu.list[q]
  BY DEF LibUsbState
<1> HIDE DEF l
<1>3. u \in LibUsbState
  BY <1>2, ZenonT(60) DEF LibUsbState
<1>4. /\ u.hotplug_queue = lu.hotplug_queue /\ u.plugs = lu.plugs
      /\ u.plugged = lu.plugged /\ u.connecting = lu.connecting /\ u.arrival = lu.arrival
      /\ u.looper = lu.looper /\ u.conn = lu.conn /\ u.list = l
      /\ u.state = lu.state /\ u.attached = lu.attached
      /\ u.detach_okay = lu.detach_okay /\ u.crashed = lu.crashed
      /\ u.flushing = lu.flushing
  BY DEF LibUsbState
<1> HIDE DEF u
<1>5. Arrivals(u)
  <2>1. Arriving(u) = Arriving(lu)
    BY <1>4, Zenon DEF Arriving
  <2> QED
    BY <1>4, <2>1, Zenon DEF Arrivals
<1>6. /\ v \in LibUsbState /\ Arrivals(v) /\ Aside(u, v)
      /\ v.looper = u.looper
      /\ v.arrival = [u.arrival EXCEPT ![p] = "done"]
  BY <1>1, <1>3, <1>4, <1>5, ArrivalEndsIs, Zenon
<1> HIDE DEF v
<1>7. c \in Closure /\ c.op = "register" /\ c.dev = p
  BY DEF Closure
<1>8. lu' = [v EXCEPT !.looper = Append(v.looper, c)] /\ v.looper \in Seq(Closure)
  BY <1>1, <1>6 DEF Post, LibUsbState
<1> HIDE DEF c
<1>9. /\ Append(v.looper, c) \in Seq(Closure)
      /\ \A op, q : Posted(Append(v.looper, c), op, q) <=>
                        Posted(v.looper, op, q) \/ (c.op = op /\ c.dev = q)
      /\ InOrder(v.looper) /\ Fits(v.looper, c)
                => InOrder(Append(v.looper, c))
  BY <1>7, <1>8, PostedAppend
<1>10. lu' \in LibUsbState
  BY <1>6, <1>8, <1>9, ZenonT(60) DEF LibUsbState
<1>11. /\ lu'.hotplug_queue = v.hotplug_queue /\ lu'.plugs = v.plugs
       /\ lu'.plugged = v.plugged /\ lu'.connecting = v.connecting /\ lu'.arrival = v.arrival
       /\ lu'.looper = Append(v.looper, c) /\ Aside(v, lu')
  BY <1>6, <1>8, ZenonT(60) DEF LibUsbState, Aside
<1>12. Arrivals(lu')
  <2>1. Arriving(lu') = Arriving(v)
    BY <1>11, Zenon DEF Arriving
  <2> QED
    BY <1>6, <1>11, <2>1, Zenon DEF Arrivals
<1>13. ASSUME Alive(lu)
       PROVE  Alive(lu') /\ Calm(lu, lu')
  <2>1. lu.list[p] = "none"
    BY <1>1, <1>13 DEF Alive, Tracked
  <2>2. /\ ~lu.conn[p].transport /\ ~lu.conn[p].running /\ ~lu.detach_okay[p]
        /\ \A t \in IoThreads : lu.conn[p].thread[t] = "none"
        /\ ~Posted(lu.looper, "register", p) /\ ~lu.conn[p].error
        /\ ~Posted(lu.looper, "error", p) /\ ~Posted(lu.looper, "remove", p)
        /\ ~Posted(lu.looper, "packet", p)
    BY <1>13, <2>1, Unregistered
  <2>3. /\ lu'.conn = lu.conn /\ lu'.state = lu.state /\ lu'.list = l
        /\ lu'.attached = lu.attached /\ lu'.detach_okay = lu.detach_okay
        /\ lu'.crashed = lu.crashed /\ lu'.flushing = lu.flushing
    BY <1>4, <1>6, <1>11, Zenon DEF Aside
  <2>4. \A op, q : Posted(lu'.looper, op, q) <=>
                       Posted(lu.looper, op, q) \/ ("register" = op /\ p = q)
    <3>1. lu'.looper = Append(v.looper, c) /\ v.looper = lu.looper
      BY <1>4, <1>6, <1>11
    <3> QED
      BY <1>7, <1>9, <3>1
  <2>5. lu'.arrival[p] = "done" /\ \A q \in Devices : q # p => lu'.arrival[q] = lu.arrival[q]
    BY <1>4, <1>6, <1>11 DEF LibUsbState
  <2>6. /\ "pending" # "listed" /\ "pending" # "deleted" /\ "pending" # "none"
        /\ "register" # "error" /\ "register" # "remove" /\ "register" # "packet"
    OBVIOUS
  <2>7. Tracked(lu', p)
    BY <1>2, <2>2, <2>3, <2>4, <2>5, <2>6, Zenon DEF Tracked
  <2>8. Connected(lu', p)
    <3>1. lu.conn[p].detached => StartDetached
      BY <1>13, <2>1, Zenon DEF Alive, Connected
    <3> QED
      BY <1>2, <2>2, <2>3, <2>6, <3>1, Zenon DEF Connected
  <2>9. Beside(lu, lu', p)
    BY <1>2, <2>3, <2>4, <2>5, Zenon DEF Beside
  <2>10. InOrder(lu'.looper)
    <3>1. InOrder(v.looper) /\ ~Posted(v.looper, "register", p)
      BY <1>4, <1>6, <1>13, <2>2, Zenon DEF Alive, Steady
    <3>2. Fits(v.looper, c)
      BY <1>7, <2>6, <3>1, Zenon DEF Fits
    <3> QED
      BY <1>9, <1>11, <3>1, <3>2
  <2>11. ~lu'.crashed
    BY <1>13, <2>3, Zenon DEF Alive, Steady
  <2>12. /\ lu'.attached => lu.attached
         /\ ~(lu.list[p] \in {"listed", "deleted"})
    BY <2>1, <2>3
  <2>13. Delivered(lu', p)
    BY <2>2, <2>3, <2>4, <2>6, Zenon DEF Delivered
  <2>14. Calm(lu, lu')
    BY <2>2, <2>3, <2>4, <2>6, <2>9, CalmStep, Zenon
  <2> QED
    BY <1>13, <2>7, <2>8, <2>9, <2>10, <2>11, <2>12, <2>13, <2>14, AliveStep, Zenon
<1> QED
  BY <1>10, <1>12, <1>13

-----------------------------------------------------------------------------
(***************************************************************************)
(* The connection's threads and the client's requests.                     *)
(***************************************************************************)
(* What is not hotplug leaves the arrivals be. *)
LEMMA ArrivalsSame ==
    ASSUME NEW u, NEW v, Arrivals(u), v.plugs = u.plugs, v.plugged = u.plugged,
           v.connecting = u.connecting, v.arrival = u.arrival,
           v.hotplug_queue = u.hotplug_queue
    PROVE  Arrivals(v)
<1>1. Arriving(v) = Arriving(u)
  BY Zenon DEF Arriving
<1> QED
  BY <1>1, Zenon DEF Arrivals

(* What changes one connection only leaves the arrivals alone. *)
LEMMA ArrivalsTouched ==
    ASSUME NEW u, NEW v, NEW p, Touches(u, v, p), Arrivals(u)
    PROVE  Arrivals(v)
BY ArrivalsSame, Zenon DEF Touches

(* A new value for the connection of p. *)
LEMMA ConnIs ==
    ASSUME NEW u \in LibUsbState, NEW p \in Devices, NEW k \in Connection
    PROVE  LET v == [u EXCEPT !.conn = [u.conn EXCEPT ![p] = k]]
           IN /\ Touches(u, v, p) /\ v.conn[p] = k
              /\ v.looper = u.looper /\ v.crashed = u.crashed
<1> DEFINE v == [u EXCEPT !.conn = [u.conn EXCEPT ![p] = k]]
<1>1. v \in LibUsbState
  BY Zenon DEF LibUsbState
<1>2. Touches(u, v, p) /\ v.conn[p] = k /\ v.looper = u.looper /\ v.crashed = u.crashed
  BY <1>1, ZenonT(60) DEF Touches, LibUsbState
<1> QED
  BY <1>2

(* A report is the only closure posted. *)
LEMMA ReportedIs ==
    ASSUME NEW u \in LibUsbState, NEW v, NEW p \in Devices, Touches(u, v, p), Reports(u, v, p)
    PROVE  /\ Beside(u, v, p)
           /\ InOrder(u.looper) => InOrder(v.looper)
           /\ \A op : Posted(v.looper, op, p) <=>
                         \/ Posted(u.looper, op, p)
                         \/ op = "error" /\ v.conn[p].error /\ ~u.conn[p].error
<1>1. CASE v.looper = u.looper /\ (v.conn[p].error <=> u.conn[p].error)
  <2>1. Beside(u, v, p)
    BY <1>1, Zenon DEF Beside, Touches
  <2> QED
    BY <1>1, <2>1, Zenon
<1>2. CASE /\ v.looper = Append(u.looper, [op |-> "error", dev |-> p])
           /\ v.conn[p].error /\ ~u.conn[p].error
  <2> DEFINE c == [op |-> "error", dev |-> p]
  <2>1. c \in Closure /\ c.op = "error" /\ c.dev = p /\ u.looper \in Seq(Closure)
    BY DEF Closure, LibUsbState
  <2>2. v.looper = Append(u.looper, c)
    BY <1>2
  <2> HIDE DEF c
  <2>3. /\ \A op, q : Posted(v.looper, op, q) <=>
                          Posted(u.looper, op, q) \/ (c.op = op /\ c.dev = q)
        /\ InOrder(u.looper) /\ Fits(u.looper, c)
                  => InOrder(v.looper)
    BY <2>1, <2>2, PostedAppend
  <2>4. /\ \A op, q : Posted(v.looper, op, q) <=> Posted(u.looper, op, q) \/ ("error" = op /\ p = q)
        /\ InOrder(u.looper) => InOrder(v.looper)
    BY <2>1, <2>3 DEF Fits
  <2>5. Beside(u, v, p)
    <3>1. \A q : q # p => \A op : Posted(v.looper, op, q) <=> Posted(u.looper, op, q)
      BY <2>4
    <3> QED
      BY <3>1, Zenon DEF Beside, Touches
  <2>6. \A op : Posted(v.looper, op, p) <=> Posted(u.looper, op, p) \/ op = "error"
    BY <2>4
  <2> QED
    BY <1>2, <2>4, <2>5, <2>6, Zenon
<1> QED
  BY <1>1, <1>2 DEF Reports

(* A connection that reports is tracked as before. *)
LEMMA TrackedReports ==
    ASSUME NEW u \in LibUsbState, NEW v, NEW p \in Devices, Touches(u, v, p),
           Reports(u, v, p), SameLink(u, v, p), Tracked(u, p),
           v.conn[p].error => u.conn[p].error \/ u.conn[p].transport
    PROVE  Tracked(v, p)
<1>1. \A op : Posted(v.looper, op, p) <=>
                 \/ Posted(u.looper, op, p)
                 \/ op = "error" /\ v.conn[p].error /\ ~u.conn[p].error
  BY ReportedIs
<1>2. /\ Posted(v.looper, "register", p) <=> Posted(u.looper, "register", p)
      /\ Posted(v.looper, "remove", p) <=> Posted(u.looper, "remove", p)
      /\ Posted(v.looper, "error", p) <=>
            Posted(u.looper, "error", p) \/ (v.conn[p].error /\ ~u.conn[p].error)
  BY <1>1
<1>3. v.list[p] = u.list[p] /\ v.arrival[p] = u.arrival[p]
  BY DEF Touches
<1>4. /\ v.conn[p].transport <=> u.conn[p].transport
      /\ u.conn[p].error => v.conn[p].error
  BY Zenon DEF SameLink, Reports
<1> QED
  BY <1>2, <1>3, <1>4, Zenon DEF Tracked

(* What it has read is still that of a connection that runs or has failed. *)
LEMMA DeliveredReports ==
    ASSUME NEW u \in LibUsbState, NEW v, NEW p \in Devices, Touches(u, v, p),
           Reports(u, v, p), Delivered(u, p),
           v.conn[p].running => u.conn[p].running,
           ReadFrom(u.conn[p]) => ReadFrom(v.conn[p])
    PROVE  /\ Delivered(v, p)
           /\ Posted(v.looper, "packet", p) <=> Posted(u.looper, "packet", p)
           /\ Posted(v.looper, "remove", p) <=> Posted(u.looper, "remove", p)
<1>1. \A op : Posted(v.looper, op, p) <=>
                 \/ Posted(u.looper, op, p)
                 \/ op = "error" /\ v.conn[p].error /\ ~u.conn[p].error
  BY ReportedIs
<1>2. /\ Posted(v.looper, "packet", p) <=> Posted(u.looper, "packet", p)
      /\ Posted(v.looper, "remove", p) <=> Posted(u.looper, "remove", p)
  BY <1>1
<1>3. v.list[p] = u.list[p] /\ v.detach_okay[p] = u.detach_okay[p]
  BY DEF Touches
<1> QED
  BY <1>2, <1>3, Zenon DEF Delivered

(* A step of a connection that keeps its promises. *)
LEMMA AliveReports ==
    ASSUME NEW u \in LibUsbState, NEW v, NEW p \in Devices, Alive(u), Touches(u, v, p),
           Reports(u, v, p), SameLink(u, v, p), Connected(v, p), Delivered(v, p), ~v.crashed,
           v.conn[p].error => u.conn[p].error \/ u.conn[p].transport
    PROVE  Alive(v)
<1>1. Beside(u, v, p) /\ (InOrder(u.looper) => InOrder(v.looper))
  BY ReportedIs
<1>2. Tracked(v, p)
  BY TrackedReports DEF Alive
<1>3. v.list[p] = u.list[p] /\ v.attached = u.attached
  BY DEF Touches
<1>4. InOrder(v.looper)
  BY <1>1 DEF Alive, Steady
<1> QED
  BY <1>1, <1>2, <1>3, <1>4, AliveStep

(* A transfer fails: the thread of a live connection is going to report it. *)
LEMMA ThreadFailsIs ==
    ASSUME lu \in LibUsbState, Arrivals(lu), NEW p \in Devices, NEW t \in IoThreads,
           ThreadFails(p, t)
    PROVE  /\ lu' \in LibUsbState /\ Arrivals(lu')
           /\ Alive(lu) => Alive(lu') /\ Calm(lu, lu')
<1> DEFINE x == IF lu.conn[p].detached THEN "exited" ELSE "reports"
           n == [lu.conn[p].thread EXCEPT ![t] = x]
           k == [lu.conn[p] EXCEPT !.thread = n]
<1>1. lu.conn[p] \in Connection /\ lu.conn[p].thread[t] = "running"
  BY DEF LibUsbState, ThreadFails
<1>2. lu' = [lu EXCEPT !.conn = [lu.conn EXCEPT ![p] = k]]
  BY DEF ThreadFails, LibUsbState
<1>3. x \in {"exited", "reports"} /\ (~lu.conn[p].detached => x = "reports")
  OBVIOUS
<1> HIDE DEF x
<1>4. /\ n \in [IoThreads -> {"none", "running", "reports", "exited"}]
      /\ n[t] = x /\ \A w \in IoThreads : w # t => n[w] = lu.conn[p].thread[w]
  BY <1>1, <1>3 DEF Connection
<1> HIDE DEF n
<1>5. /\ k \in Connection /\ k.detached = lu.conn[p].detached /\ k.running = lu.conn[p].running
      /\ k.transport = lu.conn[p].transport /\ k.error = lu.conn[p].error /\ k.thread = n
  BY <1>1, <1>4 DEF Connection
<1> HIDE DEF k
<1>6. /\ Touches(lu, lu', p) /\ lu'.conn[p] = k
      /\ lu'.looper = lu.looper /\ lu'.crashed = lu.crashed
  BY <1>2, <1>5, ConnIs
<1>7. ASSUME Alive(lu)
      PROVE  Alive(lu') /\ Calm(lu, lu')
  <2>1. Connected(lu, p) /\ Delivered(lu, p)
    BY <1>7 DEF Alive
  <2>2. lu.conn[p].running /\ ~lu.conn[p].detached
    BY <1>1, <2>1 DEF Connected
  <2>3. /\ lu'.list[p] = lu.list[p] /\ lu'.state[p] = lu.state[p]
        /\ lu'.detach_okay[p] = lu.detach_okay[p]
    BY <1>6 DEF Touches
  <2>4. "read" \in IoThreads
    BY DEF IoThreads
  <2>5. ReadFrom(lu.conn[p]) => ReadFrom(lu'.conn[p])
    <3>1. lu.conn[p].thread["read"] \in {"running", "reports"} => n["read"] \in {"running", "reports"}
      BY <1>3, <1>4, <2>2, <2>4
    <3> QED
      BY <1>5, <1>6, <3>1, Zenon DEF ReadFrom
  <2>6. Connected(lu', p)
    BY <1>5, <1>6, <2>1, <2>2, <2>3, <2>5, Zenon DEF Connected
  <2>7. Reports(lu, lu', p) /\ SameLink(lu, lu', p)
    BY <1>5, <1>6, Zenon DEF Reports, SameLink
  <2>8. ~lu'.crashed
    BY <1>6, <1>7 DEF Alive, Steady
  <2>9. lu'.conn[p].running <=> lu.conn[p].running
    BY <1>5, <1>6
  <2>10. /\ Delivered(lu', p)
         /\ Posted(lu'.looper, "packet", p) <=> Posted(lu.looper, "packet", p)
         /\ Posted(lu'.looper, "remove", p) <=> Posted(lu.looper, "remove", p)
    BY <1>6, <2>1, <2>5, <2>7, <2>9, DeliveredReports, Zenon
  <2>11. Calm(lu, lu')
    <3>1. Beside(lu, lu', p) /\ lu'.flushing = lu.flushing
      BY <1>6, <2>7, ReportedIs DEF Touches
    <3> QED
      BY <2>9, <2>10, <3>1, CalmStep, Zenon
  <2> QED
    BY <1>5, <1>6, <1>7, <2>6, <2>7, <2>8, <2>10, <2>11, AliveReports, Zenon
<1> QED
  BY <1>6, <1>7, ArrivalsTouched DEF Touches

(* It reports, through the transport. *)
LEMMA ThreadReportsIs ==
    ASSUME lu \in LibUsbState, Arrivals(lu), NEW p \in Devices, NEW t \in IoThreads,
           ThreadReports(p, t)
    PROVE  /\ lu' \in LibUsbState /\ Arrivals(lu')
           /\ Alive(lu) => Alive(lu') /\ Calm(lu, lu')
<1> DEFINE n == [lu.conn[p].thread EXCEPT ![t] = "exited"]
           k == [lu.conn[p] EXCEPT !.thread = n]
           u == [lu EXCEPT !.conn = [lu.conn EXCEPT ![p] = k]]
<1>1. lu.conn[p] \in Connection /\ lu.conn[p].thread[t] = "reports"
  BY DEF LibUsbState, ThreadReports
<1>2. lu' = OnError(u, p)
  BY DEF ThreadReports, LibUsbState
<1>3. n \in [IoThreads -> {"none", "running", "reports", "exited"}]
  BY <1>1 DEF Connection
<1> HIDE DEF n
<1>4. /\ k \in Connection /\ k.detached = lu.conn[p].detached /\ k.running = lu.conn[p].running
      /\ k.transport = lu.conn[p].transport /\ k.error = lu.conn[p].error /\ k.thread = n
  BY <1>1, <1>3 DEF Connection
<1> HIDE DEF k
<1>5. /\ Touches(lu, u, p) /\ u.conn[p] = k
      /\ u.looper = lu.looper /\ u.crashed = lu.crashed
  BY <1>4, ConnIs
<1> HIDE DEF u
<1>6. u \in LibUsbState
  BY <1>5 DEF Touches
<1>7. /\ Touches(u, lu', p) /\ Reports(u, lu', p) /\ SameLink(u, lu', p)
      /\ lu'.conn[p].error
      /\ lu'.conn[p].running <=> u.conn[p].running
      /\ lu'.conn[p].thread = u.conn[p].thread
      /\ lu'.crashed => u.crashed \/ ~(u.conn[p].error \/ u.conn[p].transport)
  BY <1>2, <1>6, OnErrorReports
<1>8. Touches(lu, lu', p)
  BY <1>5, <1>7, TouchesTwice
<1>9. Reports(lu, lu', p) /\ SameLink(lu, lu', p)
  BY <1>4, <1>5, <1>7, Zenon DEF Reports, SameLink
<1>10. ASSUME Alive(lu)
       PROVE  Alive(lu') /\ Calm(lu, lu')
  <2>1. Connected(lu, p) /\ Delivered(lu, p) /\ ~lu.crashed
    BY <1>10 DEF Alive, Steady
  <2>2. lu.conn[p].running
    BY <1>1, <2>1 DEF Connected
  <2>3. lu.conn[p].transport
    BY <2>1, <2>2 DEF Connected
  <2>4. /\ lu'.list[p] = lu.list[p] /\ lu'.state[p] = lu.state[p]
        /\ lu'.detach_okay[p] = lu.detach_okay[p]
    BY <1>8 DEF Touches
  <2>5. /\ lu'.conn[p].running <=> lu.conn[p].running
        /\ lu'.conn[p].detached <=> lu.conn[p].detached
        /\ lu'.conn[p].transport <=> lu.conn[p].transport
    BY <1>4, <1>5, <1>7, <1>9, Zenon DEF SameLink
  <2>6. Connected(lu', p)
    BY <1>7, <2>1, <2>2, <2>4, <2>5, Zenon DEF Connected, ReadFrom
  <2>7. ~lu'.crashed
    BY <1>4, <1>5, <1>7, <2>1, <2>3, Zenon
  <2>8. /\ Delivered(lu', p)
        /\ Posted(lu'.looper, "packet", p) <=> Posted(lu.looper, "packet", p)
        /\ Posted(lu'.looper, "remove", p) <=> Posted(lu.looper, "remove", p)
    <3>1. ReadFrom(lu'.conn[p])
      BY <1>7 DEF ReadFrom
    <3> QED
      BY <1>8, <1>9, <2>1, <2>5, <3>1, DeliveredReports, Zenon
  <2>9. Calm(lu, lu')
    <3>1. Beside(lu, lu', p) /\ lu'.flushing = lu.flushing
      BY <1>8, <1>9, ReportedIs DEF Touches
    <3> QED
      BY <2>5, <2>8, <3>1, CalmStep, Zenon
  <2> QED
    BY <1>8, <1>9, <1>10, <2>3, <2>6, <2>7, <2>8, <2>9, AliveReports, Zenon
<1> QED
  BY <1>8, <1>10, ArrivalsTouched DEF Touches

(* HandleRead: the packet that is posted is of a connection that runs. *)
LEMMA ReadIs ==
    ASSUME lu \in LibUsbState, Arrivals(lu), NEW p \in Devices, HandleRead(p)
    PROVE  /\ lu' \in LibUsbState /\ Arrivals(lu')
           /\ Alive(lu) => Alive(lu') /\ Calm(lu, lu')
<1> DEFINE c == [op |-> "packet", dev |-> p]
           s == Append(lu.looper, c)
           n == lu.packets + 1
<1>1. lu.conn[p].thread["read"] = "running" /\ n \in 0 .. MaxPackets
  BY UsbAssumption DEF HandleRead, LibUsbState
<1>2. lu' = [lu EXCEPT !.packets = n, !.looper = s]
  BY DEF HandleRead, Post, LibUsbState
<1>3. c \in Closure /\ c.op = "packet" /\ c.dev = p /\ lu.looper \in Seq(Closure)
  BY DEF Closure, LibUsbState
<1> HIDE DEF c, n
<1>4. /\ s \in Seq(Closure)
      /\ \A op, q : Posted(s, op, q) <=>
                        Posted(lu.looper, op, q) \/ (c.op = op /\ c.dev = q)
      /\ InOrder(lu.looper) /\ Fits(lu.looper, c) => InOrder(s)
  BY <1>3, PostedAppend
<1> HIDE DEF s
<1>5. lu' \in LibUsbState
  BY <1>1, <1>2, <1>4, ZenonT(60) DEF LibUsbState
<1>6. /\ lu'.state = lu.state /\ lu'.hotplug_queue = lu.hotplug_queue
      /\ lu'.plugs = lu.plugs /\ lu'.plugged = lu.plugged /\ lu'.connecting = lu.connecting
      /\ lu'.arrival = lu.arrival /\ lu'.looper = s /\ lu'.conn = lu.conn
      /\ lu'.list = lu.list /\ lu'.attached = lu.attached /\ lu'.flushing = lu.flushing
      /\ lu'.detach_okay = lu.detach_okay /\ lu'.crashed = lu.crashed
  BY <1>2 DEF LibUsbState
<1>7. ASSUME Alive(lu)
      PROVE  Alive(lu') /\ Calm(lu, lu')
  <2>1. /\ Connected(lu, p) /\ Tracked(lu, p) /\ Delivered(lu, p)
        /\ ~lu.crashed /\ InOrder(lu.looper)
    BY <1>7 DEF Alive, Steady
  <2>2. lu.conn[p].running
    BY <1>1, <2>1 DEF Connected, IoThreads
  <2>3. lu.list[p] = "listed" /\ ReadFrom(lu.conn[p]) /\ ~Posted(lu.looper, "remove", p)
    BY <2>1, <2>2, Zenon DEF Delivered
  <2>4. \A op, q : Posted(lu'.looper, op, q) <=>
                       Posted(lu.looper, op, q) \/ (op = "packet" /\ q = p)
    BY <1>3, <1>4, <1>6
  <2>5. /\ Posted(lu'.looper, "register", p) <=> Posted(lu.looper, "register", p)
        /\ Posted(lu'.looper, "error", p) <=> Posted(lu.looper, "error", p)
        /\ Posted(lu'.looper, "remove", p) <=> Posted(lu.looper, "remove", p)
    BY <2>4
  <2>6. Tracked(lu', p)
    BY <1>6, <2>1, <2>5, Zenon DEF Tracked
  <2>7. Connected(lu', p)
    BY <1>6, <2>1, Zenon DEF Connected
  <2>8. Delivered(lu', p)
    BY <1>6, <2>3, <2>5, Zenon DEF Delivered
  <2>9. Beside(lu, lu', p)
    <3>1. \A q : q # p => \A op : Posted(lu'.looper, op, q) <=> Posted(lu.looper, op, q)
      BY <2>4
    <3> QED
      BY <1>6, <3>1, Zenon DEF Beside
  <2>10. InOrder(lu'.looper)
    <3>1. Fits(lu.looper, c)
      BY <1>3, <2>3 DEF Fits
    <3> QED
      BY <1>4, <1>6, <2>1, <3>1
  <2>11. Calm(lu, lu')
    BY <1>6, <2>2, <2>5, <2>9, CalmStep
  <2> QED
    BY <1>6, <1>7, <2>1, <2>6, <2>7, <2>8, <2>9, <2>10, <2>11, AliveStep
<1> QED
  BY <1>5, <1>6, <1>7, ArrivalsSame

(* Flush ends with nothing that waits. *)
LEMMA FlushIs ==
    ASSUME NEW v \in LibUsbState
    PROVE  /\ Flush(v) \in LibUsbState /\ Settled(Flush(v))
           /\ Arrivals(v) => Arrivals(Flush(v))
           /\ Alive(v) => Alive(Flush(v))
<1> DEFINE b == v.looper # <<>>
           w == [v EXCEPT !.flushing = b]
<1>1. Flush(v) = w
  BY DEF Flush
<1>2. b \in BOOLEAN
  OBVIOUS
<1> HIDE DEF b
<1>3. w \in LibUsbState
  BY <1>2, Zenon DEF LibUsbState
<1>4. /\ w.conn = v.conn /\ w.state = v.state /\ w.list = v.list
      /\ w.arrival = v.arrival /\ w.attached = v.attached /\ w.looper = v.looper
      /\ w.detach_okay = v.detach_okay /\ w.crashed = v.crashed
      /\ w.plugs = v.plugs /\ w.plugged = v.plugged
      /\ w.connecting = v.connecting /\ w.hotplug_queue = v.hotplug_queue
      /\ w.flushing = b
  BY DEF LibUsbState
<1> HIDE DEF w
<1>5. Arrivals(v) => Arrivals(w)
  BY <1>4, ArrivalsSame
<1>6. ASSUME ~w.flushing
      PROVE  \A op, p : ~Posted(w.looper, op, p)
  <2>1. w.looper = <<>>
    BY <1>4, <1>6, Zenon DEF b
  <2>2. \A i \in DOMAIN <<>> : FALSE
    OBVIOUS
  <2> QED
    BY <2>1, <2>2, Zenon DEF Posted
<1>7. Settled(w)
  BY <1>6, Zenon DEF Settled
<1>8. ASSUME Alive(v)
      PROVE  Alive(w)
  <2>1. Steady(w)
    BY <1>4, <1>8, Zenon DEF Alive, Steady
  <2>2. ASSUME NEW p \in Devices
        PROVE  Tracked(w, p) /\ Connected(w, p) /\ Delivered(w, p)
    <3>1. Tracked(v, p) /\ Connected(v, p) /\ Delivered(v, p)
      BY <1>8 DEF Alive
    <3>2. Tracked(w, p)
      BY <1>4, <3>1, Zenon DEF Tracked
    <3>3. Connected(w, p)
      BY <1>4, <3>1, Zenon DEF Connected
    <3>4. Delivered(w, p)
      BY <1>4, <3>1, Zenon DEF Delivered
    <3> QED
      BY <3>2, <3>3, <3>4
  <2> QED
    BY <2>1, <2>2 DEF Alive
<1> QED
  BY <1>1, <1>3, <1>5, <1>7, <1>8

(* The state of a request for p: the fields that it may set. *)
Asked(u, b, s, d, k, p) ==
    [u EXCEPT !.requests = u.requests + 1, !.attached = b,
              !.state = [u.state EXCEPT ![p] = s],
              !.detach_okay = [u.detach_okay EXCEPT ![p] = d],
              !.conn = [u.conn EXCEPT ![p] = k]]

HasAsked(u, v, b, s, d, k, p) ==
    /\ v \in LibUsbState /\ Beside(u, v, p) /\ (Arrivals(u) => Arrivals(v))
    /\ v.attached = b /\ v.state[p] = s /\ v.detach_okay[p] = d /\ v.conn[p] = k
    /\ v.looper = u.looper /\ v.crashed = u.crashed /\ v.list = u.list
    /\ v.arrival = u.arrival

(* A request changes p and the attached serial alone. *)
LEMMA AskedIs ==
    ASSUME NEW u \in LibUsbState, NEW p \in Devices, u.requests < MaxRequests,
           NEW b \in BOOLEAN, NEW s \in {"offline", "device", "detached"}, NEW d \in BOOLEAN,
           NEW k \in Connection
    PROVE  HasAsked(u, Asked(u, b, s, d, k, p), b, s, d, k, p)
<1> DEFINE r == u.requests + 1
           ss == [u.state EXCEPT ![p] = s]
           dd == [u.detach_okay EXCEPT ![p] = d]
           kk == [u.conn EXCEPT ![p] = k]
           v == Asked(u, b, s, d, k, p)
<1>1. r \in 0 .. MaxRequests
  BY UsbAssumption DEF LibUsbState
<1>2. /\ ss \in [Devices -> {"offline", "device", "detached"}]
      /\ ss[p] = s /\ \A q \in Devices : q # p => ss[q] = u.state[q]
  BY DEF LibUsbState
<1>3. /\ dd \in [Devices -> BOOLEAN]
      /\ dd[p] = d /\ \A q \in Devices : q # p => dd[q] = u.detach_okay[q]
  BY DEF LibUsbState
<1>4. /\ kk \in [Devices -> Connection]
      /\ kk[p] = k /\ \A q \in Devices : q # p => kk[q] = u.conn[q]
  BY DEF LibUsbState
<1>5. v = [u EXCEPT !.requests = r, !.attached = b, !.state = ss, !.detach_okay = dd,
                    !.conn = kk]
  BY DEF Asked
<1> HIDE DEF r, ss, dd, kk, v
<1>6. v \in LibUsbState
  BY <1>1, <1>2, <1>3, <1>4, <1>5, ZenonT(60) DEF LibUsbState
<1>7. /\ v.attached = b /\ v.state = ss /\ v.detach_okay = dd /\ v.conn = kk
      /\ v.looper = u.looper /\ v.crashed = u.crashed /\ v.list = u.list
      /\ v.arrival = u.arrival /\ v.plugs = u.plugs /\ v.plugged = u.plugged
      /\ v.connecting = u.connecting /\ v.hotplug_queue = u.hotplug_queue
  BY <1>5 DEF LibUsbState
<1>8. Beside(u, v, p)
  BY <1>2, <1>3, <1>4, <1>7, Zenon DEF Beside
<1>9. Arrivals(u) => Arrivals(v)
  BY <1>7, ArrivalsSame
<1> QED
  BY <1>2, <1>3, <1>4, <1>6, <1>7, <1>8, <1>9, Zenon DEF v, HasAsked

(* LibUsbConnection::Start runs both threads, and may find them joinable. *)
LEMMA StartedIs ==
    ASSUME NEW u \in LibUsbState, NEW p \in Devices
    PROVE  LET v == Started(u, p)
           IN /\ Touches(u, v, p) /\ SameLink(u, v, p)
              /\ v.looper = u.looper
              /\ v.conn[p].error <=> u.conn[p].error
              /\ v.conn[p].running
              /\ \A t \in IoThreads : v.conn[p].thread[t] = "running"
              /\ v.crashed => u.crashed \/ \E t \in IoThreads : u.conn[p].thread[t] # "none"
<1> DEFINE n == [t \in IoThreads |-> "running"]
           k == [u.conn[p] EXCEPT !.running = TRUE, !.thread = n]
           b == u.crashed \/ \E t \in IoThreads : u.conn[p].thread[t] # "none"
           kk == [u.conn EXCEPT ![p] = k]
           w == [u EXCEPT !.crashed = b, !.conn = kk]
<1>1. u.conn[p] \in Connection
  BY DEF LibUsbState
<1>2. n \in [IoThreads -> {"none", "running", "reports", "exited"}]
  OBVIOUS
<1>3. \A t \in IoThreads : n[t] = "running"
  OBVIOUS
<1>4. Started(u, p) = w
  <2>1. u.conn \in [Devices -> Connection] /\ u.conn[p] \in Connection
    BY DEF LibUsbState
  <2>2. [u EXCEPT !.crashed = b, !.conn[p].running = TRUE, !.conn[p].thread = n] = w
    BY <2>1, ZenonT(60) DEF Connection
  <2> QED
    BY <2>2 DEF Started
<1> HIDE DEF n
<1>5. /\ k \in Connection /\ k.error = u.conn[p].error /\ k.running = TRUE /\ k.thread = n
      /\ k.detached = u.conn[p].detached /\ k.transport = u.conn[p].transport
  BY <1>1, <1>2, Zenon DEF Connection
<1> HIDE DEF k
<1>6. /\ kk \in [Devices -> Connection]
      /\ kk[p] = k /\ \A q \in Devices : q # p => kk[q] = u.conn[q]
  BY <1>5 DEF LibUsbState
<1>7. b \in BOOLEAN
  OBVIOUS
<1> HIDE DEF b, kk
<1>8. w \in LibUsbState
  BY <1>6, <1>7, Zenon DEF LibUsbState
<1>9. Touches(u, w, p) /\ w.looper = u.looper /\ w.crashed = b /\ w.conn[p] = k
  BY <1>6, <1>8 DEF Touches, LibUsbState
<1> HIDE DEF w
<1>10. SameLink(u, w, p)
  BY <1>5, <1>9, Zenon DEF SameLink
<1> QED
  BY <1>3, <1>4, <1>5, <1>9, <1>10, Zenon DEF b

(* Steps of the same device add up. *)
LEMMA BesideTwice ==
    ASSUME NEW u, NEW v, NEW w, NEW p, Beside(u, v, p), Beside(v, w, p)
    PROVE  Beside(u, w, p)
BY Zenon DEF Beside

(* host:attach: an attached connection that was detached runs again if the *)
(* device can be opened; one that never was detached is left as it is.     *)
LEMMA AttachIs ==
    ASSUME lu \in LibUsbState, Arrivals(lu), NEW p \in Devices, Attach(p)
    PROVE  /\ lu' \in LibUsbState /\ Arrivals(lu')
           /\ Alive(lu) /\ Settled(lu) => Alive(lu') /\ Settled(lu')
<1> DEFINE k == [lu.conn[p] EXCEPT !.detached = FALSE]
           yes == TRUE
           no == FALSE
           u == Asked(lu, yes, lu.state[p], lu.detach_okay[p], lu.conn[p], p)
           v == Asked(lu, yes, lu.state[p], no, k, p)
<1>1. /\ lu.conn[p] \in Connection /\ lu.state[p] \in {"offline", "device", "detached"}
      /\ lu.detach_okay[p] \in BOOLEAN /\ yes \in BOOLEAN /\ no \in BOOLEAN
  BY DEF LibUsbState
<1>2. lu.list[p] = "listed" /\ lu.requests < MaxRequests /\ ~lu.flushing
  BY DEF Attach, Requested
<1>3. /\ k \in Connection /\ k.detached = FALSE /\ k.running = lu.conn[p].running
      /\ k.transport = lu.conn[p].transport /\ k.error = lu.conn[p].error
      /\ k.thread = lu.conn[p].thread
  BY <1>1, Zenon DEF Connection
<1>4. PICK g : /\ lu' = Flush(g)
               /\ \/ g = u
                  \/ g = v /\ lu.state[p] = "detached"
                  \/ g = Started(v, p) /\ lu.state[p] = "detached" /\ lu.conn[p].detached
  <2> DEFINE a == [lu EXCEPT !.requests = @ + 1, !.attached = TRUE]
             b == [a EXCEPT !.conn[p].detached = FALSE, !.detach_okay[p] = FALSE]
  <2>1. a = u
    BY <1>1, ZenonT(60) DEF Asked, LibUsbState
  <2>2. b = v
    BY <1>1, ZenonT(60) DEF Asked, LibUsbState
  <2>3. PICK opened \in MayOpen(lu, p) :
            lu' = Flush(IF lu.state[p] # "detached" THEN a
                        ELSE IF ~lu.conn[p].detached THEN b
                        ELSE IF opened THEN Started(b, p) ELSE b)
    BY DEF Attach
  <2> HIDE DEF a, b, u, v
  <2> QED
    BY <2>1, <2>2, <2>3
<1> HIDE DEF k, yes, no
<1>5. /\ u \in LibUsbState /\ Beside(lu, u, p) /\ (Arrivals(lu) => Arrivals(u))
      /\ u.attached = yes /\ u.state[p] = lu.state[p] /\ u.detach_okay[p] = lu.detach_okay[p]
      /\ u.conn[p] = lu.conn[p]
      /\ u.looper = lu.looper /\ u.crashed = lu.crashed /\ u.list = lu.list
      /\ u.arrival = lu.arrival
  <2>1. HasAsked(lu, Asked(lu, yes, lu.state[p], lu.detach_okay[p], lu.conn[p], p),
                 yes, lu.state[p], lu.detach_okay[p], lu.conn[p], p)
    BY <1>1, <1>2, AskedIs
  <2> QED
    BY <2>1, Zenon DEF HasAsked
<1>6. /\ v \in LibUsbState /\ Beside(lu, v, p) /\ (Arrivals(lu) => Arrivals(v))
      /\ v.attached = yes /\ v.state[p] = lu.state[p] /\ v.detach_okay[p] = no
      /\ v.conn[p] = k
      /\ v.looper = lu.looper /\ v.crashed = lu.crashed /\ v.list = lu.list
      /\ v.arrival = lu.arrival
  <2>1. HasAsked(lu, Asked(lu, yes, lu.state[p], no, k, p), yes, lu.state[p], no, k, p)
    BY <1>1, <1>2, <1>3, AskedIs
  <2> QED
    BY <2>1, Zenon DEF HasAsked
<1> HIDE DEF u, v
<1> USE DEF yes, no
<1>7. /\ Touches(v, Started(v, p), p) /\ SameLink(v, Started(v, p), p)
      /\ Started(v, p).looper = v.looper
      /\ Started(v, p).conn[p].error <=> v.conn[p].error
      /\ Started(v, p).conn[p].running
      /\ \A t \in IoThreads : Started(v, p).conn[p].thread[t] = "running"
      /\ Started(v, p).crashed => v.crashed \/ \E t \in IoThreads : v.conn[p].thread[t] # "none"
  BY <1>6, StartedIs, Zenon
<1>8. g \in LibUsbState /\ Arrivals(g)
  <2>1. Arrivals(v)
    BY <1>6
  <2>2. Started(v, p) \in LibUsbState /\ Arrivals(Started(v, p))
    <3>1. Started(v, p) \in LibUsbState
      BY <1>7, Zenon DEF Touches
    <3>2. Arrivals(Started(v, p))
      BY <1>7, <2>1, ArrivalsTouched, Zenon
    <3> QED
      BY <3>1, <3>2
  <2>3. Arrivals(u)
    BY <1>5
  <2> QED
    BY <1>4, <1>5, <1>6, <2>1, <2>2, <2>3, Zenon
<1>9. ASSUME Alive(lu), Settled(lu)
      PROVE  Alive(g)
  <2>1. /\ Connected(lu, p) /\ Tracked(lu, p) /\ Delivered(lu, p)
        /\ ~lu.crashed /\ InOrder(lu.looper)
    BY <1>9 DEF Alive, Steady
  <2>10. /\ ~Posted(lu.looper, "remove", p)
         /\ Posted(lu.looper, "packet", p) => lu.conn[p].running
    BY <1>2, <1>9, Zenon DEF Settled
  <2>2. "listed" # "none" /\ "listed" # "pending"
    OBVIOUS
  <2>3. lu.conn[p].transport
    BY <1>2, <2>1, Zenon DEF Tracked
  <2>4. Tracked(v, p)
    BY <1>3, <1>6, <2>1, Zenon DEF Tracked
  <2>5. ASSUME lu.state[p] = "detached"
        PROVE  Connected(v, p) /\ Delivered(v, p)
    <3>1. ReadFrom(lu.conn[p]) => ReadFrom(v.conn[p])
      BY <1>3, <1>6, Zenon DEF ReadFrom
    <3>2. Connected(v, p)
      BY <1>3, <1>6, <2>1, <2>5, Zenon DEF Connected
    <3>3. Delivered(v, p)
      BY <1>3, <1>6, <2>1, <2>10, <3>1, Zenon DEF Delivered
    <3> QED
      BY <3>2, <3>3
  <2>6. u.list[p] = "listed" /\ v.list[p] = "listed"
    BY <1>2, <1>5, <1>6
  <2>7. CASE g = u
    <3>1. Tracked(u, p)
      BY <1>5, <2>1, Zenon DEF Tracked
    <3>2. Connected(u, p)
      BY <1>5, <2>1, Zenon DEF Connected
    <3>5. Delivered(u, p)
      BY <1>5, <2>1, Zenon DEF Delivered
    <3>3. u.list[p] \in {"listed", "deleted"} /\ ~u.crashed /\ InOrder(u.looper)
      BY <1>5, <2>1, <2>6
    <3>4. Alive(u)
      BY <1>5, <1>9, <3>1, <3>2, <3>3, <3>5, AliveStep, Zenon
    <3> QED
      BY <2>7, <3>4
  <2>8. ASSUME lu.state[p] = "detached"
        PROVE  Alive(v)
    <3>1. v.list[p] \in {"listed", "deleted"} /\ ~v.crashed /\ InOrder(v.looper)
      BY <1>6, <2>1, <2>6
    <3> QED
      BY <1>6, <1>9, <2>4, <2>5, <2>8, <3>1, AliveStep, Zenon
  <2>9. CASE g = Started(v, p) /\ lu.state[p] = "detached" /\ lu.conn[p].detached
    <3> DEFINE w == Started(v, p)
    <3>1. ~\E t \in IoThreads : v.conn[p].thread[t] # "none"
      BY <1>3, <1>6, <2>1, <2>9, Zenon DEF Connected
    <3>2. w.list[p] = v.list[p] /\ w.state[p] = v.state[p] /\ w.detach_okay[p] = v.detach_okay[p]
      BY <1>7, Zenon DEF Touches
    <3>3. Touches(v, w, p) /\ SameLink(v, w, p) /\ Reports(v, w, p) /\ ~w.crashed
      BY <1>6, <1>7, <2>1, <3>1, Zenon DEF Reports
    <3>4. /\ w.conn[p].transport /\ ~w.conn[p].detached /\ w.conn[p].running
          /\ ~w.detach_okay[p]
      BY <1>3, <1>6, <1>7, <2>3, <3>2, Zenon DEF SameLink
    <3>5. ReadFrom(w.conn[p])
      BY <1>7 DEF IoThreads, ReadFrom
    <3> HIDE DEF w
    <3>6. Connected(w, p)
      BY <3>4, <3>5, Zenon DEF Connected
    <3>7. w.conn[p].error <=> v.conn[p].error
      BY <1>7 DEF w
    <3>9. Delivered(w, p)
      <4>1. w.looper = lu.looper /\ w.list[p] = "listed"
        BY <1>6, <1>7, <2>6, <3>2, Zenon DEF w
      <4> QED
        BY <2>10, <3>5, <4>1, Zenon DEF Delivered
    <3>8. Alive(w)
      BY <1>6, <2>8, <2>9, <3>3, <3>6, <3>7, <3>9, AliveReports, Zenon
    <3> QED
      BY <2>9, <3>8 DEF w
  <2> QED
    BY <1>4, <2>7, <2>8, <2>9
<1> QED
  BY <1>4, <1>8, <1>9, FlushIs

(* host:detach: the connection is marked first, so that stopping it reports *)
(* nothing, and what is granted has been released.                          *)
LEMMA DetachIs ==
    ASSUME lu \in LibUsbState, Arrivals(lu), NEW p \in Devices, Detach(p)
    PROVE  /\ lu' \in LibUsbState /\ Arrivals(lu')
           /\ Alive(lu) /\ Settled(lu) => Alive(lu') /\ Settled(lu')
<1> DEFINE k == [lu.conn[p] EXCEPT !.detached = TRUE]
           yes == TRUE
           no == FALSE
           u == Asked(lu, no, lu.state[p], lu.detach_okay[p], lu.conn[p], p)
           v == Asked(lu, no, "detached", yes, lu.conn[p], p)
           w == Asked(lu, no, "detached", yes, k, p)
<1>1. /\ lu.conn[p] \in Connection /\ lu.state[p] \in {"offline", "device", "detached"}
      /\ lu.detach_okay[p] \in BOOLEAN /\ yes \in BOOLEAN /\ no \in BOOLEAN
      /\ "detached" \in {"offline", "device", "detached"}
  BY DEF LibUsbState
<1>2. lu.list[p] = "listed" /\ lu.requests < MaxRequests
  BY DEF Detach, Requested
<1>3. /\ k \in Connection /\ k.detached = TRUE /\ k.running = lu.conn[p].running
      /\ k.transport = lu.conn[p].transport /\ k.error = lu.conn[p].error
      /\ k.thread = lu.conn[p].thread
  BY <1>1, Zenon DEF Connection
<1>4. PICK g : /\ lu' = Flush(g)
               /\ \/ g = u
                  \/ g = v /\ lu.conn[p].detached
                  \/ g = Stop(w, p)
  <2> DEFINE a == [lu EXCEPT !.requests = @ + 1, !.attached = FALSE]
             b == [a EXCEPT !.state[p] = "detached", !.detach_okay[p] = TRUE]
             c == [b EXCEPT !.conn[p].detached = TRUE]
  <2>1. a = u
    BY <1>1, ZenonT(60) DEF Asked, LibUsbState
  <2>2. b = v
    BY <1>1, ZenonT(60) DEF Asked, LibUsbState
  <2>3. c = w
    BY <1>1 DEF Asked, LibUsbState
  <2>4. lu' = Flush(IF lu.state[p] = "detached" THEN a
                    ELSE IF lu.conn[p].detached THEN b ELSE Stop(c, p))
    BY DEF Detach
  <2> HIDE DEF a, b, c, u, v, w
  <2> QED
    BY <2>1, <2>2, <2>3, <2>4
<1> HIDE DEF k, yes, no
<1>5. /\ u \in LibUsbState /\ Beside(lu, u, p) /\ (Arrivals(lu) => Arrivals(u))
      /\ u.attached = no /\ u.state[p] = lu.state[p] /\ u.detach_okay[p] = lu.detach_okay[p]
      /\ u.conn[p] = lu.conn[p]
      /\ u.looper = lu.looper /\ u.crashed = lu.crashed /\ u.list = lu.list
      /\ u.arrival = lu.arrival
  <2>1. HasAsked(lu, Asked(lu, no, lu.state[p], lu.detach_okay[p], lu.conn[p], p),
                 no, lu.state[p], lu.detach_okay[p], lu.conn[p], p)
    BY <1>1, <1>2, AskedIs
  <2> QED
    BY <2>1, Zenon DEF HasAsked
<1>6. /\ v \in LibUsbState /\ Beside(lu, v, p) /\ (Arrivals(lu) => Arrivals(v))
      /\ v.attached = no /\ v.state[p] = "detached" /\ v.detach_okay[p] = yes
      /\ v.conn[p] = lu.conn[p]
      /\ v.looper = lu.looper /\ v.crashed = lu.crashed /\ v.list = lu.list
      /\ v.arrival = lu.arrival
  <2>1. HasAsked(lu, Asked(lu, no, "detached", yes, lu.conn[p], p), no, "detached", yes, lu.conn[p], p)
    BY <1>1, <1>2, AskedIs
  <2> QED
    BY <2>1, Zenon DEF HasAsked
<1>7. /\ w \in LibUsbState /\ Beside(lu, w, p) /\ (Arrivals(lu) => Arrivals(w))
      /\ w.attached = no /\ w.state[p] = "detached" /\ w.detach_okay[p] = yes
      /\ w.conn[p] = k
      /\ w.looper = lu.looper /\ w.crashed = lu.crashed /\ w.list = lu.list
      /\ w.arrival = lu.arrival
  <2>1. HasAsked(lu, Asked(lu, no, "detached", yes, k, p), no, "detached", yes, k, p)
    BY <1>1, <1>2, <1>3, AskedIs
  <2> QED
    BY <2>1, Zenon DEF HasAsked
<1> HIDE DEF u, v, w
<1> USE DEF yes, no
<1> DEFINE x == Stop(w, p)
<1>8. /\ Touches(w, x, p) /\ Reports(w, x, p) /\ SameLink(w, x, p)
      /\ ~x.conn[p].running
      /\ w.conn[p].running => \A t \in IoThreads : x.conn[p].thread[t] = "none"
      /\ ~w.conn[p].running => x = w
      /\ x.crashed =>
            w.crashed \/ (w.conn[p].running /\ ~w.conn[p].error /\ ~w.conn[p].transport)
  BY <1>7, StopIs, Zenon
<1> HIDE DEF x
<1>9. g \in LibUsbState /\ Arrivals(g)
  <2>1. Arrivals(u) /\ Arrivals(v) /\ Arrivals(w)
    BY <1>5, <1>6, <1>7
  <2>2. x \in LibUsbState /\ Arrivals(x)
    <3>1. x \in LibUsbState
      BY <1>8, Zenon DEF Touches
    <3>2. Arrivals(x)
      BY <1>8, <2>1, ArrivalsTouched, Zenon
    <3> QED
      BY <3>1, <3>2
  <2> QED
    BY <1>4, <1>5, <1>6, <2>1, <2>2, Zenon DEF x
<1>10. ASSUME Alive(lu)
       PROVE  Alive(g)
  <2>1. /\ Connected(lu, p) /\ Tracked(lu, p) /\ Delivered(lu, p)
        /\ ~lu.crashed /\ InOrder(lu.looper)
    BY <1>10 DEF Alive, Steady
  <2>2. lu.conn[p].transport
    BY <1>2, <2>1, Zenon DEF Tracked
  <2>3. u.list[p] = "listed" /\ v.list[p] = "listed" /\ w.list[p] = "listed"
        /\ "listed" \in {"listed", "deleted"}
    BY <1>2, <1>5, <1>6, <1>7, Zenon
  <2>4. CASE g = u
    <3>1. Tracked(u, p)
      BY <1>5, <2>1, Zenon DEF Tracked
    <3>2. Connected(u, p)
      BY <1>5, <2>1, Zenon DEF Connected
    <3>5. Delivered(u, p)
      BY <1>5, <2>1, Zenon DEF Delivered
    <3>3. ~u.crashed /\ InOrder(u.looper)
      BY <1>5, <2>1, Zenon
    <3>4. Alive(u)
      BY <1>5, <1>10, <2>3, <3>1, <3>2, <3>3, <3>5, AliveStep, Zenon
    <3> QED
      BY <2>4, <3>4
  <2>5. CASE g = v /\ lu.conn[p].detached
    <3>1. Tracked(v, p)
      BY <1>6, <2>1, Zenon DEF Tracked
    <3>2. Connected(v, p)
      BY <1>6, <2>1, <2>3, <2>5, Zenon DEF Connected
    <3>5. Delivered(v, p)
      BY <1>6, <2>1, <2>3, Zenon DEF Delivered
    <3>3. ~v.crashed /\ InOrder(v.looper)
      BY <1>6, <2>1, Zenon
    <3>4. Alive(v)
      BY <1>6, <1>10, <2>3, <3>1, <3>2, <3>3, <3>5, AliveStep, Zenon
    <3> QED
      BY <2>5, <3>4
  <2>6. Alive(x)
    <3>1. Tracked(w, p)
      BY <1>3, <1>7, <2>1, Zenon DEF Tracked
    <3>2. Tracked(x, p)
      <4>1. w.conn[p].transport
        BY <1>3, <1>7, <2>2, Zenon
      <4> QED
        BY <1>7, <1>8, <3>1, <4>1, TrackedReports, Zenon
    <3>3. /\ Beside(w, x, p)
          /\ InOrder(w.looper) => InOrder(x.looper)
      BY <1>7, <1>8, ReportedIs
    <3>4. /\ x.list[p] = "listed" /\ x.state[p] = "detached" /\ x.attached = FALSE
          /\ x.detach_okay[p] = TRUE
      BY <1>7, <1>8, <2>3 DEF Touches
    <3>5. ~x.crashed
      BY <1>3, <1>7, <1>8, <2>1, <2>2, Zenon
    <3>6. x.conn[p].detached /\ x.conn[p].transport
      BY <1>3, <1>7, <1>8, <2>2, Zenon DEF SameLink
    <3>7. \A t \in IoThreads : x.conn[p].thread[t] = "none"
      BY <1>3, <1>7, <1>8, <2>1, Zenon DEF Connected
    <3>8. "listed" \notin {"none", "pending"}
      OBVIOUS
    <3>9. Connected(x, p)
      BY <1>8, <2>3, <3>4, <3>6, <3>7, <3>8, Zenon DEF Connected
    <3>10. Beside(lu, x, p)
      BY <1>7, <3>3, BesideTwice
    <3>11. InOrder(x.looper)
      BY <1>7, <2>1, <3>3, Zenon
    <3>12. Delivered(x, p)
      BY <1>8, <3>4, Zenon DEF Delivered
    <3> QED
      BY <1>10, <2>3, <3>2, <3>4, <3>5, <3>9, <3>10, <3>11, <3>12, AliveStep, Zenon
  <2> QED
    BY <1>4, <2>4, <2>5, <2>6 DEF x
<1> QED
  BY <1>4, <1>9, <1>10, FlushIs

-----------------------------------------------------------------------------
(***************************************************************************)
(* The looper.                                                             *)
(***************************************************************************)
(* The state once the first closure is taken. *)
Taken(u) == [u EXCEPT !.looper = Tail(u.looper)]

(* The looper takes the first closure, and nothing else changes. *)
LEMMA TakenIs ==
    ASSUME NEW u \in LibUsbState, u.looper # <<>>
    PROVE  LET v == Taken(u)
               c == u.looper[1]
           IN /\ v \in LibUsbState /\ c \in Closure /\ Beside(u, v, c.dev)
              /\ v.conn = u.conn /\ v.state = u.state /\ v.list = u.list
              /\ v.arrival = u.arrival /\ v.attached = u.attached
              /\ v.detach_okay = u.detach_okay /\ v.crashed = u.crashed
              /\ Arrivals(u) => Arrivals(v)
              /\ \A op : Posted(u.looper, op, c.dev) <=> Posted(v.looper, op, c.dev) \/ c.op = op
              /\ InOrder(u.looper) =>
                    /\ InOrder(v.looper)
                    /\ c.op = "register" => ~Posted(v.looper, "register", c.dev)
                    /\ c.op = "remove" => ~Posted(v.looper, "packet", c.dev)
<1> DEFINE v == Taken(u)
           c == u.looper[1]
           r == Tail(u.looper)
<1>1. u.looper \in Seq(Closure)
  BY DEF LibUsbState
<1>2. /\ r \in Seq(Closure) /\ c \in Closure
      /\ \A op, p : Posted(u.looper, op, p) <=> Posted(r, op, p) \/ (c.op = op /\ c.dev = p)
      /\ InOrder(u.looper) =>
            /\ InOrder(r)
            /\ c.op = "register" => ~Posted(r, "register", c.dev)
            /\ c.op = "remove" => ~Posted(r, "packet", c.dev)
  BY <1>1, PostedTail
<1> HIDE DEF r, c
<1>3. v = [u EXCEPT !.looper = r]
  BY DEF Taken, r
<1> HIDE DEF v
<1>4. /\ v \in LibUsbState /\ v.looper = r
      /\ v.conn = u.conn /\ v.state = u.state /\ v.list = u.list
      /\ v.arrival = u.arrival /\ v.attached = u.attached
      /\ v.detach_okay = u.detach_okay /\ v.crashed = u.crashed
      /\ v.plugs = u.plugs /\ v.plugged = u.plugged
      /\ v.connecting = u.connecting /\ v.hotplug_queue = u.hotplug_queue
  BY <1>2, <1>3, Zenon DEF LibUsbState
<1>5. Arrivals(u) => Arrivals(v)
  BY <1>4, ArrivalsSame
<1>6. Beside(u, v, c.dev)
  <2>1. \A q : q # c.dev => \A op : Posted(v.looper, op, q) <=> Posted(u.looper, op, q)
    BY <1>2, <1>4
  <2> QED
    BY <1>4, <2>1, Zenon DEF Beside
<1>7. /\ \A op : Posted(u.looper, op, c.dev) <=> Posted(v.looper, op, c.dev) \/ c.op = op
      /\ InOrder(u.looper) =>
            /\ InOrder(v.looper)
            /\ c.op = "register" => ~Posted(v.looper, "register", c.dev)
            /\ c.op = "remove" => ~Posted(v.looper, "packet", c.dev)
  BY <1>2, <1>4, Zenon
<1> QED
  BY <1>2, <1>4, <1>5, <1>6, <1>7 DEF v, c

(* The fields of p that a closure sets. *)
Put(u, s, l, k, p) ==
    [u EXCEPT !.state = [u.state EXCEPT ![p] = s], !.list = [u.list EXCEPT ![p] = l],
              !.conn = [u.conn EXCEPT ![p] = k]]

HasPut(u, v, s, l, k, p) ==
    /\ v \in LibUsbState /\ Beside(u, v, p) /\ (Arrivals(u) => Arrivals(v))
    /\ v.state[p] = s /\ v.list[p] = l /\ v.conn[p] = k
    /\ v.looper = u.looper /\ v.crashed = u.crashed /\ v.attached = u.attached
    /\ v.arrival = u.arrival /\ v.detach_okay = u.detach_okay

(* A new connection state, list and connection of p change nothing of the others. *)
LEMMA PutIs ==
    ASSUME NEW u \in LibUsbState, NEW p \in Devices,
           NEW s \in {"offline", "device", "detached"},
           NEW l \in {"none", "pending", "listed", "deleted"}, NEW k \in Connection
    PROVE  HasPut(u, Put(u, s, l, k, p), s, l, k, p)
<1> DEFINE ss == [u.state EXCEPT ![p] = s]
           ll == [u.list EXCEPT ![p] = l]
           kk == [u.conn EXCEPT ![p] = k]
           v == Put(u, s, l, k, p)
<1>1. /\ ss \in [Devices -> {"offline", "device", "detached"}]
      /\ ss[p] = s /\ \A q \in Devices : q # p => ss[q] = u.state[q]
  BY DEF LibUsbState
<1>2. /\ ll \in [Devices -> {"none", "pending", "listed", "deleted"}]
      /\ ll[p] = l /\ \A q \in Devices : q # p => ll[q] = u.list[q]
  BY DEF LibUsbState
<1>3. /\ kk \in [Devices -> Connection]
      /\ kk[p] = k /\ \A q \in Devices : q # p => kk[q] = u.conn[q]
  BY DEF LibUsbState
<1>4. v = [u EXCEPT !.state = ss, !.list = ll, !.conn = kk]
  BY DEF Put
<1> HIDE DEF ss, ll, kk, v
<1>5. v \in LibUsbState
  BY <1>1, <1>2, <1>3, <1>4, Zenon DEF LibUsbState
<1>6. /\ v.attached = u.attached /\ v.state = ss /\ v.detach_okay = u.detach_okay /\ v.conn = kk
      /\ v.looper = u.looper /\ v.crashed = u.crashed /\ v.list = ll
      /\ v.arrival = u.arrival /\ v.plugs = u.plugs /\ v.plugged = u.plugged
      /\ v.connecting = u.connecting /\ v.hotplug_queue = u.hotplug_queue
  BY <1>4 DEF LibUsbState
<1>7. Beside(u, v, p)
  BY <1>1, <1>2, <1>3, <1>6, Zenon DEF Beside
<1>8. Arrivals(u) => Arrivals(v)
  BY <1>6, ArrivalsSame
<1> QED
  BY <1>1, <1>2, <1>3, <1>5, <1>6, <1>7, <1>8, Zenon DEF v, HasPut

(* device_disconnected's closure: a running connection is stopped and reports, *)
(* a detached one is made to report; one without a transport is left alone.   *)
LEMMA LeftIs ==
    ASSUME NEW u \in LibUsbState, NEW p \in Devices
    PROVE  LET v == disconnected(u, p)
           IN /\ v \in LibUsbState
              /\ Arrivals(u) => Arrivals(v)
              /\ Alive(u) => Alive(v)
<1> DEFINE v == Stop(u, p)
           w == OnError(v, p)
           x == disconnected(u, p)
<1>1. /\ Touches(u, v, p) /\ Reports(u, v, p) /\ SameLink(u, v, p)
      /\ ~v.conn[p].running
      /\ u.conn[p].running => \A t \in IoThreads : v.conn[p].thread[t] = "none"
      /\ u.conn[p].running /\ ~u.conn[p].detached => v.conn[p].error
      /\ ~u.conn[p].running => v = u
      /\ v.crashed =>
            u.crashed \/ (u.conn[p].running /\ ~u.conn[p].error /\ ~u.conn[p].transport)
  BY StopIs
<1>2. \/ x = u \/ x = v
      \/ x = w /\ v.conn[p].detached /\ v.conn[p].transport
  BY DEF disconnected
<1> HIDE DEF v, x
<1>3. v \in LibUsbState
  BY <1>1, Zenon DEF Touches
<1>4. /\ Touches(v, w, p) /\ Reports(v, w, p) /\ SameLink(v, w, p)
      /\ w.conn[p].error
      /\ w.conn[p].running <=> v.conn[p].running
      /\ w.conn[p].thread = v.conn[p].thread
      /\ w.crashed => v.crashed \/ ~(v.conn[p].error \/ v.conn[p].transport)
  BY <1>3, OnErrorReports
<1> HIDE DEF w
<1>5. w \in LibUsbState
  BY <1>4, Zenon DEF Touches
<1>6. Arrivals(u) => Arrivals(v) /\ Arrivals(w)
  BY <1>1, <1>4, ArrivalsTouched
<1>7. ASSUME Alive(u)
      PROVE  Alive(x)
  <2>1. Connected(u, p) /\ Tracked(u, p) /\ Delivered(u, p) /\ ~u.crashed
    BY <1>7 DEF Alive, Steady
  <2>2. ~v.crashed
    BY <1>1, <2>1, Zenon DEF Connected
  <2>3. Alive(v)
    <3>1. CASE ~u.conn[p].running
      BY <1>1, <1>7, <3>1, Zenon
    <3>2. CASE u.conn[p].running
      <4>1. u.conn[p].transport /\ ~u.conn[p].detached
        BY <2>1, <3>2, Zenon DEF Connected
      <4>2. v.detach_okay[p] = u.detach_okay[p] /\ v.list[p] = u.list[p]
        BY <1>1 DEF Touches
      <4>3. /\ ~v.conn[p].detached /\ v.conn[p].error
        BY <1>1, <3>2, <4>1, Zenon DEF SameLink
      <4>4. Connected(v, p)
        BY <1>1, <2>1, <3>2, <4>1, <4>2, <4>3, Zenon DEF Connected, ReadFrom
      <4>5. Delivered(v, p)
        <5>1. ReadFrom(v.conn[p])
          BY <4>3 DEF ReadFrom
        <5> QED
          BY <1>1, <2>1, <5>1, DeliveredReports
      <4> QED
        BY <1>1, <1>7, <2>2, <4>1, <4>4, <4>5, AliveReports
    <3> QED
      BY <3>1, <3>2
  <2>4. ASSUME v.conn[p].detached, v.conn[p].transport
        PROVE  Alive(w)
    <3>1. Connected(v, p) /\ Tracked(v, p) /\ Delivered(v, p) /\ ~v.crashed
      BY <2>3 DEF Alive, Steady
    <3>2. ~w.crashed
      BY <1>4, <2>4, <3>1, Zenon
    <3>3. /\ w.detach_okay[p] = v.detach_okay[p] /\ w.list[p] = v.list[p]
          /\ w.state[p] = v.state[p]
      BY <1>4 DEF Touches
    <3>4. /\ w.conn[p].detached <=> v.conn[p].detached
          /\ w.conn[p].transport <=> v.conn[p].transport
      BY <1>4 DEF SameLink
    <3>5. Connected(w, p)
      BY <1>4, <3>1, <3>3, <3>4, Zenon DEF Connected, ReadFrom
    <3>6. Delivered(w, p)
      <4>1. ReadFrom(w.conn[p])
        BY <1>4 DEF ReadFrom
      <4> QED
        BY <1>3, <1>4, <3>1, <4>1, DeliveredReports, Zenon
    <3> QED
      BY <1>3, <1>4, <2>3, <2>4, <3>2, <3>5, <3>6, AliveReports, Zenon
  <2> QED
    BY <1>2, <1>7, <2>3, <2>4
<1> QED
  BY <1>2, <1>3, <1>5, <1>6, <1>7, Zenon DEF x

(* HandleError's closure: the transport goes offline, its connection stops, and *)
(* its removal is posted.                                                      *)
LEMMA ErrorIs ==
    ASSUME NEW z \in LibUsbState, z.looper # <<>>, z.looper[1].op = "error"
    PROVE  LET v == transport_error(Taken(z), z.looper[1].dev)
           IN /\ v \in LibUsbState
              /\ Arrivals(z) => Arrivals(v)
              /\ Alive(z) => Alive(v)
<1> DEFINE p == z.looper[1].dev
           u == Taken(z)
           s == "offline"
           l == u.list[p]
           k == u.conn[p]
           w == Put(u, s, l, k, p)
           x == Stop(w, p)
           c == [op |-> "remove", dev |-> p]
           y == [x EXCEPT !.looper = Append(x.looper, c)]
           v == transport_error(u, p)
<1>1. /\ u \in LibUsbState /\ z.looper[1] \in Closure /\ Beside(z, u, p)
      /\ u.conn = z.conn /\ u.state = z.state /\ u.list = z.list
      /\ u.arrival = z.arrival /\ u.attached = z.attached
      /\ u.detach_okay = z.detach_okay /\ u.crashed = z.crashed
      /\ Arrivals(z) => Arrivals(u)
      /\ \A op : Posted(z.looper, op, p) <=> Posted(u.looper, op, p) \/ z.looper[1].op = op
      /\ InOrder(z.looper) => InOrder(u.looper)
  BY TakenIs, Zenon
<1>2. p \in Devices /\ u \in LibUsbState
  BY <1>1 DEF Closure
<1> HIDE DEF p, u
<1>3. /\ l \in {"none", "pending", "listed", "deleted"} /\ k \in Connection
      /\ s \in {"offline", "device", "detached"}
  BY <1>2 DEF LibUsbState
<1>4. v = Post(x, "remove", p)
  <2>1. [u.list EXCEPT ![p] = u.list[p]] = u.list /\ [u.conn EXCEPT ![p] = u.conn[p]] = u.conn
    BY <1>2 DEF LibUsbState
  <2>2. [u EXCEPT !.state[p] = "offline"] = w
    BY <1>2, <2>1, Zenon DEF Put, LibUsbState
  <2> QED
    BY <2>2 DEF transport_error
<1> HIDE DEF s, l, k
<1>5. /\ w \in LibUsbState /\ Beside(u, w, p) /\ (Arrivals(u) => Arrivals(w))
      /\ w.state[p] = s /\ w.list[p] = l /\ w.conn[p] = k
      /\ w.looper = u.looper /\ w.crashed = u.crashed /\ w.attached = u.attached
      /\ w.arrival = u.arrival /\ w.detach_okay = u.detach_okay
  <2>1. HasPut(u, w, s, l, k, p)
    BY <1>2, <1>3, PutIs, Zenon
  <2> QED
    BY <2>1 DEF HasPut
<1> HIDE DEF w
<1> USE DEF s, l, k
<1>6. /\ Touches(w, x, p) /\ Reports(w, x, p) /\ SameLink(w, x, p)
      /\ ~x.conn[p].running
      /\ w.conn[p].running => \A t \in IoThreads : x.conn[p].thread[t] = "none"
      /\ ~w.conn[p].running => x = w
      /\ x.crashed =>
            w.crashed \/ (w.conn[p].running /\ ~w.conn[p].error /\ ~w.conn[p].transport)
  BY <1>2, <1>5, StopIs, Zenon
<1>7. x \in LibUsbState /\ (Arrivals(w) => Arrivals(x))
  <2>1. x \in LibUsbState
    BY <1>6, Zenon DEF Touches
  <2>2. ASSUME Arrivals(w)
        PROVE  Arrivals(x)
    BY <1>6, <2>2, ArrivalsTouched, Zenon
  <2> QED
    BY <2>1, <2>2
<1> HIDE DEF x
<1>8. c \in Closure /\ c.op = "remove" /\ c.dev = p /\ x.looper \in Seq(Closure)
  BY <1>2, <1>7 DEF Closure, LibUsbState
<1>9. v = y
  BY <1>4, Zenon DEF Post
<1> HIDE DEF c
<1>10. /\ Append(x.looper, c) \in Seq(Closure)
       /\ \A op, q : Posted(Append(x.looper, c), op, q) <=>
                         Posted(x.looper, op, q) \/ (c.op = op /\ c.dev = q)
       /\ InOrder(x.looper) /\ Fits(x.looper, c)
                 => InOrder(Append(x.looper, c))
  BY <1>8, PostedAppend
<1>11. /\ y \in LibUsbState /\ y.looper = Append(x.looper, c)
       /\ y.conn = x.conn /\ y.state = x.state /\ y.list = x.list
       /\ y.arrival = x.arrival /\ y.attached = x.attached
       /\ y.detach_okay = x.detach_okay /\ y.crashed = x.crashed
       /\ y.plugs = x.plugs /\ y.plugged = x.plugged
       /\ y.connecting = x.connecting /\ y.hotplug_queue = x.hotplug_queue
  BY <1>7, <1>10, ZenonT(60) DEF LibUsbState
<1> HIDE DEF y, v
<1>12. Arrivals(x) => Arrivals(y)
  BY <1>11, ArrivalsSame
<1>13. ASSUME Alive(z)
       PROVE  Alive(y)
  <2>1. /\ Connected(z, p) /\ Tracked(z, p) /\ Delivered(z, p)
        /\ ~z.crashed /\ InOrder(z.looper)
    BY <1>2, <1>13, Zenon DEF Alive, Steady
  <2>2. Posted(z.looper, "error", p)
    BY <1>1
  <2>3. z.conn[p].error
    BY <2>1, <2>2, Zenon DEF Tracked
  <2>4. /\ y.list[p] = z.list[p] /\ y.arrival = z.arrival /\ y.attached = z.attached
        /\ y.detach_okay = z.detach_okay /\ y.state[p] = "offline" /\ y.conn[p] = x.conn[p]
    BY <1>1, <1>2, <1>5, <1>6, <1>11 DEF Touches
  <2>5. x.conn[p].error /\ x.looper = w.looper
    BY <1>1, <1>5, <1>6, <2>3, Zenon DEF Reports
  <2>6. /\ x.conn[p].transport <=> z.conn[p].transport
        /\ x.conn[p].detached <=> z.conn[p].detached
    BY <1>1, <1>5, <1>6, Zenon DEF SameLink
  <2>7. ~y.crashed
    BY <1>1, <1>5, <1>6, <1>11, <2>1, <2>3, ZenonT(60)
  <2>8. \A op, q : Posted(y.looper, op, q) <=> Posted(u.looper, op, q) \/ (op = "remove" /\ p = q)
    <3>1. y.looper = Append(u.looper, c) /\ x.looper = u.looper
      BY <1>5, <1>11, <2>5, Zenon
    <3> QED
      BY <1>8, <1>10, <3>1
  <2>9. Beside(u, y, p)
    <3>1. \A q : q # p => \A op : Posted(y.looper, op, q) <=> Posted(w.looper, op, q)
      BY <1>5, <2>8
    <3>2. Beside(w, y, p)
      BY <1>6, <1>11, <3>1, ZenonT(60) DEF Beside, Touches
    <3> QED
      BY <1>5, <3>2, BesideTwice, Zenon
  <2>10. Beside(z, y, p)
    BY <1>1, <2>9, BesideTwice
  <2>11. /\ Posted(y.looper, "remove", p)
         /\ Posted(y.looper, "register", p) => Posted(z.looper, "register", p)
         /\ Posted(y.looper, "packet", p) => Posted(z.looper, "packet", p)
    BY <1>1, <2>8
  <2>12. Tracked(y, p)
    BY <2>1, <2>3, <2>4, <2>5, <2>6, <2>11, Zenon DEF Tracked
  <2>13. \A t \in IoThreads : y.conn[p].thread[t] = "none"
    <3>1. w.conn[p] = z.conn[p]
      BY <1>1, <1>5
    <3>2. ~z.conn[p].running => \A t \in IoThreads : z.conn[p].thread[t] = "none"
      BY <2>1 DEF Connected
    <3> QED
      BY <1>6, <2>4, <3>1, <3>2, Zenon
  <2>14. ~y.conn[p].running
    BY <1>6, <2>4
  <2>15. Connected(y, p)
    BY <2>1, <2>4, <2>5, <2>6, <2>13, <2>14, Zenon DEF Connected, ReadFrom
  <2>16. InOrder(y.looper)
    <3>1. InOrder(x.looper)
      BY <1>1, <1>5, <2>1, <2>5
    <3>2. Fits(x.looper, c)
      BY <1>8 DEF Fits
    <3> QED
      BY <1>10, <1>11, <3>1, <3>2, Zenon
  <2>17. Delivered(y, p)
    BY <2>1, <2>4, <2>5, <2>11, <2>14, Zenon DEF Delivered, ReadFrom
  <2> QED
    BY <1>2, <1>13, <2>4, <2>7, <2>10, <2>12, <2>15, <2>16, <2>17, AliveStep
<1> QED
  BY <1>1, <1>5, <1>7, <1>9, <1>11, <1>12, <1>13, Zenon DEF v, u, p

(* Fields that are set to what they are. *)
LEMMA ListOnly ==
    ASSUME NEW u \in LibUsbState, NEW l
    PROVE  [u EXCEPT !.state = u.state, !.list = l, !.conn = u.conn] = [u EXCEPT !.list = l]
BY Zenon DEF LibUsbState

(* fdevent_unregister_transport: the transport and its connection are gone. *)
LEMMA RemoveIs ==
    ASSUME NEW z \in LibUsbState, z.looper # <<>>, z.looper[1].op = "remove"
    PROVE  LET v == fdevent_unregister_transport(Taken(z), z.looper[1].dev)
           IN /\ v \in LibUsbState
              /\ Arrivals(z) => Arrivals(v)
              /\ Alive(z) => Alive(v)
<1> DEFINE p == z.looper[1].dev
           u == Taken(z)
           s == u.state[p]
           l == u.list[p]
           k == [u.conn[p] EXCEPT !.transport = FALSE]
           w == Put(u, s, l, k, p)
           x == Stop(w, p)
           d == "deleted"
           y == Put(x, x.state[p], d, x.conn[p], p)
           v == fdevent_unregister_transport(u, p)
<1>1. /\ u \in LibUsbState /\ z.looper[1] \in Closure /\ Beside(z, u, p)
      /\ u.conn = z.conn /\ u.state = z.state /\ u.list = z.list
      /\ u.arrival = z.arrival /\ u.attached = z.attached
      /\ u.detach_okay = z.detach_okay /\ u.crashed = z.crashed
      /\ Arrivals(z) => Arrivals(u)
      /\ \A op : Posted(z.looper, op, p) <=> Posted(u.looper, op, p) \/ z.looper[1].op = op
      /\ InOrder(z.looper) => InOrder(u.looper) /\ ~Posted(u.looper, "packet", p)
  BY TakenIs, Zenon
<1>2. p \in Devices /\ u \in LibUsbState
  BY <1>1 DEF Closure
<1> HIDE DEF p, u
<1>3. /\ l \in {"none", "pending", "listed", "deleted"} /\ u.conn[p] \in Connection
      /\ s \in {"offline", "device", "detached"}
  BY <1>2 DEF LibUsbState
<1>4. /\ k \in Connection /\ k.detached = u.conn[p].detached /\ k.running = u.conn[p].running
      /\ k.transport = FALSE /\ k.error = u.conn[p].error /\ k.thread = u.conn[p].thread
  BY <1>3, Zenon DEF Connection
<1>5. v = [x EXCEPT !.list[p] = "deleted"]
  <2>1. [u.list EXCEPT ![p] = l] = u.list /\ [u.state EXCEPT ![p] = s] = u.state
    BY <1>2 DEF LibUsbState
  <2>2. [u EXCEPT !.conn[p].transport = FALSE] = w
    BY <1>2, <2>1, ZenonT(60) DEF Put, LibUsbState
  <2> QED
    BY <2>2, Zenon DEF fdevent_unregister_transport
<1> HIDE DEF s, l, k
<1>6. HasPut(u, w, s, l, k, p)
  BY <1>2, <1>3, <1>4, PutIs
<1> HIDE DEF w
<1> USE DEF s, l
<1>7. w \in LibUsbState
  BY <1>6 DEF HasPut
<1>8. /\ Touches(w, x, p) /\ Reports(w, x, p) /\ SameLink(w, x, p)
      /\ ~x.conn[p].running
      /\ w.conn[p].running => \A t \in IoThreads : x.conn[p].thread[t] = "none"
      /\ ~w.conn[p].running => x = w
      /\ x.crashed =>
            w.crashed \/ (w.conn[p].running /\ ~w.conn[p].error /\ ~w.conn[p].transport)
  BY <1>2, <1>7, StopIs, Zenon
<1>9. x \in LibUsbState /\ (Arrivals(w) => Arrivals(x))
  BY <1>8, ArrivalsTouched DEF Touches
<1> HIDE DEF x
<1>10. /\ x.conn[p] \in Connection /\ x.state[p] \in {"offline", "device", "detached"}
       /\ d \in {"none", "pending", "listed", "deleted"}
  BY <1>2, <1>9 DEF LibUsbState
<1>11. v = y
  <2>1. [x.conn EXCEPT ![p] = x.conn[p]] = x.conn /\ [x.state EXCEPT ![p] = x.state[p]] = x.state
    BY <1>2, <1>9 DEF LibUsbState
  <2>2. y = [x EXCEPT !.state = x.state, !.list = [x.list EXCEPT ![p] = "deleted"],
                      !.conn = x.conn]
    BY <2>1, Zenon DEF Put
  <2>3. y = [x EXCEPT !.list = [x.list EXCEPT ![p] = "deleted"]]
    BY <1>9, <2>2, ListOnly, ZenonT(60)
  <2> HIDE DEF y, v
  <2> QED
    BY <1>5, <2>3
<1> HIDE DEF d, v
<1>12. HasPut(x, y, x.state[p], d, x.conn[p], p)
  BY <1>2, <1>9, <1>10, PutIs, Zenon
<1> HIDE DEF y
<1> USE DEF d
<1>13. y \in LibUsbState /\ (Arrivals(z) => Arrivals(y))
  BY <1>1, <1>6, <1>9, <1>12, Zenon DEF HasPut
<1>14. ASSUME Alive(z)
       PROVE  Alive(y)
  <2>1. Connected(z, p) /\ Tracked(z, p) /\ ~z.crashed /\ InOrder(z.looper)
    BY <1>2, <1>14 DEF Alive, Steady
  <2>2. Posted(z.looper, "remove", p)
    BY <1>1
  <2>3. z.conn[p].error
    BY <2>1, <2>2, Zenon DEF Tracked
  <2>4. z.list[p] # "none" /\ ~Posted(z.looper, "register", p)
    BY <2>1, <2>3, Zenon DEF Tracked
  <2>5. /\ w.conn[p] = k /\ w.looper = u.looper /\ w.crashed = z.crashed
        /\ w.attached = z.attached /\ w.arrival = z.arrival /\ w.detach_okay = z.detach_okay
        /\ Beside(u, w, p)
    BY <1>1, <1>6, Zenon DEF HasPut
  <2>6. /\ w.conn[p].error /\ ~w.conn[p].transport
        /\ w.conn[p].running <=> z.conn[p].running
        /\ w.conn[p].detached <=> z.conn[p].detached
        /\ w.conn[p].thread = z.conn[p].thread
    BY <1>1, <1>4, <2>3, <2>5, Zenon
  <2>7. x.conn[p].error /\ x.looper = u.looper
    BY <1>8, <2>5, <2>6, Zenon DEF Reports
  <2>8. /\ ~x.conn[p].transport
        /\ x.conn[p].detached <=> z.conn[p].detached
    BY <1>8, <2>6, Zenon DEF SameLink
  <2>9. /\ y.list[p] = "deleted" /\ y.conn[p] = x.conn[p] /\ y.looper = x.looper
        /\ y.crashed = x.crashed /\ y.attached = x.attached /\ y.arrival = x.arrival
        /\ y.detach_okay = x.detach_okay /\ Beside(x, y, p)
    BY <1>12, Zenon DEF HasPut
  <2>10. /\ x.attached = z.attached /\ x.arrival = z.arrival
         /\ x.detach_okay = z.detach_okay
    BY <1>8, <2>5 DEF Touches
  <2>11. ~y.crashed
    BY <1>8, <2>1, <2>5, <2>6, <2>9, Zenon
  <2>12. Beside(z, y, p)
    <3>1. Beside(w, x, p)
      BY <1>2, <1>7, <1>8, ReportedIs, Zenon
    <3>2. Beside(z, w, p)
      BY <1>1, <2>5, BesideTwice
    <3>3. Beside(z, x, p)
      BY <3>1, <3>2, BesideTwice, Zenon
    <3> QED
      BY <2>9, <3>3, BesideTwice, Zenon
  <2>13. ~Posted(y.looper, "register", p) /\ ~Posted(y.looper, "packet", p)
    BY <1>1, <2>1, <2>4, <2>7, <2>9
  <2>14. z.arrival[p] = "done"
    BY <2>1, <2>4, Zenon DEF Tracked
  <2>15. "deleted" # "none" /\ "deleted" # "listed" /\ "deleted" \notin {"none", "pending"}
         /\ "deleted" \in {"listed", "deleted"}
    OBVIOUS
  <2>16. Tracked(y, p)
    BY <2>7, <2>9, <2>10, <2>13, <2>14, <2>15, Zenon DEF Tracked
  <2>17. \A t \in IoThreads : y.conn[p].thread[t] = "none"
    <3>1. ~z.conn[p].running => \A t \in IoThreads : z.conn[p].thread[t] = "none"
      BY <2>1 DEF Connected
    <3> QED
      BY <1>8, <2>6, <2>9, <3>1, Zenon
  <2>18. Connected(y, p)
    BY <1>8, <2>9, <2>15, <2>17, Zenon DEF Connected
  <2>19. InOrder(y.looper)
    BY <1>1, <2>1, <2>7, <2>9, Zenon
  <2>20. Delivered(y, p)
    BY <1>8, <2>9, <2>13, Zenon DEF Delivered
  <2> QED
    BY <1>2, <1>14, <2>9, <2>11, <2>12, <2>15, <2>16, <2>18, <2>19, <2>20, AliveStep, Zenon
<1> QED
  BY <1>11, <1>13, <1>14 DEF v, u, p

(* handle_packet: the transport is there, and is read from, has failed or was *)
(* detached after the packet was read.                                        *)
LEMMA PacketIs ==
    ASSUME NEW z \in LibUsbState, z.looper # <<>>, z.looper[1].op = "packet"
    PROVE  LET v == handle_new_connection(Taken(z), z.looper[1].dev)
           IN /\ v \in LibUsbState
              /\ Arrivals(z) => Arrivals(v)
              /\ Alive(z) => Alive(v)
<1> DEFINE p == z.looper[1].dev
           u == Taken(z)
           s == [u.state EXCEPT ![p] = "device"]
           b == u.crashed \/ u.list[p] = "deleted"
           w == [u EXCEPT !.state = s, !.crashed = b]
           v == handle_new_connection(u, p)
<1>1. /\ u \in LibUsbState /\ z.looper[1] \in Closure /\ Beside(z, u, p)
      /\ u.conn = z.conn /\ u.state = z.state /\ u.list = z.list
      /\ u.arrival = z.arrival /\ u.attached = z.attached
      /\ u.detach_okay = z.detach_okay /\ u.crashed = z.crashed
      /\ Arrivals(z) => Arrivals(u)
      /\ \A op : Posted(z.looper, op, p) <=> Posted(u.looper, op, p) \/ z.looper[1].op = op
      /\ InOrder(z.looper) => InOrder(u.looper)
  BY TakenIs, Zenon
<1>2. p \in Devices /\ u \in LibUsbState
  BY <1>1 DEF Closure
<1> HIDE DEF p, u
<1>3. v = w
  BY <1>2, Zenon DEF handle_new_connection, LibUsbState
<1>4. /\ s \in [Devices -> {"offline", "device", "detached"}]
      /\ \A q \in Devices : q # p => s[q] = u.state[q]
  BY <1>2 DEF LibUsbState
<1>5. b \in BOOLEAN
  OBVIOUS
<1> HIDE DEF s, b, v
<1>6. w \in LibUsbState
  BY <1>2, <1>4, <1>5, Zenon DEF LibUsbState
<1>7. /\ w.conn = u.conn /\ w.state = s /\ w.list = u.list
      /\ w.arrival = u.arrival /\ w.attached = u.attached /\ w.looper = u.looper
      /\ w.detach_okay = u.detach_okay /\ w.crashed = b
      /\ w.plugs = u.plugs /\ w.plugged = u.plugged
      /\ w.connecting = u.connecting /\ w.hotplug_queue = u.hotplug_queue
  BY <1>2 DEF LibUsbState
<1> HIDE DEF w
<1>8. Arrivals(u) => Arrivals(w)
  BY <1>7, ArrivalsSame
<1>9. ASSUME Alive(z)
      PROVE  Alive(w)
  <2>1. /\ Connected(z, p) /\ Tracked(z, p) /\ Delivered(z, p)
        /\ ~z.crashed /\ InOrder(z.looper)
    BY <1>2, <1>9 DEF Alive, Steady
  <2>2. Posted(z.looper, "packet", p)
    BY <1>1
  <2>3. z.list[p] = "listed" /\ (z.detach_okay[p] \/ ReadFrom(z.conn[p]))
    BY <2>1, <2>2, Zenon DEF Delivered
  <2>4. /\ Posted(w.looper, "register", p) <=> Posted(z.looper, "register", p)
        /\ Posted(w.looper, "error", p) <=> Posted(z.looper, "error", p)
        /\ Posted(w.looper, "remove", p) <=> Posted(z.looper, "remove", p)
        /\ Posted(w.looper, "packet", p) => Posted(z.looper, "packet", p)
    BY <1>1, <1>7
  <2>5. /\ w.list[p] = z.list[p] /\ w.conn[p] = z.conn[p] /\ w.arrival[p] = z.arrival[p]
        /\ w.detach_okay[p] = z.detach_okay[p] /\ w.attached = z.attached
    BY <1>1, <1>7
  <2>6. Tracked(w, p)
    BY <2>1, <2>4, <2>5, Zenon DEF Tracked
  <2>7. Connected(w, p)
    BY <2>1, <2>3, <2>5, Zenon DEF Connected
  <2>8. Delivered(w, p)
    BY <2>1, <2>4, <2>5, Zenon DEF Delivered
  <2>9. Beside(z, w, p)
    <3>1. Beside(u, w, p)
      BY <1>4, <1>7, Zenon DEF Beside
    <3> QED
      BY <1>1, <3>1, BesideTwice
  <2>10. ~w.crashed /\ InOrder(w.looper)
    BY <1>1, <1>7, <2>1, <2>3, ZenonT(60) DEF b
  <2> QED
    BY <1>2, <1>9, <2>5, <2>6, <2>7, <2>8, <2>9, <2>10, AliveStep, Zenon
<1> QED
  BY <1>1, <1>3, <1>6, <1>8, <1>9, Zenon DEF v, u, p

(* Where devices do not come back detached, one that is started was not *)
(* detached: no other device can have been attached before it.          *)
LEMMA StartsUndetached ==
    ASSUME NEW u \in LibUsbState, NEW p \in Devices, Alive(u), ~Reattaches,
           u.list[p] = "pending", ~ShouldStartDetached(u)
    PROVE  ~u.conn[p].detached
<1>1. SUFFICES ASSUME StartDetached
               PROVE  FALSE
  <2>1. Connected(u, p) /\ "pending" \in {"none", "pending"}
    BY DEF Alive
  <2>2. u.conn[p].detached => StartDetached
    BY <2>1, Zenon DEF Connected
  <2> QED
    BY <2>2
<1>2. u.attached
  BY <1>1 DEF ShouldStartDetached
<1>3. PICK q \in Devices : u.list[q] \in {"listed", "deleted"}
  BY <1>2, Zenon DEF Alive, Steady
<1>4. q # p
  BY <1>3
<1>5. MaxPlugs > 1
  BY <1>3, <1>4, UsbAssumption DEF Devices
<1> QED
  BY <1>1, <1>5 DEF Reattaches

(* fdevent_register_transport: the transport starts detached, or running if its *)
(* device can be opened, or stays pending.                                      *)
LEMMA RegisteredIs ==
    ASSUME NEW z \in LibUsbState, z.looper # <<>>, z.looper[1].op = "register",
           NEW opened \in BOOLEAN
    PROVE  LET v == fdevent_register_transport(Taken(z), z.looper[1].dev, opened)
           IN /\ v \in LibUsbState
              /\ Arrivals(z) => Arrivals(v)
              /\ Alive(z) /\ ~Reattaches => Alive(v)
<1> DEFINE p == z.looper[1].dev
           u == Taken(z)
           s == u.state[p]
           l == u.list[p]
           td == "detached"
           tl == "listed"
           k == [u.conn[p] EXCEPT !.transport = TRUE]
           a == Put(u, td, tl, k, p)
           b == Put(u, s, tl, k, p)
           c == Put(u, s, l, k, p)
           x == Started(b, p)
           v == fdevent_register_transport(u, p, opened)
<1>1. /\ u \in LibUsbState /\ z.looper[1] \in Closure /\ Beside(z, u, p)
      /\ u.conn = z.conn /\ u.state = z.state /\ u.list = z.list
      /\ u.arrival = z.arrival /\ u.attached = z.attached
      /\ u.detach_okay = z.detach_okay /\ u.crashed = z.crashed
      /\ Arrivals(z) => Arrivals(u)
      /\ \A op : Posted(z.looper, op, p) <=> Posted(u.looper, op, p) \/ z.looper[1].op = op
      /\ InOrder(z.looper) => InOrder(u.looper) /\ ~Posted(u.looper, "register", p)
  BY TakenIs, Zenon
<1>2. p \in Devices /\ u \in LibUsbState
  BY <1>1 DEF Closure
<1> HIDE DEF p, u
<1>3. /\ l \in {"none", "pending", "listed", "deleted"} /\ u.conn[p] \in Connection
      /\ s \in {"offline", "device", "detached"}
      /\ tl \in {"none", "pending", "listed", "deleted"}
      /\ td \in {"offline", "device", "detached"}
  BY <1>2 DEF LibUsbState
<1>4. /\ k \in Connection /\ k.detached = u.conn[p].detached /\ k.running = u.conn[p].running
      /\ k.transport = TRUE /\ k.error = u.conn[p].error /\ k.thread = u.conn[p].thread
  BY <1>3, Zenon DEF Connection
<1>5. \/ v = a
      \/ v = x /\ ~ShouldStartDetached(u)
      \/ v = c
  <2> DEFINE d == [u EXCEPT !.conn[p].transport = TRUE]
             e == [d EXCEPT !.state[p] = "detached", !.list[p] = "listed"]
             f == [d EXCEPT !.list[p] = "listed"]
  <2>1. [u.list EXCEPT ![p] = l] = u.list /\ [u.state EXCEPT ![p] = s] = u.state
    BY <1>2 DEF LibUsbState
  <2>2. d = c
    BY <1>2, <2>1, Zenon DEF Put, LibUsbState
  <2>3. e = a
    BY <1>2, Zenon DEF Put, LibUsbState
  <2>4. f = b
    BY <1>2, <2>1, ZenonT(60) DEF Put, LibUsbState
  <2>5. v = IF ShouldStartDetached(u) THEN e
            ELSE IF opened THEN Started(f, p) ELSE d
    BY DEF fdevent_register_transport
  <2> HIDE DEF a, b, c, d, e, f, v
  <2> QED
    BY <2>2, <2>3, <2>4, <2>5
<1> HIDE DEF s, l, k, td, tl
<1>6. HasPut(u, a, td, tl, k, p) /\ HasPut(u, b, s, tl, k, p) /\ HasPut(u, c, s, l, k, p)
  BY <1>2, <1>3, <1>4, PutIs
<1> HIDE DEF a, b, c, v
<1> USE DEF s, l, td, tl
<1>7. b \in LibUsbState
  BY <1>6, Zenon DEF HasPut
<1>8. /\ Touches(b, x, p) /\ SameLink(b, x, p)
      /\ x.looper = b.looper
      /\ x.conn[p].error <=> b.conn[p].error
      /\ x.conn[p].running
      /\ \A t \in IoThreads : x.conn[p].thread[t] = "running"
      /\ x.crashed => b.crashed \/ \E t \in IoThreads : b.conn[p].thread[t] # "none"
  BY <1>2, <1>7, StartedIs
<1> HIDE DEF x
<1>9. v \in LibUsbState /\ (Arrivals(z) => Arrivals(v))
  <2>1. a \in LibUsbState /\ c \in LibUsbState /\ x \in LibUsbState
    BY <1>6, <1>8 DEF HasPut, Touches
  <2>2. Arrivals(z) => Arrivals(a) /\ Arrivals(b) /\ Arrivals(c)
    BY <1>1, <1>6, Zenon DEF HasPut
  <2>3. Arrivals(b) => Arrivals(x)
    BY <1>8, ArrivalsTouched, Zenon
  <2> QED
    BY <1>5, <2>1, <2>2, <2>3, Zenon
<1>10. ASSUME Alive(z)
       PROVE  /\ z.list[p] = "pending" /\ z.arrival[p] = "done"
              /\ ~z.conn[p].running /\ ~z.conn[p].transport /\ ~z.conn[p].error
              /\ ~z.detach_okay[p]
              /\ \A t \in IoThreads : z.conn[p].thread[t] = "none"
              /\ \A op : ~Posted(u.looper, op, p) \/ op \notin {"register", "error", "remove", "packet"}
              /\ ~z.crashed /\ InOrder(u.looper)
  <2>1. /\ Connected(z, p) /\ Tracked(z, p) /\ Delivered(z, p)
        /\ ~z.crashed /\ InOrder(z.looper)
    BY <1>2, <1>10 DEF Alive, Steady
  <2>2. Posted(z.looper, "register", p)
    BY <1>1
  <2>3. z.list[p] = "pending" /\ ~z.conn[p].transport /\ ~z.conn[p].error
    BY <2>1, <2>2, Zenon DEF Tracked
  <2>4. "pending" # "none" /\ "pending" \notin {"listed", "deleted"} /\ "pending" # "listed"
    OBVIOUS
  <2>5. z.arrival[p] = "done"
    BY <2>1, <2>3, <2>4, Zenon DEF Tracked
  <2>6. ~z.conn[p].running /\ ~z.detach_okay[p]
    BY <2>1, <2>3, <2>4, Zenon DEF Connected
  <2>7. \A t \in IoThreads : z.conn[p].thread[t] = "none"
    BY <2>1, <2>6, Zenon DEF Connected
  <2>8. ~Posted(z.looper, "error", p) /\ ~Posted(z.looper, "remove", p)
    BY <2>1, <2>3, Zenon DEF Tracked
  <2>9. InOrder(u.looper) /\ ~Posted(u.looper, "register", p)
    BY <1>1, <2>1, Zenon
  <2>11. ~Posted(z.looper, "packet", p)
    BY <2>1, <2>3, <2>4, Zenon DEF Delivered
  <2>10. /\ ~Posted(u.looper, "error", p) /\ ~Posted(u.looper, "remove", p)
         /\ ~Posted(u.looper, "packet", p)
    BY <1>1, <2>8, <2>11
  <2> QED
    BY <2>1, <2>3, <2>5, <2>6, <2>7, <2>9, <2>10, Zenon
<1>11. ASSUME Alive(z), ~Reattaches
       PROVE  Alive(v)
  <2>1. /\ z.list[p] = "pending" /\ z.arrival[p] = "done"
        /\ ~z.conn[p].running /\ ~z.conn[p].transport /\ ~z.conn[p].error
        /\ ~z.detach_okay[p]
        /\ \A t \in IoThreads : z.conn[p].thread[t] = "none"
        /\ \A op : ~Posted(u.looper, op, p) \/ op \notin {"register", "error", "remove", "packet"}
        /\ ~z.crashed /\ InOrder(u.looper)
    BY <1>10, <1>11
  <2>2. /\ ~Posted(u.looper, "register", p) /\ ~Posted(u.looper, "error", p)
        /\ ~Posted(u.looper, "remove", p) /\ ~Posted(u.looper, "packet", p)
    BY <2>1, Zenon
  <2>3. /\ k.transport /\ ~k.running /\ ~k.error /\ k.detached = z.conn[p].detached
        /\ \A t \in IoThreads : k.thread[t] = "none"
    BY <1>1, <1>4, <2>1
  <2>4. /\ "listed" # "none" /\ "pending" # "none" /\ "pending" # "listed"
        /\ "listed" \in {"listed", "deleted"} /\ "pending" \notin {"listed", "deleted"}
        /\ "listed" \notin {"none", "pending"} /\ "pending" \in {"none", "pending"}
    OBVIOUS
  <2>5. CASE v = a
    <3>1. /\ a.list[p] = "listed" /\ a.state[p] = "detached" /\ a.conn[p] = k
          /\ a.looper = u.looper /\ a.crashed = z.crashed /\ a.attached = z.attached
          /\ a.arrival = z.arrival /\ a.detach_okay = z.detach_okay /\ Beside(u, a, p)
      BY <1>1, <1>6 DEF HasPut
    <3>2. Tracked(a, p)
      BY <2>1, <2>2, <2>3, <2>4, <3>1, Zenon DEF Tracked
    <3>3. Connected(a, p)
      BY <2>1, <2>3, <2>4, <3>1, Zenon DEF Connected
    <3>7. Delivered(a, p)
      BY <2>2, <2>3, <3>1, Zenon DEF Delivered
    <3>4. Beside(z, a, p)
      BY <1>1, <3>1, BesideTwice, Zenon
    <3>5. ~a.crashed /\ InOrder(a.looper)
      BY <2>1, <3>1, Zenon
    <3>6. Alive(a)
      BY <1>2, <1>11, <2>4, <3>1, <3>2, <3>3, <3>4, <3>5, <3>7, AliveStep, Zenon
    <3> QED
      BY <2>5, <3>6, Zenon
  <2>6. CASE v = x /\ ~ShouldStartDetached(u)
    <3>1. /\ b.list[p] = "listed" /\ b.conn[p] = k
          /\ b.looper = u.looper /\ b.crashed = z.crashed /\ b.attached = z.attached
          /\ b.arrival = z.arrival /\ b.detach_okay = z.detach_okay /\ Beside(u, b, p)
      BY <1>1, <1>6, Zenon DEF HasPut
    <3>2. /\ x.list[p] = "listed" /\ x.attached = z.attached /\ x.arrival = z.arrival
          /\ x.detach_okay = z.detach_okay /\ x.looper = u.looper
      BY <1>8, <3>1, Zenon DEF Touches
    <3>3. ~z.conn[p].detached
      <4>1. ~ShouldStartDetached(z)
        BY <1>1, <2>6 DEF ShouldStartDetached
      <4> QED
        BY <1>2, <1>11, <2>1, <4>1, StartsUndetached, Zenon
    <3>4. x.conn[p].transport /\ ~x.conn[p].detached /\ ~x.conn[p].error
      BY <1>8, <2>3, <3>1, <3>3, Zenon DEF SameLink
    <3>5. ~x.crashed
      BY <1>8, <2>1, <2>3, <3>1, Zenon
    <3>6. Tracked(x, p)
      BY <2>1, <2>2, <2>4, <3>2, <3>4, Zenon DEF Tracked
    <3>7. ReadFrom(x.conn[p])
      BY <1>8 DEF IoThreads, ReadFrom
    <3>8. Connected(x, p)
      BY <1>8, <2>1, <3>2, <3>4, <3>7, Zenon DEF Connected
    <3>12. Delivered(x, p)
      BY <2>2, <3>2, <3>7, Zenon DEF Delivered
    <3>9. Beside(z, x, p)
      <4>1. Beside(b, x, p)
        BY <1>8, Zenon DEF Beside, Touches
      <4>2. Beside(z, b, p)
        BY <1>1, <3>1, BesideTwice, Zenon
      <4> QED
        BY <4>1, <4>2, BesideTwice
    <3>10. InOrder(x.looper)
      BY <2>1, <3>2, Zenon
    <3>11. Alive(x)
      BY <1>2, <1>11, <2>4, <3>2, <3>5, <3>6, <3>8, <3>9, <3>10, <3>12, AliveStep, ZenonT(60)
    <3> QED
      BY <2>6, <3>11, Zenon
  <2>7. CASE v = c
    <3>1. /\ c.list[p] = "pending" /\ c.state[p] = z.state[p] /\ c.conn[p] = k
          /\ c.looper = u.looper /\ c.crashed = z.crashed /\ c.attached = z.attached
          /\ c.arrival = z.arrival /\ c.detach_okay = z.detach_okay /\ Beside(u, c, p)
      BY <1>1, <1>6, <2>1 DEF HasPut
    <3>2. Tracked(c, p)
      BY <2>1, <2>2, <2>3, <2>4, <3>1, Zenon DEF Tracked
    <3>3. z.conn[p].detached => StartDetached
      <4>1. Connected(z, p)
        BY <1>2, <1>11 DEF Alive
      <4> QED
        BY <2>1, <2>4, <4>1, Zenon DEF Connected
    <3>4. Connected(c, p)
      BY <2>1, <2>3, <2>4, <3>1, <3>3, Zenon DEF Connected
    <3>9. Delivered(c, p)
      BY <2>2, <2>3, <3>1, Zenon DEF Delivered
    <3>5. Beside(z, c, p)
      BY <1>1, <3>1, BesideTwice, Zenon
    <3>6. ~c.crashed /\ InOrder(c.looper)
      BY <2>1, <3>1
    <3>7. ~(z.list[p] \in {"listed", "deleted"})
      BY <2>1
    <3>8. Alive(c)
      BY <1>2, <1>11, <3>1, <3>2, <3>4, <3>5, <3>6, <3>7, <3>9, AliveStep, Zenon
    <3> QED
      BY <2>7, <3>8
  <2> QED
    BY <1>5, <2>5, <2>6, <2>7, Zenon
<1> QED
  BY <1>9, <1>11, Zenon DEF v, u, p

(* Whatever closure the looper runs. *)
LEMMA LooperIs ==
    ASSUME lu \in LibUsbState, Arrivals(lu), RunLooper
    PROVE  /\ lu' \in LibUsbState /\ Arrivals(lu')
           /\ Alive(lu) /\ ~Reattaches => Alive(lu') /\ Settled(lu')
<1> DEFINE c == lu.looper[1]
           u == Taken(lu)
<1>1. lu.looper # <<>>
  BY DEF RunLooper
<1>2. u \in LibUsbState /\ c \in Closure
  BY <1>1, TakenIs
<1>3. PICK opened \in MayOpen(lu, c.dev) : lu' = Flush(Closed(u, c, opened))
  BY Zenon DEF RunLooper, Taken
<1>4. opened \in BOOLEAN
  BY Zenon DEF MayOpen
<1>5. c.op \in {"register", "left", "packet", "error", "remove"} /\ c.dev \in Devices
  BY <1>2 DEF Closure
<1> DEFINE g == Closed(u, c, opened)
<1>11. g = CASE c.op = "register" -> fdevent_register_transport(u, c.dev, opened)
             [] c.op = "left" -> disconnected(u, c.dev)
             [] c.op = "packet" -> handle_new_connection(u, c.dev)
             [] c.op = "error" -> transport_error(u, c.dev)
             [] c.op = "remove" -> fdevent_unregister_transport(u, c.dev)
  BY DEF Closed
<1> HIDE DEF c, u, g
<1>12. SUFFICES g \in LibUsbState /\ Arrivals(g) /\ (Alive(lu) /\ ~Reattaches => Alive(g))
  <2>1. lu' = Flush(g)
    BY <1>3 DEF g
  <2> QED
    BY <2>1, FlushIs
<1>6. CASE c.op = "register"
  <2>1. g = fdevent_register_transport(u, c.dev, opened)
    BY <1>11, <1>6
  <2> QED
    BY <1>1, <1>4, <1>6, <2>1, RegisteredIs DEF c, u
<1>7. CASE c.op = "left"
  <2>1. g = disconnected(u, c.dev)
    BY <1>11, <1>7
  <2>2. Arrivals(u) /\ (Alive(lu) => Alive(u))
    <3>1. /\ Beside(lu, u, c.dev)
          /\ u.conn = lu.conn /\ u.state = lu.state /\ u.list = lu.list
          /\ u.arrival = lu.arrival /\ u.attached = lu.attached
          /\ u.detach_okay = lu.detach_okay /\ u.crashed = lu.crashed
          /\ Arrivals(lu) => Arrivals(u)
          /\ \A op : Posted(lu.looper, op, c.dev) <=> Posted(u.looper, op, c.dev) \/ c.op = op
          /\ InOrder(lu.looper) => InOrder(u.looper)
      BY <1>1, TakenIs, ZenonT(60) DEF c, u
    <3>2. /\ Posted(u.looper, "register", c.dev) <=> Posted(lu.looper, "register", c.dev)
          /\ Posted(u.looper, "error", c.dev) <=> Posted(lu.looper, "error", c.dev)
          /\ Posted(u.looper, "remove", c.dev) <=> Posted(lu.looper, "remove", c.dev)
          /\ Posted(u.looper, "packet", c.dev) <=> Posted(lu.looper, "packet", c.dev)
      BY <1>7, <3>1, Zenon
    <3>3. ASSUME Alive(lu)
          PROVE  Alive(u)
      <4>1. /\ Tracked(lu, c.dev) /\ Connected(lu, c.dev) /\ Delivered(lu, c.dev)
            /\ ~lu.crashed /\ InOrder(lu.looper)
        BY <1>5, <3>3 DEF Alive, Steady
      <4>2. Tracked(u, c.dev)
        BY <3>1, <3>2, <4>1, Zenon DEF Tracked
      <4>3. Connected(u, c.dev)
        BY <3>1, <4>1, Zenon DEF Connected
      <4>4. Delivered(u, c.dev)
        BY <3>1, <3>2, <4>1, Zenon DEF Delivered
      <4> QED
        BY <1>5, <3>1, <3>3, <4>1, <4>2, <4>3, <4>4, AliveStep, Zenon
    <3> QED
      BY <3>1, <3>3, Zenon
  <2> QED
    BY <1>2, <1>5, <2>1, <2>2, LeftIs, Zenon DEF u
<1>8. CASE c.op = "error"
  <2>1. g = transport_error(u, c.dev)
    BY <1>11, <1>8, Zenon
  <2> QED
    BY <1>1, <1>8, <2>1, ErrorIs DEF c, u
<1>9. CASE c.op = "remove"
  <2>1. g = fdevent_unregister_transport(u, c.dev)
    BY <1>11, <1>9
  <2> QED
    BY <1>1, <1>9, <2>1, RemoveIs DEF c, u
<1>10. CASE c.op = "packet"
  <2>1. g = handle_new_connection(u, c.dev)
    BY <1>11, <1>10
  <2> QED
    BY <1>1, <1>10, <2>1, PacketIs DEF c, u
<1> QED
  BY <1>5, <1>6, <1>7, <1>8, <1>9, <1>10, Zenon

-----------------------------------------------------------------------------
(***************************************************************************)
(* The theorems.                                                           *)
(***************************************************************************)
LEMMA UsbStarts ==
    Init => UsbInv
<1> SUFFICES ASSUME Init
             PROVE  UsbInv
  OBVIOUS
<1>1. /\ <<>> \in Seq(Arrived) /\ <<>> \in Seq(Closure) /\ {} \in SUBSET Devices
      /\ 0 \in 0 .. MaxPlugs /\ 0 \in 0 .. MaxRequests /\ 0 \in 0 .. MaxPackets /\ 0 # 1
      /\ DOMAIN <<>> = {}
  BY UsbAssumption
<1>2. NewConnection \in Connection
  BY DEF NewConnection, Connection
<1>3. /\ [p \in Devices |-> NewConnection] \in [Devices -> Connection]
      /\ [p \in Devices |-> "offline"] \in [Devices -> {"offline", "device", "detached"}]
      /\ [p \in Devices |-> "none"] \in [Devices -> {"none", "pending", "listed", "deleted"}]
      /\ [p \in Devices |-> "none"] \in [Devices -> {"none", "waits", "built", "emplaced", "done"}]
      /\ [p \in Devices |-> FALSE] \in [Devices -> BOOLEAN]
  BY <1>2
<1>4. lu \in LibUsbState
  BY <1>1, <1>3, Zenon DEF Init, LibUsbState
<1>5. /\ lu.plugs = 0 /\ lu.plugged = FALSE /\ lu.connecting = 0
      /\ lu.hotplug_queue = <<>> /\ lu.looper = <<>>
      /\ lu.crashed = FALSE /\ lu.attached = FALSE
  BY DEF Init
<1>6. \A p \in Devices :
        /\ lu.arrival[p] = "none" /\ lu.list[p] = "none" /\ lu.detach_okay[p] = FALSE
        /\ lu.conn[p] = NewConnection
  BY DEF Init
<1>7. /\ NewConnection.detached = FALSE /\ NewConnection.running = FALSE
      /\ NewConnection.transport = FALSE /\ NewConnection.error = FALSE
      /\ \A t \in IoThreads : NewConnection.thread[t] = "none"
  BY DEF NewConnection
<1>8. Arrivals(lu)
  <2>1. \A p \in Devices : ~(p <= 0)
    BY UsbAssumption DEF Devices
  <2>2. Arriving(lu) = {}
    BY <1>5, <2>1 DEF Arriving
  <2>3. lu.connecting = Cardinality(Arriving(lu))
    BY <1>5, <2>2, FS_EmptySet
  <2>4. AnnouncedOnce(lu.hotplug_queue) /\ \A p : ~Announced(lu.hotplug_queue, p)
    BY <1>1, <1>5 DEF AnnouncedOnce, Announced
  <2> QED
    BY <1>5, <1>6, <2>3, <2>4, Zenon DEF Arrivals
<1>9. Alive(lu) /\ Settled(lu)
  <2>1. InOrder(lu.looper) /\ \A op, p : ~Posted(lu.looper, op, p)
    BY <1>1, <1>5 DEF InOrder, RegisteredOnce, RemovedLast, Posted
  <2>2. Steady(lu)
    BY <1>5, <2>1 DEF Steady
  <2>3. "none" # "listed" /\ "none" # "deleted"
    OBVIOUS
  <2>4. ASSUME NEW p \in Devices
        PROVE  Tracked(lu, p) /\ Connected(lu, p) /\ Delivered(lu, p)
    <3>1. Tracked(lu, p)
      BY <1>6, <1>7, <2>1, <2>3, Zenon DEF Tracked
    <3>2. Connected(lu, p)
      BY <1>6, <1>7, <2>3, Zenon DEF Connected
    <3>3. Delivered(lu, p)
      BY <1>6, <1>7, <2>1, Zenon DEF Delivered
    <3> QED
      BY <3>1, <3>2, <3>3
  <2> QED
    BY <2>1, <2>2, <2>4, Zenon DEF Alive, Settled
<1> QED
  BY <1>4, <1>8, <1>9 DEF UsbInv, TypeOK

(* Every step preserves the invariant. *)
LEMMA UsbSteps ==
    UsbInv /\ [Next]_lu => UsbInv'
<1> SUFFICES ASSUME UsbInv, [Next]_lu
             PROVE  UsbInv'
  OBVIOUS
<1>1. lu \in LibUsbState /\ Arrivals(lu) /\ (Reattaches \/ (Alive(lu) /\ Settled(lu)))
  BY DEF UsbInv, TypeOK
<1>2. SUFFICES /\ lu' \in LibUsbState /\ Arrivals(lu')
               /\ Alive(lu) /\ Settled(lu) /\ ~Reattaches => Alive(lu') /\ Settled(lu')
  BY <1>1 DEF UsbInv, TypeOK, Reattaches
<1>3. ASSUME Aside(lu, lu'), lu'.arrival = lu.arrival, lu'.looper = lu.looper, Alive(lu)
      PROVE  Alive(lu') /\ Calm(lu, lu')
  <2>1. InOrder(lu'.looper)
    BY <1>3 DEF Alive, Steady
  <2> QED
    BY <1>3, <2>1, AsideAlive
<1>17. SUFFICES /\ lu' \in LibUsbState /\ Arrivals(lu')
                /\ Alive(lu) /\ Settled(lu) /\ ~Reattaches =>
                      Alive(lu') /\ (Settled(lu') \/ Calm(lu, lu'))
  BY StaysSettled
<1>4. CASE Plug
  BY <1>1, <1>3, <1>4, PlugIs
<1>5. CASE Unplug
  BY <1>1, <1>3, <1>5, UnplugIs
<1>6. CASE hotplug_thread
  BY <1>1, <1>6, HotplugIs
<1>7. CASE RunLooper
  BY <1>1, <1>7, LooperIs
<1>8. ASSUME NEW p \in Devices, process_device(p)
      PROVE  lu' \in LibUsbState /\ Arrivals(lu') /\ (Alive(lu) => Alive(lu') /\ Calm(lu, lu'))
  BY <1>1, <1>8, ProcessIs
<1>9. ASSUME NEW p \in Devices, process_device_emplace(p)
      PROVE  lu' \in LibUsbState /\ Arrivals(lu') /\ (Alive(lu) => Alive(lu') /\ Calm(lu, lu'))
  BY <1>1, <1>9, EmplaceIs, ZenonT(60)
<1>10. ASSUME NEW p \in Devices, register_libusb_transport(p)
       PROVE  lu' \in LibUsbState /\ Arrivals(lu') /\ (Alive(lu) => Alive(lu') /\ Calm(lu, lu'))
  BY <1>1, <1>10, RegisterIs
<1>11. ASSUME NEW p \in Devices, HandleRead(p)
       PROVE  lu' \in LibUsbState /\ Arrivals(lu') /\ (Alive(lu) => Alive(lu') /\ Calm(lu, lu'))
  BY <1>1, <1>11, ReadIs
<1>12. ASSUME NEW p \in Devices, Attach(p)
       PROVE  lu' \in LibUsbState /\ Arrivals(lu') /\ (Alive(lu) /\ Settled(lu) => Alive(lu') /\ Settled(lu'))
  BY <1>1, <1>12, AttachIs
<1>13. ASSUME NEW p \in Devices, Detach(p)
       PROVE  lu' \in LibUsbState /\ Arrivals(lu') /\ (Alive(lu) /\ Settled(lu) => Alive(lu') /\ Settled(lu'))
  BY <1>1, <1>13, DetachIs
<1>14. ASSUME NEW p \in Devices, NEW t \in IoThreads, ThreadFails(p, t)
       PROVE  lu' \in LibUsbState /\ Arrivals(lu') /\ (Alive(lu) => Alive(lu') /\ Calm(lu, lu'))
  BY <1>1, <1>14, ThreadFailsIs
<1>15. ASSUME NEW p \in Devices, NEW t \in IoThreads, ThreadReports(p, t)
       PROVE  lu' \in LibUsbState /\ Arrivals(lu') /\ (Alive(lu) => Alive(lu') /\ Calm(lu, lu'))
  BY <1>1, <1>15, ThreadReportsIs
<1>16. CASE UNCHANGED lu
  BY <1>1, <1>3, <1>16 DEF Aside
<1> QED
  BY <1>4, <1>5, <1>6, <1>7, <1>8, <1>9, <1>10, <1>11, <1>12, <1>13, <1>14, <1>15, <1>16,
     Zenon DEF Next

(* At every moment each plug of a device is counted once (connecting,           *)
(* usb_libusb_hotplug.cpp:171). Unless devices that start detached come back,   *)
(* its transport, its connection and the closures that the looper still has for *)
(* it agree: an error is followed by one removal, the removal by no packet, and *)
(* a packet is of a transport that is there and is read from, has failed or was *)
(* detached. For any number of plugs, requests and packets.                     *)
THEOREM UsbInvariant ==
    Spec => []UsbInv
<1>1. Init => UsbInv
  BY UsbStarts
<1>2. UsbInv /\ [Next]_lu => UsbInv'
  BY UsbSteps
<1> QED
  BY <1>1, <1>2, PTL DEF Spec

(* Every field of the libusb connections keeps its type; connecting, which *)
(* adb_notify_device_scan_complete waits for, is never negative.           *)
THEOREM UsbTypeCorrect ==
    Spec => []TypeOK
<1>1. UsbInv => TypeOK
  BY DEF UsbInv
<1> QED
  BY <1>1, UsbInvariant, PTL

(* Unless devices that start detached come back: hot-plugging, attaching and     *)
(* detaching neither crash the server (a thread object assigned over, an error   *)
(* reported through no transport, a packet handled for a deleted one), nor list  *)
(* as usable a transport that nobody reads from, but for one that was detached   *)
(* with its A_CNXN still queued; and a granted detach has released the device    *)
(* (usb_libusb.cpp:64, usb_libusb_hotplug.cpp:99, transport.cpp:1209). For any   *)
(* number of plugs, requests and packets.                                        *)
THEOREM UsbSafety ==
    Spec => []UsbIsAlive
<1>1. UsbInv => UsbIsAlive
  <2> SUFFICES ASSUME UsbInv, ~Reattaches
               PROVE  NeverCrashes /\ NoZombie /\ DetachReleases
    BY DEF UsbIsAlive
  <2>1. lu \in LibUsbState /\ Alive(lu)
    BY DEF UsbInv, TypeOK
  <2>2. NeverCrashes
    BY <2>1 DEF Alive, Steady, NeverCrashes
  <2>3. NoZombie
    <3> SUFFICES ASSUME NEW p \in Devices, Quiet, lu.list[p] = "listed",
                        lu.state[p] # "detached", ~lu.detach_okay[p]
                 PROVE  lu.conn[p].thread["read"] = "running"
      BY DEF NoZombie
    <3>1. Tracked(lu, p) /\ Connected(lu, p)
      BY <2>1 DEF Alive
    <3>2. \A op : ~Posted(lu.looper, op, p)
      BY DEF Quiet, Posted
    <3>3. "listed" # "deleted"
      OBVIOUS
    <3>4. ~lu.conn[p].error
      BY <3>1, <3>2, <3>3, Zenon DEF Tracked
    <3>5. lu.conn[p].thread["read"] \in {"running", "reports"}
      BY <3>1, <3>4, Zenon DEF Connected, ReadFrom
    <3>6. lu.conn[p].thread["read"] # "reports"
      BY DEF Quiet, IoThreads
    <3> QED
      BY <3>5, <3>6
  <2>4. DetachReleases
    BY <2>1, Zenon DEF Alive, Connected, DetachReleases
  <2> QED
    BY <2>2, <2>3, <2>4
<1> QED
  BY <1>1, UsbInvariant, PTL
=============================================================================
