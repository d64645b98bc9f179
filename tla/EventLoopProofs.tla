-------------------------- MODULE EventLoopProofs --------------------------
(***************************************************************************)
(* What EventLoop promises, for every number of descriptors, fdevents and  *)
(* queued functions.                                                       *)
(***************************************************************************)
EXTENDS EventLoop, FiniteSetTheorems, SequenceTheorems, TLAPS

(* What holds between any two operations of the loop: the interrupt fd has *)
(* its fdevent, no two fdevents have one descriptor, and the kernel of the *)
(* epoll back end knows the interests of each.                             *)
Tidy(c) ==
    /\ c \in LoopState
    /\ c.fde[IntFd].id # 0 /\ c.fde[IntFd].fd = IntFd
    /\ \A a, b \in Installed(c) : c.fde[a].fd = c.fde[b].fd => a = b
    /\ c.backend = "epoll" => \A a \in Installed(c) : c.mask[c.fde[a].fd] = c.fde[a].state

(* The queue holds the functions that were queued and did not run. *)
Queued(c) ==
    /\ c.ran <= c.pushed
    /\ c.run_queue = [i \in 1..c.pushed - c.ran |-> c.ran + i]

(* What an operation on an fdevent leaves alone. *)
Beside(c, d) ==
    /\ d.backend = c.backend /\ d.run_queue = c.run_queue
    /\ d.pushed = c.pushed /\ d.ran = c.ran /\ d.pc = c.pc /\ d.events = c.events
    /\ d.last = c.last /\ d.called = c.called /\ d.thread = c.thread
    /\ d.ready[IntFd] = c.ready[IntFd]

(* The events in the vector are about fdevents that are installed. *)
Pending(c) ==
    c.pc = "handle" =>
        \A i \in DOMAIN c.events :
            /\ c.events[i].a \in Installed(c)
            /\ c.events[i].id = c.fde[c.events[i].a].id

(* Whoever queued a function has woken the looper, or will. *)
Woken(c) ==
    c.run_queue # <<>> => c.ready[IntFd] # {} \/ c.thread # "idle" \/ c.pc = "flush"

(* The inductive invariant. *)
Sound(c) == Tidy(c) /\ Queued(c) /\ Pending(c) /\ Woken(c) /\ c.called = c.last

LoopInv == Sound(el)

-----------------------------------------------------------------------------
(* The operations on one fdevent.                                          *)

\* The interrupt fd is a descriptor and an address, and all of them are numbers.
LEMMA FdsAre == IntFd \in Fds /\ IntFd \in Addr /\ Fds \subseteq Nat /\ Addr = Fds
BY LoopAssumption DEF IntFd, Fds, Addr

\* A new entry for one address, and for one descriptor in the kernel, gives a
\* state of the loop in which nothing else differs.
LEMMA EditIs ==
    ASSUME NEW c \in LoopState, NEW a \in Addr, NEW x \in Fde
    PROVE  LET d == [c EXCEPT !.fde[a] = x]
           IN  /\ d \in LoopState /\ Beside(c, d)
               /\ d.fde = [c.fde EXCEPT ![a] = x] /\ d.mask = c.mask
               /\ d.ready = c.ready /\ d.nextId = c.nextId
BY DEF LoopState, Beside

\* The same for Register, which tells the kernel of the interests of a.
LEMMA RegisterIs ==
    ASSUME NEW c \in LoopState, NEW a \in Addr
    PROVE  LET d == Register(c, a)
               f == c.fde[a].fd
           IN  /\ d \in LoopState /\ Beside(c, d)
               /\ d.fde = c.fde /\ d.ready = c.ready /\ d.nextId = c.nextId
               /\ d.mask = IF c.backend = "poll" THEN c.mask
                           ELSE [c.mask EXCEPT ![f] = c.fde[a].state]
<1>1. c.fde[a].fd \in Fds /\ c.fde[a].state \in SUBSET {"R", "W"}
  BY DEF LoopState, Fde
<1> QED
  BY <1>1 DEF Register, LoopState, Beside

\* Set changes the interests of a and nothing else, here and in the kernel.
LEMMA SetIs ==
    ASSUME NEW c, Tidy(c), NEW a \in Installed(c), NEW events \in SUBSET {"R", "W"}
    PROVE  LET d == Set(c, a, events)
           IN  /\ Tidy(d) /\ Beside(c, d) /\ d.ready = c.ready
               /\ \A b \in Addr : d.fde[b].id = c.fde[b].id
<1> DEFINE f == c.fde[a].fd
           x == [c.fde[a] EXCEPT !.state = events]
           e == [c EXCEPT !.fde[a] = x]
           d == Set(c, a, events)
<1>1. c \in LoopState /\ a \in Addr /\ c.fde[a] \in Fde /\ f \in Fds
  BY DEF Tidy, Installed, LoopState, Fde
<1>2. x \in Fde /\ x.id = c.fde[a].id /\ x.fd = f /\ x.state = events
  BY <1>1 DEF Fde
<1>3. d = IF c.fde[a].state = events THEN e ELSE Register(e, a)
  BY DEF Set
<1>4. /\ e \in LoopState /\ Beside(c, e) /\ e.fde = [c.fde EXCEPT ![a] = x]
      /\ e.mask = c.mask /\ e.ready = c.ready /\ e.nextId = c.nextId
  BY <1>1, <1>2, EditIs
<1>5. e.fde[a] = x /\ \A b \in Addr \ {a} : e.fde[b] = c.fde[b]
  BY <1>1, <1>4 DEF LoopState
<1>6. /\ d \in LoopState /\ d.fde = e.fde /\ d.ready = c.ready /\ Beside(c, d)
      /\ d.backend = "epoll" /\ c.fde[a].state # events => d.mask = [c.mask EXCEPT ![f] = events]
      /\ c.fde[a].state = events => d.mask = c.mask
  <2>1. CASE c.fde[a].state = events
    BY <2>1, <1>3, <1>4
  <2>2. CASE c.fde[a].state # events
    <3>1. /\ Register(e, a) \in LoopState /\ Beside(e, Register(e, a))
          /\ Register(e, a).fde = e.fde /\ Register(e, a).ready = e.ready
          /\ Register(e, a).mask = IF e.backend = "poll" THEN e.mask
                                   ELSE [e.mask EXCEPT ![e.fde[a].fd] = e.fde[a].state]
      BY <1>1, <1>4, RegisterIs
    <3>2. d = Register(e, a)
      BY <1>3, <2>2
    <3> HIDE DEF d, e
    <3>3. d.fde = e.fde /\ d.ready = c.ready /\ d \in LoopState
      BY <3>1, <3>2, <1>4
    <3>4. Beside(c, d)
      BY <3>1, <3>2, <1>4 DEF Beside
    <3>5. d.backend = "epoll" => d.mask = [c.mask EXCEPT ![f] = events]
      <4>1. e.backend = d.backend /\ e.fde[a].fd = f /\ e.fde[a].state = events
        BY <3>1, <3>2, <1>2, <1>5 DEF Beside
      <4> QED
        BY <4>1, <3>1, <3>2, <1>4
    <3> QED
      BY <3>3, <3>4, <3>5, <2>2
  <2> QED
    BY <2>1, <2>2
<1>7. Installed(d) = Installed(c) /\ \A b \in Addr : d.fde[b].id = c.fde[b].id /\ d.fde[b].fd = c.fde[b].fd
  BY <1>1, <1>2, <1>5, <1>6 DEF Installed
<1>8. d.backend = c.backend
  BY <1>6 DEF Beside
<1>9. d.backend = "epoll" => \A b \in Installed(d) : d.mask[d.fde[b].fd] = d.fde[b].state
  <2> SUFFICES ASSUME d.backend = "epoll", NEW b \in Installed(d)
               PROVE  d.mask[d.fde[b].fd] = d.fde[b].state
    OBVIOUS
  <2>1. b \in Installed(c) /\ b \in Addr /\ c.mask[c.fde[b].fd] = c.fde[b].state /\ c.fde[b].fd \in Fds
    BY <1>1, <1>7, <1>8 DEF Tidy, Installed, LoopState, Fde
  <2>2. d.fde[a].fd = f /\ d.fde[a].state = events
    BY <1>2, <1>5, <1>6
  <2>3. CASE b = a
    BY <2>1, <2>2, <2>3, <1>1, <1>6 DEF LoopState
  <2>4. CASE b # a
    <3>1. c.fde[b].fd # f
      BY <2>1, <2>4 DEF Tidy
    <3>2. d.fde[b] = c.fde[b]
      BY <2>1, <2>4, <1>5, <1>6
    <3> QED
      BY <3>1, <3>2, <2>1, <1>1, <1>6 DEF LoopState
  <2> QED
    BY <2>3, <2>4
<1>10. Tidy(d)
  <2>1. d.fde[IntFd].id # 0 /\ d.fde[IntFd].fd = IntFd
    BY <1>7, FdsAre DEF Tidy
  <2>2. \A b1, b2 \in Installed(d) : d.fde[b1].fd = d.fde[b2].fd => b1 = b2
    BY <1>7 DEF Tidy, Installed
  <2> QED
    BY <2>1, <2>2, <1>6, <1>9 DEF Tidy
<1> QED
  BY <1>6, <1>7, <1>10

\* Destroy frees the address and the descriptor of a, which is not the interrupt's.
LEMMA DestroyIs ==
    ASSUME NEW c, Tidy(c), NEW a \in Installed(c) \ {IntFd}
    PROVE  LET d == Destroy(c, a)
           IN  /\ Tidy(d) /\ Beside(c, d) /\ d.nextId = c.nextId
               /\ Installed(d) = Installed(c) \ {a}
               /\ \A b \in Addr \ {a} : d.fde[b] = c.fde[b]
<1> DEFINE f == c.fde[a].fd
           d == Destroy(c, a)
<1>1. c \in LoopState /\ a \in Addr /\ f \in Fds /\ Free \in Fde /\ IntFd \in Installed(c)
  <2>1. c \in LoopState /\ IntFd \in Installed(c)
    BY FdsAre DEF Tidy, Installed
  <2>2. a \in Addr
    BY DEF Installed
  <2>3. f \in Fds
    BY <2>1, <2>2 DEF LoopState, Fde
  <2>4. Free \in Fde
    BY FdsAre, LoopAssumption DEF Free, Fde, IntFd
  <2> QED
    BY <2>1, <2>2, <2>3, <2>4
<1>2. f # IntFd
  BY <1>1 DEF Tidy
<1>3. /\ d.fde = [c.fde EXCEPT ![a] = Free] /\ d.mask = [c.mask EXCEPT ![f] = {}]
      /\ d.ready = [c.ready EXCEPT ![f] = {}] /\ d.nextId = c.nextId /\ d.backend = c.backend
  BY <1>1 DEF Destroy, LoopState
<1>4. d \in LoopState
  BY <1>1 DEF Destroy, LoopState
<1>5. Beside(c, d)
  <2>1. d.ready[IntFd] = c.ready[IntFd]
    BY <1>1, <1>2, <1>3, FdsAre DEF LoopState
  <2> QED
    BY <2>1, <1>1 DEF Destroy, LoopState, Beside
<1> HIDE DEF d
<1>6. d.fde[a] = Free /\ \A b \in Addr \ {a} : d.fde[b] = c.fde[b]
  BY <1>1, <1>3 DEF LoopState
<1>7. Installed(d) = Installed(c) \ {a}
  BY <1>6 DEF Installed, Free
<1>8. d.backend = "epoll" => \A b \in Installed(d) : d.mask[d.fde[b].fd] = d.fde[b].state
  <2> SUFFICES ASSUME d.backend = "epoll", NEW b \in Installed(d)
               PROVE  d.mask[d.fde[b].fd] = d.fde[b].state
    OBVIOUS
  <2>1. b \in Installed(c) /\ b # a /\ d.fde[b] = c.fde[b] /\ c.fde[b].fd \in Fds
    BY <1>1, <1>6, <1>7 DEF Installed, LoopState, Fde
  <2>2. c.fde[b].fd # f /\ c.mask[c.fde[b].fd] = c.fde[b].state
    BY <2>1, <1>3 DEF Tidy
  <2> QED
    BY <2>1, <2>2, <1>1, <1>3 DEF LoopState
<1>9. Tidy(d)
  <2>1. d.fde[IntFd].id # 0 /\ d.fde[IntFd].fd = IntFd
    BY <1>6, FdsAre DEF Tidy
  <2>2. \A b1, b2 \in Installed(d) : d.fde[b1].fd = d.fde[b2].fd => b1 = b2
    BY <1>6, <1>7 DEF Tidy, Installed
  <2> QED
    BY <2>1, <2>2, <1>4, <1>8 DEF Tidy
<1> QED
  BY <1>3, <1>5, <1>6, <1>7, <1>9 DEF d

\* Create puts an fdevent at a free address, for a descriptor that has none.
LEMMA CreateIs ==
    ASSUME NEW c, Tidy(c), NEW a \in Addr, a \notin Installed(c), c.nextId <= MaxId,
           NEW f \in Fds, \A b \in Installed(c) : c.fde[b].fd # f
    PROVE  LET d == Create(c, f, a)
           IN  /\ Tidy(d) /\ Beside(c, d) /\ a \in Installed(d)
               /\ \A b \in Addr \ {a} : d.fde[b] = c.fde[b]
<1> DEFINE x == [id |-> c.nextId, fd |-> f, state |-> {}, timer |-> "off"]
           e == [c EXCEPT !.fde[a] = x, !.nextId = @ + 1]
           d == Create(c, f, a)
<1>1. c \in LoopState /\ c.nextId \in 1 .. MaxId /\ MaxId \in Nat /\ c.nextId # 0
  BY LoopAssumption DEF Tidy, LoopState
<1>2. x \in Fde /\ x.fd = f /\ x.state = {} /\ x.id # 0
  BY <1>1 DEF Fde
<1> HIDE DEF x
<1>3. e \in LoopState
  <2>1. [c.fde EXCEPT ![a] = x] \in [Addr -> Fde] /\ c.nextId + 1 \in 1 .. MaxId + 1
    BY <1>1, <1>2 DEF LoopState
  <2> QED
    BY <2>1, <1>1 DEF LoopState
<1>4. /\ e.fde = [c.fde EXCEPT ![a] = x] /\ e.mask = c.mask /\ e.ready = c.ready
      /\ e.backend = c.backend /\ Beside(c, e)
  BY <1>1 DEF LoopState, Beside
<1>5. d = Register(e, a)
  BY DEF Create, x
<1> HIDE DEF e, d
<1>6. e.fde[a] = x /\ \A b \in Addr \ {a} : e.fde[b] = c.fde[b]
  BY <1>1, <1>4 DEF LoopState
<1>7. /\ d \in LoopState /\ Beside(e, d) /\ d.fde = e.fde
      /\ d.mask = IF e.backend = "poll" THEN e.mask ELSE [e.mask EXCEPT ![e.fde[a].fd] = e.fde[a].state]
  BY <1>3, <1>5, RegisterIs
<1>8. Beside(c, d) /\ d.backend = c.backend
  BY <1>4, <1>7 DEF Beside
<1>9. Installed(d) = Installed(c) \cup {a}
  BY <1>2, <1>6, <1>7 DEF Installed
<1>10. d.backend = "epoll" => d.mask = [c.mask EXCEPT ![f] = {}]
  BY <1>2, <1>4, <1>6, <1>7, <1>8
<1>11. d.backend = "epoll" => \A b \in Installed(d) : d.mask[d.fde[b].fd] = d.fde[b].state
  <2> SUFFICES ASSUME d.backend = "epoll", NEW b \in Installed(d)
               PROVE  d.mask[d.fde[b].fd] = d.fde[b].state
    OBVIOUS
  <2>1. CASE b = a
    BY <2>1, <1>1, <1>2, <1>6, <1>7, <1>10 DEF LoopState
  <2>2. CASE b # a
    <3>1. b \in Installed(c) /\ d.fde[b] = c.fde[b] /\ c.fde[b].fd \in Fds
      BY <2>2, <1>1, <1>6, <1>7, <1>9 DEF Installed, LoopState, Fde
    <3>2. c.fde[b].fd # f /\ c.mask[c.fde[b].fd] = c.fde[b].state
      BY <3>1, <1>8 DEF Tidy
    <3> QED
      BY <3>1, <3>2, <1>1, <1>10 DEF LoopState
  <2> QED
    BY <2>1, <2>2
<1>12. Tidy(d)
  <2>1. d.fde[IntFd].id # 0 /\ d.fde[IntFd].fd = IntFd
    <3>1. IntFd \in Addr \ {a}
      BY FdsAre DEF Tidy, Installed
    <3> QED
      BY <3>1, <1>6, <1>7 DEF Tidy
  <2>2. \A b1, b2 \in Installed(d) : d.fde[b1].fd = d.fde[b2].fd => b1 = b2
    <3>1. \A b \in Installed(c) : d.fde[b] = c.fde[b] /\ d.fde[b].fd # f
      BY <1>6, <1>7 DEF Installed
    <3>2. d.fde[a].fd = f
      BY <1>2, <1>6, <1>7
    <3> QED
      BY <3>1, <3>2, <1>9 DEF Tidy
  <2> QED
    BY <2>1, <2>2, <1>7, <1>11 DEF Tidy
<1> QED
  BY <1>6, <1>7, <1>8, <1>9, <1>12 DEF d

\* An fdevent is created to wait for input.
LEMMA CreateAddIs ==
    ASSUME NEW c, Tidy(c), NEW a \in Addr \ Installed(c), c.nextId <= MaxId,
           NEW f \in Fds, \A b \in Installed(c) : c.fde[b].fd # f
    PROVE  LET d == Add(Create(c, f, a), a, {"R"}) IN Tidy(d) /\ Beside(c, d)
<1> DEFINE e == Create(c, f, a)
           events == e.fde[a].state \cup {"R"}
           d == Add(e, a, {"R"})
<1>1. Tidy(e) /\ Beside(c, e) /\ a \in Installed(e)
  BY CreateIs
<1> HIDE DEF e
<1>2. events \in SUBSET {"R", "W"}
  BY <1>1 DEF Tidy, LoopState, Fde
<1>3. d = Set(e, a, events)
  BY DEF Add
<1> HIDE DEF events, d
<1>4. Tidy(d) /\ Beside(e, d)
  BY <1>1, <1>2, <1>3, SetIs
<1> QED
  BY <1>1, <1>4 DEF Beside, d, e

\* The timer of an fdevent is nobody else's.
LEMMA TimerIs ==
    ASSUME NEW c, Tidy(c), NEW a \in Installed(c), NEW timer \in {"off", "running", "expired"}
    PROVE  LET d == [c EXCEPT !.fde[a].timer = timer]
           IN  Tidy(d) /\ Beside(c, d) /\ d.nextId = c.nextId
<1> DEFINE x == [c.fde[a] EXCEPT !.timer = timer]
           d == [c EXCEPT !.fde[a] = x]
<1>1. c \in LoopState /\ a \in Addr /\ c.fde[a] \in Fde
  BY DEF Tidy, Installed, LoopState
<1>2. x \in Fde /\ x.id = c.fde[a].id /\ x.fd = c.fde[a].fd /\ x.state = c.fde[a].state
  BY <1>1 DEF Fde
<1> HIDE DEF x
<1>3. /\ d \in LoopState /\ Beside(c, d) /\ d.nextId = c.nextId
      /\ d.fde = [c.fde EXCEPT ![a] = x] /\ d.mask = c.mask
  BY <1>1, <1>2, EditIs
<1> HIDE DEF d
<1>4. \A b \in Addr : /\ d.fde[b].id = c.fde[b].id /\ d.fde[b].fd = c.fde[b].fd
                      /\ d.fde[b].state = c.fde[b].state
  BY <1>1, <1>2, <1>3 DEF LoopState
<1>5. Installed(d) = Installed(c) /\ d.backend = c.backend
  BY <1>3, <1>4 DEF Installed, Beside
<1>6. Tidy(d)
  BY <1>3, <1>4, <1>5, FdsAre DEF Tidy, Installed
<1> QED
  BY <1>3, <1>6 DEF d, x

\* Whatever a callback does to the loop, it stays tidy, and neither the queue nor
\* the interrupt fd is touched.
LEMMA OperationsAre ==
    ASSUME NEW c, Tidy(c), NEW d \in Operations(c)
    PROVE  Tidy(d) /\ Beside(c, d)
<1> DEFINE user == Installed(c) \ {0}
           unused == {f \in UserFds : \A a \in Installed(c) : c.fde[a].fd # f}
<1>1. user = Installed(c) \ {IntFd} /\ unused \subseteq Fds /\ c \in LoopState
  BY DEF IntFd, Fds, Tidy
<1>2. ASSUME NEW a \in user, d = Destroy(c, a)
      PROVE  Tidy(d) /\ Beside(c, d)
  BY <1>1, <1>2, DestroyIs
<1>3. ASSUME NEW a \in user, d = Del(c, a, {"R"})
      PROVE  Tidy(d) /\ Beside(c, d)
  <2>1. c.fde[a].state \ {"R"} \in SUBSET {"R", "W"}
    BY <1>1 DEF Installed, LoopState, Fde
  <2> QED
    BY <2>1, <1>1, <1>3, SetIs DEF Del
<1>4. ASSUME NEW a \in user, d = Add(c, a, {"R", "W"})
      PROVE  Tidy(d) /\ Beside(c, d)
  <2>1. c.fde[a].state \cup {"R", "W"} \in SUBSET {"R", "W"}
    BY <1>1 DEF Installed, LoopState, Fde
  <2> QED
    BY <2>1, <1>1, <1>4, SetIs DEF Add
<1>5. ASSUME NEW a \in user, d = SetTimeout(c, a, "running")
      PROVE  Tidy(d) /\ Beside(c, d)
  BY <1>1, <1>5, TimerIs DEF SetTimeout
<1>6. ASSUME NEW a \in Addr \ Installed(c), NEW f \in unused, c.nextId <= MaxId,
             d = Add(Create(c, f, a), a, {"R"})
      PROVE  Tidy(d) /\ Beside(c, d)
  BY <1>1, <1>6, CreateAddIs
<1>7. ASSUME NEW a \in user, c.nextId <= MaxId,
             d = Add(Create(Destroy(c, a), c.fde[a].fd, a), a, {"R"})
      PROVE  Tidy(d) /\ Beside(c, d)
  <2> DEFINE e == Destroy(c, a)
             f == c.fde[a].fd
  <2>1. /\ Tidy(e) /\ Beside(c, e) /\ e.nextId = c.nextId /\ Installed(e) = Installed(c) \ {a}
        /\ \A b \in Addr \ {a} : e.fde[b] = c.fde[b]
    BY <1>1, DestroyIs
  <2> HIDE DEF e
  <2>2. f \in Fds /\ a \in Addr \ Installed(e)
    BY <2>1, <1>1 DEF Installed, LoopState, Fde
  <2>3. \A b \in Installed(e) : e.fde[b].fd # f
    BY <2>1, <1>1 DEF Tidy, Installed
  <2>4. Tidy(d) /\ Beside(e, d)
    BY <2>1, <2>2, <2>3, <1>7, CreateAddIs DEF e
  <2> QED
    BY <2>1, <2>4 DEF Beside
<1>8. c.nextId \in Nat /\ MaxId \in Nat
  BY <1>1, LoopAssumption DEF LoopState
<1>9. c.nextId > MaxId \/ c.nextId <= MaxId
  BY <1>8
<1> QED
  BY <1>2, <1>3, <1>4, <1>5, <1>6, <1>7, <1>8, <1>9 DEF Operations

-----------------------------------------------------------------------------
(* The run queue.                                                          *)

\* The functions p - r queued last, in order: one more is queued behind them.
LEMMA AppendInOrder ==
    ASSUME NEW r \in Nat, NEW p \in Nat, r <= p
    PROVE  Append([i \in 1 .. p - r |-> r + i], p + 1) = [i \in 1 .. (p + 1) - r |-> r + i]
OBVIOUS

\* ... and the first of them is taken.
LEMMA TakeInOrder ==
    ASSUME NEW r \in Nat, NEW p \in Nat, r < p
    PROVE  LET q == [i \in 1 .. p - r |-> r + i]
           IN  Head(q) = r + 1 /\ Tail(q) = [i \in 1 .. p - (r + 1) |-> (r + 1) + i]
<1> DEFINE q == [i \in 1 .. p - r |-> r + i]
<1>1. q \in Seq(Nat) /\ Len(q) = p - r /\ q # <<>> /\ q[1] = r + 1
  OBVIOUS
<1>2. \A i \in 1 .. p - (r + 1) : q[i + 1] = (r + 1) + i
  OBVIOUS
<1> HIDE DEF q
<1>3. /\ Tail(q) \in Seq(Nat) /\ Len(Tail(q)) = p - (r + 1) /\ Head(q) = q[1]
      /\ \A i \in 1 .. Len(Tail(q)) : Tail(q)[i] = q[i + 1]
  BY <1>1, HeadTailProperties
<1>4. Tail(q) = [i \in 1 .. p - (r + 1) |-> (r + 1) + i]
  <2> DEFINE t == Tail(q)
  <2>1. t \in Seq(Nat) /\ Len(t) = p - (r + 1) /\ \A i \in 1 .. p - (r + 1) : t[i] = (r + 1) + i
    BY <1>2, <1>3
  <2> HIDE DEF t
  <2>2. t = [i \in 1 .. p - (r + 1) |-> (r + 1) + i]
    BY <2>1
  <2> QED
    BY <2>2 DEF t
<1> QED
  BY <1>1, <1>3, <1>4 DEF q

\* The queue is empty when every function has run.
LEMMA EmptyInOrder ==
    ASSUME NEW r \in Nat, NEW p \in Nat, r <= p, [i \in 1 .. p - r |-> r + i] # <<>>
    PROVE  r < p
OBVIOUS

\* Run, by the looper, queues behind the others and wakes the looper.
LEMMA RunIs ==
    ASSUME NEW c, Tidy(c), Queued(c), c.pushed < MaxFn
    PROVE  LET d == Run(c)
           IN  /\ Tidy(d) /\ Queued(d) /\ d.ready[IntFd] # {} /\ d.fde = c.fde
               /\ d.pc = c.pc /\ d.events = c.events /\ d.last = c.last /\ d.called = c.called
<1> DEFINE d == Run(c)
<1>1. c \in LoopState /\ MaxFn \in Nat /\ c.pushed + 1 \in 1 .. MaxFn /\ c.ran \in Nat /\ c.pushed \in Nat
  BY LoopAssumption DEF Tidy, LoopState
<1>2. Append(c.run_queue, c.pushed + 1) \in Seq(1 .. MaxFn)
  BY <1>1 DEF LoopState
<1>3. /\ d.pushed = c.pushed + 1 /\ d.run_queue = Append(c.run_queue, c.pushed + 1) /\ d.ran = c.ran
      /\ d.fde = c.fde /\ d.mask = c.mask /\ d.backend = c.backend
      /\ d.pc = c.pc /\ d.events = c.events /\ d.last = c.last /\ d.called = c.called
      /\ d.ready = [c.ready EXCEPT ![IntFd] = {"IN"}]
  BY <1>1 DEF Run, Interrupt, LoopState
<1>4. c.ready \in [Fds -> SUBSET {"IN", "OUT", "HUP"}] /\ IntFd \in Fds
  BY <1>1, FdsAre DEF LoopState
<1>5. d \in LoopState /\ d.ready[IntFd] = {"IN"}
  <2>1. [c.ready EXCEPT ![IntFd] = {"IN"}] \in [Fds -> SUBSET {"IN", "OUT", "HUP"}]
    BY <1>4
  <2>2. c.pushed + 1 \in 0 .. MaxFn
    BY <1>1
  <2>3. d \in LoopState
    BY <2>1, <2>2, <1>1, <1>2 DEF Run, Interrupt, LoopState
  <2> QED
    BY <2>3, <1>3, <1>4
<1> HIDE DEF d
<1>6. Tidy(d)
  BY <1>3, <1>5 DEF Tidy, Installed
<1>7. Queued(d)
  <2>1. c.ran <= c.pushed /\ c.run_queue = [i \in 1 .. c.pushed - c.ran |-> c.ran + i]
    BY DEF Queued
  <2>2. Append([i \in 1 .. c.pushed - c.ran |-> c.ran + i], c.pushed + 1)
            = [i \in 1 .. (c.pushed + 1) - c.ran |-> c.ran + i]
    BY <2>1, <1>1, AppendInOrder
  <2>3. d.run_queue = [i \in 1 .. (c.pushed + 1) - c.ran |-> c.ran + i]
    BY <2>1, <2>2, <1>3, Zenon
  <2> QED
    BY <2>1, <2>3, <1>1, <1>3 DEF Queued
<1> QED
  BY <1>3, <1>5, <1>6, <1>7 DEF d

-----------------------------------------------------------------------------
(* The steps.                                                              *)

\* A state with the same fdevents and the same masks is as tidy.
LEMMA TidyBeside ==
    ASSUME NEW c, Tidy(c), NEW d \in LoopState,
           d.fde = c.fde, d.mask = c.mask, d.backend = c.backend
    PROVE  Tidy(d)
BY DEF Tidy, Installed

\* ... also when only timers differ.
LEMMA TidyTimers ==
    ASSUME NEW c, Tidy(c), NEW d \in LoopState, d.mask = c.mask, d.backend = c.backend,
           \A a \in Addr : /\ d.fde[a].id = c.fde[a].id /\ d.fde[a].fd = c.fde[a].fd
                          /\ d.fde[a].state = c.fde[a].state
    PROVE  Tidy(d) /\ Installed(d) = Installed(c)
<1>1. Installed(d) = Installed(c) /\ Installed(c) \subseteq Addr
  BY DEF Installed
<1>2. d.fde[IntFd].id # 0 /\ d.fde[IntFd].fd = IntFd
  BY FdsAre DEF Tidy
<1>3. \A a, b \in Installed(d) : d.fde[a].fd = d.fde[b].fd => a = b
  BY <1>1 DEF Tidy
<1>4. d.backend = "epoll" => \A a \in Installed(d) : d.mask[d.fde[a].fd] = d.fde[a].state
  BY <1>1 DEF Tidy
<1> QED
  BY <1>1, <1>2, <1>3, <1>4 DEF Tidy

\* The constructed loop.
LEMMA InitSound == Init => LoopInv
<1> SUFFICES ASSUME NEW b \in {"epoll", "poll"}, el = Created(b)
             PROVE  Sound(el)
  BY DEF Init, LoopInv
<1>1. PICK n \in 0 .. MaxId - 1 : UserFds = 1 .. n
  BY LoopAssumption
<1>2. n \in Nat /\ MaxId \in Nat /\ n + 1 <= MaxId /\ MaxFn \in Nat
  BY LoopAssumption, <1>1
<1>3. Cardinality(UserFds) + 2 \in 1 .. MaxId + 1
  <2>1. Cardinality(1 .. n) = n
    BY <1>2, FS_Interval
  <2> QED
    BY <2>1, <1>1, <1>2
<1>4. \A a \in Addr : [id |-> a + 1, fd |-> a, state |-> {"R"}, timer |-> "off"] \in Fde /\ a + 1 # 0
  <2> SUFFICES ASSUME NEW a \in Addr
               PROVE  a + 1 \in 0 .. MaxId /\ a \in Fds /\ a + 1 # 0
    BY DEF Fde
  <2>1. a \in 0 .. n
    BY <1>1, <1>2 DEF Addr, Fds, IntFd
  <2> QED
    BY <2>1, <1>2 DEF Addr
<1>5. el \in LoopState
  <2>1. [a \in Addr |-> [id |-> a + 1, fd |-> a, state |-> {"R"}, timer |-> "off"]] \in [Addr -> Fde]
    BY <1>4
  <2>2. [f \in Fds |-> IF b = "epoll" THEN {"R"} ELSE {}] \in [Fds -> SUBSET {"R", "W"}]
    OBVIOUS
  <2>3. <<>> \in Seq(1 .. MaxFn) /\ <<>> \in Seq(Event) /\ 0 \in 0 .. MaxFn /\ 0 \in 0 .. MaxId
    BY <1>2
  <2> QED
    BY <2>1, <2>2, <2>3, <1>3 DEF Created, LoopState
<1>6. \A a \in Addr : el.fde[a].id # 0 /\ el.fde[a].fd = a /\ el.fde[a].state = {"R"}
  BY <1>4 DEF Created
<1>7. el.backend = "epoll" => \A f \in Fds : el.mask[f] = {"R"}
  BY DEF Created
<1>8. Tidy(el)
  <2>1. Installed(el) = Addr
    BY <1>6 DEF Installed
  <2>2. el.fde[IntFd].id # 0 /\ el.fde[IntFd].fd = IntFd
    BY <1>6, FdsAre
  <2>3. \A a, d \in Addr : el.fde[a].fd = el.fde[d].fd => a = d
    BY <1>6
  <2>4. el.backend = "epoll" => \A a \in Addr : el.mask[el.fde[a].fd] = el.fde[a].state
    BY <1>6, <1>7, FdsAre
  <2> QED
    BY <2>1, <2>2, <2>3, <2>4, <1>5 DEF Tidy
<1>9. Queued(el)
  <2>1. el.ran = 0 /\ el.pushed = 0 /\ el.run_queue = <<>>
    BY DEF Created
  <2>2. [i \in 1 .. 0 - 0 |-> 0 + i] = <<>>
    OBVIOUS
  <2> QED
    BY <2>1, <2>2 DEF Queued
<1> QED
  BY <1>8, <1>9 DEF Sound, Pending, Woken, Created

\* Loop goes to sleep, with nothing queued or the interrupt fd readable.
LEMMA LoopTopSound == LoopInv /\ LoopTop => LoopInv'
<1> SUFFICES ASSUME Sound(el), LoopTop
             PROVE  Sound(el')
  BY DEF LoopInv
<1>1. el \in LoopState /\ el.pc = "top" /\ el' = [el EXCEPT !.pc = "poll"]
  BY DEF Sound, Tidy, LoopTop
<1>2. /\ el' \in LoopState /\ el'.fde = el.fde /\ el'.mask = el.mask /\ el'.backend = el.backend
      /\ el'.pc = "poll" /\ el'.run_queue = el.run_queue /\ el'.pushed = el.pushed
      /\ el'.ran = el.ran /\ el'.ready = el.ready /\ el'.thread = el.thread
      /\ el'.called = el.called /\ el'.last = el.last
  BY <1>1 DEF LoopState
<1>3. Tidy(el')
  BY <1>2, TidyBeside DEF Sound
<1> QED
  BY <1>1, <1>2, <1>3 DEF Sound, Queued, Pending, Woken

\* Poll returns: the events in the vector are about installed fdevents.
LEMMA PollReturnSound == LoopInv /\ PollReturn => LoopInv'
<1> SUFFICES ASSUME Sound(el), PollReturn
             PROVE  Sound(el')
  BY DEF LoopInv
<1> DEFINE H == Hot(el) \cup Late(el)
           fde == [a \in Addr |-> IF a \in H /\ el.fde[a].timer # "off"
                                  THEN [el.fde[a] EXCEPT !.timer = "running"] ELSE el.fde[a]]
           ev(a) == IF a \in Hot(el) THEN Events(el, a) ELSE {"T"}
<1>1. PICK s \in EventOrders(el) :
        el' = [el EXCEPT !.pc = "handle", !.fde = fde,
                         !.events = [i \in DOMAIN s |-> [a |-> s[i], id |-> el.fde[s[i]].id, ev |-> ev(s[i])]]]
  BY DEF PollReturn
<1> DEFINE events == [i \in DOMAIN s |-> [a |-> s[i], id |-> el.fde[s[i]].id, ev |-> ev(s[i])]]
<1>2. Tidy(el) /\ el \in LoopState /\ el.fde \in [Addr -> Fde] /\ el.pc = "poll"
  BY DEF Sound, Tidy, LoopState, PollReturn
<1>3. H \subseteq Installed(el) /\ Installed(el) \subseteq Addr
  BY DEF Hot, Late, Installed
<1>4. \A a \in Installed(el) : el.fde[a].id \in 1 .. MaxId
  BY <1>2, LoopAssumption DEF Installed, Fde
<1>5. \A a \in H : ev(a) \in SUBSET {"R", "W", "E", "T"}
  BY DEF Events
<1>6. Cardinality(H) \in Nat /\ s \in [1 .. Cardinality(H) -> H]
  <2>1. PICK n \in 0 .. MaxId - 1 : UserFds = 1 .. n
    BY LoopAssumption
  <2>2. Addr = 0 .. n /\ n \in Nat
    BY <2>1, LoopAssumption DEF Addr, Fds, IntFd
  <2>3. IsFiniteSet(Addr)
    BY <2>2, FS_Interval
  <2>4. IsFiniteSet(H)
    BY <2>3, <1>3, FS_Subset
  <2>5. Cardinality(H) \in Nat
    BY <2>4, FS_CardinalityType
  <2> QED
    BY <2>5 DEF EventOrders, SetToSeqs
<1> HIDE DEF H, ev
<1>7. events \in Seq(Event)
  <2>1. \A i \in 1 .. Cardinality(H) : s[i] \in Addr /\ [a |-> s[i], id |-> el.fde[s[i]].id, ev |-> ev(s[i])] \in Event
    BY <1>3, <1>4, <1>5, <1>6 DEF Event
  <2> QED
    BY <2>1, <1>6
<1>8. fde \in [Addr -> Fde]
  BY <1>2 DEF Fde
<1>9. \A a \in Addr : fde[a].id = el.fde[a].id /\ fde[a].fd = el.fde[a].fd /\ fde[a].state = el.fde[a].state
  BY <1>2 DEF Fde
<1> HIDE DEF fde
<1>10. /\ el' \in LoopState /\ el'.fde = fde /\ el'.events = events /\ el'.pc = "handle"
       /\ el'.mask = el.mask /\ el'.backend = el.backend /\ el'.run_queue = el.run_queue
       /\ el'.pushed = el.pushed /\ el'.ran = el.ran /\ el'.ready = el.ready
       /\ el'.thread = el.thread /\ el'.called = el.called /\ el'.last = el.last
  <2> HIDE DEF events
  <2>1. el' = [el EXCEPT !.pc = "handle", !.fde = fde, !.events = events]
    BY <1>1 DEF events
  <2> QED
    BY <2>1, <1>2, <1>7, <1>8 DEF LoopState
<1>11. Tidy(el') /\ Installed(el') = Installed(el)
  BY <1>2, <1>9, <1>10, TidyTimers
<1>12. Pending(el')
  <2> SUFFICES ASSUME NEW i \in DOMAIN events
               PROVE  events[i].a \in Installed(el) /\ events[i].id = fde[events[i].a].id
    BY <1>10, <1>11 DEF Pending
  <2>1. events[i].a = s[i] /\ events[i].id = el.fde[s[i]].id /\ s[i] \in H
    BY <1>6
  <2> QED
    BY <2>1, <1>3, <1>9
<1> QED
  BY <1>2, <1>10, <1>11, <1>12 DEF Sound, Queued, Woken

\* A function may queue another one.
LEMMA RequeueIs ==
    ASSUME NEW c, Tidy(c), Queued(c), c.called = c.last, NEW d \in Requeue(c)
    PROVE  /\ Tidy(d) /\ Queued(d) /\ d.called = d.last /\ d.pc = c.pc
<1>1. CASE d = c
  BY <1>1
<1>2. CASE c.pushed < MaxFn /\ d = Run(c)
  BY <1>2, RunIs
<1> QED
  BY <1>1, <1>2 DEF Requeue

\* A callback is called for its own fdevent, and leaves the loop tidy.
LEMMA InvokeFdeIs ==
    ASSUME NEW c, Sound(c), NEW e \in Event, e.a \in Installed(c), e.id = c.fde[e.a].id,
           NEW d \in InvokeFde(c, e)
    PROVE  Tidy(d) /\ Queued(d) /\ d.called = d.last
<1> DEFINE b == [c EXCEPT !.last = e.id, !.called = c.fde[e.a].id]
<1>1. c \in LoopState /\ e.id \in 0 .. MaxId /\ e.a \in Addr
  BY LoopAssumption DEF Sound, Tidy, Event
<1>2. /\ b \in LoopState /\ b.fde = c.fde /\ b.mask = c.mask /\ b.backend = c.backend
      /\ b.called = b.last /\ b.ran = c.ran /\ b.pushed = c.pushed /\ b.run_queue = c.run_queue
  BY <1>1 DEF LoopState
<1> HIDE DEF b
<1>3. Tidy(b) /\ Queued(b)
  BY <1>2, TidyBeside DEF Sound, Queued
<1>4. ASSUME NEW f \in Fds, d = [b EXCEPT !.ready[f] = {}]
      PROVE  Tidy(d) /\ Queued(d) /\ d.called = d.last
  <2>1. /\ d \in LoopState /\ d.fde = b.fde /\ d.mask = b.mask /\ d.backend = b.backend
        /\ d.called = b.called /\ d.last = b.last
        /\ d.ran = b.ran /\ d.pushed = b.pushed /\ d.run_queue = b.run_queue
    BY <1>2, <1>4 DEF LoopState
  <2> QED
    BY <2>1, <1>2, <1>3, TidyBeside DEF Queued
<1>5. CASE d \in Operations(b)
  <2>1. Tidy(d) /\ Beside(b, d)
    BY <1>3, <1>5, OperationsAre
  <2> QED
    BY <2>1, <1>2, <1>3 DEF Beside, Queued
<1>6. CASE d \in Requeue(b)
  BY <1>2, <1>3, <1>6, RequeueIs
<1>7. c.fde[e.a].fd \in Fds
  BY <1>1 DEF LoopState, Fde
<1> QED
  BY <1>4, <1>5, <1>6, <1>7, FdsAre DEF InvokeFde, b

\* HandleEvents: the vector is used for one event only, so it is never stale.
LEMMA HandleEventsSound == LoopInv /\ HandleEvents => LoopInv'
<1> SUFFICES ASSUME Sound(el), HandleEvents
             PROVE  Sound(el')
  BY DEF LoopInv
<1> DEFINE done(c) == [c EXCEPT !.events = <<>>, !.pc = "flush"]
           live == {i \in DOMAIN el.events : StillThere(el.events[i])}
<1>1. ASSUME NEW d, Tidy(d), Queued(d), d.called = d.last, el' = done(d)
      PROVE  Sound(el')
  <2>1. d \in LoopState
    BY <1>1 DEF Tidy
  <2>2. /\ el' \in LoopState /\ el'.fde = d.fde /\ el'.mask = d.mask /\ el'.backend = d.backend
        /\ el'.called = d.called /\ el'.last = d.last /\ el'.pc = "flush"
        /\ el'.ran = d.ran /\ el'.pushed = d.pushed /\ el'.run_queue = d.run_queue
    <3>1. <<>> \in Seq(Event)
      OBVIOUS
    <3> QED
      BY <3>1, <1>1, <2>1 DEF LoopState
  <2>3. Tidy(el')
    BY <1>1, <2>2, TidyBeside
  <2> QED
    BY <1>1, <2>2, <2>3 DEF Sound, Queued, Pending, Woken
<1>2. CASE live = {}
  BY <1>1, <1>2 DEF HandleEvents, Sound
<1>3. CASE live # {}
  <2>1. PICK i \in live : \E d \in InvokeFde(el, el.events[i]) : el' = done(d)
    BY <1>3 DEF HandleEvents
  <2>2. PICK d \in InvokeFde(el, el.events[i]) : el' = done(d)
    BY <2>1
  <2>3. el.events \in Seq(Event) /\ i \in DOMAIN el.events /\ el.pc = "handle"
    BY <2>1 DEF Sound, Tidy, LoopState, HandleEvents
  <2>4. el.events[i] \in Event
    BY <2>3
  <2>5. el.events[i].a \in Installed(el) /\ el.events[i].id = el.fde[el.events[i].a].id
    BY <2>3 DEF Sound, Pending
  <2>6. Tidy(d) /\ Queued(d) /\ d.called = d.last
    BY <2>2, <2>4, <2>5, InvokeFdeIs
  <2> QED
    BY <2>2, <2>6, <1>1
<1> QED
  BY <1>2, <1>3

\* FlushRunQueue: the looper goes on to sleep only when the queue is empty.
LEMMA FlushRunQueueSound == LoopInv /\ FlushRunQueue => LoopInv'
<1> SUFFICES ASSUME Sound(el), FlushRunQueue
             PROVE  Sound(el')
  BY DEF LoopInv
<1>1. el \in LoopState /\ el.pc = "flush" /\ MaxId \in Nat /\ MaxFn \in Nat
  BY LoopAssumption DEF Sound, Tidy, FlushRunQueue
<1>2. CASE el.run_queue = <<>>
  <2>1. el' = [el EXCEPT !.pc = "top", !.last = 0, !.called = 0]
    BY <1>2 DEF FlushRunQueue
  <2>2. /\ el' \in LoopState /\ el'.fde = el.fde /\ el'.mask = el.mask /\ el'.backend = el.backend
        /\ el'.called = el'.last /\ el'.pc = "top" /\ el'.run_queue = <<>>
        /\ el'.ran = el.ran /\ el'.pushed = el.pushed
    <3>1. 0 \in 0 .. MaxId
      BY <1>1
    <3> QED
      BY <3>1, <1>1, <1>2, <2>1 DEF LoopState
  <2>3. Tidy(el')
    BY <2>2, TidyBeside DEF Sound
  <2> QED
    BY <1>2, <2>2, <2>3 DEF Sound, Queued, Pending, Woken
<1>3. CASE el.run_queue # <<>>
  <2> DEFINE c == [el EXCEPT !.ran = Head(el.run_queue), !.run_queue = Tail(@)]
  <2>1. el' \in Requeue(c)
    BY <1>3 DEF FlushRunQueue
  <2>2. el.ran \in Nat /\ el.pushed \in 0 .. MaxFn /\ el.ran <= el.pushed
    BY <1>1 DEF Sound, Queued, LoopState
  <2>3. el.run_queue = [i \in 1 .. el.pushed - el.ran |-> el.ran + i] /\ el.pushed \in Nat
    BY <1>1, <2>2 DEF Sound, Queued
  <2>4. el.ran < el.pushed
    BY <1>3, <2>2, <2>3, EmptyInOrder
  <2>5. /\ Head(el.run_queue) = el.ran + 1
        /\ Tail(el.run_queue) = [i \in 1 .. el.pushed - (el.ran + 1) |-> (el.ran + 1) + i]
    BY <2>2, <2>3, <2>4, TakeInOrder
  <2>6. Tail(el.run_queue) \in Seq(1 .. MaxFn) /\ Head(el.run_queue) \in 0 .. MaxFn
    <3>1. el.run_queue \in Seq(1 .. MaxFn)
      BY <1>1 DEF LoopState
    <3>2. Tail(el.run_queue) \in Seq(1 .. MaxFn)
      BY <3>1, <1>3, HeadTailProperties
    <3> QED
      BY <3>2, <1>1, <2>2, <2>4, <2>5
  <2>7. /\ c \in LoopState /\ c.fde = el.fde /\ c.mask = el.mask /\ c.backend = el.backend
        /\ c.called = el.called /\ c.last = el.last /\ c.pc = "flush"
        /\ c.ran = Head(el.run_queue) /\ c.pushed = el.pushed /\ c.run_queue = Tail(el.run_queue)
    BY <1>1, <2>6 DEF LoopState
  <2> HIDE DEF c
  <2>8. Tidy(c)
    BY <2>7, TidyBeside DEF Sound
  <2>9. Queued(c)
    BY <2>2, <2>4, <2>5, <2>7 DEF Queued
  <2>10. Tidy(el') /\ Queued(el') /\ el'.called = el'.last /\ el'.pc = "flush"
    BY <2>1, <2>7, <2>8, <2>9, RequeueIs DEF Sound
  <2> QED
    BY <2>10 DEF Sound, Pending, Woken
<1> QED
  BY <1>2, <1>3

\* Run, first half: the function is queued, and the thread is about to interrupt.
LEMMA ThreadRunSound == LoopInv /\ ThreadRun => LoopInv'
<1> SUFFICES ASSUME Sound(el), ThreadRun
             PROVE  Sound(el')
  BY DEF LoopInv
<1>1. /\ el \in LoopState /\ MaxFn \in Nat /\ el.pushed \in Nat /\ el.ran \in Nat
      /\ el.pushed + 1 \in 1 .. MaxFn /\ el.run_queue \in Seq(1 .. MaxFn)
  BY LoopAssumption DEF Sound, Tidy, LoopState, ThreadRun
<1>2. el' = [el EXCEPT !.pushed = @ + 1, !.run_queue = Append(@, el.pushed + 1), !.thread = "pushed"]
  BY DEF ThreadRun
<1>3. Append(el.run_queue, el.pushed + 1) \in Seq(1 .. MaxFn) /\ el.pushed + 1 \in 0 .. MaxFn
  BY <1>1
<1>4. /\ el' \in LoopState /\ el'.fde = el.fde /\ el'.mask = el.mask /\ el'.backend = el.backend
      /\ el'.called = el.called /\ el'.last = el.last /\ el'.pc = el.pc /\ el'.events = el.events
      /\ el'.ran = el.ran /\ el'.pushed = el.pushed + 1 /\ el'.thread = "pushed"
      /\ el'.run_queue = Append(el.run_queue, el.pushed + 1)
  BY <1>1, <1>2, <1>3 DEF LoopState
<1>5. Tidy(el')
  BY <1>4, TidyBeside DEF Sound
<1>6. Queued(el')
  <2>1. el.ran <= el.pushed /\ el.run_queue = [i \in 1 .. el.pushed - el.ran |-> el.ran + i]
    BY DEF Sound, Queued
  <2>2. Append([i \in 1 .. el.pushed - el.ran |-> el.ran + i], el.pushed + 1)
            = [i \in 1 .. (el.pushed + 1) - el.ran |-> el.ran + i]
    BY <2>1, <1>1, AppendInOrder
  <2>3. el'.run_queue = [i \in 1 .. (el.pushed + 1) - el.ran |-> el.ran + i]
    BY <2>1, <2>2, <1>4, Zenon
  <2> QED
    BY <2>1, <2>3, <1>1, <1>4 DEF Queued
<1>7. Pending(el')
  BY <1>4 DEF Sound, Pending, Installed
<1> QED
  BY <1>4, <1>5, <1>6, <1>7 DEF Sound, Woken

\* A step that only changes what is ready, while the interrupt fd stays as ready as
\* it was, or that wakes the looper.
LEMMA ReadySound ==
    ASSUME NEW c, Sound(c), NEW ready \in [Fds -> SUBSET {"IN", "OUT", "HUP"}],
           NEW thread \in {"idle", "pushed"}, NEW d,
           d = [c EXCEPT !.ready = ready, !.thread = thread],
           ready[IntFd] # {} \/ (ready[IntFd] = c.ready[IntFd] /\ thread = c.thread)
    PROVE  Sound(d)
<1>1. c \in LoopState
  BY DEF Sound, Tidy
<1>2. /\ d \in LoopState /\ d.fde = c.fde /\ d.mask = c.mask /\ d.backend = c.backend
      /\ d.called = c.called /\ d.last = c.last /\ d.pc = c.pc /\ d.events = c.events
      /\ d.ran = c.ran /\ d.pushed = c.pushed /\ d.run_queue = c.run_queue
      /\ d.ready = ready /\ d.thread = thread
  BY <1>1 DEF LoopState
<1>3. Tidy(d)
  BY <1>2, TidyBeside DEF Sound
<1>4. Queued(d) /\ d.called = d.last
  BY <1>2 DEF Sound, Queued
<1>5. Pending(d)
  BY <1>2 DEF Sound, Pending, Installed
<1>6. Woken(d)
  BY <1>2 DEF Sound, Woken
<1> QED
  BY <1>3, <1>4, <1>5, <1>6 DEF Sound

\* Run, second half: the interrupt fd is readable.
LEMMA ThreadInterruptSound == LoopInv /\ ThreadInterrupt => LoopInv'
<1> SUFFICES ASSUME Sound(el), ThreadInterrupt
             PROVE  Sound(el')
  BY DEF LoopInv
<1> DEFINE ready == [el.ready EXCEPT ![IntFd] = {"IN"}]
<1>1. el \in LoopState /\ el.ready \in [Fds -> SUBSET {"IN", "OUT", "HUP"}]
  BY DEF Sound, Tidy, LoopState
<1>2. ready \in [Fds -> SUBSET {"IN", "OUT", "HUP"}] /\ ready[IntFd] # {}
  BY <1>1, FdsAre
<1>3. el' = [el EXCEPT !.ready = ready, !.thread = "idle"]
  BY <1>1 DEF ThreadInterrupt, Interrupt, LoopState
<1> HIDE DEF ready
<1> QED
  BY <1>2, <1>3, ReadySound

\* The kernel finds another descriptor ready.
LEMMA KernelSound == LoopInv /\ Kernel => LoopInv'
<1> SUFFICES ASSUME Sound(el), NEW f \in UserFds, NEW r \in {{"IN", "OUT"}, {"HUP"}},
                    el' = [el EXCEPT !.ready[f] = r]
             PROVE  Sound(el')
  BY DEF LoopInv, Kernel
<1> DEFINE ready == [el.ready EXCEPT ![f] = r]
<1>1. el \in LoopState /\ el.ready \in [Fds -> SUBSET {"IN", "OUT", "HUP"}] /\ el.thread \in {"idle", "pushed"}
  BY DEF Sound, Tidy, LoopState
<1>2. f # IntFd /\ f \in Fds
  BY LoopAssumption DEF IntFd, Fds
<1>3. ready \in [Fds -> SUBSET {"IN", "OUT", "HUP"}] /\ ready[IntFd] = el.ready[IntFd]
  BY <1>1, <1>2, FdsAre
<1>4. el' = [el EXCEPT !.ready = ready, !.thread = el.thread]
  BY <1>1 DEF LoopState
<1> HIDE DEF ready
<1> QED
  BY <1>1, <1>3, <1>4, ReadySound

\* A timeout expires while the looper sleeps.
LEMMA ClockSound == LoopInv /\ Clock => LoopInv'
<1> SUFFICES ASSUME Sound(el), NEW a \in Installed(el), el.pc = "poll",
                    el' = [el EXCEPT !.fde[a].timer = "expired"]
             PROVE  Sound(el')
  BY DEF LoopInv, Clock
<1>1. Tidy(el') /\ Beside(el, el')
  BY TimerIs DEF Sound
<1> QED
  BY <1>1 DEF Sound, Beside, Queued, Pending, Woken

-----------------------------------------------------------------------------
(* The theorems.                                                           *)

\* LoopInv holds in every state that the loop reaches.
THEOREM LoopInvariant == Spec => []LoopInv
<1>1. LoopInv /\ [Next]_el => LoopInv'
  <2> SUFFICES ASSUME LoopInv, [Next]_el
               PROVE  LoopInv'
    OBVIOUS
  <2>1. CASE UNCHANGED el
    BY <2>1 DEF LoopInv
  <2> QED
    BY <2>1, LoopTopSound, PollReturnSound, HandleEventsSound, FlushRunQueueSound,
       ThreadRunSound, ThreadInterruptSound, KernelSound, ClockSound DEF Next, Looper
<1> QED
  BY <1>1, InitSound, PTL DEF Spec

\* The state of the loop has its type: descriptors, addresses, ids and the queue
\* stay in their ranges (fdevent.cpp).
THEOREM LoopTypeCorrect == Spec => []TypeOK
<1>1. LoopInv => TypeOK
  BY DEF LoopInv, Sound, Tidy, TypeOK
<1> QED
  BY <1>1, LoopInvariant, PTL

\* The looper never sleeps while a function is queued and nobody is about to wake
\* it, a callback gets only events of its own fdevent although addresses are used
\* again, functions run in the order in which they were queued, each once, and
\* epoll waits for what the fdevents wait for (fdevent_context::Run, FlushRunQueue,
\* HandleEvents, fdevent_context_epoll::Set).
THEOREM LoopSafety == Spec => []LoopIsSound
<1>1. LoopInv => LoopIsSound
  <2> SUFFICES ASSUME Sound(el)
               PROVE  LoopIsSound
    BY DEF LoopInv
  <2>1. NoSleepWithWork
    BY DEF Sound, Woken, NoSleepWithWork
  <2>2. OwnEvents /\ RunInOrder
    BY DEF Sound, Queued, OwnEvents, RunInOrder
  <2>3. MaskIsState
    BY DEF Sound, Tidy, MaskIsState
  <2> QED
    BY <2>1, <2>2, <2>3 DEF LoopIsSound
<1> QED
  BY <1>1, LoopInvariant, PTL
=============================================================================
