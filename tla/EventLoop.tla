----------------------------- MODULE EventLoop -----------------------------
(***************************************************************************)
(* The fdevent loop of the host server and of adbd: the fdevents, the two  *)
(* polling back ends, the run queue and the interrupt fd.                  *)
(*                                                                         *)
(* Source: fdevent/fdevent.cpp, fdevent_epoll.cpp, fdevent_poll.cpp.       *)
(* An fdevent is known to the kernel and to the vector of pending events   *)
(* by its address, and an address is free for reuse once its fdevent is    *)
(* erased from installed_fdevents_.  Callbacks are the program's: any one  *)
(* operation of the loop may be called from one.  TerminateLoop, which     *)
(* only tests call, is left out.                                           *)
(***************************************************************************)
EXTENDS Naturals, FiniteSets, SequencesExt

CONSTANTS
    UserFds,    \* descriptors, besides the interrupt fd 0
    TimedFds,   \* bound: those of them that are ever given a timeout
    WriteFds,   \* bound: those that ever wait to be writable
    MaxId,      \* bound: fdevents created
    MaxFn       \* bound: functions queued with Run

\* Descriptors are numbered, and the bound has room for an fdevent of each.
ASSUME LoopAssumption ==
    /\ MaxId \in Nat /\ MaxFn \in Nat
    /\ \E n \in 0 .. MaxId - 1 : UserFds = 1 .. n

VARIABLE el

IntFd == 0
Fds == {IntFd} \cup UserFds
Addr == Fds     \* as many addresses as descriptors; the interrupt fd's fdevent is at 0

\* struct fdevent; timer abstracts timeout and last_active
Fde == [id : 0..MaxId, fd : Fds, state : SUBSET {"R", "W"},
        timer : {"off", "running", "expired"}]
Free == [id |-> 0, fd |-> 0, state |-> {}, timer |-> "off"]

Event == [a : Addr, id : 1..MaxId, ev : SUBSET {"R", "W", "E", "T"}]

LoopState ==
    [backend : {"epoll", "poll"},
     fde : [Addr -> Fde],
     mask : [Fds -> SUBSET {"R", "W"}],               \* epoll_ctl, in the kernel
     ready : [Fds -> SUBSET {"IN", "OUT", "HUP"}],    \* the kernel's view of each fd
     nextId : 1..MaxId + 1,
     run_queue : Seq(1..MaxFn), pushed : 0..MaxFn, ran : 0..MaxFn,
     pc : {"top", "poll", "handle", "flush"},
     events : Seq(Event),
     last : 0..MaxId,             \* the fdevent that the last event was about
     called : 0..MaxId,           \* the fdevent whose callback got it
     thread : {"idle", "pushed"}] \* a thread other than the looper

(* Type invariant. *)
TypeOK == el \in LoopState

Installed(c) == {a \in Addr : c.fde[a].id # 0}

\* epoll_ctl(ADD / MOD); the poll back end builds its pollfds anew in every iteration
Register(c, a) ==
    IF c.backend = "poll" THEN c ELSE [c EXCEPT !.mask[c.fde[a].fd] = c.fde[a].state]

\* Set that tells the kernel of new interests only
SetOnlyAdds(c, a, events) ==
    LET d == [c EXCEPT !.fde[a].state = events]
    IN  IF events \subseteq c.fde[a].state THEN d ELSE Register(d, a)

Set(c, a, events) ==
    LET d == [c EXCEPT !.fde[a].state = events]
    IN  IF c.fde[a].state = events THEN d ELSE Register(d, a)

Add(c, a, events) == Set(c, a, c.fde[a].state \cup events)
Del(c, a, events) == Set(c, a, c.fde[a].state \ events)

Create(c, fd, a) ==
    Register([c EXCEPT !.fde[a] = [id |-> c.nextId, fd |-> fd, state |-> {}, timer |-> "off"],
                       !.nextId = @ + 1], a)

Destroy(c, a) ==
    [c EXCEPT !.mask[c.fde[a].fd] = {}, !.ready[c.fde[a].fd] = {}, !.fde[a] = Free]

SetTimeout(c, a, timer) == [c EXCEPT !.fde[a].timer = timer]

\* the eventfd or socketpair becomes readable, however often it is written
Interrupt(c) == [c EXCEPT !.ready[IntFd] = {"IN"}]

\* Run that queues at the front
RunFront(c) == Interrupt([c EXCEPT !.pushed = @ + 1, !.run_queue = <<c.pushed + 1>> \o @])

\* Run, as the looper itself calls it
Run(c) == Interrupt([c EXCEPT !.pushed = @ + 1, !.run_queue = Append(@, c.pushed + 1)])

\* the constructor of the back end creates the fdevent of the interrupt fd; the
\* program has one for every other descriptor, each of which waits to be readable
Created(b) ==
    [backend |-> b,
     fde |-> [a \in Addr |-> [id |-> a + 1, fd |-> a, state |-> {"R"}, timer |-> "off"]],
     mask |-> [f \in Fds |-> IF b = "epoll" THEN {"R"} ELSE {}],
     ready |-> [f \in Fds |-> {}], nextId |-> Cardinality(UserFds) + 2,
     run_queue |-> <<>>, pushed |-> 0, ran |-> 0, pc |-> "top", events |-> <<>>,
     last |-> 0, called |-> 0, thread |-> "idle"]

Init == \E b \in {"epoll", "poll"} : el = Created(b)

-----------------------------------------------------------------------------
(* The looper thread.                                                      *)

LoopTop ==
    /\ el.pc = "top"
    /\ el' = [el EXCEPT !.pc = "poll"]

\* what the back end makes of the revents of one descriptor
Events(c, a) ==
    LET f == c.fde[a].fd
        mask == IF c.backend = "epoll" THEN c.mask[f] ELSE c.fde[a].state
    IN  (IF "IN" \in c.ready[f] /\ "R" \in mask THEN {"R"} ELSE {})
        \cup (IF "OUT" \in c.ready[f] /\ "W" \in mask THEN {"W"} ELSE {})
        \cup (IF "HUP" \in c.ready[f] THEN {"R", "E"} ELSE {})

Hot(c) == {a \in Installed(c) : Events(c, a) # {}}
Late(c) == {a \in Installed(c) \ Hot(c) : c.fde[a].timer = "expired"}

\* CalculatePollDuration: without a timeout the wait has no end
Timed(c) == \E a \in Installed(c) : c.fde[a].timer # "off"

\* whether the event of a is before that of b: epoll lists the ready descriptors
\* in the order of the kernel and the timeouts after them by fd, poll all by fd
Before(c, a, b) ==
    LET byFd == c.fde[a].fd < c.fde[b].fd
    IN  IF c.backend = "poll" THEN byFd
        ELSE a \in Hot(c) \/ (b \in Late(c) /\ byFd)

\* the orders in which the events can be in the vector
EventOrders(c) ==
    {s \in SetToSeqs(Hot(c) \cup Late(c)) : \A i, j \in DOMAIN s : i < j => Before(c, s[i], s[j])}

\* poll returns; every fdevent that gets an event has its last_active renewed
PollReturn ==
    /\ el.pc = "poll"
    /\ Hot(el) # {} \/ Timed(el)
    /\ \E s \in EventOrders(el) :
          el' = [el EXCEPT
              !.pc = "handle",
              !.fde = [a \in Addr |-> IF a \in Hot(el) \cup Late(el) /\ el.fde[a].timer # "off"
                                      THEN [el.fde[a] EXCEPT !.timer = "running"]
                                      ELSE el.fde[a]],
              !.events = [i \in DOMAIN s |->
                  [a |-> s[i], id |-> el.fde[s[i]].id,
                   ev |-> IF s[i] \in Hot(el) THEN Events(el, s[i]) ELSE {"T"}]]]

\* what a callback may do to the loop: any one operation, or replace an fdevent
Operations(c) ==
    LET user == Installed(c) \ {0}
        unused == {f \in UserFds : \A a \in Installed(c) : c.fde[a].fd # f}
    IN  {Destroy(c, a) : a \in user}
        \cup {Del(c, a, {"R"}) : a \in user}
        \cup {Add(c, a, {"R", "W"}) : a \in {b \in user : c.fde[b].fd \in WriteFds}}
        \cup {SetTimeout(c, a, "running") : a \in {b \in user : c.fde[b].fd \in TimedFds}}
        \cup (IF c.nextId > MaxId THEN {}
              ELSE {Add(Create(c, f, a), a, {"R"}) : f \in unused, a \in Addr \ Installed(c)}
                   \cup {Add(Create(Destroy(c, a), c.fde[a].fd, a), a, {"R"}) : a \in user})

\* ... and any function may queue another one
Requeue(c) == {c} \cup (IF c.pushed < MaxFn THEN {Run(c)} ELSE {})

\* invoke_fde: fdevent_interrupt drains its fd; a callback may read what made its fd ready
InvokeFde(c, e) ==
    LET d == [c EXCEPT !.last = e.id, !.called = c.fde[e.a].id]
    IN  IF e.a = 0 THEN {[d EXCEPT !.ready[IntFd] = {}]}
        ELSE Operations(d) \cup Requeue(d) \cup {[d EXCEPT !.ready[c.fde[e.a].fd] = {}]}

StillThere(e) == e.a \in Installed(el)

\* HandleEvents carried on to every event
EveryEvent ==
    /\ el.pc = "handle"
    /\ IF el.events = <<>> THEN el' = [el EXCEPT !.pc = "flush"]
       ELSE LET e == Head(el.events) IN
            IF ~StillThere(e) THEN el' = [el EXCEPT !.events = Tail(@)]
            ELSE \E d \in InvokeFde(el, e) : el' = [d EXCEPT !.events = Tail(@)]

\* HandleEvents: the first event whose fdevent is still installed, and no other
HandleEvents ==
    /\ el.pc = "handle"
    /\ LET live == {i \in DOMAIN el.events : StillThere(el.events[i])}
           done(c) == [c EXCEPT !.events = <<>>, !.pc = "flush"]
       IN  IF live = {} THEN el' = done(el)
           ELSE \E i \in live :
                /\ \A j \in live : i <= j
                /\ \E d \in InvokeFde(el, el.events[i]) : el' = done(d)

\* FlushRunQueue that takes one function
FlushOne ==
    /\ el.pc = "flush"
    /\ IF el.run_queue = <<>> THEN el' = [el EXCEPT !.pc = "top", !.last = 0, !.called = 0]
       ELSE \E d \in Requeue([el EXCEPT !.ran = Head(el.run_queue),
                                        !.run_queue = Tail(@)]) :
                el' = [d EXCEPT !.pc = "top"]

\* FlushRunQueue: functions run, each without the lock, until the queue is empty
FlushRunQueue ==
    /\ el.pc = "flush"
    /\ IF el.run_queue = <<>> THEN el' = [el EXCEPT !.pc = "top", !.last = 0, !.called = 0]
       ELSE \E d \in Requeue([el EXCEPT !.ran = Head(el.run_queue),
                                        !.run_queue = Tail(@)]) : el' = d

-----------------------------------------------------------------------------
(* Another thread, the kernel and the clock.                               *)

\* Run, first half: push_back under run_queue_mutex_
ThreadRun ==
    /\ el.thread = "idle" /\ el.pushed < MaxFn
    /\ el' = [el EXCEPT !.pushed = @ + 1, !.run_queue = Append(@, el.pushed + 1),
                        !.thread = "pushed"]

\* ... second half
ThreadInterrupt ==
    /\ el.thread # "idle"
    /\ el' = [Interrupt(el) EXCEPT !.thread = "idle"]

Kernel ==
    \E f \in UserFds, r \in {{"IN", "OUT"}, {"HUP"}} :
        /\ el.ready[f] = {} /\ el.pc = "poll"
        /\ \E a \in Installed(el) : el.fde[a].fd = f
        /\ el' = [el EXCEPT !.ready[f] = r]

Clock ==
    \E a \in Installed(el) :
        /\ el.fde[a].timer = "running" /\ el.pc = "poll"
        /\ el' = [el EXCEPT !.fde[a].timer = "expired"]

Looper == LoopTop \/ PollReturn \/ HandleEvents \/ FlushRunQueue

Next == Looper \/ ThreadRun \/ ThreadInterrupt \/ Kernel \/ Clock

Spec == Init /\ [][Next]_el

-----------------------------------------------------------------------------
\* The looper does not sleep in poll without a limit while a function is
\* queued, unless the interrupt is still to come: Run queues before it
\* interrupts, and the interrupt fd is drained before the queue is.
NoSleepWithWork ==
    el.pc = "poll" /\ el.run_queue # <<>>
        => el.ready[IntFd] # {} \/ el.thread # "idle"

\* A callback only gets events of its own fdevent: an earlier callback may
\* destroy an fdevent that has an event pending and create another one at
\* its address, and HandleEvents looks for the address.
OwnEvents == el.called = el.last

\* Functions run in the order in which they were queued, each once, whoever
\* queued them (FlushRunQueue; adbd relies on it for the packets that its
\* transport threads hand to the looper).
RunInOrder == el.run_queue = [i \in 1..el.pushed - el.ran |-> el.ran + i]

\* For every interest of an fdevent the kernel has the same one, whatever the
\* callbacks add, remove, destroy and create again on the same descriptor (epoll).
MaskIsState ==
    el.backend = "epoll" => \A a \in Installed(el) : el.mask[el.fde[a].fd] = el.fde[a].state

\* The loop delivers to each fdevent its own events and runs each function in
\* order, and never sleeps on work (fdevent.cpp, fdevent_epoll.cpp).
LoopIsSound == NoSleepWithWork /\ OwnEvents /\ RunInOrder /\ MaskIsState
=============================================================================
