------------------------------- MODULE LibUsb -------------------------------
(***************************************************************************)
(* The host's libusb connections: hotplug (client/usb_libusb_hotplug.cpp), *)
(* LibUsbConnection (client/usb_libusb.cpp), the attached devices of       *)
(* client/detach.cpp, and the part of transport.cpp and adb.cpp that       *)
(* registers, attaches, detaches and destroys the transport of a device.   *)
(*                                                                         *)
(* One physical device is plugged in and out; each time it is a new        *)
(* libusb_device p with a connection and a transport of its own, and the   *)
(* same serial. Threads: the libusb callback, the hotplug thread, one      *)
(* thread per arrival, the two threads of a connection, and the looper,    *)
(* whose closures are the sequence looper. A closure is never run before   *)
(* one that was queued earlier; the looper handles one request of a client *)
(* and then runs what is queued until nothing is (HandleEvents,            *)
(* FlushRunQueue). Of the packets only the A_CNXN is looked at, which      *)
(* makes a transport usable.                                               *)
(***************************************************************************)
EXTENDS Integers, Sequences, FiniteSets

CONSTANTS
    MaxPlugs,         \* bound: how often the device is plugged in
    MaxRequests,      \* bound: attach and detach requests
    MaxPackets,       \* bound: A_CNXNs read
    StartDetached     \* ADB_LIBUSB_START_DETACHED=1

ASSUME UsbAssumption ==
    /\ MaxPlugs \in Nat /\ MaxRequests \in Nat /\ MaxPackets \in Nat
    /\ StartDetached \in BOOLEAN

VARIABLE lu

Devices == 1..MaxPlugs

IoThreads == {"read", "write"}

Connection ==
    [detached : BOOLEAN, running : BOOLEAN, transport : BOOLEAN, error : BOOLEAN,
     thread : [IoThreads -> {"none", "running", "reports", "exited"}]]

NewConnection ==
    [detached |-> FALSE, running |-> FALSE, transport |-> FALSE, error |-> FALSE,
     thread |-> [t \in IoThreads |-> "none"]]

Init ==
    lu = [plugs |-> 0, plugged |-> FALSE, requests |-> 0, packets |-> 0,
          hotplug_queue |-> <<>>, connections |-> {},
          connecting |-> 0, scan_complete |-> FALSE,
          arrival |-> [p \in Devices |-> "none"],
          conn |-> [p \in Devices |-> NewConnection],
          state |-> [p \in Devices |-> "offline"],
          list |-> [p \in Devices |-> "none"],
          attached |-> FALSE,                      \* attached_devices has the serial
          detach_okay |-> [p \in Devices |-> FALSE], \* the last request was a granted detach
          looper |-> <<>>,
          flushing |-> FALSE,                      \* FlushRunQueue has not come to its end
          crashed |-> FALSE]          \* std::terminate, a null transport_ or a deleted one

Arrived == [left : BOOLEAN, dev : Devices]
Closure == [op : {"register", "left", "packet", "error", "remove"}, dev : Devices]

LibUsbState ==
    [plugs : 0 .. MaxPlugs, plugged : BOOLEAN, requests : 0 .. MaxRequests,
     packets : 0 .. MaxPackets,
     hotplug_queue : Seq(Arrived), connections : SUBSET Devices,
     connecting : 0 .. MaxPlugs, scan_complete : BOOLEAN,
     arrival : [Devices -> {"none", "waits", "built", "emplaced", "done"}],
     conn : [Devices -> Connection],
     state : [Devices -> {"offline", "device", "detached"}],
     list : [Devices -> {"none", "pending", "listed", "deleted"}],
     attached : BOOLEAN, detach_okay : [Devices -> BOOLEAN],
     looper : Seq(Closure), flushing : BOOLEAN, crashed : BOOLEAN]

Present(u, p) == u.plugged /\ u.plugs = p

Post(u, op, p) == [u EXCEPT !.looper = Append(@, [op |-> op, dev |-> p])]

(***************************************************************************)
(* LibUsbConnection.                                                       *)
(***************************************************************************)
\* OnError: once per connection; the transport's HandleError posts a closure.
OnError(u, p) ==
    IF u.conn[p].error THEN u
    ELSE Post([u EXCEPT !.conn[p].error = TRUE,
                        !.crashed = @ \/ ~u.conn[p].transport], "error", p)

\* A HandleStop that takes every stop for a detach.
HandleStopSilent(u, p) == u

HandleStop(u, p) == IF u.conn[p].detached THEN u ELSE OnError(u, p)

\* A Start that opens the device. Assigning to a read_thread_ that is still
\* joinable terminates the process.
Started(u, p) ==
    [u EXCEPT !.crashed = @ \/ \E t \in IoThreads : u.conn[p].thread[t] # "none",
              !.conn[p].running = TRUE,
              !.conn[p].thread = [t \in IoThreads |-> "running"]]

\* LibUsbDevice::Open: libusb_open and the claim of the interface may fail.
MayOpen(u, p) == IF Present(u, p) THEN BOOLEAN ELSE {FALSE}

\* Stop: Close makes both transfers fail, so that both threads reach their
\* HandleStop and are joined before the one of Stop itself.
Stop(u, p) ==
    IF ~u.conn[p].running THEN u
    ELSE LET reporting == \E t \in IoThreads : u.conn[p].thread[t] = "reports"
             v == IF reporting THEN OnError(u, p) ELSE u
         IN HandleStop([v EXCEPT !.conn[p].running = FALSE,
                                 !.conn[p].thread = [t \in IoThreads |-> "none"]], p)

\* A transfer fails: the device is gone, or an error. The thread leaves its
\* loop and looks at detached_, then reports.
ThreadFails(p, t) ==
    /\ lu.conn[p].thread[t] = "running"
    /\ lu' = [lu EXCEPT !.conn[p].thread[t] =
                  IF lu.conn[p].detached THEN "exited" ELSE "reports"]

ThreadReports(p, t) ==
    /\ lu.conn[p].thread[t] = "reports"
    /\ lu' = OnError([lu EXCEPT !.conn[p].thread[t] = "exited"], p)

\* The reader has read an A_CNXN, and HandleRead posts its handle_packet.
HandleRead(p) ==
    /\ lu.conn[p].thread["read"] = "running" /\ lu.packets < MaxPackets
    /\ lu' = Post([lu EXCEPT !.packets = @ + 1], "packet", p)

(***************************************************************************)
(* Hotplug.                                                                *)
(***************************************************************************)
\* hotplug_callback, for an arrival and a departure.
Plug ==
    /\ ~lu.plugged /\ lu.plugs < MaxPlugs
    /\ lu' = [lu EXCEPT !.plugged = TRUE, !.plugs = @ + 1, !.connecting = @ + 1,
                        !.hotplug_queue = Append(@, [left |-> FALSE, dev |-> lu.plugs + 1])]

Unplug ==
    /\ lu.plugged
    /\ lu' = [lu EXCEPT !.plugged = FALSE,
                        !.hotplug_queue = Append(@, [left |-> TRUE, dev |-> lu.plugs])]

device_connected(u, p) == [u EXCEPT !.arrival[p] = "waits"]

device_disconnected(u, p) ==
    IF p \in u.connections
    THEN Post([u EXCEPT !.connections = @ \ {p}], "left", p) ELSE u

hotplug_thread ==
    /\ lu.hotplug_queue # <<>>
    /\ LET e == lu.hotplug_queue[1]
           u == [lu EXCEPT !.hotplug_queue = Tail(@)]
       IN lu' = IF e.left THEN device_disconnected(u, e.dev)
                ELSE device_connected(u, e.dev)

\* The end of an arrival's thread.
ArrivalEnds(u, p) ==
    [u EXCEPT !.arrival[p] = "done", !.connecting = @ - 1,
              !.scan_complete = @ \/ u.connecting = 1]

\* process_device after the wait for access: it may find nothing to talk to.
\* Init asks for the serial before the connection has a transport, so it never
\* finds the device among the attached ones (transport.cpp:295).
process_device(p) ==
    /\ lu.arrival[p] = "waits"
    /\ \E ok \in MayOpen(lu, p) :
        lu' = IF ok THEN [lu EXCEPT !.arrival[p] = "built",
                                    !.conn[p].detached = StartDetached]
              ELSE ArrivalEnds(lu, p)

process_device_emplace(p) ==
    /\ lu.arrival[p] = "built"
    /\ lu' = [lu EXCEPT !.connections = @ \cup {p}, !.arrival[p] = "emplaced"]

register_libusb_transport(p) ==
    /\ lu.arrival[p] = "emplaced"
    /\ lu' = Post(ArrivalEnds([lu EXCEPT !.list[p] = "pending"], p), "register", p)

(***************************************************************************)
(* The looper.                                                             *)
(***************************************************************************)
\* The device's transport is detached at once; by now the serial is known.
ShouldStartDetached(u) == StartDetached /\ ~u.attached

\* fdevent_register_transport. One that cannot be started stays pending.
fdevent_register_transport(u, p, opened) ==
    LET v == [u EXCEPT !.conn[p].transport = TRUE]
    IN IF ShouldStartDetached(u)
       THEN [v EXCEPT !.state[p] = "detached", !.list[p] = "listed"]
       ELSE IF opened THEN Started([v EXCEPT !.list[p] = "listed"], p)
       ELSE v

\* A closure that does not look whether the connection has a transport.
disconnected_at_once(u, p) ==
    IF u.list[p] = "deleted" THEN u
    ELSE LET v == Stop(u, p) IN IF v.conn[p].detached THEN OnError(v, p) ELSE v

\* The closure of device_disconnected. The connection may be gone already, or
\* not have a transport yet.
disconnected(u, p) ==
    IF u.list[p] = "deleted" THEN u
    ELSE LET v == Stop(u, p)
         IN IF v.conn[p].detached /\ v.conn[p].transport THEN OnError(v, p) ELSE v

\* The closure of HandleError: handle_offline and transport_destroy.
transport_error(u, p) ==
    Post(Stop([u EXCEPT !.state[p] = "offline"], p), "remove", p)

\* fdevent_unregister_transport: the transport is deleted, and with it the
\* connection, whose destructor stops it.
fdevent_unregister_transport(u, p) ==
    [Stop([u EXCEPT !.conn[p].transport = FALSE], p) EXCEPT !.list[p] = "deleted"]

\* handle_packet of the A_CNXN, whatever has become of the transport since it was
\* read; the closure holds its address.
handle_new_connection(u, p) ==
    [u EXCEPT !.state[p] = "device", !.crashed = @ \/ u.list[p] = "deleted"]

Closed(u, c, opened) ==
    CASE c.op = "register" -> fdevent_register_transport(u, c.dev, opened)
      [] c.op = "left" -> disconnected(u, c.dev)
      [] c.op = "packet" -> handle_new_connection(u, c.dev)
      [] c.op = "error" -> transport_error(u, c.dev)
      [] c.op = "remove" -> fdevent_unregister_transport(u, c.dev)

\* FlushRunQueue goes on until the queue is empty.
Flush(u) == [u EXCEPT !.flushing = u.looper # <<>>]

RunLooper ==
    /\ lu.looper # <<>>
    /\ \E opened \in MayOpen(lu, lu.looper[1].dev) :
        lu' = Flush(Closed([lu EXCEPT !.looper = Tail(@)], lu.looper[1], opened))

\* A request for a transport the client can name, between two flushes.
Requested(p) ==
    /\ lu.list[p] = "listed" /\ lu.requests < MaxRequests /\ ~lu.flushing

\* host:attach with atransport::Attach and LibUsbConnection::Attach.
Attach(p) ==
    /\ Requested(p)
    /\ LET u == [lu EXCEPT !.requests = @ + 1, !.attached = TRUE]
           v == [u EXCEPT !.conn[p].detached = FALSE, !.detach_okay[p] = FALSE]
       IN \E opened \in MayOpen(lu, p) :
            lu' = Flush(IF lu.state[p] # "detached" THEN u
                        ELSE IF ~lu.conn[p].detached THEN v
                        ELSE IF opened THEN Started(v, p) ELSE v)

\* A detach that leaves the device open.
DetachOnly(p) ==
    /\ Requested(p)
    /\ LET u == [lu EXCEPT !.requests = @ + 1, !.attached = FALSE]
       IN lu' = Flush(IF lu.state[p] = "detached" THEN u
                      ELSE [u EXCEPT !.state[p] = "detached", !.detach_okay[p] = TRUE,
                                     !.conn[p].detached = TRUE])

\* host:detach with atransport::Detach and LibUsbConnection::Detach.
Detach(p) ==
    /\ Requested(p)
    /\ LET u == [lu EXCEPT !.requests = @ + 1, !.attached = FALSE]
           v == [u EXCEPT !.state[p] = "detached", !.detach_okay[p] = TRUE]
       IN lu' = Flush(IF lu.state[p] = "detached" THEN u
                      ELSE IF lu.conn[p].detached THEN v
                      ELSE Stop([v EXCEPT !.conn[p].detached = TRUE], p))

Next ==
    \/ Plug \/ Unplug \/ hotplug_thread \/ RunLooper
    \/ \E p \in Devices :
        \/ process_device(p) \/ process_device_emplace(p) \/ register_libusb_transport(p)
        \/ HandleRead(p) \/ Attach(p) \/ Detach(p)
        \/ \E t \in IoThreads : ThreadFails(p, t) \/ ThreadReports(p, t)

Spec == Init /\ [][Next]_lu

(***************************************************************************)
(* Properties.                                                             *)
(***************************************************************************)
\* Type invariant.
TypeOK == lu \in LibUsbState

\* No thread object is assigned over, no error is reported through a transport_
\* that is not there, and no packet is handled for a transport that was deleted,
\* whatever order arrival, departure, packets, attach and detach come in
\* (usb_libusb_hotplug.cpp:99, transport.cpp:1209).
NeverCrashes == ~lu.crashed

\* Everything that hotplug has begun is done.
Quiet ==
    /\ lu.hotplug_queue = <<>> /\ lu.looper = <<>>
    /\ \A p \in Devices : lu.arrival[p] \in {"none", "done"}
    /\ \A p \in Devices, t \in IoThreads : lu.conn[p].thread[t] # "reports"

\* A transport that is listed as usable has its threads, or an error on its
\* way that will remove it: no device is shown that nobody reads from. Excepted is
\* a transport that was detached and not attached again: an A_CNXN that was queued
\* when the detach was granted makes it usable again (transport.cpp:1209), and
\* nobody reads from it.
NoZombie ==
    \A p \in Devices :
        (Quiet /\ lu.list[p] = "listed" /\ lu.state[p] # "detached" /\ ~lu.detach_okay[p])
            => lu.conn[p].thread["read"] = "running"

\* A connection whose detach was granted has stopped transmitting and released
\* its resources (usb_libusb.cpp:64).
DetachReleases ==
    \A p \in Devices :
        (lu.list[p] = "listed" /\ lu.detach_okay[p]) => ~lu.conn[p].running

\* With ADB_LIBUSB_START_DETACHED, a device that was attached and comes back is
\* started, and its connection takes itself for detached: see process_device.
Reattaches == StartDetached /\ MaxPlugs > 1

\* Hot-plugging, attaching and detaching end neither in a crash nor in a transport
\* nobody reads (but for the A_CNXN that a detach overtakes: see NoZombie), and a
\* detach that is granted releases the device, except where devices that start
\* detached come back (usb_libusb.cpp, usb_libusb_hotplug.cpp, detach.cpp).
UsbIsAlive == Reattaches \/ (NeverCrashes /\ NoZombie /\ DetachReleases)
=============================================================================
