------------------------------ MODULE Emulators ------------------------------
(* The registry of emulators of the host server (client/transport_emulator   *)
(* .cpp): the scanner thread that looks for emulators and retries the ports  *)
(* it lost, the threads that "host:emulator:<port>" and "connect emu:" start,*)
(* and the looper that registers and destroys the transports                 *)
(* (register_socket_transport and its surroundings in transport.cpp).        *)
EXTENDS Integers, Sequences
CONSTANTS
    Ports,                  \* the adb ports that are scanned: 1..n
    Console,                \* their console ports, which give the serials
    Requests,               \* the ports that other threads are asked to connect to
    EmuRequests,            \* the requests that are "connect emu:", not "emulator:"
    LOCAL_PORT_RETRY_COUNT,
    MaxTransports,          \* transports made in a behaviour
    MaxEpoch                \* times that an emulator starts

VARIABLE em

(* emulator_transports: 0 is no entry.  A thread is [pc, port, t].           *)
Scanner == 0
Threads == {Scanner} \cup DOMAIN Requests
Thread(pc, port) == [pc |-> pc, port |-> port, t |-> 0]
Serial(t) == Console[em.tr[t].port]
InState(t, s) == em.tr[t].state \in s
Up(p) == em.epoch[p] % 2 = 1

Init ==
    em = [registry |-> [p \in Ports |-> 0], tr |-> <<>>,
          thread |-> [h \in Threads |-> IF h = Scanner THEN Thread("byport", 1)
                                        ELSE IF h \in EmuRequests THEN Thread("known", Requests[h])
                                        ELSE Thread("byport", Requests[h])],
          epoch |-> [p \in Ports |-> 0],
          scan |-> "poll", ports |-> <<>>, next |-> <<>>, retry_ports |-> <<>>,
          owed |-> {}]

-----------------------------------------------------------------------------
(* connect_emulator of services.cpp looks first, to have a better message;    *)
(* then connect_emulator_arbitrary_ports: -1 is "failed", 0 "connected".      *)
Goto(h, pc) == em' = [em EXCEPT !.thread[h].pc = pc]

known_emulator(h) ==
    /\ em.thread[h].pc = "known"
    /\ Goto(h, IF em.registry[em.thread[h].port] # 0 THEN "failed" ELSE "byport")

find_emulator_transport_by_adb_port(h) ==
    /\ em.thread[h].pc = "byport"
    /\ Goto(h, IF em.registry[em.thread[h].port] # 0 THEN "failed" ELSE "byconsole")
find_emulator_transport_by_console_port(h) ==
    /\ em.thread[h].pc = "byconsole"
    /\ LET known == \E t \in DOMAIN em.tr : /\ InState(t, {"listed", "closed"})
                                            /\ Serial(t) = Console[em.thread[h].port]
       IN  Goto(h, IF known THEN "failed" ELSE "connect")
network_connect(h) ==
    LET p == em.thread[h].port IN
    /\ em.thread[h].pc = "connect" /\ (Up(p) => Len(em.tr) < MaxTransports)
    /\ IF ~Up(p) THEN Goto(h, "failed")
       ELSE em' = [em EXCEPT !.thread[h] = [@ EXCEPT !.pc = "init", !.t = Len(em.tr) + 1],
                             !.tr = Append(@, [port |-> p, epoch |-> em.epoch[p], state |-> "new"])]

(* delete t: the destructor of the EmulatorConnection has the port retried.  *)
(* A connection that was never started is not closed.                        *)
delete(m, t) ==
    LET p == m.tr[t].port IN
    [m EXCEPT !.tr[t].state = "gone", !.owed = @ \cup {p},
              !.retry_ports = Append(@, [port |-> p, retry_count |-> LOCAL_PORT_RETRY_COUNT])]
Deleted(h, t) == em' = [delete(em, t) EXCEPT !.thread[h].pc = "failed"]

init_socket_transport_emulator(h) ==
    LET p == em.thread[h].port IN
    LET t == em.thread[h].t IN
    /\ em.thread[h].pc = "init"
    /\ IF em.registry[p] # 0 THEN Deleted(h, t)
       ELSE em' = [em EXCEPT !.registry[p] = t, !.thread[h].pc = "validate"]

(* validate_transport_list, of the pending list and of the transport list.   *)
validate_pending_only(h) ==
    LET t == em.thread[h].t IN
    /\ em.thread[h].pc = "validate"
    /\ IF \E o \in DOMAIN em.tr : InState(o, {"pending"}) /\ Serial(o) = Serial(t)
       THEN Deleted(h, t)
       ELSE em' = [em EXCEPT !.tr[t].state = "pending", !.thread[h].pc = "connected",
                             !.owed = @ \ {em.tr[t].port}]
register_socket_transport(h) ==
    LET t == em.thread[h].t IN
    /\ em.thread[h].pc = "validate"
    /\ IF \E o \in DOMAIN em.tr : /\ InState(o, {"pending", "listed", "closed"})
                                  /\ Serial(o) = Serial(t)
       THEN Deleted(h, t)
       ELSE em' = [em EXCEPT !.tr[t].state = "pending", !.thread[h].pc = "connected",
                             !.owed = @ \ {em.tr[t].port}]

connect_emulator(h) ==
    \/ known_emulator(h)
    \/ find_emulator_transport_by_adb_port(h)
    \/ find_emulator_transport_by_console_port(h)
    \/ network_connect(h)
    \/ init_socket_transport_emulator(h)
    \/ register_socket_transport(h)

-----------------------------------------------------------------------------
(* client_socket_thread.                                                     *)
Ended(h) == em.thread[h].pc \in {"failed", "connected"}
PollAllLocalPortsForEmulator ==
    /\ em.scan = "poll" /\ Ended(Scanner)
    /\ LET p == em.thread[Scanner].port + 1 IN
       em' = IF p \in Ports THEN [em EXCEPT !.thread[Scanner] = Thread("byport", p)]
             ELSE [em EXCEPT !.scan = "wait", !.thread[Scanner] = Thread("none", 1)]
CollectRetryPorts ==
    /\ em.scan = "wait" /\ em.retry_ports # <<>>
    /\ em' = [em EXCEPT !.scan = "try", !.ports = em.retry_ports, !.retry_ports = <<>>,
                        !.next = <<>>]
RetryPort ==
    /\ em.scan = "try" /\ em.ports # <<>> /\ em.thread[Scanner].pc = "none"
    /\ em' = [em EXCEPT !.thread[Scanner] = Thread("byport", Head(em.ports).port)]
RetriedPort ==
    /\ em.scan = "try" /\ em.ports # <<>> /\ Ended(Scanner)
    /\ LET port == [Head(em.ports) EXCEPT !.retry_count = @ - 1]
           done == [em EXCEPT !.thread[Scanner].pc = "none", !.ports = Tail(@)]
       IN  em' = IF em.thread[Scanner].pc = "connected" THEN done
                 ELSE IF port.retry_count > 0 THEN [done EXCEPT !.next = Append(@, port)]
                 ELSE [done EXCEPT !.owed = @ \ {port.port}]
copy_back_all ==
    /\ em.scan = "try" /\ em.ports = <<>>
    /\ em' = [em EXCEPT !.scan = "wait", !.retry_ports = em.next, !.next = <<>>]
CopyBack ==
    /\ em.scan = "try" /\ em.ports = <<>>
    /\ em' = [em EXCEPT !.scan = "wait", !.retry_ports = @ \o em.next, !.next = <<>>]

client_socket_thread ==
    \/ PollAllLocalPortsForEmulator
    \/ CollectRetryPorts
    \/ RetryPort
    \/ RetriedPort
    \/ CopyBack

-----------------------------------------------------------------------------
(* The looper: fdevent_register_transport; transport_destroy of a transport  *)
(* whose emulator is gone, which closes the connection and leaves the        *)
(* transport in the list until the reconnect handler, whose callback aborts  *)
(* for an emulator, has it unregistered: fdevent_unregister_transport.       *)
fdevent_register_transport(t) ==
    /\ InState(t, {"pending"})
    /\ em' = [em EXCEPT !.tr[t].state = "listed"]
transport_destroy(t) ==
    /\ InState(t, {"listed"}) /\ em.epoch[em.tr[t].port] # em.tr[t].epoch
    /\ em' = [em EXCEPT !.tr[t].state = "closed", !.registry[em.tr[t].port] = 0]
fdevent_unregister_transport(t) ==
    /\ InState(t, {"closed"})
    /\ em' = delete(em, t)

(* An emulator starts or stops.                                              *)
Toggle(p) ==
    /\ em.epoch[p] < MaxEpoch
    /\ em' = [em EXCEPT !.epoch[p] = @ + 1]

Next ==
    \/ \E h \in Threads : connect_emulator(h)
    \/ client_socket_thread
    \/ \E t \in DOMAIN em.tr :
        \/ fdevent_register_transport(t)
        \/ transport_destroy(t)
        \/ fdevent_unregister_transport(t)
    \/ \E p \in Ports : Toggle(p)

Spec == Init /\ [][Next]_em

-----------------------------------------------------------------------------
(* Type invariant.                                                           *)
TypeOK ==
    /\ \A p \in Ports : em.registry[p] \in 0..Len(em.tr)
    /\ Len(em.tr) <= MaxTransports /\ em.owed \subseteq Ports
    /\ em.scan \in {"poll", "wait", "try"}

(* A port whose connection was lost is among those to be retried until it is *)
(* connected or the retries are used up, although connections are lost while *)
(* the scanner works on the list it took (client_socket_thread,              *)
(* ~EmulatorConnection).                                                     *)
LostIsRetried ==
    \A p \in em.owed :
        \E i \in 1..Len(em.retry_ports \o em.ports \o em.next) :
            (em.retry_ports \o em.ports \o em.next)[i].port = p

(* No two transports that the server knows have one serial, whichever        *)
(* threads found the emulator at once (register_socket_transport).           *)
OneSerial ==
    \A t, o \in DOMAIN em.tr :
        (/\ t # o
         /\ InState(t, {"pending", "listed", "closed"})
         /\ InState(o, {"pending", "listed", "closed"})) => Serial(t) # Serial(o)

(* An entry of emulator_transports is of a transport that exists: what the   *)
(* comment in connect_emulator (services.cpp) calls a harmless race does not *)
(* corrupt the data.                                                         *)
EntryIsAlive == \A p \in Ports : em.registry[p] # 0 => ~InState(em.registry[p], {"gone"})
=============================================================================
