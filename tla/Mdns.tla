-------------------------------- MODULE Mdns --------------------------------
(***************************************************************************)
(* Discovery of wireless devices by the adb server: the watcher of the     *)
(* network with its debouncer, the channel to the driver, the driver and   *)
(* the mDNS cache it feeds (client/adbmdns), and, on the adb side, the     *)
(* table of discovered services, automatic connection and the clients of   *)
(* `adb track-mdns-services` (discovered_services.cpp, transport_mdns.cpp, *)
(* mdns_tracker.cpp).                                                      *)
(*                                                                         *)
(* A resource record is [key, value, ttl].  The key is what the code       *)
(* compares records by: its type, the instance (and its host) it is about, *)
(* and for an address record the address.  The value is the port of a SRV  *)
(* record or the text of a TXT record.  Time is counted in twentieths of   *)
(* the time to live of the records, so that 80%, 85%, 90% and 95% of       *)
(* it are 16, 17, 18 and 19.  A time to live of 0 withdraws the record.    *)
(***************************************************************************)
EXTENDS IndexMinPQ

CONSTANTS Instances,    \* the service instances that may be announced
          Tracked,      \* those of a service type the cache tracks
          Known,        \* those whose device is in the file of known hosts
          Packets,      \* the packets that may arrive: [query, records]
          Early, Late,  \* how early an event, how late a timeout may wake the driver
          MinPoll,      \* the least time the driver sleeps, 300 ms in that unit
          MaxTime,      \* bound on the clock
          MaxPackets,   \* bound on the packets that arrive
          MaxRestarts,  \* bound on the network changes and the failures of run
          Trackers      \* the clients that track services

VARIABLE md

INTERVAL == 30   \* TRACKER_SERVICE_REFRESH_INTERVAL in the same unit
IDLE == 15       \* how long to wait when nothing needs attention

(* Type invariant. *)
TypeOK ==
    /\ md.pc \in {"poll", "stopping", "asleep"}
    /\ md.running \in BOOLEAN /\ md.wake \in BOOLEAN /\ md.sending \in BOOLEAN
    /\ md.now \in 0 .. MaxTime /\ md.timeout \in 0 .. INTERVAL /\ md.query_on \in Nat
    /\ md.watch \in {"idle", "armed"} /\ md.restarts \in 0 .. MaxRestarts /\ md.chan \in Nat
    /\ md.heard \in 0 .. MaxPackets /\ DOMAIN md.last \subseteq Instances /\ DOMAIN md.services \subseteq Instances
    /\ md.connecting \subseteq Instances /\ md.tried \subseteq Instances
    /\ md.unprobed \in BOOLEAN /\ md.looper \in BOOLEAN
    /\ md.tracker \in [Trackers -> [open : BOOLEAN, needed : BOOLEAN, fresh : BOOLEAN]]

Init ==
    md = [pc |-> "asleep", running |-> FALSE, now |-> 0, timeout |-> 0,
          attention |-> EmptyPQ, store |-> <<>>, last |-> <<>>, query_on |-> 0,
          heard |-> 0, watch |-> "idle", restarts |-> 0, sending |-> FALSE, chan |-> 0, wake |-> FALSE,
          services |-> <<>>, connecting |-> {}, tried |-> {}, unprobed |-> FALSE,
          looper |-> FALSE,
          tracker |-> [t \in Trackers |-> [open |-> FALSE, needed |-> FALSE, fresh |-> FALSE]]]

\* ------------------------------------------------------- the cache of records

\* A plausible slip: a record is asked for once and then only expires
AttentionOnce(r, n) == r.created + r.ttl

\* When a record of this age needs attention next, after its n-th twentieth
AttentionOn(r, n) == r.created + (r.ttl * n) \div 20

\* Records of services nobody tracks are skipped; addresses are always kept
Accepted(r) == r.key[1] \in {"A", "AAAA"} \/ r.key[2] \in Tracked

\* RR::new: created now, first looked at after 80% of its time to live
new_rr(c, r) ==
    [key |-> r.key, created |-> c.now, ttl |-> r.ttl, probed |-> 15,
     attention |-> c.now + (r.ttl * 16) \div 20]

store_add(c, r) == [c EXCEPT !.store = (r.key :> r.value) @@ @]

\* Each record goes on the attention list and in the store
add_rr(c, r) == store_add([c EXCEPT !.attention = push(@, new_rr(c, r))], r)

RECURSIVE process_records(_, _)
process_records(c, rs) ==
    IF rs = <<>> THEN c
    ELSE process_records(IF Accepted(Head(rs)) THEN add_rr(c, Head(rs)) ELSE c, Tail(rs))

\* Another server's query for a tracked type puts off our own
process_queries(c, p) == IF p.query THEN [c EXCEPT !.query_on = c.now + INTERVAL] ELSE c

push_records(c, p) == process_records(process_queries(c, p), p.records)

store_remove(c, key) ==
    [c EXCEPT !.store = [k \in DOMAIN c.store \ {key} |-> c.store[k]]]

\* tick, the loop: what needs attention is dropped when it has expired, and
\* otherwise asked for again and put back until the next twentieth
RECURSIVE Attend(_)
Attend(c) ==
    IF c.attention.data = <<>> \/ peek(c.attention).attention > c.now THEN c
    ELSE LET rr  == peek(c.attention)
             age == IF rr.ttl = 0 THEN 20 ELSE ((c.now - rr.created) * 20) \div rr.ttl
             n   == IF age > 19 THEN 20 ELSE age
             c1  == [c EXCEPT !.attention = popped(@)]
         IN Attend(IF age >= 20 \/ age < 16
                   THEN [store_remove(c1, rr.key) EXCEPT
                            !.unprobed = @ \/ (rr.ttl # 0 /\ rr.probed < 19)]
                   ELSE [c1 EXCEPT !.attention =
                            push(@, [rr EXCEPT !.probed = n,
                                               !.attention = AttentionOn(rr, n + 1)])])

Addresses(store, type, i) == {k[3] : k \in {k \in DOMAIN store : k[1] = type /\ k[2] = i}}

\* The services that can be reached: pointed to, with a port and with an address
snapshot(store) ==
    [i \in {i \in Instances : /\ {<<"PTR", i, 0>>, <<"SRV", i, 0>>} \subseteq DOMAIN store
                              /\ Addresses(store, "A", i) \cup Addresses(store, "AAAA", i) # {}}
        |-> [port |-> store[<<"SRV", i, 0>>],
             v4s  |-> Addresses(store, "A", i),
             v6s  |-> Addresses(store, "AAAA", i),
             txt  |-> IF <<"TXT", i, 0>> \in DOMAIN store THEN store[<<"TXT", i, 0>>] ELSE 0]]

\* A plausible slip: the driver only wakes up for the next query
calculate_query_only(c) == IF c.query_on < c.now THEN 0 ELSE c.query_on - c.now

\* How long the driver may sleep: until the first record or the next query is due
calculate_next_attention_duration(c) ==
    LET rr == IF c.attention.data = <<>> THEN IDLE
              ELSE IF peek(c.attention).attention < c.now THEN 0
              ELSE peek(c.attention).attention - c.now
        q  == IF c.query_on < c.now THEN 0 ELSE c.query_on - c.now
    IN IF q < rr THEN q ELSE rr

\* -------------------------------------------- what the adb server makes of it

\* events_cb: one of the IPv4 addresses is kept, whichever comes first
Info(s, v4) == [port |-> s.port, v4 |-> v4, v6 |-> s.v6s, txt |-> s.txt]

\* DiscoveredServices::ServiceUpdated: addresses are added or replaced, never lost
Merged(old, new) ==
    [port |-> new.port, v4 |-> IF new.v4 = 0 THEN old.v4 ELSE new.v4,
     v6 |-> old.v6 \cup new.v6, txt |-> new.txt]

\* A plausible slip: only a service that is new is connected to
AutoConnectNew(c, is, pick) ==
    LET go == {i \in is \cap Known : pick[i] # 0 /\ i \notin DOMAIN c.last}
    IN [c EXCEPT !.connecting = @ \cup go, !.tried = @ \cup go]

\* AttemptAutoConnect: a known device that reports an IPv4 address
AttemptAutoConnect(c, is, pick) ==
    LET go == {i \in is \cap Known : pick[i] # 0}
    IN [c EXCEPT !.connecting = @ \cup go, !.tried = @ \cup go]

\* A plausible slip: only a service that is new is announced
ChangedNew(c, new, pick) == DOMAIN new \ DOMAIN c.last

\* The services of the table that this snapshot creates or changes
Changed(c, new, pick) ==
    {i \in DOMAIN new : \/ i \notin DOMAIN c.last
                        \/ /\ new[i] # c.last[i]
                           /\ c.services[i] # Merged(c.services[i], Info(new[i], pick[i]))}

\* A plausible slip: the trackers are not told of services that are gone
ToldOfChanges(changed, gone) == changed # {}

\* Whether the trackers are told: an update that changes nothing is not passed on
Told(changed, gone) == changed # {} \/ gone # {}

\* create_diff_commands and OnServiceReceiverResult for each of the commands
create_diff_commands(c, new, pick) ==
    LET changed == Changed(c, new, pick)
        gone    == DOMAIN c.last \ DOMAIN new
    IN [AttemptAutoConnect(c, changed, pick) EXCEPT
            !.last = new,
            !.services = [i \in DOMAIN new |->
                IF i \notin DOMAIN c.last THEN Info(new[i], pick[i])
                ELSE IF i \in changed THEN Merged(c.services[i], Info(new[i], pick[i]))
                ELSE c.services[i]],
            !.tried = @ \ gone,
            !.looper = @ \/ Told(changed, gone),
            !.tracker = [t \in Trackers |->
                [c.tracker[t] EXCEPT !.fresh = @ /\ changed = {} /\ gone = {}]]]

\* The periodic query for the tracked types
tick_tracker_services(c) == [c EXCEPT !.query_on = IF @ > c.now THEN @ ELSE c.now + INTERVAL]

\* tick: attend to the records, report the difference, send the periodic query
Ticks(c) ==
    LET c1  == Attend(c)
        new == snapshot(c1.store)
    IN {LET c2 == tick_tracker_services(create_diff_commands(c1, new, pick))
        IN [c2 EXCEPT !.timeout = calculate_next_attention_duration(c2)] :
        pick \in {f \in [Instances -> {0} \cup UNION {new[i].v4s : i \in DOMAIN new}] :
                    \A i \in Instances :
                        IF i \in DOMAIN new /\ new[i].v4s # {} THEN f[i] \in new[i].v4s
                        ELSE f[i] = 0}}

\* -------------------------------------------------------------- the driver

\* run: new sockets, and every tracked type is due for a query
Start ==
    /\ md.pc = "asleep"
    /\ md' = [md EXCEPT !.pc = "poll", !.running = TRUE, !.timeout = 0, !.query_on = md.now]

\* ZeroConfigDriverChannelReceiver::recv: the datagrams, then all the commands
recv(c) ==
    IF ~c.wake THEN c
    ELSE [c EXCEPT !.wake = FALSE, !.chan = 0, !.running = @ /\ c.chan = 0]

\* One turn of the loop at time now, with the packets that have arrived
process_events(c, p) ==
    {[t EXCEPT !.pc = IF t.running THEN "poll" ELSE "stopping"] : t \in Ticks(push_records(recv(c), p))}

NoPacket == [query |-> FALSE, records |-> <<>>]

\* run polls for at least 300 ms and at most two minutes, which are INTERVAL
Clamped == IF md.timeout < MinPoll THEN MinPoll ELSE IF md.timeout > INTERVAL THEN INTERVAL ELSE md.timeout

TimesOut ==
    /\ md.pc = "poll" /\ ~md.wake
    /\ \E l \in Late :
        /\ md.now + Clamped + l <= MaxTime
        /\ md' \in process_events([md EXCEPT !.now = @ + Clamped + l], NoPacket)

PacketArrives ==
    /\ md.pc = "poll" /\ md.heard < MaxPackets
    /\ \E p \in Packets, d \in Early :
        /\ d <= Clamped /\ md.now + d <= MaxTime
        /\ md' \in process_events([md EXCEPT !.now = @ + d, !.heard = @ + 1], p)

Woken == md.pc = "poll" /\ md.wake /\ md' \in process_events(md, NoPacket)

\* The end of run after a Restart: the cache is flushed, the difference reported
on_stop ==
    /\ md.pc = "stopping"
    /\ md' \in {[t EXCEPT !.pc = "asleep"] : t \in Ticks([md EXCEPT !.attention = EmptyPQ, !.store = <<>>])}

\* run returns early when polling or registering fails: nothing is flushed
RunFails ==
    /\ md.pc = "poll" /\ md.restarts < MaxRestarts
    /\ md' = [md EXCEPT !.pc = "asleep", !.restarts = @ + 1]

\* ------------------------------------------------------- the network watcher

\* A wireless interface comes up: the debouncer is armed, or armed again
NetworkChange ==
    /\ md.restarts < MaxRestarts
    /\ md' = [md EXCEPT !.watch = "armed", !.restarts = @ + 1]

\* A plausible slip: the datagram is sent before the command is in the channel
DebouncedEarly ==
    \/ md.watch = "armed" /\ ~md.sending
       /\ md' = [md EXCEPT !.watch = "idle", !.sending = TRUE, !.wake = TRUE]
    \/ md.watch = "idle" /\ md.sending
       /\ md' = [md EXCEPT !.chan = @ + 1, !.sending = FALSE]

\* The debouncer fires: the callback puts a Restart in the channel ...
Debounced ==
    /\ md.watch = "armed" /\ ~md.sending
    /\ md' = [md EXCEPT !.watch = "idle", !.chan = @ + 1, !.sending = TRUE]

\* ... and then sends the datagram that wakes the driver
Wakes == md.sending /\ md' = [md EXCEPT !.sending = FALSE, !.wake = TRUE]

\* ------------------------------------------------ connections and trackers

\* The thread of RequestConnectToDevice ends, connected or not
connect_device(i) == i \in md.connecting /\ md' = [md EXCEPT !.connecting = @ \ {i}]

create_mdns_tracker(t) ==
    /\ ~md.tracker[t].open
    /\ md' = [md EXCEPT !.tracker[t] = [open |-> TRUE, needed |-> TRUE, fresh |-> FALSE]]

\* The first time its client can take data a tracker sends the list
mdns_tracker_ready(t) ==
    /\ md.tracker[t].open /\ md.tracker[t].needed
    /\ md' = [md EXCEPT !.tracker[t] = [open |-> TRUE, needed |-> FALSE, fresh |-> TRUE]]

mdns_tracker_close(t) ==
    /\ md.tracker[t].open
    /\ md' = [md EXCEPT !.tracker[t] = [open |-> FALSE, needed |-> FALSE, fresh |-> FALSE]]

\* update_mdns_trackers, on the looper: every tracker is sent the list
update_mdns_trackers ==
    /\ md.looper
    /\ md' = [md EXCEPT !.looper = FALSE,
                        !.tracker = [t \in Trackers |-> [@[t] EXCEPT !.fresh = md.tracker[t].open]]]

Driver == Start \/ TimesOut \/ PacketArrives \/ Woken \/ on_stop

Next ==
    \/ Driver
    \/ RunFails
    \/ NetworkChange \/ Debounced \/ Wakes
    \/ \E i \in Instances : connect_device(i)
    \/ \E t \in Trackers : create_mdns_tracker(t) \/ mdns_tracker_ready(t) \/ mdns_tracker_close(t)
    \/ update_mdns_trackers

Spec == Init /\ [][Next]_md

-----------------------------------------------------------------------------

\* The attention list is a heap with a coherent index, and it holds exactly
\* the records of the store: none is stored that will never be looked at again
\* (IndexMinPQ::push, pop; ZeroConfig::add_rr, tick).
StoredIsAttended ==
    /\ IsHeap(md.attention)
    /\ DOMAIN md.store = DOMAIN md.attention.index

\* No record outlives its time to live by more than the least time the driver
\* sleeps: after a turn of the driver every record stored is younger than that,
\* and the next turn is due by then
\* (ZeroConfig::tick, calculate_next_attention_duration, ZeroConfigDriver::run).
NothingExpiredIsKept ==
    md.pc = "poll" /\ md.timeout > 0 =>
        \A i \in 1 .. Len(md.attention.data) :
            LET rr == md.attention.data[i]
            IN md.now < rr.created + rr.ttl /\ md.now + Clamped < rr.created + rr.ttl + MinPoll

\* A record is dropped only after it was asked for at 80%, 85%, 90% and 95% of
\* its time to live, as long as the driver wakes up on time and a twentieth of
\* that time is as long as it sleeps at least (rr.rs, RRLifecycle).
AskedBeforeDropped == Late = {0} /\ MinPoll <= 1 => ~md.unprobed

\* The table of discovered services has the services of the last snapshot with
\* their ports and texts, and at least their addresses (OnServiceReceiverResult).
ListedIsReported ==
    /\ DOMAIN md.services = DOMAIN md.last
    /\ \A i \in DOMAIN md.last :
        /\ md.services[i].port = md.last[i].port /\ md.services[i].txt = md.last[i].txt
        /\ md.last[i].v6s \subseteq md.services[i].v6
        /\ md.last[i].v4s # {} => md.services[i].v4 # 0

\* A known device that is listed with an IPv4 address has been connected to,
\* whichever of its records came last (AttemptAutoConnect).
KnownIsTried == \A i \in DOMAIN md.services \cap Known : md.services[i].v4 # 0 => i \in md.tried

\* A tracker that has sent its first list and is behind will be sent another
\* (update_mdns_trackers, mdns_tracker_ready).
TrackerWillSee ==
    \A t \in Trackers : md.tracker[t].open /\ ~md.tracker[t].fresh => md.tracker[t].needed \/ md.looper

\* A command in the channel always has a datagram coming that makes the driver
\* look at it (zero_config_driver_channel.rs, send and recv).
CommandWakes == md.chan > 0 => md.wake \/ md.sending
=============================================================================
