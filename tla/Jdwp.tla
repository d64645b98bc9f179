-------------------------------- MODULE Jdwp --------------------------------
(***************************************************************************)
(* App processes announcing themselves to adbd over @jdwp-control          *)
(* (libs/adbconnection), adbd's list of them, and the services built on it *)
(* (daemon/jdwp_service.cpp): the track-jdwp and track-app sockets, and    *)
(* jdwp:<pid>, which passes one end of a socket pair to the process.       *)
(*                                                                         *)
(* Three kinds of thread meet here: the app's, the "jdwp control" thread   *)
(* of adbd, and its looper.  An app's ProcessInfo is a version number.     *)
(***************************************************************************)
EXTENDS Integers, Sequences, FiniteSets, SequencesExt

CONSTANTS Pids, Debuggable, Profileable,
          MaxInfo,              \* how often an app changes its ProcessInfo
          WireRoom,             \* messages the control socket buffers
          Trackers, AppTrackers,  \* AppTrackers \subseteq Trackers: track-app
          Payload,              \* of each tracker: the entries that fit get_max_payload()
          MaxList,              \* the entries that fit UINT16_MAX
          Fds                   \* one per jdwp:<pid> request

VARIABLE jd

Init ==
  jd = [app |-> [p \in Pids |-> [st |-> "new", ver |-> 0, pend |-> FALSE, wire |-> <<>>, frozen |-> FALSE]],
        srv |-> [p \in Pids |-> [at |-> "none", ver |-> 0, out |-> <<>>, armed |-> FALSE]],
        list |-> <<>>, queue |-> <<>>,
        trk |-> [t \in Trackers |-> [open |-> FALSE, used |-> FALSE, sent |-> <<>>]],
        fd |-> [f \in Fds |-> "unused"]]

(***************************************************************************)
(* The app (adbconnection_client.cpp); app_info.mutex makes each step      *)
(* atomic.                                                                 *)
(***************************************************************************)
Up(p) == jd.app[p].st = "up"

\* send_app_info: a SOCK_SEQPACKET write that fails after a second when the
\* buffer stays full, or at once when adbd has closed its end.  The update
\* stays pending unless it was written.
SendForgetting(a) == [a EXCEPT !.pend = FALSE, !.wire = IF Len(@) < WireRoom THEN Append(@, a.ver) ELSE @]

send_app_info(a) ==
  IF Len(a.wire) < WireRoom THEN [a EXCEPT !.pend = FALSE, !.wire = Append(@, a.ver)] ELSE a

adbconnection_client_new(p) ==
  /\ jd.app[p].st = "new"
  /\ jd' = [jd EXCEPT !.app[p] = send_app_info([@ EXCEPT !.st = "up", !.pend = TRUE])]

\* set_current_process_name, add_application, remove_application,
\* set_waiting_for_debugger, set_user_id.
AppChanges(p) ==
  /\ Up(p) /\ jd.app[p].ver < MaxInfo
  /\ jd' = [jd EXCEPT !.app[p].ver = @ + 1, !.app[p].pend = TRUE]

adbconnection_client_send_update(p) ==
  /\ Up(p) /\ jd.app[p].pend /\ jd.srv[p].at # "closed"
  /\ jd' = [jd EXCEPT !.app[p] = send_app_info(@)]

AppDies(p) == Up(p) /\ jd' = [jd EXCEPT !.app[p].st = "gone", !.app[p].frozen = FALSE]
Freezes(p) == Up(p) /\ jd' = [jd EXCEPT !.app[p].frozen = ~@]

(***************************************************************************)
(* adbconnection_listen, on the "jdwp control" thread.                     *)
(***************************************************************************)
Accept(p) ==
  /\ jd.app[p].st # "new" /\ jd.srv[p].at = "none"
  /\ jd' = [jd EXCEPT !.srv[p].at = "pending"]

\* readProcessInfoFromSocket: a message, or the end of the connection.
Readable(p) == jd.app[p].wire # <<>> \/ jd.app[p].st = "gone"

FirstInfo(p) ==
  /\ jd.srv[p].at = "pending" /\ Readable(p)
  /\ jd' = IF jd.app[p].wire = <<>>
           THEN [jd EXCEPT !.srv[p].at = "closed"]
           ELSE [jd EXCEPT !.srv[p].at = "queued", !.srv[p].ver = Head(jd.app[p].wire),
                           !.app[p].wire = Tail(@), !.queue = Append(@, p)]

(***************************************************************************)
(* The looper.                                                             *)
(***************************************************************************)
Listed(app) == IF app THEN Debuggable \cup Profileable ELSE Debuggable

\* jdwp_process_list sends pids, app_process_list whole ProcessInfos; both
\* stop at the first of the entries that does not fit.
process_list(s, app, room) ==
  LET l == SelectSeq(s.list, LAMBDA p : p \in Listed(app))
      k == SubSeq(l, 1, IF Len(l) > room THEN room ELSE Len(l)) IN
  [i \in DOMAIN k |-> <<k[i], IF app THEN s.srv[k[i]].ver ELSE 0>>]

\* An update has to fit every tracker and the four digits of its length.
process_list_updated(s, kinds) ==
  LET room == Min({MaxList} \cup {Payload[t] : t \in {u \in Trackers : s.trk[u].open}}) IN
  [s EXCEPT !.trk = [t \in Trackers |->
     IF @[t].open /\ (t \in AppTrackers) \in kinds
     THEN [@[t] EXCEPT !.sent = process_list(s, t \in AppTrackers, room)] ELSE @[t]]]

\* Which trackers a process concerns when it comes or goes.
Kinds(p) == (IF p \in Debuggable THEN {FALSE} ELSE {}) \cup
            (IF p \in Debuggable \cup Profileable THEN {TRUE} ELSE {})

\* The closure init_jdwp's callback posts.
NewProcess ==
  /\ jd.queue # <<>>
  /\ LET p == Head(jd.queue) IN
     jd' = process_list_updated([jd EXCEPT !.queue = Tail(@), !.list = Append(@, p), !.srv[p].at = "listed"],
                                Kinds(p))

\* CloseProcess: the staged descriptors go with the JdwpProcess.
CloseQuietly(s, p) ==
  [s EXCEPT !.list = SelectSeq(@, LAMBDA q : q # p),
            !.srv[p] = [@ EXCEPT !.at = "closed", !.out = <<>>, !.armed = FALSE],
            !.fd = [f \in Fds |-> IF f \in ToSet(s.srv[p].out) THEN "closed" ELSE @[f]]]

CloseProcess(s, p) ==
  process_list_updated(
    [s EXCEPT !.list = SelectSeq(@, LAMBDA q : q # p),
              !.srv[p] = [@ EXCEPT !.at = "closed", !.out = <<>>, !.armed = FALSE],
              !.fd = [f \in Fds |-> IF f \in ToSet(s.srv[p].out) THEN "closed" ELSE @[f]]],
    Kinds(p))

ReadEvent(s, p) ==
  IF s.app[p].wire = <<>> THEN CloseProcess(s, p)
  ELSE process_list_updated([s EXCEPT !.srv[p].ver = Head(s.app[p].wire), !.app[p].wire = Tail(@)],
                            {FALSE, TRUE})

\* Sends the last of the staged descriptors, which fails when the app is gone.
WriteEvent(s, p) ==
  IF s.app[p].st = "gone" THEN CloseProcess(s, p)
  ELSE LET rest == Front(s.srv[p].out) IN
       [s EXCEPT !.fd[Last(s.srv[p].out)] = "delivered", !.srv[p].out = rest, !.srv[p].armed = rest # <<>>]

jdwp_process_event(p) ==
  /\ jd.srv[p].at = "listed"
  /\ \E r, w \in BOOLEAN :
       /\ r \/ w
       /\ r => Readable(p)
       /\ w => jd.srv[p].armed
       /\ LET s == IF r THEN ReadEvent(jd, p) ELSE jd IN
          jd' = IF w /\ s.srv[p].at = "listed" THEN WriteEvent(s, p) ELSE s

\* create_jdwp_connection_fd and send_socket_to_process.
StageAfterFirst(s, p, f) ==
  [s EXCEPT !.fd[f] = "staged", !.srv[p].out = Append(@, f), !.srv[p].armed = @ \/ Len(s.srv[p].out) = 1]

Stage(s, p, f) ==
  [s EXCEPT !.fd[f] = "staged", !.srv[p].out = Append(@, f), !.srv[p].armed = @ \/ Len(s.srv[p].out) = 0]

create_jdwp_connection_fd(p, f) ==
  /\ jd.fd[f] = "unused"
  /\ jd' = IF p \in ToSet(jd.list) /\ p \in Debuggable /\ ~jd.app[p].frozen
           THEN Stage(jd, p, f) ELSE [jd EXCEPT !.fd[f] = "denied"]

\* create_process_tracker_service_socket; adb's A_OPEN handler links the peer
\* and calls jdwp_tracker_ready, which sends the initial list, in one step. That
\* list has only to fit the tracker's own payload.
TrackerOpens(t) ==
  /\ ~jd.trk[t].used
  /\ jd' = [jd EXCEPT !.trk[t] = [open |-> TRUE, used |-> TRUE, sent |-> process_list(jd, t \in AppTrackers, Payload[t])]]

jdwp_tracker_close(t) ==
  jd.trk[t].open /\ jd' = [jd EXCEPT !.trk[t].open = FALSE, !.trk[t].sent = <<>>]

Looper == NewProcess \/ \E p \in Pids : jdwp_process_event(p)
Control == \E p \in Pids : Accept(p) \/ FirstInfo(p)

Next ==
  \/ \E p \in Pids : \/ adbconnection_client_new(p) \/ AppChanges(p) \/ adbconnection_client_send_update(p)
                     \/ AppDies(p) \/ Freezes(p)
                     \/ \E f \in Fds : create_jdwp_connection_fd(p, f)
  \/ Control \/ Looper
  \/ \E t \in Trackers : TrackerOpens(t) \/ jdwp_tracker_close(t)

Spec == Init /\ [][Next]_jd

(***************************************************************************)
(* Properties.                                                             *)
(***************************************************************************)

\* Type invariant.
TypeOK ==
  /\ \A p \in Pids : /\ jd.app[p].ver \in 0 .. MaxInfo /\ Len(jd.app[p].wire) <= WireRoom
                     /\ jd.srv[p].at \in {"none", "pending", "queued", "listed", "closed"}
  /\ ToSet(jd.list) \subseteq Pids /\ IsInjective(jd.list)
  /\ \A f \in Fds : jd.fd[f] \in {"unused", "staged", "delivered", "denied", "closed"}

\* Every change of the list reaches the trackers it concerns: what an open
\* tracker was last sent is the list as it is now (process_list_updated is
\* called for coming, changed and gone processes, by different threads' work),
\* cut off where one of the payloads or the digits of a length were full.
TrackerIsCurrent ==
  \A t \in Trackers : jd.trk[t].open =>
    \E room \in {MaxList} \cup Range(Payload) : jd.trk[t].sent = process_list(jd, t \in AppTrackers, room)

\* A staged descriptor waits in the queue of a listed process whose fdevent
\* has FDE_WRITE set, so it will be sent or closed; and FDE_WRITE is set only
\* then (jdwp_process_event CHECKs that out_fds is not empty).
StagedWillBeSent ==
  /\ \A f \in Fds : jd.fd[f] = "staged" =>
        \E p \in Pids : jd.srv[p].at = "listed" /\ f \in ToSet(jd.srv[p].out) /\ jd.srv[p].armed
  /\ \A p \in Pids : jd.srv[p].armed => jd.srv[p].out # <<>>

\* No update is lost: once nothing is pending in the app and nothing is on
\* the wire, adbd holds the app's current ProcessInfo.
InfoConverges ==
  \A p \in Pids :
    (Up(p) /\ ~jd.app[p].pend /\ jd.app[p].wire = <<>> /\ jd.srv[p].at \in {"queued", "listed"}) =>
      jd.srv[p].ver = jd.app[p].ver

=============================================================================
