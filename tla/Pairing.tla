------------------------------- MODULE Pairing -------------------------------
(***************************************************************************)
(* Wireless pairing: clients (client/pairing/pairing_client.cpp) running   *)
(* one PairingConnection each against a PairingServer, which runs one      *)
(* connection thread per client, a server thread that accepts, and a       *)
(* connection events thread that decides (pairing_connection/).            *)
(*                                                                         *)
(* A message is its type; SPAKE2 and the cipher are one fact: what a peer  *)
(* encrypted can be decrypted exactly when both used the same password.    *)
(* A blocked read is not ended by closing its descriptor from another      *)
(* thread: it returns when the peer sends or closes.                       *)
(***************************************************************************)
EXTENDS Integers, Sequences, FiniteSets, SequencesExt

CONSTANTS Clients,
          Good,                 \* clients that know the password
          Odd,                  \* clients whose PeerInfo has an unknown type
          kMaxConnections, kMaxPairingAttempts

VARIABLE pa

Init ==
  pa = [cl |-> [c \in Clients |-> "off"],          \* the client's connection
        c2s |-> [c \in Clients |-> <<>>], s2c |-> [c \in Clients |-> <<>>],
        srv |-> [c \in Clients |-> "none"],        \* the server's connection thread
        closed |-> {},                             \* connections whose fd_ was reset
        accepting |-> TRUE, event |-> FALSE,       \* server thread; event_fd_
        wq |-> <<>>, rq |-> <<>>, conns |-> {}, tries |-> 0,
        worker |-> "wait", joining |-> {}, valid |-> 0,
        owner |-> "up", terminate |-> FALSE, calls |-> <<>>]

Finished(c, key) == [new |-> FALSE, c |-> c, key |-> key]
New(c) == [new |-> TRUE, c |-> c, key |-> FALSE]

(***************************************************************************)
(* A client: connects, then runs PairingConnectionCtx as Role::Client.     *)
(***************************************************************************)
Connect(c) ==
  /\ pa.cl[c] = "off" /\ pa.owner # "gone"
  /\ pa' = [pa EXCEPT !.cl[c] = "tls"]

ClientGone(c) ==
  /\ pa.cl[c] \in {"tls", "msgs", "info"}
  /\ pa' = [pa EXCEPT !.cl[c] = "fail"]

\* The server's end is gone once its thread is over and its descriptor shut.
Hung(c) == pa.srv[c] = "over" /\ c \in pa.closed

DoExchangeMsgs(c) ==
  /\ pa.cl[c] = "msgs" /\ pa.s2c[c] # <<>>
  /\ pa' = [pa EXCEPT !.cl[c] = "info", !.s2c[c] = Tail(@), !.c2s[c] = Append(@, "info")]

DoExchangePeerInfo(c) ==
  /\ pa.cl[c] = "info" /\ pa.s2c[c] # <<>>
  /\ pa' = [pa EXCEPT !.cl[c] = IF c \in Good THEN "ok" ELSE "fail", !.s2c[c] = Tail(@)]

ReadFails(c) ==
  /\ pa.cl[c] \in {"tls", "msgs", "info"} /\ pa.s2c[c] = <<>> /\ Hung(c)
  /\ pa' = [pa EXCEPT !.cl[c] = "fail"]

ClientReads(c) == DoExchangeMsgs(c) \/ DoExchangePeerInfo(c) \/ ReadFails(c)

(***************************************************************************)
(* The server's connection thread, StartWorker.                            *)
(***************************************************************************)
Gone(c) == pa.cl[c] \in {"fail", "ok"} /\ pa.c2s[c] = <<>>

\* NotifyResult calls it; an unknown PeerInfo type leaves the event
\* default constructed, naming no connection (descriptor 0).
PairingConnectionCallback(s, c, good) ==
  LET ev == IF good /\ c \in Odd THEN Finished(0, FALSE) ELSE Finished(c, good) IN
  [s EXCEPT !.srv[c] = "over", !.wq = Append(@, ev)]

\* SetupTlsConnection: the handshake needs both ends.
Handshake(c) ==
  /\ pa.srv[c] = "tls" /\ c \notin pa.closed
  /\ \/ /\ pa.cl[c] = "tls"
        /\ pa' = [pa EXCEPT !.cl[c] = "msgs", !.srv[c] = "msgs",
                            !.c2s[c] = <<"spake2">>, !.s2c[c] = <<"spake2">>]
     \/ Gone(c) /\ pa' = PairingConnectionCallback(pa, c, FALSE)

\* A reset descriptor fails the next read; one already blocked returns only
\* with data or the end of the stream.
ServerReads(c) ==
  /\ pa.srv[c] \in {"tls", "msgs", "info"}
  /\ \/ /\ c \notin pa.closed /\ pa.srv[c] = "msgs" /\ pa.c2s[c] # <<>>
        /\ pa' = [pa EXCEPT !.srv[c] = "info", !.c2s[c] = Tail(@), !.s2c[c] = Append(@, "info")]
     \/ /\ c \notin pa.closed /\ pa.srv[c] = "info" /\ pa.c2s[c] # <<>>
        /\ pa' = PairingConnectionCallback([pa EXCEPT !.c2s[c] = Tail(@)], c, c \in Good)
     \/ /\ c \in pa.closed /\ pa.c2s[c] # <<>> /\ pa' = PairingConnectionCallback(pa, c, FALSE)
     \/ Gone(c) /\ (pa.srv[c] # "tls" \/ c \in pa.closed) /\ pa' = PairingConnectionCallback(pa, c, FALSE)

(***************************************************************************)
(* The server thread.                                                      *)
(***************************************************************************)
HandleNewClientConnection(c) ==
  /\ pa.accepting /\ pa.cl[c] # "off" /\ pa.srv[c] = "none"
  /\ pa' = [pa EXCEPT !.srv[c] = "queued", !.wq = Append(@, New(c))]

ServerWorkerEnds ==
  /\ pa.accepting /\ pa.event
  /\ pa' = [pa EXCEPT !.accepting = FALSE, !.event = FALSE]

(***************************************************************************)
(* The connection events thread.                                           *)
(***************************************************************************)
TakeEvents ==
  /\ pa.worker = "wait"
  /\ \/ pa.terminate /\ pa' = [pa EXCEPT !.worker = "over"]
     \/ ~pa.terminate /\ pa.wq # <<>> /\ pa' = [pa EXCEPT !.rq = pa.wq, !.wq = <<>>, !.worker = "events"]

NewConnectionUnbounded(s, c) == [s EXCEPT !.srv[c] = "tls", !.conns = @ \cup {c}]

NewConnection(s, c) ==
  IF Cardinality(s.conns) >= kMaxConnections
  THEN [s EXCEPT !.srv[c] = "over", !.closed = @ \cup {c}]
  ELSE [s EXCEPT !.srv[c] = "tls", !.conns = @ \cup {c}]

\* A plausible slip: one attempt more.
InvalidOnceMore(s, c) ==
  LET e == [s EXCEPT !.conns = @ \ {c}, !.closed = @ \cup (s.conns \cap {c}), !.tries = @ + 1] IN
  IF e.tries > kMaxPairingAttempts THEN [e EXCEPT !.calls = Append(@, "fail"), !.worker = "over"] ELSE e

\* A finished connection that did not pair: erase it (its thread is over, so
\* the destructor's join returns), and give up after too many.
InvalidPairing(s, c) ==
  LET e == [s EXCEPT !.conns = @ \ {c}, !.closed = @ \cup (s.conns \cap {c}), !.tries = @ + 1] IN
  IF e.tries >= kMaxPairingAttempts THEN [e EXCEPT !.calls = Append(@, "fail"), !.worker = "over"] ELSE e

ProcessEvent ==
  /\ pa.worker = "events"
  /\ IF pa.rq = <<>> THEN pa' = [pa EXCEPT !.worker = "wait"]
     ELSE LET e == Head(pa.rq)
              s == [pa EXCEPT !.rq = Tail(@)] IN
          \/ e.new /\ pa' = NewConnection(s, e.c)
          \/ /\ ~e.new /\ e.key                     \* StopServer; connections_.clear()
             /\ pa' = [s EXCEPT !.event = TRUE, !.joining = s.conns, !.conns = {},
                                !.valid = e.c, !.worker = "clear"]
          \/ ~e.new /\ ~e.key /\ pa' = InvalidPairing(s, e.c)

\* connections_.clear(): ~PairingConnectionCtx resets the descriptor and
\* joins the thread, one connection after another.
ClearConnection(c) ==
  /\ pa.worker = "clear" /\ c \in pa.joining
  /\ \/ c \notin pa.closed /\ pa' = [pa EXCEPT !.closed = @ \cup {c}]
     \/ c \in pa.closed /\ pa.srv[c] = "over" /\ pa' = [pa EXCEPT !.joining = @ \ {c}]

ReportValid ==
  /\ pa.worker = "clear" /\ pa.joining = {}
  /\ pa' = [pa EXCEPT !.calls = Append(@, "paired"), !.worker = "over"]

(***************************************************************************)
(* The owner: StopServerAndWait, then the destructor of connections_.      *)
(***************************************************************************)
\* A plausible slip: the server thread is not woken.
StopQuietly == pa.owner = "up" /\ pa' = [pa EXCEPT !.owner = "stopping"]

StopServerAndWait == pa.owner = "up" /\ pa' = [pa EXCEPT !.owner = "stopping", !.event = TRUE]

JoinServer ==
  /\ pa.owner = "stopping" /\ ~pa.accepting
  /\ pa' = [pa EXCEPT !.owner = "joining", !.terminate = TRUE]

NotifyAlways(s) == [s EXCEPT !.owner = "clear", !.joining = s.conns, !.calls = Append(@, "fail")]

NotifyIfNot(s) ==
  [s EXCEPT !.owner = "clear", !.joining = s.conns,
            !.calls = IF s.valid = 0 /\ s.calls = <<>> THEN Append(@, "fail") ELSE @]

JoinWorker == pa.owner = "joining" /\ pa.worker = "over" /\ pa' = NotifyIfNot(pa)

\* A plausible slip: the thread of the connection is not joined.
DestroyUnjoined(c) ==
  /\ pa.owner = "clear" /\ c \in pa.joining
  /\ pa' = [pa EXCEPT !.closed = @ \cup {c}, !.joining = @ \ {c}]

DestroyConnection(c) ==
  /\ pa.owner = "clear" /\ c \in pa.joining
  /\ \/ c \notin pa.closed /\ pa' = [pa EXCEPT !.closed = @ \cup {c}]
     \/ c \in pa.closed /\ pa.srv[c] = "over" /\ pa' = [pa EXCEPT !.joining = @ \ {c}]

\* What is still queued is destroyed with the queues.
Destroyed ==
  /\ pa.owner = "clear" /\ pa.joining = {}
  /\ LET q == {c \in Clients : pa.srv[c] \in {"queued", "none"}} IN
     pa' = [pa EXCEPT !.owner = "gone", !.closed = @ \cup q,
                      !.srv = [c \in Clients |-> IF c \in q THEN "over" ELSE @[c]]]

ClientSteps == \E c \in Clients : ClientReads(c) \/ ClientGone(c)
ServerSteps ==
  \/ \E c \in Clients : \/ Handshake(c) \/ ServerReads(c) \/ HandleNewClientConnection(c)
                        \/ ClearConnection(c) \/ DestroyConnection(c)
  \/ ServerWorkerEnds \/ TakeEvents \/ ProcessEvent \/ ReportValid
  \/ JoinServer \/ JoinWorker \/ Destroyed

Next == (\E c \in Clients : Connect(c)) \/ ClientSteps \/ ServerSteps \/ StopServerAndWait

Spec == Init /\ [][Next]_pa

(***************************************************************************)
(* Properties.                                                             *)
(***************************************************************************)

\* Type invariant.
TypeOK ==
  /\ \A c \in Clients : /\ pa.cl[c] \in {"off", "tls", "msgs", "info", "ok", "fail"}
                        /\ pa.srv[c] \in {"none", "queued", "tls", "msgs", "info", "over"}
  /\ pa.conns \cup pa.joining \cup pa.closed \subseteq Clients
  /\ pa.tries \in 0 .. kMaxPairingAttempts
  /\ pa.worker \in {"wait", "events", "clear", "over"}

\* The result callback is called once: with the peer, after too many
\* attempts, or by StopServerAndWait, and by then it has been called.
CalledOnce ==
  Len(pa.calls) <= 1 /\ (pa.owner \in {"clear", "gone"} => Len(pa.calls) = 1)

\* No more than kMaxConnections connections run at a time.
ConnectionsBounded ==
  Cardinality({c \in Clients : pa.srv[c] \in {"tls", "msgs", "info"}}) <= kMaxConnections

\* When the server is destroyed no thread of a connection is left, and none is
\* started afterwards (~PairingConnectionCtx, ServerWorker).
NoThreadLeft == pa.owner = "gone" => \A c \in Clients : pa.srv[c] = "over"

\* What the worker owes after a valid pairing, and the owner after stopping.
Reported == "paired" \in ToSet(pa.calls)

=============================================================================
