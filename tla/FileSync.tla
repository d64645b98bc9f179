------------------------------ MODULE FileSync ------------------------------
(***************************************************************************)
(* One "sync:" connection: the adb client (client/file_sync_client.cpp)    *)
(* pushing or pulling a list of sources, and adbd's service thread         *)
(* (daemon/file_sync_service.cpp).                                         *)
(*                                                                         *)
(* Both ends use blocking writes into bounded buffers (Room messages from  *)
(* the client, AckRoom from the device).  The client pipelines: a file's   *)
(* acknowledgement is deferred (`pend`) while the next files are sent.     *)
(* A file is the number of ID_DATA messages that carry it; a file of at    *)
(* most one message goes out as SendSmallFile does it, in one write.       *)
(* Local and remote I/O errors happen at most MaxFaults times.             *)
(***************************************************************************)
EXTENDS Integers, Sequences, SequencesExt

CONSTANTS Push,                 \* TRUE: adb push; FALSE: adb pull
          Sync, Dry,            \* --sync and -n (dry run)
          Sources,              \* sequence of [dir |-> BOOLEAN, files |-> Seq(Files)]
          Size,                 \* Size[f]: ID_DATA messages of file f
          Links,                \* the files that are symbolic links
          max_deferred_acks, Room, AckRoom, MaxFaults

VARIABLE fs

Files == DOMAIN Size
NoFile == [n |-> -1, mtime |-> "none"]
Kept(f) == [n |-> Size[f], mtime |-> "local"]
Stale(f) == [n |-> Size[f] + 1, mtime |-> "old"]
Msg(op, f) == [op |-> op, f |-> f]
Stat(f, st) == [op |-> "stat", f |-> f, same |-> st]
Large(f) == Dry \/ Size[f] > 1

Init ==
  \E d \in [Files -> {"none", "old", "same"}] :
    fs = [src |-> 1, list |-> <<>>, cur |-> 0, sent |-> 0, pc |-> IF Push THEN "dst" ELSE "source",
          out |-> IF Push THEN <<Msg("stat", 0)>> ELSE <<>>, pend |-> <<>>, copied |-> {}, skip |-> {}, links |-> <<>>,
          unlisted |-> {},          \* files of a directory that could not be examined
          c2d |-> <<>>, d2c |-> <<>>, ok |-> TRUE, exit |-> "running", faults |-> 0,
          dev |-> "idle", df |-> 0, dn |-> 0, dout |-> <<>>,
          disk |-> [f \in Files |-> CASE ~Push \/ d[f] = "same" -> Kept(f)
                                      [] Push /\ d[f] = "old" -> Stale(f)
                                      [] OTHER -> NoFile],
          local |-> [f \in Files |-> IF Push THEN Size[f] ELSE -1]]

(***************************************************************************)
(* The client.                                                             *)
(***************************************************************************)
Client(pc) == fs.exit = "running" /\ fs.out = <<>> /\ fs.pc = pc

\* The rest of a source is abandoned; do_sync_push and do_sync_pull go on
\* with the next one.
Failed(s) == [s EXCEPT !.ok = FALSE, !.src = @ + 1, !.pc = "source"]
Fault(s) == [s EXCEPT !.faults = @ + 1]
NextFile(s) == IF Sources[s.src].dir THEN [s EXCEPT !.pc = "next"]
                                     ELSE [s EXCEPT !.pc = "source", !.src = @ + 1]

\* A symbolic link that remote_build_list cannot follow is left out with a warning.
Unresolved(s) == [s EXCEPT !.unlisted = @ \cup {Head(s.links)}, !.links = Tail(@), !.pc = "follow"]

\* A blocking write takes the next message when there is room.  After the
\* service has closed, the bytes vanish or the write fails: WriteOrDie exits,
\* a failed request is an error of its caller.
WriteFails(s) ==
  CASE s.pc = "stat1" -> [s EXCEPT !.out = <<>>, !.pc = "send"]
    [] s.pc = "links" -> Unresolved([s EXCEPT !.out = <<>>])
    [] s.pc \in {"stats", "pstat", "ls", "creat"} \/ (s.pc = "large" /\ Head(s.out).op = "send") ->
         Failed([s EXCEPT !.out = <<>>])
    [] s.pc = "bye" -> [s EXCEPT !.out = <<>>, !.exit = IF s.ok THEN "ok" ELSE "failed"]
    [] OTHER -> [s EXCEPT !.out = <<>>, !.exit = "failed"]

ClientWrites ==
  /\ fs.exit = "running" /\ fs.out # <<>>
  /\ \/ /\ fs.dev # "closed" /\ Len(fs.c2d) < Room
        /\ fs' = [fs EXCEPT !.out = Tail(@), !.c2d = Append(@, Head(fs.out))]
     \/ /\ fs.dev = "closed"
        /\ fs' \in {[fs EXCEPT !.out = Tail(@)], WriteFails(fs)}

\* local_build_list: the files of a local directory. An entry that cannot be
\* examined and a subdirectory that cannot be opened are left out with a message,
\* and the list counts as built.
local_build_list(s, S) ==
  LET listed(u) == [u EXCEPT !.list = SelectSeq(S.files, LAMBDA f : f \notin u.unlisted)] IN
  {listed(s)} \cup IF s.faults = MaxFaults THEN {}
                   ELSE {listed(Fault([s EXCEPT !.unlisted = @ \cup L])) : L \in SUBSET Range(S.files)}

\* copy_local_dir_remote: the list, and with --sync an lstat for each file of it
copy_local_dir_remote(s, S) ==
  {IF Sync THEN [u EXCEPT !.pc = "stats", !.out = [i \in DOMAIN u.list |-> Msg("lstat", u.list[i])]]
   ELSE [u EXCEPT !.pc = "next"] : u \in local_build_list(s, S)}

\* do_sync_push, do_sync_pull: take the next source.
TakeSource ==
  /\ Client("source")
  /\ IF fs.src > Len(Sources)
     THEN fs' = [fs EXCEPT !.pc = "final"]
     ELSE LET S == Sources[fs.src] IN
          \/ /\ ~Push
             /\ fs' = [fs EXCEPT !.out = <<Msg("stat", S.files[1])>>, !.pc = "pstat", !.cur = S.files[1]]
          \/ /\ Push /\ S.dir
             /\ fs' \in copy_local_dir_remote(fs, S)
          \/ /\ Push /\ ~S.dir
             /\ fs' = [fs EXCEPT !.cur = S.files[1], !.pc = IF Sync THEN "stat1" ELSE "send",
                                 !.out = IF Sync THEN <<Msg("lstat", S.files[1])>> ELSE <<>>]
          \/ fs.faults < MaxFaults /\ fs' = Failed(Fault(fs))      \* the local stat fails

\* FinishStat: the next response must be the answer to a stat request, with
\* which the caller goes on; anything else, and the end of the connection, is
\* LOG(FATAL).
Response == Head(fs.d2c)
Read == [fs EXCEPT !.d2c = Tail(@)]

FinishStat(answered) ==
  \/ /\ fs.d2c # <<>>
     /\ fs' \in IF Response.op = "stat" THEN answered ELSE {[Read EXCEPT !.exit = "fatal"]}
  \/ fs.d2c = <<>> /\ fs.dev = "closed" /\ fs' = [fs EXCEPT !.exit = "fatal"]

\* do_sync_push starts with a stat of the destination, which may refuse it.
DstStat ==
  Client("dst") /\ FinishStat({[Read EXCEPT !.pc = "source"], [Read EXCEPT !.pc = "quit", !.ok = FALSE]})

\* copy_local_dir_remote reads the answers of its pipelined lstats.
StatsRead ==
  /\ Client("stats")
  /\ IF fs.list = <<>>
     THEN fs' = [fs EXCEPT !.pc = "next",
                           !.list = SelectSeq(Sources[fs.src].files, LAMBDA f : f \notin fs.skip \cup fs.unlisted)]
     ELSE FinishStat({[Read EXCEPT !.list = Tail(@),
                                   !.skip = IF Response.same THEN @ \cup {Head(fs.list)} ELSE @]})

\* sync_send of one file with --sync: skip it when the time stamps agree.
StatRead ==
  Client("stat1") /\ FinishStat({IF Response.same THEN NextFile([Read EXCEPT !.skip = @ \cup {fs.cur}])
                                 ELSE [Read EXCEPT !.pc = "send"]})

NextOfDir ==
  /\ Client("next")
  /\ fs' = IF fs.list = <<>>
           THEN IF Push THEN [fs EXCEPT !.pc = "diracks"] ELSE [fs EXCEPT !.pc = "source", !.src = @ + 1]
           ELSE [fs EXCEPT !.cur = Head(fs.list), !.list = Tail(@), !.pc = IF Push THEN "send" ELSE "recv"]

\* SendSmallFile, or the request of SendLargeFile, which is out before the
\* local file is examined.
SendFile ==
  /\ Client("send")
  /\ LET f == fs.cur IN
     \/ /\ Large(f)
        /\ fs' = [fs EXCEPT !.out = <<Msg("send", f)>>, !.pc = "large", !.sent = 0]
     \/ /\ ~Large(f)
        /\ fs' = [fs EXCEPT !.out = <<Msg("send", f), Msg("data", f), Msg("done", f)>>,
                            !.pend = Append(@, f), !.pc = "acks"]
     \/ fs.faults < MaxFaults /\ fs' = Failed(Fault(fs))

SendLargeFile ==
  /\ Client("large")
  /\ LET f == fs.cur IN
     \/ /\ fs.sent < Size[f]
        /\ fs' = [fs EXCEPT !.out = <<Msg("data", f)>>, !.sent = @ + 1]
     \/ /\ fs.sent = Size[f]
        /\ fs' = [fs EXCEPT !.out = <<Msg("done", f)>>, !.pend = Append(@, f), !.pc = "acks"]
     \/ fs.faults < MaxFaults /\ fs' = Failed(Fault(fs))

acks_ignored(s, good) ==
  CASE s.pc = "acks" -> NextFile(s)
    [] s.pc = "diracks" -> [s EXCEPT !.src = @ + 1, !.pc = "source"]
    [] OTHER -> [s EXCEPT !.pc = "quit"]

CopyDoneLast(s) == [s EXCEPT !.copied = @ \cup {Last(s.pend)}, !.pend = Front(@)]

CopyDone(s) == [s EXCEPT !.copied = @ \cup {Head(s.pend)}, !.pend = Tail(@)]

\* ReadAcknowledgements: blocking when all are wanted or too many are
\* outstanding, otherwise only what has arrived.
AcksReturn(s, good) ==
  CASE s.pc = "acks" -> IF good THEN NextFile(s) ELSE Failed(s)
    [] s.pc = "diracks" -> [s EXCEPT !.ok = @ /\ good, !.src = @ + 1, !.pc = "source"]
    [] OTHER -> [s EXCEPT !.ok = @ /\ good, !.pc = "quit"]

should_block_at_end(s) == s.pc \in {"diracks", "final"}

should_block(s) == \/ s.pc \in {"diracks", "final"}
                   \/ s.pc = "acks" /\ Sync /\ ~Sources[s.src].dir
                   \/ Len(s.pend) >= max_deferred_acks

ReadAcknowledgements ==
  /\ \E pc \in {"acks", "diracks", "final"} : Client(pc)
  /\ \/ fs.pend = <<>> /\ fs' = AcksReturn(fs, TRUE)
     \/ fs.pend # <<>> /\ ~should_block(fs) /\ fs' = AcksReturn(fs, TRUE)
     \/ /\ fs.pend # <<>> /\ fs.d2c # <<>>
        /\ LET s == [fs EXCEPT !.d2c = Tail(@)] IN
           fs' = CASE Head(fs.d2c).op = "okay" -> CopyDone(s)
                   [] Head(fs.d2c).op = "fail" -> AcksReturn([s EXCEPT !.pend = Tail(@)], FALSE)
                   [] OTHER -> AcksReturn(s, FALSE)
     \/ fs.pend # <<>> /\ fs.d2c = <<>> /\ fs.dev = "closed" /\ fs' = AcksReturn(fs, FALSE)

\* ~SyncConnection: ID_QUIT, then wait for any byte or the end.
Quit ==
  \/ Client("quit") /\ fs' = [fs EXCEPT !.out = <<Msg("quit", 0)>>, !.pc = "bye"]
  \/ /\ Client("bye") /\ (fs.d2c # <<>> \/ fs.dev = "closed")
     /\ fs' = [fs EXCEPT !.exit = IF fs.ok THEN "ok" ELSE "failed"]

\* Pull: the stat decides between sync_recv and a directory listing.
PullStat ==
  /\ Client("pstat")
  /\ FinishStat({IF Sources[fs.src].dir THEN [Read EXCEPT !.out = <<Msg("list", fs.src)>>, !.pc = "ls", !.list = <<>>]
                                         ELSE [Read EXCEPT !.pc = "recv"]}
                \cup (IF fs.faults < MaxFaults THEN {Failed(Fault(Read))} ELSE {}))

FinishLs ==
  /\ Client("ls")
  /\ \/ /\ fs.d2c # <<>>
        /\ LET m == Head(fs.d2c)
               s == [fs EXCEPT !.d2c = Tail(@)] IN
           fs' = CASE m.op = "dent" -> IF m.f \in Links THEN [s EXCEPT !.links = Append(@, m.f)]
                                       ELSE [s EXCEPT !.list = Append(@, m.f)]
                   [] m.op = "done" -> [s EXCEPT !.pc = "follow"]
                   [] OTHER -> Failed([s EXCEPT !.links = <<>>])
     \/ fs.d2c = <<>> /\ fs.dev = "closed" /\ fs' = Failed([fs EXCEPT !.links = <<>>])

\* remote_build_list then follows the links, one stat at a time; those that lead to
\* a file come last.
remote_build_list ==
  \/ /\ Client("follow")
     /\ fs' = IF fs.links = <<>> THEN [fs EXCEPT !.pc = "next"]
              ELSE [fs EXCEPT !.out = <<Msg("stat", Head(fs.links))>>, !.pc = "links"]
  \/ /\ Client("links")
     /\ FinishStat({[Read EXCEPT !.list = Append(@, Head(fs.links)), !.links = Tail(@), !.pc = "follow"]}
                   \cup (IF fs.faults < MaxFaults THEN {Unresolved(Fault(Read))} ELSE {}))

\* sync_recv, and set_time_and_mode with -a: the request goes out before the local
\* file is created.
Recv ==
  /\ Client("recv")
  /\ fs' = [fs EXCEPT !.out = <<Msg("recv", fs.cur)>>, !.pc = "creat"]

Unlinked(s) == [s EXCEPT !.local[s.cur] = -1]
Created ==
  /\ Client("creat")
  /\ \/ fs' = [fs EXCEPT !.local[fs.cur] = 0, !.pc = "rdata"]
     \/ fs.faults < MaxFaults /\ fs' = Failed(Fault(Unlinked(fs)))

RecvData ==
  /\ Client("rdata")
  /\ \/ /\ fs.d2c # <<>>
        /\ LET m == Head(fs.d2c)
               s == [fs EXCEPT !.d2c = Tail(@)] IN
           \/ m.op = "data" /\ fs' = [s EXCEPT !.local[s.cur] = @ + 1]
           \/ m.op = "data" /\ s.faults < MaxFaults /\ fs' = Failed(Fault(Unlinked(s)))
           \/ m.op = "done" /\ fs' = NextFile([s EXCEPT !.copied = @ \cup {s.cur}])
           \/ m.op = "done" /\ s.faults < MaxFaults /\ fs' = Failed(Fault([s EXCEPT !.copied = @ \cup {s.cur}]))
           \/ m.op \notin {"data", "done"} /\ fs' = Failed(Unlinked(s))
     \/ fs.d2c = <<>> /\ fs.dev = "closed" /\ fs' = Failed(Unlinked(fs))

ClientSteps ==
  \/ ClientWrites \/ TakeSource \/ DstStat \/ StatsRead \/ StatRead \/ NextOfDir \/ SendFile
  \/ SendLargeFile \/ ReadAcknowledgements \/ Quit \/ PullStat \/ FinishLs \/ remote_build_list
  \/ Recv \/ Created \/ RecvData

(***************************************************************************)
(* The service thread.  `dout` is what it is writing; it does nothing else *)
(* until that is out.                                                      *)
(***************************************************************************)
Device(pc) == fs.dev = pc /\ fs.dout = <<>>
Incoming(s) == [s EXCEPT !.c2d = Tail(@)]
Hangup == fs.c2d = <<>> /\ fs.exit # "running"

DeviceWrites ==
  /\ fs.dout # <<>>
  /\ \/ /\ fs.exit = "running" /\ Len(fs.d2c) < AckRoom
        /\ fs' = [fs EXCEPT !.dout = Tail(@), !.d2c = Append(@, Head(fs.dout))]
     \/ fs.exit # "running" /\ fs' = [fs EXCEPT !.dout = <<>>, !.dev = "closed"]

SendSyncFail(s, pc) == [s EXCEPT !.dout = <<Msg("fail", 0)>>, !.dev = pc]

\* do_lstat_v1, do_stat_v2: what sync compares is size and modification time.
same(f) == f # 0 /\ fs.disk[f] = Kept(f)

\* do_send_v2: send_impl removes the old file; handle_send_file creates the new one.
do_send(s, f) ==
  LET u == IF Dry \/ f \in Links THEN s ELSE [s EXCEPT !.disk[f] = NoFile]
      r == [u EXCEPT !.df = f, !.dn = 0, !.dev = "recv"] IN
  {IF Dry \/ f \in Links THEN r ELSE [r EXCEPT !.disk[f] = [n |-> 0, mtime |-> "now"]]}
  \cup (IF s.faults < MaxFaults /\ ~Dry /\ f \notin Links THEN {SendSyncFail(Fault(r), "drain")} ELSE {})

do_stat(s, f) == [s EXCEPT !.dout = <<Stat(f, same(f))>>]

\* An entry for each file, then ID_DONE
do_list(s, i) ==
  LET d == Sources[i].files IN
  [s EXCEPT !.dout = [k \in DOMAIN d |-> Msg("dent", d[k])] \o <<Msg("done", 0)>>]

do_recv(s, f) == [s EXCEPT !.df = f, !.dn = 0, !.dev = "sending"]

handle_sync_command ==
  /\ Device("idle")
  /\ \/ /\ fs.c2d # <<>>
        /\ LET m == Head(fs.c2d)
               s == Incoming(fs) IN
           \/ m.op \in {"stat", "lstat"} /\ fs' = do_stat(s, m.f)
           \/ m.op = "list" /\ fs' = do_list(s, m.f)
           \/ m.op = "send" /\ fs' \in do_send(s, m.f)
           \/ m.op = "recv" /\ fs' = do_recv(s, m.f)
           \/ m.op = "quit" /\ fs' = [s EXCEPT !.dev = "closed"]
           \/ m.op \in {"data", "done"} /\ fs' = SendSyncFail(s, "closed")      \* unknown command
     \/ Hangup /\ fs' = [fs EXCEPT !.dev = "closed"]

\* handle_send_file_data and the end of handle_send_file: the last message
\* is acknowledged before send_impl sets the time stamp.
Written(s) == IF Dry THEN s
              ELSE IF s.df \in Links THEN [s EXCEPT !.disk[s.df] = [n |-> Size[s.df], mtime |-> "now"]]
              ELSE [s EXCEPT !.disk[s.df].n = @ + 1]

handle_send_file_data ==
  /\ Device("recv")
  /\ LET bad == IF fs.df \in Links THEN "closed" ELSE "drain" IN
     \/ /\ fs.c2d # <<>>
        /\ LET m == Head(fs.c2d)
               s == Incoming(fs) IN
           \/ m.op = "data" /\ fs' = Written(s)
           \/ m.op = "data" /\ s.faults < MaxFaults /\ ~Dry /\ fs' = SendSyncFail(Fault(s), bad)
           \/ m.op = "done" /\ fs' = [s EXCEPT !.dout = <<Msg("okay", s.df)>>, !.dev = "touch"]
           \/ m.op = "done" /\ s.faults < MaxFaults /\ s.df \notin Links /\ fs' = SendSyncFail(Fault(s), bad)
           \/ m.op \notin {"data", "done"} /\ fs' = SendSyncFail(s, bad)
     \/ Hangup /\ fs' = [fs EXCEPT !.dev = bad]

touch_early ==
  /\ Device("recv") /\ fs.disk[fs.df].mtime # "local"
  /\ fs' = [fs EXCEPT !.disk[fs.df].mtime = IF @ = "none" THEN @ ELSE "local"]

\* lutimes at the end of send_impl.
send_impl ==
  /\ Device("touch")
  /\ fs' = [fs EXCEPT !.disk[fs.df].mtime = IF @ = "none" THEN @ ELSE "local", !.dev = "idle"]

\* The `fail:` label: read and throw away ID_DATA, then remove the file.
DrainNoUnlink ==
  /\ Device("drain")
  /\ \/ /\ fs.c2d # <<>>
        /\ fs' = IF Head(fs.c2d).op = "data" THEN Incoming(fs) ELSE [Incoming(fs) EXCEPT !.dev = "closed"]
     \/ Hangup /\ fs' = [fs EXCEPT !.dev = "closed"]

Drain ==
  /\ Device("drain")
  /\ LET end(s) == [s EXCEPT !.dev = "closed", !.disk[s.df] = IF Dry THEN @ ELSE NoFile] IN
     \/ fs.c2d # <<>> /\ fs' = IF Head(fs.c2d).op = "data" THEN Incoming(fs) ELSE end(Incoming(fs))
     \/ Hangup /\ fs' = end(fs)

recv_impl ==
  /\ Device("sending")
  /\ \/ /\ fs.dn < Size[fs.df]
        /\ fs' = [fs EXCEPT !.dout = <<Msg("data", fs.df)>>, !.dn = @ + 1]
     \/ /\ fs.dn = Size[fs.df]
        /\ fs' = [fs EXCEPT !.dout = <<Msg("done", fs.df)>>, !.dev = "idle"]
     \/ fs.faults < MaxFaults /\ fs' = SendSyncFail(Fault(fs), "closed")

DeviceSteps == \/ DeviceWrites \/ handle_sync_command \/ handle_send_file_data
               \/ send_impl \/ Drain \/ recv_impl

Over == fs.exit # "running" /\ fs.dev = "closed" /\ fs.dout = <<>>
Next == ClientSteps \/ DeviceSteps \/ (Over /\ UNCHANGED fs)

Spec == Init /\ [][Next]_fs

(***************************************************************************)
(* Properties.                                                             *)
(***************************************************************************)

\* Type invariant of the connection record.
TypeOK ==
  /\ fs.exit \in {"running", "ok", "failed", "fatal"}
  /\ fs.dev \in {"idle", "recv", "touch", "drain", "sending", "closed"}
  /\ Len(fs.c2d) <= Room /\ Len(fs.d2c) <= AckRoom
  /\ fs.copied \subseteq Files /\ fs.skip \subseteq Files /\ fs.unlisted \subseteq Files
  /\ \A f \in Files : fs.disk[f].n \in -1 .. Size[f] + 1 /\ fs.local[f] \in -1 .. Size[f]

\* The client and the service never both block in a write: reading the
\* acknowledgements once max_deferred_acks are outstanding leaves the service
\* room for every response it still owes.
NotStuck == ~ /\ fs.exit = "running" /\ fs.dev # "closed"
              /\ fs.out # <<>> /\ Len(fs.c2d) = Room
              /\ fs.dout # <<>> /\ Len(fs.d2c) = AckRoom

\* An acknowledgement is counted for the file it answers: a file reported as
\* copied is complete at its destination, whatever was pipelined around it.
CopiedIsComplete ==
  \A f \in fs.copied : IF Push THEN Dry \/ fs.disk[f].n = Size[f] ELSE fs.local[f] = Size[f]

\* adb exits with success only when every file of every source was copied or
\* found unchanged, but for what a directory's list was built without: an entry
\* that cannot be examined, a subdirectory that cannot be opened and a link that
\* cannot be followed are reported and do not fail the command
\* (file_sync_client.cpp:1308, 1332, 1586).
SuccessIsComplete ==
  fs.exit = "ok" => \A i \in DOMAIN Sources : \A k \in DOMAIN Sources[i].files :
                       Sources[i].files[k] \in fs.copied \cup fs.skip \cup fs.unlisted

\* A file on the device whose modification time is the local file's holds the
\* local file's contents: adb push --sync and adb sync skip a file on the
\* strength of that, so a failed transfer must not leave it behind.
TimestampIsTruthful ==
  \A f \in Files : fs.disk[f].mtime = "local" => fs.disk[f].n = Size[f]

\* When the service has closed, no half-written file is left on the device,
\* and when the client has gone none is left on the host.
NoHalfFile ==
  /\ (fs.dev = "closed" /\ fs.dout = <<>> /\ Push) =>
        \A f \in Files : fs.disk[f] = NoFile \/ fs.disk[f].n >= Size[f]
  /\ (fs.exit \in {"ok", "failed"} /\ ~Push) => \A f \in Files : fs.local[f] \in {-1, Size[f]}

\* FinishStat only ever reads the answer to a stat request: a response of
\* another request in its place is the client's LOG(FATAL) "protocol fault".
StatReadsStat == fs.exit # "fatal"

=============================================================================
