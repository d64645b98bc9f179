---------------------------- MODULE Incremental ----------------------------
(***************************************************************************)
(* Incremental installation: adb install --incremental builds a database   *)
(* of the files, sends the unsigned ones and leaves the signed ones to a   *)
(* server process of its own, which streams their blocks to the device in  *)
(* the order the device needs them (client/incremental.cpp,                *)
(* incremental_server.cpp).  The device side, the package manager behind   *)
(* the connection, is external: it asks for blocks and prints a verdict.   *)
(*                                                                         *)
(* A block is <<kind, file, index>>, where kind is "data", "tree" (of the  *)
(* hash tree) or "done" (the last message).  Files are numbered from 0, as *)
(* are their blocks.  What the device sends is a sequence of requests      *)
(* <<type, file, index>> and of characters <<"char", 0, 0>> of its output. *)
(***************************************************************************)
EXTENDS Integers, Sequences, FiniteSets

CONSTANTS Files,          \* the files of the command line: [signed, blocks, priority]
          HashesPerBlock, \* kHashesPerBlock
          PerIteration,   \* kPrefetchBlocksPerIteration
          ChunkBlocks,    \* how many blocks fit before the buffer is flushed
          Readahead,      \* blocks prefetched after a missing one (7)
          KeptBytes,      \* trailing characters that may begin a request (4)
          MaxMisses,      \* bound on the requests for missing blocks
          Verdict,        \* characters the package manager prints
          Unreadable,     \* blocks that cannot be read from their file
          StrayBit        \* what reading a vector of bits before its start yields

VARIABLE ic

\* A plausible slip: the files keep the order of the command line
build_database_unsorted == SelectSeq(Files, LAMBDA f : TRUE)

\* build_database: the signed files first, each group in its order
build_database == SelectSeq(Files, LAMBDA f : f.signed) \o SelectSeq(Files, LAMBDA f : ~f.signed)

\* What the server is given: the signed files, the position is the file id
served == SelectSeq(Files, LAMBDA f : f.signed)

Ids == 0 .. Len(served) - 1
Blocks(f) == served[f + 1].blocks
Hashes(n) == (n + HashesPerBlock - 1) \div HashesPerBlock
Leaves(f) == Hashes(Blocks(f))

\* The blocks of a hash tree, level by level: a file of one block has none
RECURSIVE verity_tree_blocks_for_file(_)
verity_tree_blocks_for_file(n) ==
    IF n <= 1 THEN 0 ELSE Hashes(n) + verity_tree_blocks_for_file(Hashes(n))

Nodes(f) == verity_tree_blocks_for_file(Blocks(f))

(* Type invariant. *)
TypeOK ==
    /\ ic.pc \in {"top", "read", "exit"} /\ ic.blocking \in BOOLEAN
    /\ ic.sentBlocks \in [Ids -> SUBSET (0 .. 8)] /\ ic.sentTree \in [Ids -> SUBSET (0 .. 8)]
    /\ ic.flushed \in 0 .. Len(ic.stream) /\ ic.doneSent \in BOOLEAN
    /\ ic.prefetched \subseteq Ids /\ ic.complete \in BOOLEAN /\ ic.misses \in 0 .. MaxMisses
    /\ ic.said \in 0 .. Verdict /\ ic.printed \in 0 .. Verdict + 1 /\ ic.closed \in BOOLEAN

Init ==
    ic = [pc |-> "top", blocking |-> FALSE, sentBlocks |-> [f \in Ids |-> {}],
          sentTree |-> [f \in Ids |-> {}], stream |-> <<>>, flushed |-> 0, doneSent |-> FALSE,
          prefetches |-> <<>>, prefetched |-> {}, complete |-> FALSE, buffer |-> <<>>,
          wire |-> <<>>, asked |-> {}, misses |-> 0, said |-> 0, printed |-> 0, closed |-> FALSE]

\* ------------------------------------------------------------------ sending

Flush(c) == [c EXCEPT !.flushed = Len(c.stream)]

\* Send: the buffer is flushed when asked to and when it is full
Send(c, block, flush) ==
    LET c1 == [c EXCEPT !.stream = Append(@, block)]
    IN IF flush \/ Len(c1.stream) - c1.flushed > ChunkBlocks THEN Flush(c1) ELSE c1

\* Tree blocks i .. n of a file, until one of them cannot be read
RECURSIVE SendTree(_, _, _, _)
SendTree(c, f, i, n) ==
    IF i > n THEN [ctx |-> c, ok |-> TRUE]
    ELSE IF <<"tree", f, i>> \in Unreadable THEN [ctx |-> c, ok |-> FALSE]
    ELSE SendTree([Send(c, <<"tree", f, i>>, FALSE) EXCEPT !.sentTree[f] = @ \cup {i}], f, i + 1, n)

\* SendTreeBlocksForDataBlock: the leaf, and the first time all that is above it.
\* A file of one block has no tree: its leaf is at -1, where the bit that is read
\* is anybody's and no block of the signature file can be.
SendTreeBlocksForDataBlock(c, f, i) ==
    LET above == Nodes(f) - Leaves(f)
        leaf  == above + i \div HashesPerBlock
        sent  == SendTree(c, f, leaf, leaf)
    IN IF leaf < 0 THEN [ctx |-> c, ok |-> StrayBit]
       ELSE IF leaf \in c.sentTree[f] THEN [ctx |-> c, ok |-> TRUE]
       ELSE IF ~sent.ok \/ above = 0 \/ 0 \in c.sentTree[f] THEN sent
       ELSE SendTree(sent.ctx, f, 0, above - 1)

\* What SendDataBlock skips: past the end, or sent before
Skipped(c, f, i) == i >= Blocks(f) \/ i \in c.sentBlocks[f]

\* A plausible slip: the hashes are sent after the data they are of
SendDataFirst(c, f, i, flush) ==
    IF Skipped(c, f, i) \/ <<"data", f, i>> \in Unreadable THEN [ctx |-> c, sent |-> FALSE]
    ELSE LET c1 == [Send(c, <<"data", f, i>>, flush) EXCEPT !.sentBlocks[f] = @ \cup {i}]
         IN [ctx |-> SendTreeBlocksForDataBlock(c1, f, i).ctx, sent |-> TRUE]

\* SendDataBlock: Sent, or Skipped or Error
SendDataBlock(c, f, i, flush) ==
    LET tree == SendTreeBlocksForDataBlock(c, f, i)
    IN IF Skipped(c, f, i) THEN [ctx |-> c, sent |-> FALSE]
       ELSE IF ~tree.ok \/ <<"data", f, i>> \in Unreadable THEN [ctx |-> tree.ctx, sent |-> FALSE]
       ELSE [ctx |-> [Send(tree.ctx, <<"data", f, i>>, flush) EXCEPT !.sentBlocks[f] = @ \cup {i}],
             sent |-> TRUE]

\* ------------------------------------------------------- prefetching

Priority(p) == served[p.file + 1].priority

\* PrefetchState::done
done(p) == p.pri >= Len(Priority(p)) /\ p.index >= p.end

\* The blocks of priority, then those of the range, left of them in a round
RECURSIVE RunPrefetching(_, _)
RunPrefetching(c, left) ==
    IF c.prefetches = <<>> THEN c
    ELSE LET p   == Head(c.prefetches)
             hot == p.pri < Len(Priority(p))
             r   == SendDataBlock([c EXCEPT !.prefetches[1] = IF hot THEN [p EXCEPT !.pri = @ + 1]
                                                              ELSE [p EXCEPT !.index = @ + 1]],
                                  p.file, IF hot THEN Priority(p)[p.pri + 1] ELSE p.index, FALSE)
         IN IF done(p) THEN RunPrefetching([c EXCEPT !.prefetches = Tail(@)], left)
            ELSE IF left = 0 THEN c
            ELSE RunPrefetching(r.ctx, IF r.sent THEN left - 1 ELSE left)

Prefetch(f, i, n) ==
    [file |-> f, index |-> i, pri |-> 0,
     end |-> IF i + n < Blocks(f) THEN i + n ELSE Blocks(f)]

\* ---------------------------------------------------------------- the server

\* A plausible slip: the device is told that everything is sent too early
AllSentButOne(c) == \A f \in Ids : Cardinality(c.sentBlocks[f]) + 1 >= Blocks(f)

AllSent(c) == \A f \in Ids : Cardinality(c.sentBlocks[f]) = Blocks(f)

\* A plausible slip: the buffer is not flushed before the server waits
TopUnflushed ==
    /\ ic.pc = "top"
    /\ LET blocking == ic.prefetches = <<>>
           all  == ~ic.doneSent /\ blocking /\ AllSent(ic)
           c1   == IF all THEN [Send(ic, <<"done", 0, 0>>, FALSE) EXCEPT !.doneSent = TRUE] ELSE ic
       IN ic' = [c1 EXCEPT !.pc = "read", !.blocking = blocking]

\* The top of the loop: the last message once everything is sent, and no
\* block is left in the buffer before the server waits
Top ==
    /\ ic.pc = "top"
    /\ LET blocking == ic.prefetches = <<>>
           all  == ~ic.doneSent /\ blocking /\ AllSent(ic)
           c1   == IF all THEN [Send(ic, <<"done", 0, 0>>, TRUE) EXCEPT !.doneSent = TRUE] ELSE ic
       IN ic' = [(IF blocking THEN Flush(c1) ELSE c1) EXCEPT !.pc = "read", !.blocking = blocking]

IsRequest(x) == x[1] # "char"

\* The first request of the buffer, or its length plus one
FirstRequest(b) ==
    IF \E k \in 1 .. Len(b) : IsRequest(b[k])
    THEN CHOOSE k \in 1 .. Len(b) : IsRequest(b[k]) /\ \A j \in 1 .. k - 1 : ~IsRequest(b[j])
    ELSE Len(b) + 1

\* Serve, the switch on the type of the request, and a round of prefetching
Handle(c, r) ==
    LET f  == r[2]
        i  == r[3]
        c1 == CASE r[1] = "complete" -> [c EXCEPT !.complete = TRUE]
                [] r[1] = "missing"  ->
                       IF ~SendDataBlock(c, f, i, TRUE).sent THEN SendDataBlock(c, f, i, TRUE).ctx
                       ELSE [SendDataBlock(c, f, i, TRUE).ctx EXCEPT
                                !.prefetches = <<Prefetch(f, i + 1, Readahead)>> \o @]
                [] r[1] = "prefetch" ->
                       IF f \in c.prefetched THEN c
                       ELSE [c EXCEPT !.prefetched = @ \cup {f},
                                      !.prefetches = Append(@, Prefetch(f, 0, Blocks(f)))]
                [] OTHER -> c
    IN IF r[1] = "destroy" THEN [c EXCEPT !.pc = "exit"]
       ELSE [RunPrefetching(c1, PerIteration) EXCEPT !.pc = "top"]

\* Characters passed on to the terminal, counted up to one more than there are
Output(c, n) == [c EXCEPT !.printed = IF @ + n > Verdict THEN Verdict + 1 ELSE @ + n]

\* SkipToRequest when the buffer holds a request: what precedes it is output
ReadRequest ==
    /\ ic.pc = "read"
    /\ LET k == FirstRequest(ic.buffer)
       IN /\ k <= Len(ic.buffer)
          /\ ic' = Handle([Output(ic, k - 1) EXCEPT !.buffer = SubSeq(@, k + 1, Len(@))],
                          ic.buffer[k])

\* What of a buffer without a request is output at once
Surplus(b) == IF Len(b) > KeptBytes THEN Len(b) - KeptBytes ELSE 0

\* ... when it does not, more is read from the device
ReadMore ==
    /\ ic.pc = "read" /\ FirstRequest(ic.buffer) > Len(ic.buffer) /\ ic.wire # <<>>
    /\ LET n == Surplus(ic.buffer)
       IN \E k \in 1 .. Len(ic.wire) :
            ic' = [Output(ic, n) EXCEPT
                             !.buffer = SubSeq(@, n + 1, Len(@)) \o SubSeq(ic.wire, 1, k),
                             !.wire = SubSeq(@, k + 1, Len(@))]

\* ... when there is none, or none within the timeout, the buffer is output as
\* it is (and kept) and the server goes on, or leaves if the device has it all
PollTimesOut ==
    /\ ic.pc = "read" /\ FirstRequest(ic.buffer) > Len(ic.buffer) /\ ic.wire = <<>> /\ ~ic.closed
    /\ LET c1 == [Output(ic, Len(ic.buffer)) EXCEPT
                    !.buffer = SubSeq(@, Surplus(@) + 1, Len(@))]
       IN ic' = IF ic.blocking /\ ic.complete THEN [c1 EXCEPT !.pc = "exit"]
                ELSE [RunPrefetching(c1, PerIteration) EXCEPT !.pc = "top"]

\* ... and when the connection is closed the server leaves
Disconnected ==
    /\ ic.pc = "read" /\ FirstRequest(ic.buffer) > Len(ic.buffer) /\ ic.wire = <<>> /\ ic.closed
    /\ ic' = [Output(ic, Len(ic.buffer)) EXCEPT !.pc = "exit"]

\* ---------------------------------------------------------------- the device

DevicePrefetch ==
    /\ ~ic.closed
    /\ \E f \in Ids :
        /\ <<"prefetch", f, 0>> \notin ic.asked
        /\ ic' = [ic EXCEPT !.wire = Append(@, <<"prefetch", f, 0>>),
                            !.asked = @ \cup {<<"prefetch", f, 0>>}]

DeviceMisses ==
    /\ ~ic.closed /\ ic.misses < MaxMisses
    /\ \E f \in Ids : \E i \in 0 .. Blocks(f) - 1 :
        ic' = [ic EXCEPT !.wire = Append(@, <<"missing", f, i>>), !.misses = @ + 1,
                         !.asked = @ \cup {<<"missing", f, i>>}]

DevicePrints ==
    /\ ~ic.closed /\ ic.said < Verdict
    /\ ic' = [ic EXCEPT !.wire = Append(@, <<"char", 0, 0>>), !.said = @ + 1]

\* The device has been told that everything is sent
DeviceComplete ==
    /\ ~ic.closed /\ <<"complete", 0, 0>> \notin ic.asked
    /\ \E k \in 1 .. ic.flushed : ic.stream[k][1] = "done"
    /\ ic' = [ic EXCEPT !.wire = Append(@, <<"complete", 0, 0>>),
                        !.asked = @ \cup {<<"complete", 0, 0>>}]

DeviceDestroys ==
    /\ ~ic.closed /\ <<"destroy", 0, 0>> \notin ic.asked
    /\ ic' = [ic EXCEPT !.wire = Append(@, <<"destroy", 0, 0>>),
                        !.asked = @ \cup {<<"destroy", 0, 0>>}]

DeviceCloses ==
    /\ ~ic.closed /\ ic.said = Verdict
    /\ ic' = [ic EXCEPT !.closed = TRUE]

Server == Top \/ ReadRequest \/ ReadMore \/ PollTimesOut \/ Disconnected

Next ==
    \/ Server
    \/ DevicePrefetch \/ DeviceMisses \/ DevicePrints \/ DeviceComplete
    \/ DeviceDestroys \/ DeviceCloses
    \/ (ic.pc = "exit" /\ UNCHANGED ic)

Spec == Init /\ [][Next]_ic

\* --------------------------------------------------------------- properties

\* The device and the server call the signed files by the same ids, and the
\* unsigned files follow in the order of the command line (build_database, and
\* the CHECK_EQ of start_inc_server_and_stream_signed_files).
IdsAgree ==
    /\ \A f \in Ids : build_database[f + 1] = served[f + 1]
    /\ SubSeq(build_database, Len(served) + 1, Len(Files)) = SelectSeq(Files, LAMBDA f : ~f.signed)

\* The blocks of a tree above its leaves
Above(f) == 0 .. Nodes(f) - Leaves(f) - 1

\* Every block is sent once, whatever the device asks for and however its
\* requests cross the prefetching, and after the blocks of the hash tree it is
\* verified with (SendDataBlock, SendTreeBlocksForDataBlock). Excepted are the
\* blocks above the leaves where one of them cannot be read: the leaf counts as sent
\* by then, and the next data under it goes out without them
\* (incremental_server.cpp:380).
SentOnceAfterTree ==
    /\ \A j, k \in 1 .. Len(ic.stream) : ic.stream[j] = ic.stream[k] => j = k
    /\ \A k \in 1 .. Len(ic.stream) :
        ic.stream[k][1] = "data" =>
            LET f    == ic.stream[k][2]
                leaf == Nodes(f) - Leaves(f) + ic.stream[k][3] \div HashesPerBlock
                top  == IF \E t \in Above(f) : <<"tree", f, t>> \in Unreadable THEN {} ELSE Above(f)
            IN \A t \in (top \cup {leaf}) \cap 0 .. Nodes(f) - 1 :
                \E j \in 1 .. k - 1 : ic.stream[j] = <<"tree", f, t>>

\* The server never waits for the device with blocks in its buffer
\* (Serve: "let's flush whatever is still unsent").
NothingHeldWhileWaiting ==
    ic.pc = "read" /\ ic.blocking => ic.flushed = Len(ic.stream)

\* The message that everything is sent is the last one and nothing is missing
\* (Serve, SendDone).
DoneIsLast ==
    ic.doneSent => /\ ic.stream[Len(ic.stream)][1] = "done"
                   /\ \A f \in Ids : ic.sentBlocks[f] = 0 .. Blocks(f) - 1
=============================================================================
