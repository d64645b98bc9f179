------------------------------ MODULE IOVectors ------------------------------
(***************************************************************************)
(* IOVector, the chain of blocks in which sockets and connections keep the *)
(* bytes they have not yet used, against the byte string it stands for.    *)
(*                                                                         *)
(* Source: types.h, types.cpp.  A block is its bytes and its capacity; a   *)
(* block that was moved out stays in the chain as an empty one.  Bytes are *)
(* numbered in the order in which they were appended.                      *)
(***************************************************************************)
EXTENDS Naturals, SequencesExt

CONSTANTS
    BlockSizes,   \* sizes of the blocks appended
    MaxBytes,     \* bound: bytes appended
    TrimAfter     \* the 4 of pop_front_block: used blocks kept before they are erased

VARIABLE io     \* the vector, its length in bytes so far, the bytes it stands for,
                \* and what the last take_front returned and should have returned

Block(bytes) == [bytes |-> bytes, capacity |-> Len(bytes)]
Moved == Block(<<>>)

(* Type invariant. *)
TypeOK ==
    /\ io.v.chain_length \in 0..MaxBytes /\ io.v.begin_offset \in 0..MaxBytes
    /\ io.v.start_index \in 0..MaxBytes
    /\ io.v.chain \in Seq([bytes : Seq(1..MaxBytes), capacity : 0..MaxBytes])
    /\ io.bytes \in Seq(1..MaxBytes) /\ io.appended \in 0..MaxBytes
    /\ io.taken \in Seq(1..MaxBytes) /\ io.wanted \in Seq(1..MaxBytes)

EmptyVector == [chain |-> <<>>, chain_length |-> 0, begin_offset |-> 0, start_index |-> 0]

Size(v) == v.chain_length - v.begin_offset

\* chain_[start_index_], with the indices of the code
First(v) == v.chain[v.start_index + 1]
FirstLeft(v) == Len(First(v).bytes) - v.begin_offset

Drop(s, n) == SubSeq(s, n + 1, Len(s))
Take(s, n) == SubSeq(s, 1, n)

\* iterate_blocks: also what iovecs and the copying coalesce see
Bytes(v) ==
    IF Size(v) = 0 THEN <<>>
    ELSE Drop(FlattenSeq([i \in 1..Len(v.chain) - v.start_index |->
                             v.chain[v.start_index + i].bytes]), v.begin_offset)

AppendBlock(v, b) ==
    IF Len(b.bytes) = 0 THEN v
    ELSE [v EXCEPT !.chain = Append(@, b), !.chain_length = @ + Len(b.bytes)]

TrimChainFront(v) == [v EXCEPT !.chain = Drop(@, v.start_index), !.start_index = 0]

PopFrontBlock(v) ==
    LET w == [v EXCEPT !.chain_length = @ - Len(First(v).bytes), !.begin_offset = 0,
                       !.chain[v.start_index + 1] = Moved, !.start_index = @ + 1]
        half == Len(v.chain) \div 2
    IN  IF w.start_index > (IF half > TrimAfter THEN half ELSE TrimAfter)
        THEN TrimChainFront(w) ELSE w

RECURSIVE DropBlocks(_, _)
DropBlocks(v, len) ==
    IF len = 0 THEN v
    ELSE IF FirstLeft(v) <= len THEN DropBlocks(PopFrontBlock(v), len - FirstLeft(v))
    ELSE [v EXCEPT !.begin_offset = @ + len]

DropFront(v, len) == IF len = Size(v) THEN EmptyVector ELSE DropBlocks(v, len)

\* the whole blocks that go to res; what is left of len
RECURSIVE TakeBlocks(_, _, _)
TakeBlocks(v, res, len) ==
    IF FirstLeft(v) > len THEN [v |-> v, res |-> res, len |-> len]
    ELSE LET w == [v EXCEPT !.chain_length = @ - Len(First(v).bytes), !.begin_offset = 0,
                            !.chain[v.start_index + 1] = Moved, !.start_index = @ + 1]
             r == IF FirstLeft(v) = 0 THEN res
                  ELSE LET a == AppendBlock(res, First(v))
                       IN  IF v.begin_offset = 0 THEN a
                           ELSE [a EXCEPT !.begin_offset = v.begin_offset]
         IN  TakeBlocks(w, r, len - FirstLeft(v))

\* the split that leaves the moved part in the length of the chain
SplitKeepsLength(t) ==
    LET b == First(t.v)
        at == t.v.start_index + 1
    IN  IF t.len = 0 THEN t
        ELSE IF t.v.begin_offset # 0 \/ t.len < Len(b.bytes) \div 2
        THEN [t EXCEPT !.res = AppendBlock(@, Block(SubSeq(b.bytes, t.v.begin_offset + 1,
                                                           t.v.begin_offset + t.len))),
                       !.v.begin_offset = @ + t.len]
        ELSE [t EXCEPT !.res = AppendBlock(@, [b EXCEPT !.bytes = Take(@, t.len)]),
                       !.v.chain[at] = Block(Drop(b.bytes, t.len))]

\* the block that is split: its front is copied out, or its tail is copied back in
Split(t) ==
    LET b == First(t.v)
        at == t.v.start_index + 1
    IN  IF t.len = 0 THEN t
        ELSE IF t.v.begin_offset # 0 \/ t.len < Len(b.bytes) \div 2
        THEN [t EXCEPT !.res = AppendBlock(@, Block(SubSeq(b.bytes, t.v.begin_offset + 1,
                                                           t.v.begin_offset + t.len))),
                       !.v.begin_offset = @ + t.len]
        ELSE [t EXCEPT !.res = AppendBlock(@, [b EXCEPT !.bytes = Take(@, t.len)]),
                       !.v.chain[at] = Block(Drop(b.bytes, t.len)),
                       !.v.chain_length = @ - t.len]

TakeFront(v, len) ==
    IF len = 0 THEN [v |-> v, res |-> EmptyVector]
    ELSE IF len = Size(v) THEN [v |-> EmptyVector, res |-> v]
    ELSE Split(TakeBlocks(v, EmptyVector, len))

\* trim_front: the front of the first block is moved down over what was used
TrimFront(v) ==
    IF (v.begin_offset = 0 /\ v.start_index = 0) \/ v.chain = <<>> THEN v
    ELSE TrimChainFront(
        IF v.begin_offset = Len(First(v).bytes)
        THEN [v EXCEPT !.start_index = @ + 1, !.chain_length = @ - v.begin_offset,
                       !.begin_offset = 0]
        ELSE [v EXCEPT !.chain[v.start_index + 1].bytes = Drop(@, v.begin_offset),
                       !.chain_length = @ - v.begin_offset, !.begin_offset = 0])

\* coalesce that forgets the offset of the first block when it is the only one
CoalesceWholeBlock(v) ==
    IF Size(v) = 0 THEN <<>>
    ELSE IF Len(v.chain) = v.start_index + 1 THEN First(v).bytes
    ELSE Bytes(v)

\* the destructive coalesce: a block of the chain is used for the result if it can be
Coalesce(v) ==
    LET n == Len(v.chain)
        rest == FlattenSeq([i \in 1..n - v.start_index - 1 |-> v.chain[v.start_index + 1 + i].bytes])
    IN  IF Size(v) = 0 THEN <<>>
        ELSE IF FirstLeft(v) = 0 /\ n = v.start_index + 2 THEN v.chain[n].bytes
        ELSE IF n = v.start_index + 1 THEN Drop(v.chain[n].bytes, v.begin_offset)
        ELSE IF First(v).capacity >= Size(v) THEN Drop(First(v).bytes, v.begin_offset) \o rest
        ELSE Bytes(v)

Init ==
    io = [v |-> EmptyVector, bytes |-> <<>>, appended |-> 0, taken |-> <<>>, wanted |-> <<>>]

\* a block whose capacity exceeds its size is one that was resized after a short read
DoAppend ==
    \E n \in BlockSizes, spare \in {0, 1} :
        LET new == [i \in 1..n |-> io.appended + i] IN
        /\ io.appended + n <= MaxBytes
        /\ io' = [io EXCEPT !.v = AppendBlock(@, [bytes |-> new, capacity |-> n + spare]),
                            !.bytes = @ \o new, !.appended = @ + n]

DoDropFront ==
    \E len \in 1..Size(io.v) :
        io' = [io EXCEPT !.v = DropFront(@, len), !.bytes = Drop(@, len)]

DoTakeFront ==
    \E len \in 1..Size(io.v) :
        LET t == TakeFront(io.v, len) IN
        io' = [io EXCEPT !.v = t.v, !.bytes = Drop(@, len), !.taken = Coalesce(t.res),
                         !.wanted = Take(io.bytes, len)]

DoTrimFront == io' = [io EXCEPT !.v = TrimFront(@)]

Next == DoAppend \/ DoDropFront \/ DoTakeFront \/ DoTrimFront

Spec == Init /\ [][Next]_io

-----------------------------------------------------------------------------
\* The vector always holds the bytes appended and not yet dropped or taken, in
\* order, and its size() is their number: the offsets, the length of the chain
\* and the used blocks that are still in it agree after any sequence of operations.
HoldsItsBytes == Bytes(io.v) = io.bytes /\ Size(io.v) = Len(io.bytes)

\* take_front returns the bytes at the front, and the coalesce that its callers
\* apply to the result keeps them, whichever block it reuses.
TakesTheFront == io.taken = io.wanted
=============================================================================
