------------------------------ MODULE Sideload ------------------------------
(* "adb sideload" and "adb rescue" (client/commandline.cpp): the client      *)
(* serves blocks of a package in the order in which the device asks for      *)
(* them, or sends all of it to an old device.  minadbd is external.          *)
EXTENDS Integers, Sequences
CONSTANTS
    Size,           \* bytes of the package, which are numbered
    BlockSize,      \* SIDELOAD_HOST_BLOCK_SIZE
    MaxInt,         \* the largest package for the old way
    Rescue,         \* rescue_mode
    MaxRequests     \* blocks that the device asks for

VARIABLE sd

Package == [i \in 1..Size |-> i]
Least(a, b) == IF a < b THEN a ELSE b
Cut(from, n) == SubSeq(Package, from + 1, from + n)
BlockLength(b) == Least(BlockSize, Size - b * BlockSize)

(* pos: the offset of package_fd; length: the file as it is now, which may   *)
(* shrink; down: bytes on their way to the device; want: the block that the  *)
(* device waits for, or -1.                                                  *)
Init ==
    sd = [pc |-> "connect", pos |-> 0, length |-> Size, up |-> <<>>, down |-> <<>>, want |-> -1,
          asked |-> 0, got |-> {}, all |-> <<>>, said |-> "", xfer |-> 0, ret |-> "none"]
Return(r) == [sd EXCEPT !.pc = "end", !.ret = r]

(* adb_sideload_install: the connection, or the old way; then a loop.        *)
adb_connect ==
    /\ sd.pc = "connect"
    /\ \/ sd' = [sd EXCEPT !.pc = "serve"]
       \/ sd' = IF Rescue \/ Size > MaxInt THEN Return("-1") ELSE [sd EXCEPT !.pc = "legacy connect"]
serve_in_order(block) ==
    LET to_write == BlockLength(block) IN
    IF block * BlockSize >= Size THEN Return("-1")
    ELSE IF sd.pos + to_write > sd.length THEN Return("-1")
    ELSE [sd EXCEPT !.pos = @ + to_write, !.down = @ \o Cut(sd.pos, to_write),
                    !.xfer = @ + to_write]
serve_past_end(block) ==
    LET offset == block * BlockSize
        to_write == BlockLength(block)
    IN  IF offset + to_write > sd.length THEN Return("-1")
        ELSE [sd EXCEPT !.pos = offset + to_write, !.down = @ \o Cut(offset, to_write),
                        !.xfer = @ + to_write]
serve_block(block) ==
    LET offset == block * BlockSize
        to_write == BlockLength(block)
    IN  IF offset >= Size THEN Return("-1")
        ELSE IF offset + to_write > sd.length THEN Return("-1")
        ELSE [sd EXCEPT !.pos = offset + to_write, !.down = @ \o Cut(offset, to_write),
                        !.xfer = @ + to_write]
read_command ==
    /\ sd.pc = "serve" /\ sd.up # <<>>
    /\ LET next == Head(sd.up)
           after == [sd EXCEPT !.up = Tail(@)]
       IN  sd' = CASE next.text = "DONEDONE" -> Return("0")
                   [] next.text = "FAILFAIL" -> Return("1")
                   [] next.text = "closed" -> Return("-1")
                   [] OTHER -> [serve_block(next.block) EXCEPT !.up = after.up]

(* adb_sideload_legacy: everything in chunks, then the status.               *)
legacy_connect ==
    /\ sd.pc = "legacy connect"
    /\ \/ sd' = [sd EXCEPT !.pc = "legacy", !.pos = 0]
       \/ sd' = Return("-1")
Xfer(rest) == Least(BlockSize, rest)
legacy_write ==
    /\ sd.pc = "legacy" /\ sd.pos < Size
    /\ LET xfer == Xfer(Size - sd.pos) IN
       sd' = IF sd.pos + xfer > sd.length THEN Return("-1")
             ELSE [sd EXCEPT !.pos = @ + xfer, !.down = @ \o Cut(sd.pos, xfer)]
legacy_status ==
    /\ sd.pc = "legacy" /\ sd.pos >= Size /\ sd.said # ""
    /\ sd' = Return(IF sd.said = "OKAY" THEN "0" ELSE "-1")

(* The device asks for a block, also for one again and for one past the end  *)
(* when the size is not what it was told, and reads it; or it is done.       *)
Say(text, block) == [text |-> text, block |-> block]
Ask(b) ==
    /\ sd.pc = "serve" /\ sd.want = -1 /\ sd.said = "" /\ sd.asked < MaxRequests
    /\ sd' = [sd EXCEPT !.want = b, !.asked = @ + 1, !.up = Append(@, Say("block", b))]
ReadBlock ==
    /\ sd.want >= 0 /\ sd.want * BlockSize < Size /\ sd.pc = "serve"
    /\ Len(sd.down) >= BlockLength(sd.want)
    /\ LET n == BlockLength(sd.want) IN
       sd' = [sd EXCEPT !.want = -1, !.got = @ \cup {<<sd.want, SubSeq(sd.down, 1, n)>>},
                        !.down = SubSeq(@, n + 1, Len(@))]
Finish ==
    /\ sd.pc = "serve" /\ sd.want = -1 /\ sd.said = ""
    /\ \E text \in {"DONEDONE", "FAILFAIL", "closed"} :
        sd' = [sd EXCEPT !.said = text, !.up = Append(@, Say(text, 0))]
LegacyRead ==
    /\ sd.pc = "legacy" /\ sd.down # <<>>
    /\ sd' = [sd EXCEPT !.all = @ \o sd.down, !.down = <<>>]
LegacySay ==
    /\ sd.pc = "legacy" /\ sd.said = "" /\ Len(sd.all) >= Size
    /\ \E text \in {"OKAY", "FAIL"} : sd' = [sd EXCEPT !.said = text]
Truncate ==
    /\ sd.length = Size
    /\ \E n \in 0..(Size - 1) : sd' = [sd EXCEPT !.length = n]

Blocks == 0..(Size \div BlockSize + 1)
Host == adb_connect \/ read_command \/ legacy_connect \/ legacy_write \/ legacy_status
Device == (\E b \in Blocks : Ask(b)) \/ ReadBlock \/ Finish \/ LegacyRead \/ LegacySay
Next == Host \/ Device \/ Truncate

-----------------------------------------------------------------------------
(* Type invariant.                                                           *)
TypeOK ==
    /\ sd.pos \in 0..Size /\ sd.xfer \in 0..(MaxRequests * BlockSize)
    /\ sd.ret \in {"none", "0", "1", "-1"}

(* What the device reads for a block is that block, in whatever order and    *)
(* however often it asks, the last block included, which is shorter; and     *)
(* success means that the device said so, the old way with all of the        *)
(* package (adb_sideload_install, adb_sideload_legacy).                      *)
BlocksAreServed ==
    /\ \A g \in sd.got : g[2] = Cut(g[1] * BlockSize, BlockLength(g[1]))
    /\ sd.ret = "0" => \/ sd.said = "DONEDONE"
                       \/ sd.said = "OKAY" /\ sd.all = Package
=============================================================================
