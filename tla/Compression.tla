---------------------------- MODULE Compression -----------------------------
(* The encoders and decoders of compression_utils.h between the loops of the *)
(* file transfer: SendLargeFile or recv_impl on the sending side and         *)
(* handle_send_file_data or sync_recv_v2 on the other.                       *)
(*                                                                           *)
(* A file is the sequence 1..FileLen.  A compressed unit is a record         *)
(* [units, end]: the bytes of the file it stands for, and whether it ends    *)
(* the stream.  The compression libraries are external: they take input,     *)
(* keep it for as long as they like and emit it when they like.              *)
EXTENDS Integers, Sequences, SequencesExt
CONSTANTS
    Kind,           \* CompressionType: "None", "Brotli", "LZ4", "Zstd"
    FileLen,
    SYNC_DATA_MAX,  \* what is read from the file and sent in a packet at most
    PerUnit,        \* bytes of the file that a compressed unit stands for at most
    MaxInputSize    \* what LZ4Encoder compresses at once

VARIABLE cz

Unit(units) == [units |-> units, end |-> FALSE]
EndUnit == [units |-> <<>>, end |-> TRUE]
Upto(n, s) == SubSeq(s, 1, IF n < Len(s) THEN n ELSE Len(s))
After(n, s) == SubSeq(s, n + 1, Len(s))
Squeeze(s) == [i \in 1..((Len(s) + PerUnit - 1) \div PerUnit) |->
                  Unit(Upto(PerUnit, After((i - 1) * PerUnit, s)))]

(* What ends a stream: LZ4 writes an end mark, the others mark their last    *)
(* block.                                                                    *)
Ending(units) == IF Kind = "LZ4" \/ units = <<>> THEN Append(units, EndUnit)
                 ELSE [units EXCEPT ![Len(units)].end = TRUE]

(* IOVector: the blocks in order, none of them empty.                        *)
append(v, block) == IF block = <<>> THEN v ELSE Append(v, block)
front(v) == IF v = <<>> THEN <<>> ELSE Head(v)
drop_front(v, n) == IF v = <<>> \/ n = 0 THEN v ELSE IF n = Len(Head(v)) THEN Tail(v)
                    ELSE <<After(n, Head(v))>> \o Tail(v)
bytes(v) == FlattenSeq(v)
take(v, n) == LET rest == After(n, bytes(v)) IN IF rest = <<>> THEN <<>> ELSE <<rest>>

-----------------------------------------------------------------------------
(* The libraries.  e: [in, finished, held, pend, ended, out]: the input      *)
(* buffer, what the library has taken and not emitted, what it has emitted   *)
(* and not been able to write, and the output not yet handed out.            *)

(* BrotliEncoderCompressStream, ZSTD_compressStream2: the outcomes of a call *)
(* with this much room.                                                      *)
CompressStream(e, room) ==
    IF Len(e.pend) >= room /\ e.pend # <<>>
    THEN {[e EXCEPT !.out = @ \o Upto(room, e.pend), !.pend = After(room, e.pend)]}
    ELSE LET held == e.held \o front(e.in)
             emit(all) == IF e.finished /\ ~e.ended THEN Ending(Squeeze(held))
                          ELSE IF all THEN Squeeze(held) ELSE <<>>
         IN  {LET new == e.pend \o emit(all) IN
              [e EXCEPT !.in = drop_front(@, Len(front(@))), !.held = IF all THEN <<>> ELSE held,
                        !.ended = @ \/ e.finished,
                        !.out = @ \o Upto(room, new), !.pend = After(room, new)]
              : all \in IF e.finished THEN {TRUE} ELSE BOOLEAN}

(* BrotliDecoderDecompressStream, LZ4F_decompress, ZSTD_decompressStream:    *)
(* units are taken from the block until the output is full; lazily, as LZ4   *)
(* and Zstd may, some are left although there is room.                       *)
DecompressStream(d, block, room, lazy) ==
    LET step[n \in 0..Len(block)] == IF n = 0 THEN d.pend ELSE step[n - 1] \o block[n].units
        full == {n \in 0..Len(block) : Len(step[n]) > room}
        most == IF full = {} THEN Len(block) ELSE CHOOSE n \in full : \A m \in full : n <= m
        takes == IF lazy /\ most > 0 THEN 1..most ELSE {most}
    IN  {[n |-> n, out |-> Upto(room, step[n]), pend |-> After(room, step[n]),
          end |-> d.end \/ \E i \in 1..n : block[i].end] : n \in takes}

-----------------------------------------------------------------------------
(* Encode: the outcomes [e, result, output].                                 *)
Res(e, result, output) == [e |-> e, result |-> result, output |-> output]

NullEncode(e) ==
    LET all == bytes(e.in)
        len == IF Len(all) < SYNC_DATA_MAX THEN Len(all) ELSE SYNC_DATA_MAX
        rest == take(e.in, len)
    IN  {Res([e EXCEPT !.in = rest],
             IF rest # <<>> THEN "MoreOutput" ELSE IF e.finished THEN "Done" ELSE "NeedInput",
             [i \in 1..len |-> Unit(<<all[i]>>)])}

(* BrotliEncoder fills a block of its own over several calls.                *)
BrotliEncode(e) ==
    {LET c == [r EXCEPT !.out = <<>>] IN
     IF r.ended /\ r.pend = <<>> THEN Res(c, "Done", r.out)
     ELSE IF Len(r.out) = SYNC_DATA_MAX THEN Res(c, "MoreOutput", r.out)
     ELSE Res(r, "NeedInput", <<>>)
     : r \in CompressStream(e, SYNC_DATA_MAX - Len(e.out))}

(* LZ4Encoder collects what it compressed and hands out whole blocks.        *)
lz4_output_ready(e) == Len(e.out) >= SYNC_DATA_MAX \/ e.ended
lz4_all_at_once(e) ==
    {LET in == Upto(MaxInputSize, front(e.in))
         held == e.held \o in
         c == [e EXCEPT !.in = drop_front(@, Len(in)), !.ended = e.finished,
                        !.held = IF all THEN <<>> ELSE held,
                        !.out = @ \o (IF e.finished /\ ~e.ended THEN Ending(Squeeze(held))
                                      ELSE IF all THEN Squeeze(held) ELSE <<>>)]
     IN  IF in # <<>> /\ e.ended THEN Res(e, "Error", <<>>)
         ELSE IF ~lz4_output_ready(c) THEN Res(c, "NeedInput", <<>>)
         ELSE Res([c EXCEPT !.out = <<>>], IF c.ended THEN "Done" ELSE "MoreOutput", c.out)
     : all \in IF e.finished THEN {TRUE} ELSE BOOLEAN}
LZ4Encode(e) ==
    {LET in == Upto(MaxInputSize, front(e.in))
         held == e.held \o in
         c == [e EXCEPT !.in = drop_front(@, Len(in)), !.ended = e.finished,
                        !.held = IF all THEN <<>> ELSE held,
                        !.out = @ \o (IF e.finished /\ ~e.ended THEN Ending(Squeeze(held))
                                      ELSE IF all THEN Squeeze(held) ELSE <<>>)]
         ready == lz4_output_ready(c)
         t == IF ready THEN [c EXCEPT !.out = After(SYNC_DATA_MAX, c.out)] ELSE c
     IN  IF in # <<>> /\ e.ended THEN Res(e, "Error", <<>>)
         ELSE Res(t, IF t.ended /\ t.out = <<>> THEN "Done"
                     ELSE IF lz4_output_ready(t) THEN "MoreOutput" ELSE "NeedInput",
                  IF ready THEN Upto(SYNC_DATA_MAX, c.out) ELSE <<>>)
     : all \in IF e.finished THEN {TRUE} ELSE BOOLEAN}

ZstdEncode(e) ==
    {LET t == [r EXCEPT !.out = <<>>] IN
     Res(t, IF r.pend # <<>> THEN "MoreOutput"
            ELSE IF e.finished THEN IF r.in # <<>> THEN "Error" ELSE "Done"
            ELSE IF r.in = <<>> THEN "NeedInput" ELSE "MoreOutput", r.out)
     : r \in CompressStream(e, SYNC_DATA_MAX)}

Encode(e) == CASE Kind = "None" -> NullEncode(e) [] Kind = "Brotli" -> BrotliEncode(e)
               [] Kind = "LZ4" -> LZ4Encode(e) [] Kind = "Zstd" -> ZstdEncode(e)

(* Decode: the outcomes [e, result, output], of d = [in, finished, pend,     *)
(* end, done].                                                               *)
NullDecode(d) ==
    LET all == bytes(d.in)
        rest == take(d.in, SYNC_DATA_MAX)
    IN  {Res([d EXCEPT !.in = rest],
             IF rest # <<>> THEN "MoreOutput" ELSE IF d.finished THEN "Done" ELSE "NeedInput",
             FlattenSeq([i \in 1..Len(Upto(SYNC_DATA_MAX, all)) |-> all[i].units]))}
Taken(d, r) == [d EXCEPT !.in = drop_front(@, r.n), !.pend = r.pend, !.end = r.end]

BrotliDecode(d) ==
    {Res(Taken(d, r), IF r.pend # <<>> THEN "MoreOutput"
                      ELSE IF r.end /\ d.finished THEN "Done" ELSE "NeedInput", r.out)
     : r \in DecompressStream(d, front(d.in), SYNC_DATA_MAX, FALSE)}
(* LZ4Decoder and ZstdDecoder ask for input until everything has come; the   *)
(* library reports the end of the frame once.                                *)
done_at_end_of_input(d) ==
    {LET t == Taken(d, r)
         ended == r.end /\ r.pend = <<>>
         u == [t EXCEPT !.done = @ \/ ended, !.end = @ /\ ~ended]
     IN  Res(u, IF ~d.finished THEN "NeedInput"
                ELSE IF u.in = <<>> THEN "Done" ELSE "MoreOutput", r.out)
     : r \in DecompressStream(d, front(d.in), SYNC_DATA_MAX, TRUE)}
more_until_done(d) ==
    {LET t == Taken(d, r)
         ended == r.end /\ r.pend = <<>>
         u == [t EXCEPT !.done = @ \/ ended, !.end = @ /\ ~ended]
     IN  Res(u, IF u.done /\ d.finished THEN "Done"
                ELSE IF u.done THEN "NeedInput" ELSE "MoreOutput", r.out)
     : r \in DecompressStream(d, front(d.in), SYNC_DATA_MAX, TRUE)}
end_not_remembered(d) ==
    {LET t == Taken(d, r)
         ended == r.end /\ r.pend = <<>>
         u == [t EXCEPT !.end = @ /\ ~ended]
     IN  IF ended /\ t.in # <<>> THEN Res(t, "Error", <<>>)
         ELSE Res(u, IF ~d.finished THEN "NeedInput"
                     ELSE IF u.in = <<>> /\ ended THEN "Done" ELSE "MoreOutput", r.out)
     : r \in DecompressStream(d, front(d.in), SYNC_DATA_MAX, TRUE)}
FrameDecode(d) ==
    {LET t == Taken(d, r)
         ended == r.end /\ r.pend = <<>>
         u == [t EXCEPT !.done = @ \/ ended, !.end = @ /\ ~ended]
     IN  IF ended /\ t.in # <<>> THEN Res(t, "Error", <<>>)
         ELSE Res(u, IF ~d.finished THEN "NeedInput"
                     ELSE IF u.in = <<>> /\ u.done THEN "Done" ELSE "MoreOutput", r.out)
     : r \in DecompressStream(d, front(d.in), SYNC_DATA_MAX, TRUE)}

LZ4Decode(d) == FrameDecode(d)
ZstdDecode(d) == FrameDecode(d)

Decode(d) == CASE Kind = "None" -> NullDecode(d) [] Kind = "Brotli" -> BrotliDecode(d)
               [] Kind = "LZ4" -> LZ4Decode(d) [] Kind = "Zstd" -> ZstdDecode(d)

-----------------------------------------------------------------------------
(* LZ4Encoder and the streams begin with a header, which carries no bytes.   *)
Init ==
    cz = [read |-> 0,
          enc |-> [in |-> <<>>, finished |-> FALSE, held |-> <<>>, ended |-> FALSE,
                   pend |-> IF Kind \in {"Brotli", "Zstd"} THEN <<Unit(<<>>)>> ELSE <<>>,
                   out |-> IF Kind = "LZ4" THEN <<Unit(<<>>)>> ELSE <<>>],
          encoded |-> "NeedInput", chan |-> <<>>, done |-> FALSE,
          dec |-> [in |-> <<>>, finished |-> FALSE, pend |-> <<>>, end |-> FALSE, done |-> FALSE],
          decoded |-> "NeedInput", file |-> <<>>]

(* The sending loop: a read of the file, Append or Finish; then Encode, and  *)
(* a packet for its output, until it needs input; ID_DONE.                   *)
ReadFile ==
    /\ cz.encoded = "NeedInput"
    /\ IF cz.read = FileLen
       THEN cz' = [cz EXCEPT !.enc.finished = TRUE, !.encoded = "MoreOutput"]
       ELSE \E r \in 1..SYNC_DATA_MAX :
            /\ cz.read + r <= FileLen
            /\ cz' = [cz EXCEPT !.enc.in = append(@, [i \in 1..r |-> cz.read + i]),
                                !.read = @ + r, !.encoded = "MoreOutput"]
EncodeAndSend ==
    /\ cz.encoded = "MoreOutput"
    /\ \E r \in Encode(cz.enc) :
        cz' = [cz EXCEPT !.enc = r.e, !.encoded = r.result, !.chan = append(@, r.output)]
SendDone ==
    /\ cz.encoded = "Done" /\ ~cz.done
    /\ cz' = [cz EXCEPT !.done = TRUE]

(* The receiving loop: a packet, Append or Finish; then Decode, and a write  *)
(* of its output, until it needs input or is done.                           *)
Receive ==
    /\ cz.decoded = "NeedInput"
    /\ \/ /\ cz.chan # <<>>
          /\ cz' = [cz EXCEPT !.chan = Tail(@), !.dec.in = append(@, Head(cz.chan)),
                              !.decoded = "MoreOutput"]
       \/ /\ cz.chan = <<>> /\ cz.done
          /\ cz' = [cz EXCEPT !.dec.finished = TRUE, !.decoded = "MoreOutput"]
DecodeAndWrite ==
    /\ cz.decoded = "MoreOutput"
    /\ \E r \in Decode(cz.dec) :
        cz' = [cz EXCEPT !.dec = r.e, !.decoded = r.result, !.file = @ \o r.output]

Sender == ReadFile \/ EncodeAndSend \/ SendDone
Receiver == Receive \/ DecodeAndWrite
Next == Sender \/ Receiver

Results == {"Error", "Done", "NeedInput", "MoreOutput"}
(* Type invariant.                                                           *)
TypeOK ==
    /\ cz.read \in 0..FileLen /\ cz.encoded \in Results /\ cz.decoded \in Results
    /\ \A i \in 1..Len(cz.enc.in) : cz.enc.in[i] # <<>>

(* A file arrives as it was sent: the bytes written are always a beginning   *)
(* of the file, and the transfer is over only when all are, whatever the     *)
(* libraries keep back and wherever the packets are cut; the decoders answer *)
(* NeedInput with input and output left over and must come back to it.       *)
ArrivesWhole ==
    /\ IsPrefix(cz.file, [i \in 1..FileLen |-> i])
    /\ cz.decoded = "Done" => cz.file = [i \in 1..FileLen |-> i]
    /\ cz.encoded # "Error" /\ cz.decoded # "Error"

(* No packet is larger than the buffers of the other side, although LZ4 is   *)
(* given room for more, and none is empty.                                   *)
PacketFits == \A i \in 1..Len(cz.chan) : Len(cz.chan[i]) \in 1..SYNC_DATA_MAX

(* Neither loop is told to go on when there is nothing to go on with: the    *)
(* loops of the transfer call Encode and Decode again at once.               *)
NeverSpins ==
    /\ cz.decoded = "MoreOutput" =>
           \/ cz.dec.in # <<>> \/ cz.dec.pend # <<>>
           \/ cz.dec.finished /\ (Kind = "None" \/ cz.dec.end \/ cz.dec.done)
    /\ cz.decoded = "NeedInput" => ~cz.dec.finished

(* The transfer has ended.                                                   *)
Arrived == cz.decoded = "Done"
=============================================================================
