---------------------------- MODULE PacketReader ----------------------------
(***************************************************************************)
(* APacketReader (apacket_reader.cpp): the reassembly of apackets from the *)
(* blocks a USB endpoint delivers, whatever way the byte stream is cut.    *)
(*                                                                         *)
(* A byte is the pair <<packet, offset>> of the packet it was sent in and  *)
(* its place there, so that a byte kept, lost or used twice is told apart. *)
(* The reader is a record: header is what header_ holds so far, packet the *)
(* packet_ being filled (<<>> for nullptr, <<p>> otherwise) and packets    *)
(* the finished ones not yet taken by get_packets.                         *)
(***************************************************************************)
EXTENDS Integers, Sequences, SequencesExt

CONSTANTS
    HeaderSize,     \* sizeof(amessage), in units
    MAX_PAYLOAD,    \* the largest data_length a reader accepts
    Lengths         \* the data_length of each packet the host sends

\* A freshly built reader; also what prepare_for_next_packet leaves of header_
\* and packet_.
EmptyReader == [header |-> <<>>, packet |-> <<>>, packets |-> <<>>]

prepare_for_next_packet(r) == [r EXCEPT !.header = <<>>, !.packet = <<>>]

add_packet(r, p) ==
    prepare_for_next_packet([r EXCEPT !.packets = Append(@, p)])

\* data_length, as it stands in the header the reader has collected.
DataLength(header) == Lengths[header[1][1]]

\* Block::fillFrom: what `to` holds after taking the front of `block`, when
\* its size is `size`; the rest of the block stays.
Room(to, size, block) ==
    LET free == size - Len(to) IN IF free < Len(block) THEN free ELSE Len(block)

FillFrom(to, size, block) == to \o SubSeq(block, 1, Room(to, size, block))

Rest(to, size, block) == SubSeq(block, Room(to, size, block) + 1, Len(block))

\* The payload step of add_bytes: a whole untouched block of the right size is
\* moved, anything else is copied into a payload of data_length.
\* `fresh` is block.position() == 0.
FillPayload(r, block, fresh) ==
    LET size == DataLength(r.header)
        old  == IF r.packet = <<>> THEN <<>> ELSE r.packet[1].payload
        p    == [msg |-> r.header, payload |-> FillFrom(old, size, block)]
        zero_copy == r.packet = <<>> /\ fresh /\ Len(block) = size
    IN IF zero_copy
       THEN [reader |-> add_packet(r, [p EXCEPT !.payload = block]), rest |-> <<>>]
       ELSE [reader |-> IF Len(p.payload) = size THEN add_packet(r, p)
                        ELSE [r EXCEPT !.packet = <<p>>],
             rest |-> Rest(old, size, block)]

\* add_bytes. The result is the reader, and whether it returned OK.
RECURSIVE AddFrom(_, _, _)
AddFrom(r, block, fresh) ==
    IF block = <<>> THEN [reader |-> r, ok |-> TRUE] ELSE
    LET header == FillFrom(r.header, HeaderSize, block)
        left   == Rest(r.header, HeaderSize, block)
        h      == [r EXCEPT !.header = header]
        still  == fresh /\ left = block
    IN IF Len(header) < HeaderSize THEN [reader |-> h, ok |-> TRUE]
       ELSE IF DataLength(header) > MAX_PAYLOAD
       THEN [reader |-> prepare_for_next_packet(h), ok |-> FALSE]
       ELSE IF DataLength(header) = 0
       THEN AddFrom(add_packet(h, [msg |-> header, payload |-> <<>>]), left, still)
       ELSE IF left = <<>> THEN [reader |-> h, ok |-> TRUE]
       ELSE LET f == FillPayload(h, left, still)
            IN AddFrom(f.reader, f.rest, FALSE)

add_bytes(r, block) == AddFrom(r, block, TRUE)

get_packets(r) == r.packets

Taken(r) == [r EXCEPT !.packets = <<>>]

(***************************************************************************)
(* The reference: the bytes of a packet, of the stream the host sends, and *)
(* the packet the other side must see.                                     *)
(***************************************************************************)
PacketBytes(p) == [i \in 1..(HeaderSize + Lengths[p]) |-> <<p, i>>]

Stream == FlattenSeq([p \in DOMAIN Lengths |-> PacketBytes(p)])

Sent(p) == [msg |-> SubSeq(PacketBytes(p), 1, HeaderSize),
            payload |-> SubSeq(PacketBytes(p), HeaderSize + 1, HeaderSize + Lengths[p])]

\* How many packets the first n bytes of the stream complete; a packet that is
\* larger than a reader accepts ends them.
Complete(n) ==
    LET End(p) == Len(FlattenSeq([q \in 1..p |-> PacketBytes(q)]))
        good == {p \in DOMAIN Lengths :
                    End(p) <= n /\ \A q \in 1..p : Lengths[q] <= MAX_PAYLOAD}
    IN IF good = {} THEN 0 ELSE CHOOSE p \in good : \A q \in good : q <= p
=============================================================================
