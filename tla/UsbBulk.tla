------------------------------- MODULE UsbBulk -------------------------------
(***************************************************************************)
(* How apackets travel over the two bulk endpoints of a USB interface: the *)
(* choice of the endpoints by the host, the host's transfers (usb_write    *)
(* and usb_read of client/usb_linux.cpp under client/transport_usb.cpp, or *)
(* client/usb_libusb_device.cpp) and adbd's (daemon/usb.cpp).              *)
(*                                                                         *)
(* The bus is external. It carries a transfer in packets of the endpoint's *)
(* size; what is left over makes a short packet, and a transfer of nothing *)
(* an empty one. A read ends when it is full or with a short packet, and   *)
(* fails when a packet is larger than what is left of its buffer. Lost     *)
(* connections are the subject of UsbLinux, LibUsb and UsbFfs.             *)
(***************************************************************************)
EXTENDS PacketReader

CONSTANTS
    Native,          \* client/usb_linux.cpp, not libusb
    Configs,         \* the descriptors a device may have: its interfaces, each
                     \* [adb, endpoints], an endpoint [in, bulk, size]
    kUsbReadSize,
    kUsbWriteSize,
    SplitSize        \* the 16384 of usb_write_split

VARIABLE ub

First(S) == CHOOSE i \in S : \A j \in S : i <= j

(***************************************************************************)
(* The endpoints of the interface.                                         *)
(***************************************************************************)
NoInterface == [state |-> "none", size |-> 0, mask |-> 0, packet_size |-> 0]

\* process_usb_device: exactly two endpoints, both bulk; the first one's size
\* stands for both.
process_usb_device(config) ==
    LET good == {i \in DOMAIN config :
                    LET eps == config[i].endpoints
                    IN config[i].adb /\ Len(eps) = 2 /\ eps[1].bulk /\ eps[2].bulk}
    IN IF good = {} THEN NoInterface
       ELSE LET eps == config[First(good)].endpoints
            IN [state |-> "found", mask |-> eps[1].size, packet_size |-> eps[1].size,
                size |-> eps[IF eps[1].in THEN 2 ELSE 1].size]

Bulk(interface) ==
    {e \in DOMAIN interface.endpoints : interface.endpoints[e].bulk}

Outs(interface) == {e \in Bulk(interface) : ~interface.endpoints[e].in}

\* FindAdbInterface: the first adb interface with a bulk endpoint each way. All
\* bulk endpoints of the adb interfaces it has looked at must be of one size.
FindAdbInterface(config) ==
    LET adb  == {i \in DOMAIN config : config[i].adb}
        good == {i \in adb : Outs(config[i]) \notin {{}, Bulk(config[i])}}
        seen == IF good = {} THEN adb ELSE {i \in adb : i <= First(good)}
        sizes == UNION {{config[i].endpoints[e].size : e \in Bulk(config[i])} : i \in seen}
        out  == config[First(good)].endpoints[First(Outs(config[First(good)]))]
    IN IF \E s, t \in sizes : s # t THEN [NoInterface EXCEPT !.state = "aborted"]
       ELSE IF good = {} THEN NoInterface
       ELSE [state |-> "found", mask |-> out.size, packet_size |-> out.size, size |-> out.size]

Init ==
    \E c \in Configs :
    ub = [usb |-> IF Native THEN process_usb_device(c) ELSE FindAdbInterface(c),
          \* the host's writer: packets begun, and the transfers left of the last
          begun |-> 0, transfers |-> <<>>,
          \* the bus, each way
          out |-> <<>>, in |-> <<>>,
          \* adbd: the read the kernel is filling, the reassembly, the packets
          \* received and answered
          block |-> <<>>, reader |-> EmptyReader, received |-> <<>>, answered |-> 0,
          \* the host's reader: its transfer, the header it has, what it received
          buffer |-> <<>>, header |-> <<>>, read |-> <<>>,
          failed |-> FALSE]

(***************************************************************************)
(* The bus.                                                                *)
(***************************************************************************)
Pieces(bytes, size) ==
    [i \in 1..((Len(bytes) + size - 1) \div size) |->
        SubSeq(bytes, size * (i - 1) + 1,
               IF size * i < Len(bytes) THEN size * i ELSE Len(bytes))]

BusPackets(bytes, size) == IF bytes = <<>> THEN <<bytes>> ELSE Pieces(bytes, size)

\* What a read of `length` bytes that holds `buffer` is after the next packet.
Filled(buffer, packet) == buffer \o packet

Overflows(buffer, packet, length) == Len(buffer) + Len(packet) > length

Ends(buffer, packet, length, size) ==
    Len(packet) < size \/ Len(buffer) + Len(packet) = length

(***************************************************************************)
(* The host's writer.                                                      *)
(***************************************************************************)
\* `len & mask` of a mask that is one less than a power of two.
Aligned(len, mask) == len % mask = 0

\* A usb_write that leaves out the zero marker.
usb_write_unmarked(bytes, split, mask) == IF split THEN Pieces(bytes, SplitSize) ELSE <<bytes>>

\* usb_write: the transfers it makes; split when the kernel had no memory for
\* the whole.
usb_write(bytes, split, mask) ==
    (IF split THEN Pieces(bytes, SplitSize) ELSE <<bytes>>)
        \o (IF Aligned(Len(bytes), mask) THEN <<<<>>>> ELSE <<>>)

\* UsbConnection::Write.
UsbConnectionWrite(p, split, mask) ==
    usb_write(Sent(p).msg, FALSE, mask)
        \o (IF Lengths[p] # 0 THEN usb_write(Sent(p).payload, split, mask) ELSE <<>>)

\* LibUsbDevice::Write.
LibUsbDeviceWrite(p, mask) ==
    LET payload == Sent(p).payload
    IN <<Sent(p).msg>>
        \o (IF payload = <<>> THEN <<>> ELSE <<payload>>)
        \o (IF payload # <<>> /\ Aligned(Len(payload), mask) THEN <<<<>>>> ELSE <<>>)

HostBegins ==
    /\ ub.usb.state = "found" /\ ~ub.failed
    /\ ub.transfers = <<>> /\ ub.out = <<>> /\ ub.begun < Len(Lengths)
    /\ \E split \in BOOLEAN :
          /\ split => Native /\ Lengths[ub.begun + 1] # 0
          /\ ub' = [ub EXCEPT !.begun = @ + 1,
                       !.transfers = IF Native
                           THEN UsbConnectionWrite(ub.begun + 1, split, ub.usb.mask)
                           ELSE LibUsbDeviceWrite(ub.begun + 1, ub.usb.mask)]

\* The next transfer, once the one before has left.
HostTransfers ==
    /\ ub.transfers # <<>> /\ ub.out = <<>> /\ ~ub.failed
    /\ ub' = [ub EXCEPT !.transfers = Tail(@),
                        !.out = BusPackets(Head(ub.transfers), ub.usb.size)]

(***************************************************************************)
(* adbd.                                                                   *)
(***************************************************************************)
\* A packet fills the read; a read that has ended goes to HandleRead.
DeviceReceives ==
    /\ ub.out # <<>> /\ ~ub.failed
    /\ LET packet == Head(ub.out)
           block  == Filled(ub.block, packet)
           u      == [ub EXCEPT !.out = Tail(@)]
           r      == add_bytes(ub.reader, block)
       IN ub' = IF Overflows(ub.block, packet, kUsbReadSize) THEN [u EXCEPT !.failed = TRUE]
                ELSE IF ~Ends(ub.block, packet, kUsbReadSize, ub.usb.size)
                THEN [u EXCEPT !.block = block]
                ELSE [u EXCEPT !.block = <<>>, !.reader = Taken(r.reader), !.failed = ~r.ok,
                               !.received = @ \o get_packets(r.reader)]

\* UsbFfsConnection::Write: the header and the pieces of the payload, each a
\* transfer of its own.
Write(packet) == <<packet.msg>> \o Pieces(packet.payload, kUsbWriteSize)

\* adbd answers a packet with one of the same length.
DeviceWrites ==
    /\ ub.answered < Len(ub.received) /\ ~ub.failed
    /\ LET w == Write(ub.received[ub.answered + 1])
       IN ub' = [ub EXCEPT !.answered = @ + 1,
                    !.in = @ \o FlattenSeq([i \in DOMAIN w |-> BusPackets(w[i], ub.usb.size)])]

(***************************************************************************)
(* The host's reader.                                                      *)
(***************************************************************************)
RoundUp(len, size) == IF len % size = 0 THEN len ELSE len + size - (len % size)

\* The length UsbReadMessage, UsbReadPayload or LibUsbDevice::Read asks for,
\* and the one it expects.
Expected(header) == IF header = <<>> THEN HeaderSize ELSE DataLength(header)

\* Requests that always leave room for one packet more.
RequestedMore(header) ==
    IF Native THEN RoundUp(Expected(header) + 1, ub.usb.packet_size) ELSE Expected(header)

Requested(header) ==
    IF Native THEN RoundUp(Expected(header), ub.usb.packet_size) ELSE Expected(header)

\* remote_read and LibUsbDevice::Read, after the transfer of a header or a
\* payload: a length other than the expected one ends the connection.
AfterTransfer(u, bytes) ==
    IF Len(bytes) # Expected(u.header) THEN [u EXCEPT !.failed = TRUE]
    ELSE IF u.header # <<>>
    THEN [u EXCEPT !.read = Append(@, [msg |-> u.header, payload |-> bytes]), !.header = <<>>]
    ELSE IF DataLength(bytes) = 0
    THEN [u EXCEPT !.read = Append(@, [msg |-> bytes, payload |-> <<>>])]
    ELSE IF Native /\ DataLength(bytes) > MAX_PAYLOAD THEN [u EXCEPT !.failed = TRUE]
    ELSE [u EXCEPT !.header = bytes]

HostReceives ==
    /\ ub.in # <<>> /\ ~ub.failed
    /\ LET packet == Head(ub.in)
           length == Requested(ub.header)
           u == [ub EXCEPT !.in = Tail(@)]
       IN ub' = IF Overflows(ub.buffer, packet, length) THEN [u EXCEPT !.failed = TRUE]
                ELSE IF ~Ends(ub.buffer, packet, length, ub.usb.size)
                THEN [u EXCEPT !.buffer = Filled(@, packet)]
                ELSE AfterTransfer([u EXCEPT !.buffer = <<>>], Filled(ub.buffer, packet))

Next == HostBegins \/ HostTransfers \/ DeviceReceives \/ DeviceWrites \/ HostReceives

(***************************************************************************)
(* Properties.                                                             *)
(***************************************************************************)
IsPrefixOfSent(packets) ==
    /\ Len(packets) <= Len(Lengths)
    /\ \A i \in DOMAIN packets : packets[i] = Sent(i)

\* Type invariant.
TypeOK ==
    /\ ub.usb.state \in {"found", "none", "aborted"}
    /\ ub.begun \in 0..Len(Lengths) /\ ub.answered \in 0..Len(ub.received)
    /\ Len(ub.block) < kUsbReadSize
    /\ Len(ub.header) \in {0, HeaderSize}
    /\ ub.failed \in BOOLEAN

\* When the host has written a packet, adbd has it: its last bytes are not held
\* back in a read that waits for more (the zero marker of usb_write and of
\* LibUsbDevice::Write).
WrittenArrives ==
    (ub.transfers = <<>> /\ ub.out = <<>> /\ ~ub.failed) => Len(ub.received) = ub.begun

\* What adbd answered reaches the host packet by packet: no transfer overflows,
\* none ends before or after its packet, and with the bus empty nothing is held
\* back (UsbReadMessage, UsbReadPayload, LibUsbDevice::Read).
AnswersArrive ==
    /\ ~ub.failed
    /\ IsPrefixOfSent(ub.received) /\ IsPrefixOfSent(ub.read)
    /\ ub.in = <<>> => Len(ub.read) = ub.answered
=============================================================================
