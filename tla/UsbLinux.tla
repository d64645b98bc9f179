------------------------------ MODULE UsbLinux ------------------------------
(***************************************************************************)
(* The host's native Linux USB connection (client/usb_linux.cpp): one      *)
(* usb_handle shared by the reader and the writer thread of its transport  *)
(* and by whoever kicks it. What a transfer carries is in UsbBulk.         *)
(*                                                                         *)
(* Only the reader reaps: a writer sleeps on h->cv until the reader has    *)
(* reaped its urb for it. A step is what a thread does while it holds      *)
(* h->mutex, or one ioctl made without it. The usbdevfs driver is external.*)
(***************************************************************************)
EXTENDS Integers, Sequences

CONSTANTS
    Transfers,    \* what the writer sends: for each usb_write its number of
                  \* bulk writes, a zero marker included (usb_linux.cpp:449)
    MaxReads      \* bound: transfers from the device

VARIABLE ul

\* register_device. A device that could only be opened for reading gets a
\* transport without threads, which a kick forgets.
Init ==
    \E w \in BOOLEAN :
    ul = [writeable |-> w, dead |-> FALSE, plugged |-> TRUE, closed |-> FALSE,
          unregistered |-> FALSE,
          reader |-> IF w THEN "idle" ELSE "none", reaper |-> FALSE, alarm |-> FALSE,
          writer |-> IF w THEN "idle" ELSE "none", notified |-> FALSE,
          step |-> 0, packet |-> 0, split |-> 0,
          in_busy |-> FALSE, out_busy |-> FALSE,
          out_status |-> -1, out_sent |-> 0,
          kernel |-> {},                \* urbs the driver holds
          reapable |-> <<>>,            \* urbs it has given back, not yet reaped
          received |-> 0, wrote |-> 0]

Urbs == {"in", "out"}

\* Where the writer stands among the bulk writes of its transfers.
WriterDone == ul.packet = Len(Transfers)

(***************************************************************************)
(* usb_bulk_read, called by usb_read from UsbReadMessage/UsbReadPayload.   *)
(***************************************************************************)
bulk_read_submit ==
    /\ ul.reader = "idle"
    /\ ul' = IF ul.dead \/ ~ul.plugged THEN [ul EXCEPT !.reader = "failed"]
             ELSE [ul EXCEPT !.reader = "reap", !.reaper = TRUE, !.in_busy = TRUE,
                             !.kernel = @ \cup {"in"}]

\* USBDEVFS_REAPURB gives back an urb, and what the reader does with it. A
\* status other than 0 (a discarded urb, a device that left) fails the transfer.
bulk_read_reap ==
    /\ ul.reader = "reap" /\ ul.reapable # <<>>
    /\ LET r == ul.reapable[1]
           u == [ul EXCEPT !.reapable = Tail(@), !.reaper = FALSE]
       IN ul' = IF u.dead THEN [u EXCEPT !.reader = "failed"]
                ELSE IF r.urb = "in"
                THEN IF r.status = 0
                     THEN [u EXCEPT !.in_busy = FALSE, !.reader = "idle", !.received = @ + 1]
                     ELSE [u EXCEPT !.in_busy = FALSE, !.reader = "failed"]
                ELSE [u EXCEPT !.out_busy = FALSE, !.out_status = r.status,
                               !.notified = TRUE, !.reaper = TRUE]

\* The ioctl is interrupted (SIGALRM), or fails because the device is gone.
bulk_read_interrupted ==
    /\ ul.reader = "reap" /\ ul.alarm
    /\ ul' = [ul EXCEPT !.alarm = FALSE, !.reaper = ~ul.dead,
                        !.reader = IF ul.dead THEN "failed" ELSE "reap"]

bulk_read_error ==
    /\ ul.reader = "reap" /\ ~ul.plugged /\ ul.reapable = <<>>
    /\ ul' = [ul EXCEPT !.reader = "failed", !.reaper = FALSE]

(***************************************************************************)
(* usb_bulk_write, called by usb_write for each packet of Transfers.       *)
(***************************************************************************)
bulk_write_submit ==
    /\ ul.writer = "idle" /\ ~WriterDone
    /\ ul' = IF ul.dead \/ ~ul.plugged THEN [ul EXCEPT !.writer = "failed"]
             ELSE [ul EXCEPT !.writer = "wait", !.out_busy = TRUE, !.out_status = -1,
                             !.notified = FALSE, !.kernel = @ \cup {"out"}]

\* The driver refuses a contiguous transfer for want of memory, and usb_write
\* sends it again in pieces (usb_write_split), one more than it had.
bulk_write_nomem ==
    /\ ul.writer = "idle" /\ ~WriterDone /\ ul.step = 0 /\ ul.split = 0
    /\ ~ul.dead /\ ul.plugged
    /\ ul' = [ul EXCEPT !.split = 1]

\* Whether the bulk write just made was the last of its usb_write.
LastPiece == ul.step + 1 = Transfers[ul.packet + 1] + ul.split

\* A writer that takes any wakeup for the completion of its urb.
wakes_unchecked ==
    LET last == LastPiece
    IN [ul EXCEPT !.writer = "idle", !.notified = FALSE, !.wrote = @ + 1,
                  !.step = IF last THEN 0 ELSE @ + 1, !.split = IF last THEN 0 ELSE @,
                  !.packet = IF last THEN @ + 1 ELSE @]

\* What a writer does when its wait ends other than by the timeout.
wakes ==
    LET last == LastPiece
    IN IF ul.dead THEN [ul EXCEPT !.writer = "failed"]
       ELSE IF ul.out_busy THEN [ul EXCEPT !.notified = FALSE]
       ELSE IF ul.out_status # 0 THEN [ul EXCEPT !.writer = "failed"]
       ELSE [ul EXCEPT !.writer = "idle", !.notified = FALSE, !.wrote = @ + 1,
                       !.step = IF last THEN 0 ELSE @ + 1, !.split = IF last THEN 0 ELSE @,
                       !.packet = IF last THEN @ + 1 ELSE @]

bulk_write_wakes ==
    /\ ul.writer = "wait" /\ ul.notified
    /\ ul' = wakes

\* A condition variable may also wake for no reason.
bulk_write_spurious ==
    /\ ul.writer = "wait" /\ ~ul.notified
    /\ ul' = wakes

bulk_write_timeout ==
    /\ ul.writer = "wait" /\ ~ul.notified
    /\ ul' = [ul EXCEPT !.writer = "failed"]

(***************************************************************************)
(* usb_kick, from the looper (Close, Reset) or the poll thread ("remove"), *)
(* and usb_close, once both threads have been joined.                      *)
(***************************************************************************)
\* A kick that relies on the signal alone.
KickSignals(u) ==
    [u EXCEPT !.dead = TRUE, !.alarm = u.reaper, !.in_busy = FALSE, !.out_busy = FALSE,
              !.notified = TRUE]

\* The discarded urbs come back with a status of their own, which dead hides.
Kicked(u) ==
    LET Back(k) == [urb |-> k, status |-> -1]
        given == SelectSeq(<<"in", "out">>, LAMBDA k : k \in u.kernel)
    IN [u EXCEPT !.dead = TRUE, !.alarm = u.reaper,
                 !.kernel = {}, !.reapable = @ \o [i \in DOMAIN given |-> Back(given[i])],
                 !.in_busy = FALSE, !.out_busy = FALSE,
                 !.out_status = -1, !.notified = TRUE]

usb_kick ==
    /\ ~ul.dead /\ ~ul.closed
    /\ ul' = IF ul.writeable THEN Kicked(ul)
             ELSE [ul EXCEPT !.dead = TRUE, !.unregistered = TRUE]

\* A signal that arrives before the reader is inside the ioctl does nothing.
signal_lost ==
    /\ ul.alarm /\ ul' = [ul EXCEPT !.alarm = FALSE]

usb_close ==
    /\ ~ul.closed /\ ul.dead
    /\ ul.reader \in {"failed", "none"} /\ ul.writer # "wait"
    /\ ul' = [ul EXCEPT !.closed = TRUE, !.kernel = {}, !.reapable = <<>>]

(***************************************************************************)
(* The driver and the cable.                                               *)
(***************************************************************************)
complete_in ==
    /\ "in" \in ul.kernel /\ ul.plugged /\ ul.received < MaxReads
    /\ ul' = [ul EXCEPT !.kernel = @ \ {"in"},
                        !.reapable = Append(@, [urb |-> "in", status |-> 0])]

complete_out ==
    /\ "out" \in ul.kernel /\ ul.plugged
    /\ ul' = [ul EXCEPT !.kernel = @ \ {"out"}, !.out_sent = @ + 1,
                        !.reapable = Append(@, [urb |-> "out", status |-> 0])]

unplug ==
    /\ ul.plugged
    /\ LET given == SelectSeq(<<"in", "out">>, LAMBDA k : k \in ul.kernel)
       IN ul' = [ul EXCEPT !.plugged = FALSE, !.kernel = {},
                    !.reapable = @ \o [i \in DOMAIN given |->
                                          [urb |-> given[i], status |-> -1]]]

Reader == bulk_read_submit \/ bulk_read_reap \/ bulk_read_interrupted \/ bulk_read_error

Writer == bulk_write_submit \/ bulk_write_nomem \/ bulk_write_wakes

Next ==
    \/ Reader \/ Writer \/ bulk_write_spurious \/ bulk_write_timeout
    \/ usb_kick \/ signal_lost \/ usb_close
    \/ complete_in \/ complete_out \/ unplug

Spec == Init /\ [][Next]_ul

(***************************************************************************)
(* Properties.                                                             *)
(***************************************************************************)
TypeOK ==
    /\ ul.reader \in {"idle", "reap", "failed", "none"}
    /\ ul.writer \in {"idle", "wait", "failed", "none"}
    /\ ul.kernel \subseteq Urbs
    /\ Len(ul.reapable) <= 3
    /\ ul.received \in 0..MaxReads

\* A write that usb_bulk_write reports as done has left the host: the counts
\* agree, so no wakeup is taken for the completion of another transfer, and an
\* urb is never submitted again while the driver still holds it.
WroteWhatLeft ==
    /\ ul.wrote <= ul.out_sent
    /\ ul.out_sent <= ul.wrote + 1

\* Whoever kicks a handle gets it back: both threads return, whatever they
\* were blocked in (usb_linux.cpp:502).
Unblocked == ul.reader \in {"failed", "none"} /\ ul.writer # "wait"
=============================================================================
