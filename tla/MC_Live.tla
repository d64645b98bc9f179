------------------------------- MODULE MC_Live -------------------------------
(* What must happen eventually, one behaviour at a time: part says which     *)
(* component a behaviour is of.  Four instances of AdbStream are left to     *)
(* run: with delayed acks and without, while nobody closes; with a close or  *)
(* a half-close at any moment; and with a failing transport besides.  Then   *)
(* one of AdbTransport, and one of each component around the core, whose     *)
(* state is st.  The variables of the other components are not used.         *)
EXTENDS Integers, Sequences

VARIABLES part, st, sock, chan, fd, broken, online, queue, call, conn, tls, tr, rec, exit

stream == <<sock, chan, fd, broken, online>>
transport == <<queue, call, conn, tls, tr, rec, exit>>
vars == <<part, st, stream, transport>>

End == {"opener", "acceptor"}
Bytes(o, a) == [e \in End |-> IF e = "opener" THEN o ELSE a]

Window == INSTANCE AdbStream WITH
    MaxPayload <- 2, PeerMax <- 2, InitialAck <- 2, FdCap <- 1, Delayed <- [e \in End |-> TRUE],
    Total <- Bytes(4, 1), Breakable <- FALSE, Closers <- {}
Classic == INSTANCE AdbStream WITH
    MaxPayload <- 2, PeerMax <- 2, InitialAck <- 2, FdCap <- 1, Delayed <- [e \in End |-> FALSE],
    Total <- Bytes(3, 1), Breakable <- FALSE, Closers <- {}
Closing == INSTANCE AdbStream WITH
    MaxPayload <- 2, PeerMax <- 2, InitialAck <- 2, FdCap <- 1, Delayed <- [e \in End |-> TRUE],
    Total <- Bytes(1, 1), Breakable <- FALSE, Closers <- End
Breaking == INSTANCE AdbStream WITH
    MaxPayload <- 2, PeerMax <- 2, InitialAck <- 2, FdCap <- 1, Delayed <- [e \in End |-> TRUE],
    Total <- Bytes(1, 0), Breakable <- TRUE, Closers <- End

OneConn == INSTANCE AdbTransport WITH MaxConn <- 1, MaxAttempts <- 1

Loop == INSTANCE EventLoop WITH
    el <- st, UserFds <- {1}, TimedFds <- {}, WriteFds <- {1}, MaxId <- 2, MaxFn <- 2
Nb == INSTANCE NonblockingConnection WITH
    nb <- st, Header <- 2, MaxRead <- 5, SendRoom <- 4, Incoming <- <<1>>, Outgoing <- <<1, 0>>, MaxWake <- 3
Ffs == INSTANCE UsbFfs WITH
    uf <- st, HeaderSize <- 2, MAX_PAYLOAD <- 3, Lengths <- <<>>, Chunks <- {2},
    kUsbReadQueueDepth <- 1, kUsbWriteQueueDepth <- 1, WriteBlocks <- <<1>>, Halts <- 0
Linux == INSTANCE UsbLinux WITH ul <- st, Transfers <- <<1, 2>>, MaxReads <- 1
Shell == INSTANCE Subprocess WITH
    sp <- st, Pty <- FALSE, Output <- 1, Errors <- 0, Packets <- <<"in", "in">>, Capacity <- 1, Room <- 1
Push == INSTANCE FileSync WITH
    fs <- st, Push <- TRUE, Sync <- FALSE, Dry <- FALSE, Sources <- <<[dir |-> TRUE, files |-> <<1, 2, 3>>]>>,
    Size <- <<1, 2, 1>>, Links <- {3}, max_deferred_acks <- 1, Room <- 1, AckRoom <- 1, MaxFaults <- 1
Pair == INSTANCE Pairing WITH
    pa <- st, Clients <- {1, 2}, Good <- {1}, Odd <- {}, kMaxConnections <- 2, kMaxPairingAttempts <- 1
Zip == INSTANCE Compression WITH
    cz <- st, Kind <- "Zstd", FileLen <- 5, SYNC_DATA_MAX <- 2, PerUnit <- 3, MaxInputSize <- 2
Root == INSTANCE Restart WITH
    rs <- st, Command <- "root", Target <- "serial", Debuggable <- TRUE, StartRoot <- FALSE,
    Others <- TRUE, MaxCrashes <- 1

NoStream == sock = 0 /\ chan = 0 /\ fd = 0 /\ broken = 0 /\ online = 0
NoTransport ==
    queue = 0 /\ call = 0 /\ conn = 0 /\ tls = 0 /\ tr = 0 /\ rec = 0 /\ exit = 0

Init ==
    \/ /\ \/ part = "window" /\ Window!Init
          \/ part = "classic" /\ Classic!Init
          \/ part = "closing" /\ Closing!Init
          \/ part = "breaking" /\ Breaking!Init
       /\ st = 0 /\ NoTransport
    \/ part = "transport" /\ OneConn!Init /\ st = 0 /\ NoStream
    \/ /\ \/ part = "loop" /\ Loop!Init
          \/ part = "nb" /\ Nb!Init
          \/ part = "ffs" /\ Ffs!Init
          \/ part = "linux" /\ Linux!Init
          \/ part = "shell" /\ Shell!Init
          \/ part = "push" /\ Push!Init
          \/ part = "pair" /\ Pair!Init
          \/ part = "zip" /\ Zip!Init
          \/ part = "root" /\ Root!Init
       /\ NoStream /\ NoTransport

In(p) == part = p /\ part' = part /\ UNCHANGED <<stream, transport>>
InStream(p) == part = p /\ part' = part /\ UNCHANGED <<st, transport>>
InTransport == part = "transport" /\ part' = part /\ UNCHANGED <<st, stream>>

Next ==
    \/ InStream("window") /\ Window!Next
    \/ InStream("classic") /\ Classic!Next
    \/ InStream("closing") /\ Closing!Next
    \/ InStream("breaking") /\ Breaking!Next
    \/ InTransport /\ OneConn!Next
    \/ In("loop") /\ Loop!Next
    \/ In("nb") /\ Nb!Next
    \/ In("ffs") /\ Ffs!Next
    \/ In("linux") /\ Linux!Next
    \/ In("shell") /\ Shell!Next
    \/ In("push") /\ Push!Next
    \/ In("pair") /\ Pair!Next
    \/ In("zip") /\ Zip!Next
    \/ In("root") /\ Root!Next

(* The looper of the opener, or the first thread of another component. *)
First ==
    \/ InStream("window") /\ Window!Looper("opener")
    \/ InStream("classic") /\ Classic!Looper("opener")
    \/ InStream("closing") /\ Closing!Looper("opener")
    \/ InStream("breaking") /\ Breaking!Looper("opener")
    \/ InTransport /\ OneConn!LooperSteps
    \/ In("loop") /\ Loop!Looper
    \/ In("nb") /\ Nb!Run
    \/ In("ffs") /\ Ffs!Worker
    \/ In("linux") /\ Linux!Reader
    \/ In("shell") /\ Shell!Thread
    \/ In("push") /\ Push!ClientSteps
    \/ In("pair") /\ Pair!ServerSteps
    \/ In("zip") /\ Zip!Sender
    \/ In("root") /\ Root!adb_root

(* The looper of the acceptor, or the second thread. *)
Second ==
    \/ InStream("window") /\ Window!Looper("acceptor")
    \/ InStream("classic") /\ Classic!Looper("acceptor")
    \/ InStream("closing") /\ Closing!Looper("acceptor")
    \/ InStream("breaking") /\ Breaking!Looper("acceptor")
    \/ InTransport /\ OneConn!RunSteps
    \/ In("loop") /\ Loop!ThreadInterrupt
    \/ In("nb") /\ Nb!PeerReads
    \/ In("ffs") /\ Ffs!Monitor
    \/ In("linux") /\ Linux!Writer
    \/ In("shell") /\ Shell!ChildObeys
    \/ In("push") /\ Push!DeviceSteps
    \/ In("pair") /\ Pair!ClientSteps
    \/ In("zip") /\ Zip!Receiver
    \/ In("root") /\ Root!Server

(* The application of the opener, or a third thread. *)
Third ==
    \/ InStream("window") /\ Window!AppRead("opener")
    \/ InStream("classic") /\ Classic!AppRead("opener")
    \/ InStream("closing") /\ Closing!AppRead("opener")
    \/ InStream("breaking") /\ Breaking!AppRead("opener")
    \/ InTransport /\ OneConn!ReaderSteps(1)
    \/ In("ffs") /\ (Ffs!Destroy \/ Ffs!Destroyed)
    \/ In("root") /\ Root!wait_service

(* The application of the acceptor, or what the kernel or the device does. *)
Fourth ==
    \/ InStream("window") /\ Window!AppRead("acceptor")
    \/ InStream("classic") /\ Classic!AppRead("acceptor")
    \/ InStream("closing") /\ Closing!AppRead("acceptor")
    \/ InStream("breaking") /\ Breaking!AppRead("acceptor")
    \/ InTransport /\ OneConn!WriterSteps(1)
    \/ In("ffs") /\ Ffs!KernelCancels
    \/ In("root") /\ Root!Device

(* The answer to the open, a TLS handshake, or the events of the kernel. *)
Fifth ==
    \/ InStream("window") /\ (Window!handle_open_refused \/ Window!handle_open_accepted)
    \/ InStream("classic") /\ (Classic!handle_open_refused \/ Classic!handle_open_accepted)
    \/ InStream("closing") /\ (Closing!handle_open_refused \/ Closing!handle_open_accepted)
    \/ InStream("breaking") /\ (Breaking!handle_open_refused \/ Breaking!handle_open_accepted)
    \/ InTransport /\ OneConn!TlsSteps(1)
    \/ In("ffs") /\ Ffs!KernelPosts

(* The fairness of each component: a behaviour is of one part, so each       *)
(* disjunction is the one step of that part which is in it.                  *)
Fairness ==
    WF_vars(First) /\ WF_vars(Second) /\ WF_vars(Third) /\ WF_vars(Fourth) /\ WF_vars(Fifth)

Spec == Init /\ [][Next]_vars /\ Fairness

(* While nobody closes, what an application wrote is eventually all written  *)
(* to the far fd, in either acknowledgement mode (local_socket_ack,          *)
(* local_socket_flush_incoming).                                             *)
AllDelivered ==
    (part \in {"window", "classic"} /\ sock["acceptor"].st = "open") ~>
       [](part \in {"window", "classic"} /\ \A e \in End : sock[Window!Other(e)].flushed = fd[e].wrote)

(* When one end is gone, the other end goes too (handle_clse, handle_okay,   *)
(* handle_offline).                                                          *)
HalfGone ==
    /\ part \in {"closing", "breaking"}
    /\ \E e \in End : sock[e].st = "gone" /\ sock[Closing!Other(e)].st \notin {"none", "gone"}
CloseIsMutual == HalfGone ~> ~HalfGone

(* A thread is in Stop() of a connection that is not stray, or a transport   *)
(* waits for the ReconnectHandler.                                           *)
Pending ==
    /\ part = "transport" /\ OneConn!Alive
    /\ \/ ~conn[1].stray /\ \E th \in 0 .. 1 : ~OneConn!Calls(th, "none")
       \/ rec.tracked /\ exit = "no"

(* No thread of a transport waits for ever: whoever waits in Stop() for the  *)
(* reader, the writer or a TLS handshake returns, and a transport given to   *)
(* the ReconnectHandler gets its attempt, no wake-up being lost              *)
(* (BlockingConnectionAdapter::Stop, ReconnectHandler::TrackTransport, Run). *)
TransportGoesOn == Pending ~> ~Pending

(* A function given to fdevent_run_on_looper has not run, or there is data in *)
(* the write buffer of a connection that goes on, which it does not after the  *)
(* CHECK of DispatchWrites has ended the process.                             *)
Waiting ==
    \/ part = "loop" /\ st.ran < st.pushed
    \/ part = "nb" /\ st.write_buffer > 0 /\ ~st.aborted /\ st.pc # "done"

(* No wake-up is lost: functions given to the looper run, although the       *)
(* threads that give them and the looper that may sleep are not synchronised *)
(* but by the interrupt fd, and what was buffered is written, as long as the *)
(* peer reads and no CHECK fails (fdevent_context::Run, FlushRunQueue,       *)
(* NonblockingFdConnection::Write, Run).                                     *)
WakeupsArrive == Waiting ~> ~Waiting

(* The host has disconnected or the transport is stopped; a device is        *)
(* unplugged; the client of a shell is gone; a valid pairing is not yet      *)
(* reported, or the owner of the pairing server has stopped it.              *)
PairingDue == (st.valid # 0 /\ ~Pair!Reported) \/ st.owner \notin {"up", "gone"}
Leaving ==
    \/ part = "ffs" /\ st.life >= 3
    \/ part = "linux" /\ st.dead
    \/ part = "shell" /\ st.client = "gone"
    \/ part = "pair" /\ PairingDue

(* The monitor and the worker have ended, the error was reported once and    *)
(* the connection is destroyed; no thread waits in a read or a write; the    *)
(* thread of the shell has noticed and hung up, although the child may       *)
(* neither read nor exit by itself; the pairing is reported, or the server   *)
(* destroyed.                                                                *)
Left ==
    \/ part = "ffs" /\ Ffs!Ends
    \/ part = "linux" /\ Linux!Unblocked
    \/ part = "shell" /\ Shell!Ended
    \/ part = "pair" /\ ~PairingDue

(* When a device, a client or an owner goes, every thread that served it     *)
(* ends (UsbFfsConnection::StartMonitor, StopWorker, Stop; usb_kick,         *)
(* usb_bulk_read, usb_bulk_write; Subprocess::PassDataStreams, PollLoop,     *)
(* WaitForExit; ConnectionEventsWorker, StopServerAndWait).                  *)
ThreadsEnd == Leaving ~> Left

(* Commands return: a push, whatever fails, where neither side waits for the *)
(* other for ever; a compressed transfer, where neither side calls its       *)
(* encoder or decoder for ever; "adb root", although adbd may be gone and    *)
(* back between two polls of the server, another device may be plugged in,   *)
(* and adbd may crash (ReadAcknowledgements, handle_send_file, recv_impl,    *)
(* ZstdDecoder::Decode, adb_root, wait_service).                             *)
CommandsReturn ==
    (part \in {"push", "zip", "root"}) ~>
        \/ part = "push" /\ Push!Over
        \/ part = "zip" /\ Zip!Arrived
        \/ part = "root" /\ Root!Returned
=============================================================================
