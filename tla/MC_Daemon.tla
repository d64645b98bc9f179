------------------------------- MODULE MC_Daemon -------------------------------
(* Small instances of the parts of the device, one behaviour at a time: part *)
(* says which one a behaviour is of.  The event loop is EventLoop itself; st  *)
(* is the state of any other part, while the loop is as it was constructed.   *)
EXTENDS EventLoop, Integers, Sequences

VARIABLES part, st

vars == <<part, st, el>>

\* The nonblocking connection: reads cut anywhere, and writes that do not fit
NbReads == INSTANCE NonblockingConnection WITH
    nb <- st, Header <- 2, MaxRead <- 5, SendRoom <- 2, Incoming <- <<0, 2, 1>>, Outgoing <- <<>>,
    MaxWake <- 4
NbWrites == INSTANCE NonblockingConnection WITH
    nb <- st, Header <- 2, MaxRead <- 5, SendRoom <- 4, Incoming <- <<1>>, Outgoing <- <<1, 0>>,
    MaxWake <- 4

Vector == INSTANCE IOVectors WITH io <- st, BlockSizes <- {1, 2, 3}, MaxBytes <- 6, TrimAfter <- 1

\* FunctionFS: the stream cut into transfers that complete in any order, and the write queue
FfsReads == INSTANCE UsbFfs WITH
    uf <- st, HeaderSize <- 2, MAX_PAYLOAD <- 3, Lengths <- <<0, 2>>, Chunks <- 1..4,
    kUsbReadQueueDepth <- 2, kUsbWriteQueueDepth <- 2, WriteBlocks <- <<>>, Halts <- 1
FfsWrites == INSTANCE UsbFfs WITH
    uf <- st, HeaderSize <- 2, MAX_PAYLOAD <- 3, Lengths <- <<0>>, Chunks <- {2},
    kUsbReadQueueDepth <- 1, kUsbWriteQueueDepth <- 2, WriteBlocks <- <<2, 1>>, Halts <- 0

\* A command: output and errors that arrive in any order while the terminal is
\* resized; input that does not fit, and its end; a child on a pseudo terminal
Pipes == INSTANCE Subprocess WITH
    sp <- st, Pty <- FALSE, Output <- 2, Errors <- 1, Packets <- <<"size">>, Capacity <- 1, Room <- 1
Inputs == INSTANCE Subprocess WITH
    sp <- st, Pty <- FALSE, Output <- 2, Errors <- 1, Packets <- <<"in", "in", "close">>, Capacity <- 1, Room <- 1
Terminal == INSTANCE Subprocess WITH
    sp <- st, Pty <- TRUE, Output <- 2, Errors <- 0, Packets <- <<"size">>, Capacity <- 1, Room <- 1

\* Files: pushes with failures, so few acknowledgements that they are waited
\* for; a push of what is newer; a push of two directories; a pull of a directory
\* with a symbolic link
D(f) == [dir |-> TRUE, files |-> f]
Pushes == INSTANCE FileSync WITH
    fs <- st, Push <- TRUE, Sync <- FALSE, Dry <- FALSE, Sources <- <<D(<<1, 2, 3>>)>>, Size <- <<1, 2, 1>>,
    Links <- {3}, max_deferred_acks <- 1, Room <- 1, AckRoom <- 1, MaxFaults <- 1
Newer == INSTANCE FileSync WITH
    fs <- st, Push <- TRUE, Sync <- TRUE, Dry <- FALSE, Sources <- <<D(<<1, 2>>)>>, Size <- <<2, 1>>,
    Links <- {}, max_deferred_acks <- 2, Room <- 2, AckRoom <- 2, MaxFaults <- 1
TwoDirs == INSTANCE FileSync WITH
    fs <- st, Push <- TRUE, Sync <- FALSE, Dry <- FALSE, Sources <- <<D(<<1, 2>>), D(<<3>>)>>, Size <- <<1, 2, 1>>,
    Links <- {}, max_deferred_acks <- 2, Room <- 2, AckRoom <- 2, MaxFaults <- 2
Pulls == INSTANCE FileSync WITH
    fs <- st, Push <- FALSE, Sync <- FALSE, Dry <- FALSE, Sources <- <<D(<<1, 2>>)>>, Size <- <<2, 1>>,
    Links <- {2}, max_deferred_acks <- 1, Room <- 1, AckRoom <- 1, MaxFaults <- 2

\* A debuggable and a profileable process, a tracker of each kind
Processes == INSTANCE Jdwp WITH
    jd <- st, Pids <- {1, 2}, Debuggable <- {1}, Profileable <- {2}, MaxInfo <- 1, WireRoom <- 1,
    Trackers <- {1, 2}, AppTrackers <- {2}, Payload <- <<1, 2>>, MaxList <- 1, Fds <- {1, 2}

\* Clients with the password and without, one more than may connect
Pairings == INSTANCE Pairing WITH
    pa <- st, Clients <- {1, 2, 3}, Good <- {1, 2}, Odd <- {2}, kMaxConnections <- 2, kMaxPairingAttempts <- 2

\* A file through each of the encoders and decoders
Plain == INSTANCE Compression WITH
    cz <- st, Kind <- "None", FileLen <- 6, SYNC_DATA_MAX <- 2, PerUnit <- 1, MaxInputSize <- 2
Brotli == INSTANCE Compression WITH
    cz <- st, Kind <- "Brotli", FileLen <- 6, SYNC_DATA_MAX <- 2, PerUnit <- 3, MaxInputSize <- 2
LZ4 == INSTANCE Compression WITH
    cz <- st, Kind <- "LZ4", FileLen <- 6, SYNC_DATA_MAX <- 2, PerUnit <- 3, MaxInputSize <- 2
Zstd == INSTANCE Compression WITH
    cz <- st, Kind <- "Zstd", FileLen <- 6, SYNC_DATA_MAX <- 2, PerUnit <- 3, MaxInputSize <- 2

Wifi == INSTANCE AdbdWifi WITH wf <- st, Lifecycle <- FALSE, MaxToggles <- 5, MaxConnections <- 2
Framework == INSTANCE AdbdWifi WITH wf <- st, Lifecycle <- TRUE, MaxToggles <- 5, MaxConnections <- 1

DeviceInit ==
    \/ part = "loop" /\ Init /\ st = <<>>
    \/ /\ el = Created("poll")
       /\ \/ part = "nb reads" /\ NbReads!Init
          \/ part = "nb writes" /\ NbWrites!Init
          \/ part = "vector" /\ Vector!Init
          \/ part = "ffs reads" /\ FfsReads!Init
          \/ part = "ffs writes" /\ FfsWrites!Init
          \/ part = "pipes" /\ Pipes!Init
          \/ part = "inputs" /\ Inputs!Init
          \/ part = "terminal" /\ Terminal!Init
          \/ part = "pushes" /\ Pushes!Init
          \/ part = "newer" /\ Newer!Init
          \/ part = "two dirs" /\ TwoDirs!Init
          \/ part = "pulls" /\ Pulls!Init
          \/ part = "processes" /\ Processes!Init
          \/ part = "pairings" /\ Pairings!Init
          \/ part = "wifi" /\ Wifi!Init
          \/ part = "framework" /\ Framework!Init
          \/ part = "plain" /\ Plain!Init
          \/ part = "brotli" /\ Brotli!Init
          \/ part = "lz4" /\ LZ4!Init
          \/ part = "zstd" /\ Zstd!Init

DeviceNext ==
    /\ part' = part
    /\ \/ part = "loop" /\ Next /\ UNCHANGED st
       \/ part = "nb reads" /\ NbReads!Next /\ UNCHANGED el
       \/ part = "nb writes" /\ NbWrites!Next /\ UNCHANGED el
       \/ part = "vector" /\ Vector!Next /\ UNCHANGED el
       \/ part = "ffs reads" /\ FfsReads!Next /\ UNCHANGED el
       \/ part = "ffs writes" /\ FfsWrites!Next /\ UNCHANGED el
       \/ part = "pipes" /\ Pipes!Next /\ UNCHANGED el
       \/ part = "inputs" /\ Inputs!Next /\ UNCHANGED el
       \/ part = "terminal" /\ Terminal!Next /\ UNCHANGED el
       \/ part = "pushes" /\ Pushes!Next /\ UNCHANGED el
       \/ part = "newer" /\ Newer!Next /\ UNCHANGED el
       \/ part = "two dirs" /\ TwoDirs!Next /\ UNCHANGED el
       \/ part = "pulls" /\ Pulls!Next /\ UNCHANGED el
       \/ part = "processes" /\ Processes!Next /\ UNCHANGED el
       \/ part = "pairings" /\ Pairings!Next /\ UNCHANGED el
       \/ part = "wifi" /\ Wifi!Next /\ UNCHANGED el
       \/ part = "framework" /\ Framework!Next /\ UNCHANGED el
       \/ part = "plain" /\ Plain!Next /\ UNCHANGED el
       \/ part = "brotli" /\ Brotli!Next /\ UNCHANGED el
       \/ part = "lz4" /\ LZ4!Next /\ UNCHANGED el
       \/ part = "zstd" /\ Zstd!Next /\ UNCHANGED el

DeviceSpec == DeviceInit /\ [][DeviceNext]_vars

\* The types of every part.
DeviceTypeOK ==
    /\ TypeOK
    /\ CASE part = "loop" -> st = <<>>
         [] part = "nb reads" -> NbReads!TypeOK
         [] part = "nb writes" -> NbWrites!TypeOK
         [] part = "vector" -> Vector!TypeOK
         [] part = "ffs reads" -> FfsReads!TypeOK
         [] part = "ffs writes" -> FfsWrites!TypeOK
         [] part = "pipes" -> Pipes!TypeOK
         [] part = "inputs" -> Inputs!TypeOK
         [] part = "terminal" -> Terminal!TypeOK
         [] part = "pushes" -> Pushes!TypeOK
         [] part = "newer" -> Newer!TypeOK
         [] part = "two dirs" -> TwoDirs!TypeOK
         [] part = "pulls" -> Pulls!TypeOK
         [] part = "processes" -> Processes!TypeOK
         [] part = "pairings" -> Pairings!TypeOK
         [] part = "wifi" -> Wifi!TypeOK
         [] part = "framework" -> Framework!TypeOK
         [] part = "plain" -> Plain!TypeOK
         [] part = "brotli" -> Brotli!TypeOK
         [] part = "lz4" -> LZ4!TypeOK
         [] part = "zstd" -> Zstd!TypeOK

\* No write is left in the buffer of a thread that sleeps (NonblockingFdConnection::Write).
PendingWriteWakes == part = "nb writes" => NbWrites!PendingWriteWakes

\* Packets are cut out of the stream at their boundaries (NonblockingFdConnection::Run).
ReadsAddUp == part = "nb reads" => NbReads!ReadsAddUp

\* An IOVector holds the bytes appended to it less those taken (IOVector).
HoldsItsBytes == part = "vector" => Vector!HoldsItsBytes

\* take_front and coalesce return the first bytes (IOVector).
TakesTheFront == part = "vector" => Vector!TakesTheFront

\* The packets of the host are handed over whole and in order (UsbFfsConnection::HandleRead).
Reassembled == part = "ffs reads" => FfsReads!Reassembled

\* The submitted writes are the first of the queue (UsbFfsConnection::HandleWrite).
SubmittedInFront == part = "ffs writes" => FfsWrites!SubmittedInFront

\* A worker that sleeps has nothing to do (UsbFfsConnection::StartWorker).
NoMissedWork == part = "ffs writes" => FfsWrites!NoMissedWork

\* What the child wrote is passed on before its exit, but for stdout after a write to
\* its stdin has failed (Subprocess::PollLoop, PassInput).
OutputBeforeExit ==
    /\ part = "pipes" => Pipes!OutputBeforeExit
    /\ part = "inputs" => Inputs!OutputBeforeExit
    /\ part = "terminal" => Terminal!OutputBeforeExit

\* Input that did not fit is written later (Subprocess::PassInput).
InputGoesOn ==
    /\ part = "pipes" => Pipes!InputGoesOn
    /\ part = "inputs" => Inputs!InputGoesOn
    /\ part = "terminal" => Terminal!InputGoesOn

\* Success is reported only when every file that could be listed has arrived
\* (ReadAcknowledgements, local_build_list, remote_build_list).
SuccessIsComplete ==
    /\ part = "pushes" => Pushes!SuccessIsComplete
    /\ part = "newer" => Newer!SuccessIsComplete
    /\ part = "two dirs" => TwoDirs!SuccessIsComplete
    /\ part = "pulls" => Pulls!SuccessIsComplete

\* A file counted as copied is complete where it was copied to (CopyDone, sync_recv).
CopiedIsComplete ==
    /\ part = "pushes" => Pushes!CopiedIsComplete
    /\ part = "newer" => Newer!CopiedIsComplete
    /\ part = "two dirs" => TwoDirs!CopiedIsComplete
    /\ part = "pulls" => Pulls!CopiedIsComplete

\* The client and the device never wait for each other (ReadAcknowledgements).
NotStuck ==
    /\ part = "pushes" => Pushes!NotStuck
    /\ part = "newer" => Newer!NotStuck
    /\ part = "two dirs" => TwoDirs!NotStuck
    /\ part = "pulls" => Pulls!NotStuck

\* A file with the time of the source has its contents (send_impl).
TimestampIsTruthful ==
    /\ part = "pushes" => Pushes!TimestampIsTruthful
    /\ part = "newer" => Newer!TimestampIsTruthful

\* A transfer that failed leaves no part of a file (handle_send_file, sync_recv).
NoHalfFile ==
    /\ part = "pushes" => Pushes!NoHalfFile
    /\ part = "newer" => Newer!NoHalfFile
    /\ part = "two dirs" => TwoDirs!NoHalfFile
    /\ part = "pulls" => Pulls!NoHalfFile

\* What a tracker was last sent is the list as it is (process_list_updated).
TrackerIsCurrent == part = "processes" => Processes!TrackerIsCurrent

\* A staged descriptor is in the queue of a process that is watched
\* (send_socket_to_process).
StagedWillBeSent == part = "processes" => Processes!StagedWillBeSent

\* No update of a process's description is lost (send_app_info).
InfoConverges == part = "processes" => Processes!InfoConverges

\* The result of pairing is reported once (StopServerAndWait).
CalledOnce == part = "pairings" => Pairings!CalledOnce

\* No more than kMaxConnections pairings run at a time (ConnectionEventsWorker).
ConnectionsBounded == part = "pairings" => Pairings!ConnectionsBounded

\* A destroyed pairing server leaves no thread behind (~PairingConnectionCtx).
NoThreadLeft == part = "pairings" => Pairings!NoThreadLeft

\* What is advertised is the server that runs, unless mdnsd refused it
\* (enable_wifi_debugging, disable_wifi_debugging, register_mdns_service).
AdvertisedIsRunning ==
    /\ part = "wifi" => Wifi!AdvertisedIsRunning
    /\ part = "framework" => Framework!AdvertisedIsRunning

\* A file arrives as it was sent (compression_utils.h).
ArrivesWhole ==
    /\ part = "plain" => Plain!ArrivesWhole
    /\ part = "brotli" => Brotli!ArrivesWhole
    /\ part = "lz4" => LZ4!ArrivesWhole
    /\ part = "zstd" => Zstd!ArrivesWhole

\* No packet is larger than the buffers of the other side (LZ4Encoder::Encode).
PacketFits ==
    /\ part = "plain" => Plain!PacketFits
    /\ part = "brotli" => Brotli!PacketFits
    /\ part = "lz4" => LZ4!PacketFits
    /\ part = "zstd" => Zstd!PacketFits

\* No loop calls a decoder again that has nothing to go on with
\* (handle_send_file_data).
NeverSpins ==
    /\ part = "plain" => Plain!NeverSpins
    /\ part = "brotli" => Brotli!NeverSpins
    /\ part = "lz4" => LZ4!NeverSpins
    /\ part = "zstd" => Zstd!NeverSpins

(***************************************************************************)
(* What is checked: for each part, the conjunction of what it promises.    *)
(***************************************************************************)
\* However bytes are cut, queued, completed and moved between blocks, packets come
\* out whole and in order, and what is queued will be written (transport_fd.cpp,
\* types.h, apacket_reader.cpp, daemon/usb.cpp).
PacketsAddUp ==
    /\ PendingWriteWakes /\ ReadsAddUp
    /\ HoldsItsBytes /\ TakesTheFront
    /\ Reassembled /\ SubmittedInFront /\ NoMissedWork

\* A shell's output precedes its exit status, unless its input could not be written,
\* and its input goes on after it did not fit (Subprocess::PollLoop).
ShellFlows == OutputBeforeExit /\ InputGoesOn

\* Whatever fails, a file transfer tells the truth of what it listed, leaves no half file, is not
\* stuck, and brings every byte through each encoder and decoder
\* (file_sync_client.cpp, file_sync_service.cpp, compression_utils.h).
FilesArrive ==
    /\ SuccessIsComplete /\ CopiedIsComplete /\ TimestampIsTruthful /\ NoHalfFile /\ NotStuck
    /\ ArrivesWhole /\ PacketFits /\ NeverSpins

\* Trackers are told of every process as it is, and each staged descriptor will
\* be sent (jdwp_service.cpp, libs/adbconnection).
ProcessesAreKnown == TrackerIsCurrent /\ StagedWillBeSent /\ InfoConverges

\* A pairing is reported once, within the limit of connections, with no thread
\* left behind, and what is advertised is the server that runs, unless mdnsd
\* refused it
\* (pairing_server.cpp, daemon/adb_wifi.cpp, daemon/mdns.cpp).
WirelessIsOrderly == CalledOnce /\ ConnectionsBounded /\ NoThreadLeft /\ AdvertisedIsRunning

(* adb pull of two files named one by one, the first of two ID_DATA messages.  *)
TwoFiles == <<[dir |-> FALSE, files |-> <<1>>], [dir |-> FALSE, files |-> <<2>>]>>
PullsTwo == INSTANCE FileSync WITH
    fs <- st, Push <- FALSE, Sync <- FALSE, Dry <- FALSE, Sources <- TwoFiles, Size <- <<2, 1>>,
    Links <- {}, max_deferred_acks <- 1, Room <- 1, AckRoom <- 1, MaxFaults <- 1

StatInit == part = "stat" /\ el = Created("poll") /\ PullsTwo!Init
StatNext == UNCHANGED <<part, el>> /\ PullsTwo!Next

\* The answer to a stat is read as one (SyncConnection::FinishStat).
StatReadsStat == PullsTwo!StatReadsStat
=============================================================================
