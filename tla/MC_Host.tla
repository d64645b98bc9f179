------------------------------- MODULE MC_Host -------------------------------
(* Small instances of the parts of the host, one behaviour at a time: part  *)
(* says which one a behaviour is of.  The libusb connections of devices that *)
(* start attached are LibUsb itself; st is the state of any other part,      *)
(* while no device has been plugged in.                                      *)
EXTENDS LibUsb, Integers, Sequences

VARIABLES part, st

vars == <<part, st, lu>>

\* The server: a USB device and two clients, a TCP device, a device the server
\* may not open, and two devices for one client
OneUsb == INSTANCE HostServer WITH
    hs <- st, Transports <- {1}, Usb <- {1}, NoPerm <- {}, Clients <- {1, 2}, Names <- {1}, MaxPackets <- 1
OneTcp == INSTANCE HostServer WITH
    hs <- st, Transports <- {1}, Usb <- {}, NoPerm <- {}, Clients <- {1}, Names <- {1}, MaxPackets <- 2
Locked == INSTANCE HostServer WITH
    hs <- st, Transports <- {1}, Usb <- {1}, NoPerm <- {1}, Clients <- {1, 2}, Names <- {1}, MaxPackets <- 1
Two == INSTANCE HostServer WITH
    hs <- st, Transports <- {1, 2}, Usb <- {1, 2}, NoPerm <- {}, Clients <- {1}, Names <- {1}, MaxPackets <- 1

\* Resource records: type, instance, address; value; time to live
R(t, i, a, v, l) == [key |-> <<t, i, a>>, value |-> v, ttl |-> l]
Answer(rs) == [query |-> FALSE, records |-> rs]
OnePackets == {
    Answer(<<R("PTR", 1, 0, 0, 20), R("SRV", 1, 0, 1, 20)>>),
    Answer(<<R("A", 1, 1, 0, 20)>>),
    [query |-> TRUE, records |-> <<R("AAAA", 1, 1, 0, 20)>>],
    Answer(<<R("A", 1, 2, 0, 20), R("TXT", 1, 0, 1, 20), R("SRV", 1, 0, 2, 20)>>),
    Answer(<<R("PTR", 1, 0, 0, 0)>>)}
TwoPackets == {
    Answer(<<R("PTR", 1, 0, 0, 20), R("SRV", 1, 0, 1, 20), R("A", 1, 1, 0, 20)>>),
    Answer(<<R("SRV", 2, 0, 1, 20), R("PTR", 1, 0, 0, 0)>>)}

\* Discovery: a service whose records come, change and expire; and two services
\* over restarts of the driver, with a client that tracks them
Cache == INSTANCE Mdns WITH
    md <- st, Instances <- {1}, Tracked <- {1}, Known <- {1}, Packets <- OnePackets, Early <- {1, 7},
    Late <- {0}, MinPoll <- 1, MaxTime <- 45, MaxPackets <- 3, MaxRestarts <- 0, Trackers <- {}
Restarted == INSTANCE Mdns WITH
    md <- st, Instances <- {1, 2}, Tracked <- {1}, Known <- {1}, Packets <- TwoPackets, Early <- {1, 7},
    Late <- {0}, MinPoll <- 2, MaxTime <- 25, MaxPackets <- 2, MaxRestarts <- 2, Trackers <- {1}

\* adb install, install-multiple and install-multi-package of a package of two
\* files and one of one, with two commands that fail
Modes == [mode : {"default", "stream", "push"}, incremental : {"None", "Enable", "Disable"}, fastdeploy : BOOLEAN]
Abilities == [cmd : BOOLEAN, abb : BOOLEAN, fast : BOOLEAN]
Installs == INSTANCE Install WITH
    inst <- st, Commands <- {"install", "multiple", "multi"}, Splits <- <<2, 1>>, Options <- Modes,
    Devices <- Abilities, MaxFaults <- 2

\* The incremental server: an unsigned file, a signed one with blocks the
\* package manager wants first, and small files; what it prints; a block of data and
\* a leaf that cannot be read; a root that cannot
File(s, b, p) == [signed |-> s, blocks |-> b, priority |-> p]
Served == <<File(FALSE, 1, <<>>), File(TRUE, 3, <<2>>), File(FALSE, 2, <<>>), File(TRUE, 2, <<>>)>>
Small == <<File(FALSE, 1, <<>>), File(TRUE, 3, <<2>>), File(FALSE, 2, <<>>), File(TRUE, 1, <<>>)>>
Misses == INSTANCE Incremental WITH
    ic <- st, Files <- Served, HashesPerBlock <- 2, PerIteration <- 1, ChunkBlocks <- 2, Readahead <- 1,
    KeptBytes <- 1, MaxMisses <- 1, Verdict <- 0, Unreadable <- {}, StrayBit <- TRUE
Prints == INSTANCE Incremental WITH
    ic <- st, Files <- Small, HashesPerBlock <- 2, PerIteration <- 1, ChunkBlocks <- 2, Readahead <- 1,
    KeptBytes <- 1, MaxMisses <- 0, Verdict <- 1, Unreadable <- {}, StrayBit <- FALSE
Faulty == INSTANCE Incremental WITH
    ic <- st, Files <- Small, HashesPerBlock <- 2, PerIteration <- 1, ChunkBlocks <- 2, Readahead <- 1,
    KeptBytes <- 1, MaxMisses <- 1, Verdict <- 0, Unreadable <- {<<"data", 0, 1>>, <<"tree", 0, 2>>}, StrayBit <- TRUE
Rootless == INSTANCE Incremental WITH
    ic <- st, Files <- Small, HashesPerBlock <- 2, PerIteration <- 1, ChunkBlocks <- 2, Readahead <- 1,
    KeptBytes <- 1, MaxMisses <- 1, Verdict <- 0, Unreadable <- {<<"tree", 0, 0>>}, StrayBit <- TRUE

\* Starting the server: three clients of one version; a newer client alone; an
\* older, a newer and a kill-server at a server that comes to be between them; on
\* Windows, with a server that cannot be killed
Same == INSTANCE ServerLaunch WITH
    sl <- st, Clients <- 1 .. 3, Version <- <<1, 1, 1>>, Old <- 0, Killers <- {}, Interrupts <- {},
    Reject <- FALSE, Windows <- FALSE, Linux <- TRUE
Upgrade == INSTANCE ServerLaunch WITH
    sl <- st, Clients <- {1}, Version <- <<2>>, Old <- 1, Killers <- {}, Interrupts <- {},
    Reject <- FALSE, Windows <- FALSE, Linux <- TRUE
Mixed == INSTANCE ServerLaunch WITH
    sl <- st, Clients <- 1 .. 3, Version <- <<1, 2, 3>>, Old <- 2, Killers <- {3}, Interrupts <- {1},
    Reject <- FALSE, Windows <- FALSE, Linux <- TRUE
Refused == INSTANCE ServerLaunch WITH
    sl <- st, Clients <- 1 .. 3, Version <- <<1, 2, 1>>, Old <- 2, Killers <- {2}, Interrupts <- {},
    Reject <- TRUE, Windows <- TRUE, Linux <- FALSE

\* Fast deployment of one of two APKs over one of three: an entry changed, entries
\* in another order, an entry added in the middle; twice, with a fault
E(v, l, d) == [v |-> v, len |-> l, dd |-> d]
Packages == <<<<E(1, 1, FALSE), E(2, 2, TRUE), E(3, 1, FALSE)>>,
              <<E(1, 1, FALSE), E(4, 2, TRUE), E(3, 1, FALSE)>>,
              <<E(2, 2, TRUE), E(1, 1, FALSE)>>,
              <<E(1, 1, FALSE), E(5, 1, TRUE), E(2, 2, TRUE), E(3, 1, FALSE)>>>>
Patches == INSTANCE FastDeploy WITH
    fd <- st, Apks <- Packages, Local <- {1, 4}, Installed <- {1, 2, 3}, Align <- 2, Reverse_cd <- TRUE,
    Strategy <- "DifferentVersion", Attempts <- 2, Faults <- 1
Always == INSTANCE FastDeploy WITH
    fd <- st, Apks <- Packages, Local <- {1}, Installed <- {2}, Align <- 1, Reverse_cd <- FALSE,
    Strategy <- "Always", Attempts <- 1, Faults <- 1

\* Emulators on two ports, with a thread that was told of one; one emulator that
\* is known under two ports
Scanned == INSTANCE Emulators WITH
    em <- st, Ports <- {1, 2}, Console <- <<1, 2>>, Requests <- <<1>>, EmuRequests <- {},
    LOCAL_PORT_RETRY_COUNT <- 2, MaxTransports <- 3, MaxEpoch <- 2
Alias == INSTANCE Emulators WITH
    em <- st, Ports <- {1, 2}, Console <- <<1, 1>>, Requests <- <<2>>, EmuRequests <- {1},
    LOCAL_PORT_RETRY_COUNT <- 2, MaxTransports <- 3, MaxEpoch <- 2

\* adb root of a device by its serial and adb unroot of the only one, with another
\* that may be plugged in; a shell that waits for a device
Root == INSTANCE Restart WITH
    rs <- st, Command <- "root", Target <- "serial", Debuggable <- TRUE, StartRoot <- FALSE,
    Others <- TRUE, MaxCrashes <- 2
Unroot == INSTANCE Restart WITH
    rs <- st, Command <- "unroot", Target <- "any", Debuggable <- TRUE, StartRoot <- TRUE,
    Others <- TRUE, MaxCrashes <- 1
ById == INSTANCE Restart WITH
    rs <- st, Command <- "root", Target <- "id", Debuggable <- FALSE, StartRoot <- FALSE,
    Others <- FALSE, MaxCrashes <- 1
Awaits == INSTANCE Restart WITH
    rs <- st, Command <- "shell", Target <- "serial", Debuggable <- TRUE, StartRoot <- FALSE,
    Others <- TRUE, MaxCrashes <- 1

\* adb shell at a terminal, and of an old device without one; adb bugreport that
\* ends well and that fails
Line(kind, arg) == [kind |-> kind, arg |-> arg]
Keys(n) == UNION {[1 .. m -> {"~", ".", "nl", "x"}] : m \in 0 .. n}
Terminal == INSTANCE ShellClient WITH
    sc <- st, Bugreport <- FALSE, ShellProtocol <- TRUE, RawStdin <- TRUE, Inputs <- Keys(3),
    MaxSizes <- 1, Text <- <<Line("x", 0)>>, Versions <- {}, Args <- {}, MaxChunk <- 3, WireRoom <- 1
Raw == INSTANCE ShellClient WITH
    sc <- st, Bugreport <- FALSE, ShellProtocol <- FALSE, RawStdin <- FALSE, Inputs <- Keys(2),
    MaxSizes <- 1, Text <- <<Line("x", 0)>>, Versions <- {}, Args <- {}, MaxChunk <- 3, WireRoom <- 1
Report == INSTANCE ShellClient WITH
    sc <- st, Bugreport <- TRUE, ShellProtocol <- TRUE, RawStdin <- FALSE, Inputs <- {<<>>}, MaxSizes <- 0,
    Text <- <<Line("BEGIN", 1), Line("PROGRESS", 20), Line("PROGRESS", 10), Line("PROGRESS", 0), Line("OK", 2)>>,
    Versions <- {0, 10, 11, 12}, Args <- {"none", "--stream", "dir", "file"}, MaxChunk <- 4, WireRoom <- 1
Failed == INSTANCE ShellClient WITH
    sc <- st, Bugreport <- TRUE, ShellProtocol <- TRUE, RawStdin <- FALSE, Inputs <- {<<>>}, MaxSizes <- 0,
    Text <- <<Line("BEGIN", 1), Line("x", 0), Line("FAIL", 0)>>,
    Versions <- {0, 10, 11, 12}, Args <- {"none", "--stream", "dir", "file"}, MaxChunk <- 4, WireRoom <- 1

\* adb sideload of a package whose last block is short; of one too large for the
\* old way
Ota == INSTANCE Sideload WITH
    sd <- st, Size <- 5, BlockSize <- 2, MaxInt <- 9, Rescue <- FALSE, MaxRequests <- 3
Large == INSTANCE Sideload WITH
    sd <- st, Size <- 4, BlockSize <- 2, MaxInt <- 3, Rescue <- FALSE, MaxRequests <- 2

\* Two commands that pair at a time, with a call that fails and a server that ends
Hosts == INSTANCE KnownHosts WITH
    kh <- st, Pairs <- {1, 2}, Guid <- <<1, 2>>, Listed <- {0}, MaxFaults <- 1, MaxCrashes <- 1

\* USB through the kernel; through libusb: two plugs of one device, and a device
\* that waits for an attach
Linux == INSTANCE UsbLinux WITH ul <- st, Transfers <- <<1, 2>>, MaxReads <- 2
Detached == INSTANCE LibUsb WITH
    lu <- st, MaxPlugs <- 1, MaxRequests <- 3, MaxPackets <- 2, StartDetached <- TRUE

\* Packets over endpoints of 4 bytes, both ways of the host: payloads below, at and
\* above the size of an endpoint's packet, of a read of adbd and of two reads; an
\* interface found first, after others, or not at all
Endpoint(i, b, s) == [in |-> i, bulk |-> b, size |-> s]
Interface(a, es) == [adb |-> a, endpoints |-> es]
OtherInterface == Interface(FALSE, <<Endpoint(TRUE, TRUE, 2), Endpoint(FALSE, TRUE, 2)>>)
Adb == Interface(TRUE, <<Endpoint(TRUE, TRUE, 4), Endpoint(FALSE, TRUE, 4)>>)
NoIn(s) == Interface(TRUE, <<Endpoint(FALSE, TRUE, s), Endpoint(TRUE, FALSE, s)>>)
Descriptors == {<<Adb>>, <<OtherInterface, NoIn(4), Adb>>, <<NoIn(8), Adb>>, <<OtherInterface, NoIn(4)>>}
Payloads == <<0, 1, 4, 8, 12, 16, 17>>
Usbfs == INSTANCE UsbBulk WITH
    ub <- st, Native <- TRUE, Configs <- Descriptors, kUsbReadSize <- 8, kUsbWriteSize <- 8, SplitSize <- 8,
    HeaderSize <- 3, MAX_PAYLOAD <- 17, Lengths <- Payloads
Bulk == INSTANCE UsbBulk WITH
    ub <- st, Native <- FALSE, Configs <- Descriptors, kUsbReadSize <- 8, kUsbWriteSize <- 8, SplitSize <- 8,
    HeaderSize <- 3, MAX_PAYLOAD <- 17, Lengths <- Payloads

\* Names of devices: addresses of TCP beside two USB devices of one product; an
\* mDNS service by two spellings, and IPv6; vsock, local sockets and a port alone.
\* What is listened at and connected to: by the server, by "adb -a" with IPv6 only,
\* on Windows, and by adbd
Numbers == {"0", "1", "7", "5555", "65536"}
Spelled == [w \in {"x._tcp", "x._tcp.local"} |-> "x._tcp"]
Requests == {<<"get-state">>, <<"forward", ":", "tcp", ":", "7;tcp", ":", "7">>}
Phones == {[name |-> <<"S1">>, devpath |-> <<"usb", ":", "1-1">>], [name |-> <<>>, devpath |-> <<"usb", ":", "1-2">>]}
Banner == {[product |-> <<"p">>, model |-> <<"m 1">>, device |-> <<"d">>]}
TcpAddresses == {<<"a">>, <<"a", ":", "7">>, <<"a", ":", "5555">>}
TcpTargets == {<<"S1">>, <<"usb", ":", "1-1">>, <<"usb", ":", "1-2">>, <<"product", ":", "p">>, <<"model", ":", "m_1">>,
               <<"device", ":", "d">>, <<"a">>, <<"tcp", ":", "a">>, <<"udp", ":", "a", ":", "7">>,
               <<"a", ":", "7">>, <<"a", ":", "5555">>}
NetAddresses == {<<"x._tcp">>, <<"x._tcp.local">>, <<":", ":", "7">>, <<"[", ":", ":", "7", "]", ":", "7">>, <<"localhost">>}
NetTargets == {<<"x._tcp">>, <<"localhost", ":", "5555">>, <<":", ":", "7">>, <<"[", ":", ":", "7", "]", ":", "7">>,
               <<"[", ":", ":", "7", "]", ":", "5555">>}
LocalAddresses == {<<"vsock", ":", "1", ":", "7">>, <<"vsock", ":", "1">>, <<"localfilesystem", ":", "/s">>, <<"7">>}
LocalTargets == {<<"vsock", ":", "1", ":", p>> : p \in Numbers} \cup {<<"vsock", ":", "1">>, <<"localfilesystem", ":", "/s">>, <<"7">>}
Specifications ==
    {<<"tcp", ":", "7">>, <<"tcp", ":", "0">>, <<"tcp", ":", "65536">>, <<"tcp", ":", "localhost", ":", "7">>,
     <<"tcp", ":", "a", ":", "7">>, <<"tcp", ":", "[", ":", ":", "1", "]", ":", "7">>, <<"vsock", ":", "7">>,
     <<"vsock", ":", "1", ":", "7">>, <<"acceptfd", ":", "1">>, <<"local", ":", "/s">>, <<"localabstract", ":", "s">>,
     <<"localreserved", ":", "s">>, <<"localfilesystem", ":", "/s">>, <<"jdwp", ":", "7">>}
TcpNames == INSTANCE Targets WITH
    tg <- st, Digits <- Numbers, Ports <- Numbers \ {"0", "65536"}, Dotted <- DOMAIN Spelled,
    Sanitized <- [w \in {"m 1"} |-> "m_1"], Instance <- Spelled, Commands <- Requests,
    Devices <- Phones, Banners <- Banner, Addresses <- TcpAddresses, Targets <- TcpTargets, Specs <- {},
    ADB_HOST <- TRUE, ADB_LINUX <- TRUE, ADB_WINDOWS <- FALSE, gListenAll <- FALSE, HasIPv4 <- TRUE
NetNames == INSTANCE Targets WITH
    tg <- st, Digits <- Numbers, Ports <- Numbers \ {"0", "65536"}, Dotted <- DOMAIN Spelled,
    Sanitized <- [w \in {"m 1"} |-> "m_1"], Instance <- Spelled, Commands <- Requests,
    Devices <- {}, Banners <- {}, Addresses <- NetAddresses, Targets <- NetTargets, Specs <- {},
    ADB_HOST <- TRUE, ADB_LINUX <- TRUE, ADB_WINDOWS <- FALSE, gListenAll <- FALSE, HasIPv4 <- TRUE
LocalNames == INSTANCE Targets WITH
    tg <- st, Digits <- Numbers, Ports <- Numbers \ {"0", "65536"}, Dotted <- DOMAIN Spelled,
    Sanitized <- [w \in {"m 1"} |-> "m_1"], Instance <- Spelled, Commands <- Requests,
    Devices <- {}, Banners <- {}, Addresses <- LocalAddresses, Targets <- LocalTargets, Specs <- {},
    ADB_HOST <- TRUE, ADB_LINUX <- TRUE, ADB_WINDOWS <- FALSE, gListenAll <- FALSE, HasIPv4 <- TRUE
Server == INSTANCE Targets WITH
    tg <- st, Digits <- Numbers, Ports <- Numbers \ {"0", "65536"}, Dotted <- DOMAIN Spelled,
    Sanitized <- [w \in {"m 1"} |-> "m_1"], Instance <- Spelled, Commands <- Requests,
    Devices <- {}, Banners <- {}, Addresses <- {}, Targets <- {}, Specs <- Specifications,
    ADB_HOST <- TRUE, ADB_LINUX <- TRUE, ADB_WINDOWS <- FALSE, gListenAll <- FALSE, HasIPv4 <- TRUE
Open == INSTANCE Targets WITH
    tg <- st, Digits <- Numbers, Ports <- Numbers \ {"0", "65536"}, Dotted <- DOMAIN Spelled,
    Sanitized <- [w \in {"m 1"} |-> "m_1"], Instance <- Spelled, Commands <- Requests,
    Devices <- {}, Banners <- {}, Addresses <- {}, Targets <- {}, Specs <- Specifications,
    ADB_HOST <- TRUE, ADB_LINUX <- TRUE, ADB_WINDOWS <- FALSE, gListenAll <- TRUE, HasIPv4 <- FALSE
Windows == INSTANCE Targets WITH
    tg <- st, Digits <- Numbers, Ports <- Numbers \ {"0", "65536"}, Dotted <- DOMAIN Spelled,
    Sanitized <- [w \in {"m 1"} |-> "m_1"], Instance <- Spelled, Commands <- Requests,
    Devices <- {}, Banners <- {}, Addresses <- {}, Targets <- {}, Specs <- Specifications,
    ADB_HOST <- TRUE, ADB_LINUX <- FALSE, ADB_WINDOWS <- TRUE, gListenAll <- FALSE, HasIPv4 <- TRUE
Adbd == INSTANCE Targets WITH
    tg <- st, Digits <- Numbers, Ports <- Numbers \ {"0", "65536"}, Dotted <- DOMAIN Spelled,
    Sanitized <- [w \in {"m 1"} |-> "m_1"], Instance <- Spelled, Commands <- Requests,
    Devices <- {}, Banners <- {}, Addresses <- {}, Targets <- {}, Specs <- Specifications,
    ADB_HOST <- FALSE, ADB_LINUX <- TRUE, ADB_WINDOWS <- FALSE, gListenAll <- FALSE, HasIPv4 <- TRUE

HostInit ==
    /\ Init
    /\ \/ part = "plugs" /\ st = <<>>
       \/ part = "usb" /\ OneUsb!Init
       \/ part = "tcp" /\ OneTcp!Init
       \/ part = "locked" /\ Locked!Init
       \/ part = "two" /\ Two!Init
       \/ part = "cache" /\ Cache!Init
       \/ part = "restart" /\ Restarted!Init
       \/ part = "installs" /\ Installs!Init
       \/ part = "misses" /\ Misses!Init
       \/ part = "prints" /\ Prints!Init
       \/ part = "faulty" /\ Faulty!Init
       \/ part = "rootless" /\ Rootless!Init
       \/ part = "same" /\ Same!Init
       \/ part = "upgrade" /\ Upgrade!Init
       \/ part = "mixed" /\ Mixed!Init
       \/ part = "refused" /\ Refused!Init
       \/ part = "patches" /\ Patches!Init
       \/ part = "always" /\ Always!Init
       \/ part = "scanned" /\ Scanned!Init
       \/ part = "alias" /\ Alias!Init
       \/ part = "root" /\ Root!Init
       \/ part = "unroot" /\ Unroot!Init
       \/ part = "byid" /\ ById!Init
       \/ part = "awaits" /\ Awaits!Init
       \/ part = "terminal" /\ Terminal!Init
       \/ part = "raw" /\ Raw!Init
       \/ part = "report" /\ Report!Init
       \/ part = "failed" /\ Failed!Init
       \/ part = "ota" /\ Ota!Init
       \/ part = "large" /\ Large!Init
       \/ part = "hosts" /\ Hosts!Init
       \/ part = "linux" /\ Linux!Init
       \/ part = "detached" /\ Detached!Init
       \/ part = "usbfs" /\ Usbfs!Init
       \/ part = "bulk" /\ Bulk!Init
       \/ part = "tcpnames" /\ TcpNames!Init
       \/ part = "netnames" /\ NetNames!Init
       \/ part = "localnames" /\ LocalNames!Init
       \/ part = "server" /\ Server!Init
       \/ part = "open" /\ Open!Init
       \/ part = "windows" /\ Windows!Init
       \/ part = "adbd" /\ Adbd!Init

HostNext ==
    /\ part' = part
    /\ \/ part = "usb" /\ OneUsb!Next /\ UNCHANGED lu
       \/ part = "tcp" /\ OneTcp!Next /\ UNCHANGED lu
       \/ part = "locked" /\ Locked!Next /\ UNCHANGED lu
       \/ part = "two" /\ Two!Next /\ UNCHANGED lu
       \/ part = "cache" /\ Cache!Next /\ UNCHANGED lu
       \/ part = "restart" /\ Restarted!Next /\ UNCHANGED lu
       \/ part = "installs" /\ Installs!Next /\ UNCHANGED lu
       \/ part = "misses" /\ Misses!Next /\ UNCHANGED lu
       \/ part = "prints" /\ Prints!Next /\ UNCHANGED lu
       \/ part = "faulty" /\ Faulty!Next /\ UNCHANGED lu
       \/ part = "rootless" /\ Rootless!Next /\ UNCHANGED lu
       \/ part = "same" /\ Same!Next /\ UNCHANGED lu
       \/ part = "upgrade" /\ Upgrade!Next /\ UNCHANGED lu
       \/ part = "mixed" /\ Mixed!Next /\ UNCHANGED lu
       \/ part = "refused" /\ Refused!Next /\ UNCHANGED lu
       \/ part = "patches" /\ Patches!Next /\ UNCHANGED lu
       \/ part = "always" /\ Always!Next /\ UNCHANGED lu
       \/ part = "scanned" /\ Scanned!Next /\ UNCHANGED lu
       \/ part = "alias" /\ Alias!Next /\ UNCHANGED lu
       \/ part = "root" /\ Root!Next /\ UNCHANGED lu
       \/ part = "unroot" /\ Unroot!Next /\ UNCHANGED lu
       \/ part = "byid" /\ ById!Next /\ UNCHANGED lu
       \/ part = "awaits" /\ Awaits!Next /\ UNCHANGED lu
       \/ part = "terminal" /\ Terminal!Next /\ UNCHANGED lu
       \/ part = "raw" /\ Raw!Next /\ UNCHANGED lu
       \/ part = "report" /\ Report!Next /\ UNCHANGED lu
       \/ part = "failed" /\ Failed!Next /\ UNCHANGED lu
       \/ part = "ota" /\ Ota!Next /\ UNCHANGED lu
       \/ part = "large" /\ Large!Next /\ UNCHANGED lu
       \/ part = "hosts" /\ Hosts!Next /\ UNCHANGED lu
       \/ part = "linux" /\ Linux!Next /\ UNCHANGED lu
       \/ part = "plugs" /\ Next /\ UNCHANGED st
       \/ part = "detached" /\ Detached!Next /\ UNCHANGED lu
       \/ part = "usbfs" /\ Usbfs!Next /\ UNCHANGED lu
       \/ part = "bulk" /\ Bulk!Next /\ UNCHANGED lu
       \/ part = "tcpnames" /\ TcpNames!Next /\ UNCHANGED lu
       \/ part = "netnames" /\ NetNames!Next /\ UNCHANGED lu
       \/ part = "localnames" /\ LocalNames!Next /\ UNCHANGED lu
       \/ part = "server" /\ Server!Next /\ UNCHANGED lu
       \/ part = "open" /\ Open!Next /\ UNCHANGED lu
       \/ part = "windows" /\ Windows!Next /\ UNCHANGED lu
       \/ part = "adbd" /\ Adbd!Next /\ UNCHANGED lu

HostSpec == HostInit /\ [][HostNext]_vars

\* The types of every part.
HostTypeOK ==
    CASE part = "usb" -> OneUsb!TypeOK
      [] part = "tcp" -> OneTcp!TypeOK
      [] part = "locked" -> Locked!TypeOK
      [] part = "two" -> Two!TypeOK
      [] part = "cache" -> Cache!TypeOK
      [] part = "restart" -> Restarted!TypeOK
      [] part = "installs" -> Installs!TypeOK
      [] part = "misses" -> Misses!TypeOK
      [] part = "prints" -> Prints!TypeOK
      [] part = "faulty" -> Faulty!TypeOK
      [] part = "rootless" -> Rootless!TypeOK
      [] part = "same" -> Same!TypeOK
      [] part = "upgrade" -> Upgrade!TypeOK
      [] part = "mixed" -> Mixed!TypeOK
      [] part = "refused" -> Refused!TypeOK
      [] part = "patches" -> Patches!TypeOK
      [] part = "always" -> Always!TypeOK
      [] part = "scanned" -> Scanned!TypeOK
      [] part = "alias" -> Alias!TypeOK
      [] part = "root" -> Root!TypeOK
      [] part = "unroot" -> Unroot!TypeOK
      [] part = "byid" -> ById!TypeOK
      [] part = "awaits" -> Awaits!TypeOK
      [] part = "terminal" -> Terminal!TypeOK
      [] part = "raw" -> Raw!TypeOK
      [] part = "report" -> Report!TypeOK
      [] part = "failed" -> Failed!TypeOK
      [] part = "ota" -> Ota!TypeOK
      [] part = "large" -> Large!TypeOK
      [] part = "hosts" -> Hosts!TypeOK
      [] part = "linux" -> Linux!TypeOK
      [] part = "plugs" -> TypeOK
      [] part = "detached" -> Detached!TypeOK
      [] part = "usbfs" -> Usbfs!TypeOK
      [] part = "bulk" -> Bulk!TypeOK
      [] part = "tcpnames" -> TcpNames!TypeOK
      [] part = "netnames" -> NetNames!TypeOK
      [] part = "localnames" -> LocalNames!TypeOK
      [] part = "server" -> Server!TypeOK
      [] part = "open" -> Open!TypeOK
      [] part = "windows" -> Windows!TypeOK
      [] part = "adbd" -> Adbd!TypeOK

\* No client, listener or closure refers to a deleted transport, unless an A_CNXN
\* was handled after its TCP connection ended (fdevent_unregister_transport,
\* close_all_sockets).
NoDangling ==
    /\ part = "usb" => OneUsb!NoDangling
    /\ part = "tcp" => OneTcp!NoDangling
    /\ part = "locked" => Locked!NoDangling
    /\ part = "two" => Two!NoDangling

\* A client that asked and stayed is sent the statuses of its request, and no more
\* (local_socket_close_notify, handle_forward_request).
Answered ==
    /\ part = "usb" => OneUsb!Answered
    /\ part = "tcp" => OneTcp!Answered
    /\ part = "locked" => Locked!Answered
    /\ part = "two" => Two!Answered

\* What a tracker was last sent is the list of transports as it is, but for devices
\* that may not be opened and have left (update_transports, unregister_usb_transport).
TrackerSeesLatest ==
    /\ part = "usb" => OneUsb!TrackerSeesLatest
    /\ part = "tcp" => OneTcp!TrackerSeesLatest
    /\ part = "locked" => Locked!TrackerSeesLatest
    /\ part = "two" => Two!TrackerSeesLatest

\* The attention list is a heap and holds exactly the records of the store
\* (IndexMinPQ; ZeroConfig::add_rr, tick).
StoredIsAttended ==
    /\ part = "cache" => Cache!StoredIsAttended
    /\ part = "restart" => Restarted!StoredIsAttended

\* A record is dropped only after it was asked for four times (RRLifecycle).
AskedBeforeDropped == part = "cache" => Cache!AskedBeforeDropped

\* No record outlives its time to live (ZeroConfig::tick).
NothingExpiredIsKept ==
    /\ part = "cache" => Cache!NothingExpiredIsKept
    /\ part = "restart" => Restarted!NothingExpiredIsKept

\* A known device that is listed has been connected to (AttemptAutoConnect).
KnownIsTried ==
    /\ part = "cache" => Cache!KnownIsTried
    /\ part = "restart" => Restarted!KnownIsTried

\* The discovered services are those of the last snapshot
\* (OnServiceReceiverResult).
ListedIsReported ==
    /\ part = "cache" => Cache!ListedIsReported
    /\ part = "restart" => Restarted!ListedIsReported

\* A tracker that is behind will be sent another list (update_mdns_trackers).
TrackerWillSee == part = "restart" => Restarted!TrackerWillSee

\* A command in the channel has a datagram coming that wakes the driver
\* (zero_config_driver_channel.rs).
CommandWakes == part = "restart" => Restarted!CommandWakes

\* A session is committed only when every file was written to it
\* (finalize_session, finalize_multi_package_session).
CommittedIsWhole == part = "installs" => Installs!CommittedIsWhole

\* A failing command has asked the device to end every session it knows of
\* (install_multi_package).
NoneLeftBehind == part = "installs" => Installs!NoneLeftBehind

\* Success is reported only when the package is installed, or a patch of it was sent
\* (install_app).
SuccessIsInstalled == part = "installs" => Installs!SuccessIsInstalled

\* The device and the server mean the same file by an id (build_database).
IdsAgree ==
    /\ part = "misses" => Misses!IdsAgree
    /\ part = "prints" => Prints!IdsAgree
    /\ part = "faulty" => Faulty!IdsAgree
    /\ part = "rootless" => Rootless!IdsAgree

\* Every block is sent once, after its blocks of the hash tree, or after its leaf
\* alone where what is above cannot be read (SendDataBlock).
SentOnceAfterTree ==
    /\ part = "misses" => Misses!SentOnceAfterTree
    /\ part = "prints" => Prints!SentOnceAfterTree
    /\ part = "faulty" => Faulty!SentOnceAfterTree
    /\ part = "rootless" => Rootless!SentOnceAfterTree

\* The server never waits with blocks in its buffer (IncrementalServer::Serve).
NothingHeldWhileWaiting ==
    /\ part = "misses" => Misses!NothingHeldWhileWaiting
    /\ part = "prints" => Prints!NothingHeldWhileWaiting
    /\ part = "faulty" => Faulty!NothingHeldWhileWaiting
    /\ part = "rootless" => Rootless!NothingHeldWhileWaiting

\* The message that everything is sent is the last and nothing is missing
\* (SendDone).
DoneIsLast ==
    /\ part = "misses" => Misses!DoneIsLast
    /\ part = "prints" => Prints!DoneIsLast
    /\ part = "faulty" => Faulty!DoneIsLast
    /\ part = "rootless" => Rootless!DoneIsLast

\* A server that reported its start has the port until it is told to exit
\* (adb_server_main, launch_server).
StartedHasPort ==
    /\ part = "same" => Same!StartedHasPort
    /\ part = "upgrade" => Upgrade!StartedHasPort
    /\ part = "mixed" => Mixed!StartedHasPort
    /\ part = "refused" => Refused!StartedHasPort

\* The path that older clients execute is that of the server that answered
\* (adb_server_main).
FileNamesServer ==
    /\ part = "same" => Same!FileNamesServer
    /\ part = "upgrade" => Upgrade!FileNamesServer
    /\ part = "mixed" => Mixed!FileNamesServer
    /\ part = "refused" => Refused!FileNamesServer

\* A client fails only beside a server it could use, when all are of one
\* version (install_listener, launch_server).
FailsOnlyBesideServer == part = "same" => Same!FailsOnlyBesideServer

\* A newer client replaces the old server (adb_kill_server).
UpgradeSucceeds == part = "upgrade" => Upgrade!UpgradeSucceeds

\* A server reported as killed has gone (adb_kill_server).
KilledIsGone ==
    /\ part = "mixed" => Mixed!KilledIsGone
    /\ part = "refused" => Refused!KilledIsGone

\* The session the agent commits holds the local APK byte for byte
\* (DeployPatchGenerator::GeneratePatch, DeployAgent.applyPatch).
PatchedIsLocal ==
    /\ part = "patches" => Patches!PatchedIsLocal
    /\ part = "always" => Always!PatchedIsLocal

\* The bytes said to be equal and those in the patch are the bytes of the APK
\* (ReportSavings).
SavingsAreReal ==
    /\ part = "patches" => Patches!SavingsAreReal
    /\ part = "always" => Always!SavingsAreReal

\* A lost emulator's port is retried until it is connected or the retries are
\* used up (client_socket_thread).
LostIsRetried ==
    /\ part = "scanned" => Scanned!LostIsRetried
    /\ part = "alias" => Alias!LostIsRetried

\* No two transports have one serial (register_socket_transport).
OneSerial ==
    /\ part = "scanned" => Scanned!OneSerial
    /\ part = "alias" => Alias!OneSerial

\* The adbd that adb root has waited for is a new one, that runs as was asked
\* (adb_root, wait_service).
FoundIsNew ==
    /\ part = "root" => Root!FoundIsNew
    /\ part = "unroot" => Unroot!FoundIsNew

\* What is sent is what was typed, less the escapes (stdin_read_thread_loop).
InputAsTyped ==
    /\ part = "terminal" => Terminal!InputAsTyped
    /\ part = "raw" => Raw!InputAsTyped

\* A status is returned only after all of the output, and a lost connection is
\* no success (read_and_dump_protocol).
StatusIsTrue ==
    /\ part = "terminal" => Terminal!StatusIsTrue
    /\ part = "raw" => Raw!StatusIsTrue
    /\ part = "report" => Report!StatusIsTrue

\* The report that is pulled is the one the device named last, wherever its
\* lines are cut (BugreportStandardStreamsCallback).
CopiedIsNamed ==
    /\ part = "report" => Report!CopiedIsNamed
    /\ part = "failed" => Failed!CopiedIsNamed

\* Progress is shown only when it goes forward or starts again (UpdateProgress).
ProgressIsForward == part = "report" => Report!ProgressIsForward

\* What the device reads for a block is that block (adb_sideload_install).
BlocksAreServed ==
    /\ part = "ota" => Ota!BlocksAreServed
    /\ part = "large" => Large!BlocksAreServed

\* The file of known hosts can always be parsed (AddKnownHost).
NeverTorn == part = "hosts" => Hosts!NeverTorn

\* A host that was added stays known, unless two commands write at a time or the
\* server ends while one does (SafeReplaceFile, IsKnownHost).
AddedStaysKnown == part = "hosts" => Hosts!AddedStaysKnown

\* usb_write reports success only for bytes that left (client/usb_linux.cpp).
WroteWhatLeft == part = "linux" => Linux!WroteWhatLeft

\* Attaching and detaching a device that starts detached ends neither in a crash
\* nor in a transport nobody reads, but for one that an A_CNXN read before the
\* detach makes usable after it, and a granted detach has released the device
\* (LibUsbConnection::Attach, Detach, atransport::HandleRead).
DetachedIsAlive == part = "detached" => Detached!UsbIsAlive

\* A packet the host has written is in adbd's hands, not in a read that waits for
\* more (usb_write, LibUsbDevice::Write).
WrittenArrives ==
    /\ part = "usbfs" => Usbfs!WrittenArrives
    /\ part = "bulk" => Bulk!WrittenArrives

\* What adbd answers is read packet by packet, without an overflow and without
\* waiting for more (UsbReadPayload, LibUsbDevice::Read).
AnswersArrive ==
    /\ part = "usbfs" => Usbfs!AnswersArrive
    /\ part = "bulk" => Bulk!AnswersArrive

\* What is listed of one transport has a command reach it, and as it was given
\* (parse_host_service, atransport::MatchesTarget).
ListedIsReached ==
    /\ part = "tcpnames" => TcpNames!ListedIsReached
    /\ part = "netnames" => NetNames!ListedIsReached
    /\ part = "localnames" => LocalNames!ListedIsReached

\* "adb disconnect" of an address finds what "adb connect" of it made
\* (connect_device, handle_host_request).
DisconnectsWhatItConnected ==
    /\ part = "tcpnames" => TcpNames!DisconnectsWhatItConnected
    /\ part = "netnames" => NetNames!DisconnectsWhatItConnected
    /\ part = "localnames" => LocalNames!DisconnectsWhatItConnected

\* Listening at a socket specification and connecting to it meet
\* (socket_spec_listen, socket_spec_connect).
SpecsAgree ==
    /\ part = "server" => Server!SpecsAgree
    /\ part = "open" => Open!SpecsAgree
    /\ part = "windows" => Windows!SpecsAgree
    /\ part = "adbd" => Adbd!SpecsAgree

(***************************************************************************)
(* What is checked: for each part, the conjunction of what it promises.    *)
(***************************************************************************)
\* Clients, listeners, trackers and queued closures agree with the list of
\* transports, and every client is answered (transport.cpp, sockets.cpp,
\* adb_listeners.cpp). Excepted are the clients of a TCP device whose A_CNXN comes
\* after its connection ended, and the departure of a device that may not be opened.
ServerIsConsistent == NoDangling /\ Answered /\ TrackerSeesLatest

\* Devices are found, kept and forgotten in time: records are asked for again
\* before they expire and attended in order, known devices are connected to,
\* trackers hear of them, and a lost emulator is retried but not registered twice
\* (zero_config.rs, transport_mdns.cpp, transport_emulator.cpp).
DevicesAreFound ==
    /\ StoredIsAttended /\ AskedBeforeDropped /\ NothingExpiredIsKept /\ CommandWakes
    /\ ListedIsReported /\ TrackerWillSee /\ KnownIsTried
    /\ LostIsRetried /\ OneSerial


\* The blocks of an incremental installation are those the device means, each
\* once, after its part of the hash tree (after its leaf, where a block above the
\* leaves cannot be read), none is held back, and the end is last (incremental.cpp,
\* incremental_server.cpp).
BlocksInOrder == IdsAgree /\ SentOnceAfterTree /\ NothingHeldWhileWaiting /\ DoneIsLast

\* A patch makes the local APK of the installed one, byte for byte, and the bytes
\* it is said to save are real (deploy_patch_generator.cpp, DeployAgent.java).
PatchIsExact == PatchedIsLocal /\ SavingsAreReal

\* However clients of different versions start, replace and kill the server, the
\* one that said it has started is there until it is told to exit, and a client
\* fails only beside a server it could use (adb_client.cpp, client/main.cpp).
OneServer ==
    StartedHasPort /\ FileNamesServer /\ FailsOnlyBesideServer /\ UpgradeSucceeds /\ KilledIsGone

\* Packets of every length pass the endpoints of both sides whole and at once, and
\* no write is reported that did not leave (usb_write, UsbReadPayload,
\* LibUsbDevice, UsbFfsConnection::Write).
UsbIsFramed == WroteWhatLeft /\ WrittenArrives /\ AnswersArrive

\* What a command tells or does is true: the adbd that adb root found is new, the
\* shell sends what was typed and returns the status after the output, the bug
\* report copied is the one named, sideload serves the block asked for, a paired
\* host stays known, a device that was detached is released until it is attached
\* (though a late A_CNXN may list it as usable), and a device is reached by what it
\* is listed and was connected by (commandline.cpp, bugreport.cpp, adb_wifi.cpp,
\* usb_libusb.cpp, sockets.cpp).
CommandsAreTrue ==
    /\ FoundIsNew
    /\ InputAsTyped /\ StatusIsTrue /\ CopiedIsNamed /\ ProgressIsForward
    /\ BlocksAreServed
    /\ NeverTorn /\ AddedStaysKnown /\ DetachedIsAlive
    /\ ListedIsReached /\ DisconnectsWhatItConnected /\ SpecsAgree

\* One emulator, the scanner and a thread that is told of the emulator
Registry == INSTANCE Emulators WITH
    em <- st, Ports <- {1}, Console <- <<1>>, Requests <- <<1>>, EmuRequests <- {1},
    LOCAL_PORT_RETRY_COUNT <- 2, MaxTransports <- 2, MaxEpoch <- 2

RegistryInit == part = "registry" /\ Init /\ Registry!Init
RegistryNext == UNCHANGED <<part, lu>> /\ Registry!Next

\* An entry of emulator_transports is of a transport that exists (connect_emulator).
EntryIsAlive == Registry!EntryIsAlive
=============================================================================
