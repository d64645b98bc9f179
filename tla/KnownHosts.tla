------------------------------ MODULE KnownHosts ------------------------------
(* "adb pair" in the server (client/adb_wifi.cpp): a thread of its own for   *)
(* each command runs the pairing and writes the device to the file of known  *)
(* hosts, by replacing it, without a lock between the threads.  The          *)
(* connection that follows is that of Mdns.                                  *)
EXTENDS Integers, FiniteSets
CONSTANTS
    Pairs,          \* the threads of pair_service
    Guid,           \* the device each one pairs with
    Listed,         \* the hosts that are known at first
    MaxFaults,      \* calls that fail
    MaxCrashes      \* ends of the server

VARIABLE kh

(* A file: whether it exists, what is in it, whether that can be parsed.     *)
NoFile == [there |-> FALSE, hosts |-> {}, whole |-> TRUE]
FileOf(hosts) == [there |-> TRUE, hosts |-> hosts, whole |-> TRUE]
(* What is left of a write that failed.                                      *)
Torn == [there |-> TRUE, hosts |-> {}, whole |-> FALSE]

Init ==
    kh = [file |-> FileOf(Listed), tbd |-> NoFile, temp |-> [p \in Pairs |-> NoFile],
          pc |-> [p \in Pairs |-> "idle"], result |-> [p \in Pairs |-> "none"],
          loaded |-> [p \in Pairs |-> {}], old_renamed |-> [p \in Pairs |-> FALSE],
          response |-> [p \in Pairs |-> "none"], added |-> Listed, overlap |-> FALSE,
          faults |-> 0, crashes |-> 0]

At(p, label) == kh.pc[p] = label
Goto(p, label) == [kh EXCEPT !.pc[p] = label]
Fails == kh.faults < MaxFaults
InAddKnownHost(p) == kh.pc[p] \in {"write", "rename old", "rename new", "rename back", "unlink"}
Respond(p, r) == [kh EXCEPT !.pc[p] = "respond", !.response[p] = r]

-----------------------------------------------------------------------------
(* adb_wifi_pair_device.  The pairing client is started with the mutex of    *)
(* the waiter held, which only the wait gives up.                            *)
StartClient(p) ==
    /\ At(p, "idle")
    /\ kh' \in {Respond(p, "Failed"), Goto(p, "locked")}
Wait(p) ==
    /\ At(p, "locked")
    /\ kh' = Goto(p, "waits")
OnResult(p) ==
    /\ At(p, "waits") /\ kh.result[p] = "none"
    /\ \E r \in {"guid", "unknown", "invalid"} : kh' = [kh EXCEPT !.result[p] = r]
Woken(p) ==
    /\ At(p, "waits") /\ kh.result[p] # "none"
    /\ kh' = IF kh.result[p] = "guid" THEN Goto(p, "load") ELSE Respond(p, "Failed")

(* Load: a file that cannot be parsed is deleted.                            *)
Hosts(f) == IF f.there /\ f.whole THEN f.hosts ELSE {}
Load(p) ==
    /\ At(p, "load")
    /\ kh' = [kh EXCEPT !.loaded[p] = Hosts(kh.file), !.pc[p] = "write",
                        !.file = IF kh.file.whole THEN @ ELSE NoFile,
                        !.overlap = @ \/ \E q \in Pairs : InAddKnownHost(q)]
IsKnownHost(host) == \E guid \in Hosts(kh.file) : host.guid = guid

(* The rest of AddKnownHost.  Whatever it returns, the pairing succeeded.    *)
write_unchecked(p) ==
    /\ At(p, "write")
    /\ \/ kh' = [kh EXCEPT !.temp[p] = FileOf(kh.loaded[p] \cup {Guid[p]}), !.pc[p] = "rename old"]
       \/ Fails /\ kh' = [kh EXCEPT !.temp[p] = Torn, !.pc[p] = "rename old", !.faults = @ + 1]
WriteTemporary(p) ==
    /\ At(p, "write")
    /\ \/ kh' = [kh EXCEPT !.temp[p] = FileOf(kh.loaded[p] \cup {Guid[p]}), !.pc[p] = "rename old"]
       \/ Fails /\ kh' = [Respond(p, "Successfully paired") EXCEPT !.faults = @ + 1]

(* SafeReplaceFile.                                                          *)
RenameOld(p) ==
    /\ At(p, "rename old")
    /\ \/ /\ kh.file.there
          /\ kh' = [kh EXCEPT !.tbd = kh.file, !.file = NoFile, !.old_renamed[p] = TRUE,
                              !.pc[p] = "rename new"]
       \/ ~kh.file.there /\ kh' = Goto(p, "rename new")
       \/ Fails /\ kh' = [Goto(p, "rename new") EXCEPT !.faults = @ + 1]
no_rename_back(p) ==
    /\ At(p, "rename new")
    /\ \/ kh' = [kh EXCEPT !.file = kh.temp[p], !.temp[p] = NoFile, !.pc[p] = "unlink",
                           !.added = @ \cup {Guid[p]}]
       \/ Fails /\ kh' = [Respond(p, "Successfully paired") EXCEPT !.faults = @ + 1, !.temp[p] = NoFile]
RenameNew(p) ==
    /\ At(p, "rename new")
    /\ \/ kh' = [kh EXCEPT !.file = kh.temp[p], !.temp[p] = NoFile, !.pc[p] = "unlink",
                           !.added = @ \cup {Guid[p]}]
       \/ Fails /\ kh' = [Goto(p, "rename back") EXCEPT !.faults = @ + 1]
RenameBack(p) ==
    /\ At(p, "rename back")
    /\ LET c == [Respond(p, "Successfully paired") EXCEPT !.temp[p] = NoFile] IN
       kh' = IF kh.old_renamed[p] /\ kh.tbd.there
             THEN [c EXCEPT !.file = kh.tbd, !.tbd = NoFile] ELSE c
Unlink(p) ==
    /\ At(p, "unlink")
    /\ kh' = [Respond(p, "Successfully paired") EXCEPT !.tbd = NoFile]

(* pair_service: the answer to the client, by what the response starts with. *)
pair_service(p) ==
    /\ At(p, "respond")
    /\ kh' = Goto(p, IF kh.response[p] = "Failed" THEN "failed" ELSE "okay")
(* The server ends, and a new one serves the threads that have not begun.    *)
Crash ==
    /\ kh.crashes < MaxCrashes
    /\ kh' = [kh EXCEPT !.crashes = @ + 1,
                        !.pc = [p \in Pairs |-> IF @[p] \in {"idle", "failed", "okay"} THEN @[p] ELSE "ended"]]

Next ==
    \/ \E p \in Pairs :
        \/ StartClient(p) \/ Wait(p) \/ OnResult(p) \/ Woken(p) \/ Load(p) \/ WriteTemporary(p)
        \/ RenameOld(p) \/ RenameNew(p) \/ RenameBack(p) \/ Unlink(p) \/ pair_service(p)
    \/ Crash

-----------------------------------------------------------------------------
(* Type invariant.                                                           *)
TypeOK ==
    /\ kh.faults \in 0..MaxFaults /\ kh.crashes \in 0..MaxCrashes
    /\ \A p \in Pairs : kh.response[p] \in {"none", "Failed", "Successfully paired"}
    /\ kh.added \subseteq Listed \cup {Guid[p] : p \in Pairs}

(* The file can always be parsed, so that no reader deletes it, and holds    *)
(* only hosts that were paired with, whatever fails, wherever the server     *)
(* ends and however many commands replace it at a time (AddKnownHost,        *)
(* SafeReplaceFile).                                                         *)
NeverTorn ==
    /\ kh.file.whole /\ kh.tbd.whole
    /\ kh.file.hosts \cup kh.tbd.hosts \subseteq Listed \cup {Guid[p] : p \in {q \in Pairs : kh.result[q] = "guid"}}

(* As long as no two commands are writing the file at a time and the server  *)
(* did not end while one was, every host that was added is known whenever    *)
(* the file is not being replaced, also after a rename that failed, and also *)
(* when its service is announced under a second name (IsKnownHost).          *)
AddedStaysKnown ==
    (~kh.overlap /\ (\A p \in Pairs : ~InAddKnownHost(p) /\ kh.pc[p] # "ended")) =>
        \A guid \in kh.added : IsKnownHost([guid |-> guid, suffix |-> " (2)"])
=============================================================================
