----------------------------- MODULE FastDeploy -----------------------------
(* "adb install --fastdeploy": the client (client/fastdeploy.cpp) makes sure *)
(* that the agent on the device is current, has it dump the central          *)
(* directory of the installed APK, finds the entries the local APK shares    *)
(* with it (fastdeploy/deploypatchgenerator) and streams a patch, which the  *)
(* agent (fastdeploy/deployagent) applies to the installed file and writes   *)
(* into an install session.                                                  *)
(*                                                                           *)
(* A file is a sequence of cells [k, v, n, x]: a header, a unit of data, a   *)
(* record of the central directory, ...  The MD5 digest of a record is the   *)
(* record itself.  The package manager, the shell and the file push are      *)
(* external: they may fail.                                                  *)
EXTENDS Integers, Sequences, SequencesExt, FiniteSets
CONSTANTS
    Apks,       \* the APKs: sequences of entries [v, len, dd], in file order
    Local,      \* the ones a client may install (indices of Apks)
    Installed,  \* the ones that may be installed before
    Align,      \* zipalign: the data of an entry starts at a multiple of it
    Reverse_cd, \* BOOLEAN: the central directory lists the entries backwards
    Strategy,   \* g_agent_update_strategy: "Always", "NewerTimeStamp", "DifferentVersion"
    Attempts,   \* how often the command is run
    Faults      \* calls of the package manager or of the push that may fail

VARIABLE fd

Cell(k, v, n, x) == [k |-> k, v |-> v, n |-> n, x |-> x]
Blank(k, n) == [i \in 1..n |-> Cell(k, 0, 0, 0)]
At(file, offset) == file[offset + 1]
Region(file, offset, size) == SubSeq(file, offset + 1, offset + size)

(* How a build lays an APK out: the entries one after the other, each a      *)
(* local file header, an extra field that aligns the data, the data and a    *)
(* data descriptor; the signature block; the central directory; its end.     *)
EntryCells(e, offset) ==
    LET extra == (Align - ((offset + 1) % Align)) % Align IN
    <<Cell("lfh", e.v, IF e.dd THEN -1 ELSE e.len, extra)>> \o Blank("extra", extra)
        \o [i \in 1..e.len |-> Cell("data", e.v, i, 0)]
        \o (IF e.dd THEN <<Cell("ddmagic", 0, 0, 0), Cell("dd", e.v, e.len, 0)>> ELSE <<>>)
Build(entries) ==
    LET body == FoldLeft(LAMBDA b, e : b \o EntryCells(e, Len(b)), <<>>, entries)
        offset(i) == Len(FoldLeft(LAMBDA b, e : b \o EntryCells(e, Len(b)), <<>>,
                                  SubSeq(entries, 1, i - 1)))
        cd == [i \in 1..Len(entries) |-> Cell("cdr", entries[i].v, offset(i), entries[i].len)]
        sig == <<Cell("sigsize", 0, 2, 0), Cell("signature", Len(body), 0, 0),
                 Cell("sig42", 0, 2, 0)>>
    IN  body \o sig \o (IF Reverse_cd THEN Reverse(cd) ELSE cd)
             \o <<Cell("eocd", 0, Len(body) + Len(sig), Len(cd))>>
Files == [a \in DOMAIN Apks |-> Build(Apks[a])]

-----------------------------------------------------------------------------
(* ApkArchive (apk_archive.cpp and ApkArchive.java).                         *)
FindEndOfCDRecord(file) ==
    LET found == {i \in 1..Len(file) : file[i].k = "eocd"} IN
    IF found = {} THEN -1 ELSE (CHOOSE i \in found : \A j \in found : j <= i) - 1

GetCDLocation(file) ==
    LET eocd == FindEndOfCDRecord(file) IN
    IF eocd < 0 THEN [offset |-> 0, size |-> 0, valid |-> FALSE]
    ELSE [offset |-> At(file, eocd).n, size |-> At(file, eocd).x, valid |-> TRUE]

GetSignatureLocation(file, cdRecordOffset) ==
    LET magic == cdRecordOffset - 1 IN
    IF magic < 0 \/ At(file, magic).k # "sig42"
    THEN [offset |-> 0, size |-> 0, valid |-> FALSE]
    ELSE [offset |-> cdRecordOffset - At(file, magic).n - 1, size |-> At(file, magic).n,
          valid |-> TRUE]

(* ExtractMetadata: the agent also drops a signature whose sizes disagree.   *)
ExtractMetadata(file) ==
    LET cd == GetCDLocation(file)
        sig == GetSignatureLocation(file, cd.offset)
        read == Region(file, sig.offset, sig.size)
    IN  [cd |-> IF cd.valid THEN Region(file, cd.offset, cd.size) ELSE <<>>,
         signature |-> IF cd.valid /\ sig.valid /\ Head(read).n = sig.size THEN read ELSE <<>>]

record_without_offset(cdr) ==
    [md5 |-> [cdr EXCEPT !.n = 0], dataoffset |-> cdr.n, datasize |-> cdr.x]
ParseCentralDirectoryRecord(cdr) ==
    [md5 |-> cdr, dataoffset |-> cdr.n, datasize |-> cdr.x]

(* 0: an error, after which the client exits.                                *)
CalculateLocalFileEntrySize(file, localFileHeaderOffset, dataSize) ==
    IF localFileHeaderOffset + 1 > Len(file) \/ At(file, localFileHeaderOffset).k # "lfh" THEN 0
    ELSE LET lfh == At(file, localFileHeaderOffset)
             ddOffset == localFileHeaderOffset + 1 + lfh.x + dataSize
             hasDD == lfh.n = -1
             magic == hasDD /\ At(file, ddOffset).k = "ddmagic"
             ddSize == (IF hasDD THEN 1 ELSE 0) + (IF magic THEN 1 ELSE 0)
             localDataSize == IF hasDD THEN At(file, ddOffset + ddSize - 1).n ELSE lfh.n
         IN  IF localDataSize # dataSize THEN 0 ELSE 1 + lfh.x + dataSize + ddSize

-----------------------------------------------------------------------------
(* PatchUtils and DeployPatchGenerator.                                      *)
GetDeviceAPKMetaData(dump) ==
    [i \in 1..Len(dump.cd) |-> ParseCentralDirectoryRecord(dump.cd[i])]
GetHostAPKMetaData(file) ==
    LET meta == GetDeviceAPKMetaData(ExtractMetadata(file)) IN
    [i \in 1..Len(meta) |->
        [meta[i] EXCEPT !.datasize = CalculateLocalFileEntrySize(file, meta[i].dataoffset, @)]]

Identical(loc, dev) ==
    LET pair(l) == LET same == {i \in 1..Len(dev) : dev[i].md5 = l.md5} IN
                   IF same = {} THEN <<>>
                   ELSE <<[localEntry |-> l,
                           deviceEntry |-> dev[CHOOSE i \in same : \A j \in same : i <= j]]>>
    IN  FlattenSeq([i \in 1..Len(loc) |-> pair(loc[i])])
BuildIdenticalEntries(loc, dev) ==
    SortSeq(Identical(loc, dev),
            LAMBDA l, r : l.localEntry.dataoffset < r.localEntry.dataoffset)

savings_of_data(identicalEntries) ==
    FoldLeft(LAMBDA n, e : n + e.deviceEntry.datasize, 0, identicalEntries)
ReportSavings(identicalEntries) ==
    FoldLeft(LAMBDA n, e : n + e.localEntry.datasize, 0, identicalEntries)

(* g: the patch written so far, the place of the input file and the sizes.   *)
WritePatchEntry(g) ==
    LET p == g.entry IN
    IF p.delta = 0 /\ p.off = 0 /\ p.len = 0 THEN g
    ELSE [g EXCEPT !.out = Append(@, [data |-> Region(g.input, g.pos, p.delta),
                                      off |-> p.off, len |-> p.len]),
                   !.pos = @ + p.delta + p.len,
                   !.realSizeOut = @ + p.delta + p.len]
PatchOneEntry(g, e) ==
    LET delta == e.localEntry.dataoffset - g.currentSizeOut IN
    [(IF delta > 0 THEN WritePatchEntry(g) ELSE g) EXCEPT
        !.entry = IF delta > 0 THEN [delta |-> delta, off |-> e.deviceEntry.dataoffset,
                                     len |-> e.localEntry.datasize]
                  ELSE [@ EXCEPT !.len = @ + e.localEntry.datasize],
        !.currentSizeOut = @ + delta + e.localEntry.datasize]
GeneratePatch(entriesToUseOnDevice, input) ==
    LET start == [entry |-> [delta |-> 0, off |-> 0, len |-> 0], input |-> input, pos |-> 0,
                  out |-> <<>>, currentSizeOut |-> 0, realSizeOut |-> 0]
        g == WritePatchEntry(FoldLeft(PatchOneEntry, start, entriesToUseOnDevice))
        rest == Len(input) - g.currentSizeOut
    IN  [mismatch |-> g.realSizeOut # g.currentSizeOut,
         packets |-> IF rest > 0
                     THEN Append(g.out, [data |-> Region(input, g.pos, rest), off |-> 0, len |-> 0])
                     ELSE g.out]

-----------------------------------------------------------------------------
(* fd: the client of the current attempt (pc, apk, retried, meta), the       *)
(* device (jar, script, file: the installed file, path: its name, a number), *)
(* the faults left and one agent process per attempt.                        *)
NoAgent == [pc |-> "none", apk |-> 0, path |-> 0, packets |-> <<>>, header |-> FALSE, equal |-> 0,
            sent |-> 0, open |-> FALSE, read |-> 0, old |-> <<>>, bytes |-> <<>>]
Idle(f) == [f EXCEPT !.pc = "idle", !.agent[f.attempt].open = FALSE]
error_exit(f) == Idle(f)
Mine == fd.agent[fd.attempt]
Fault(f) == [f EXCEPT !.faults = @ - 1]

Init ==
    \E jar \in {"none", "old", "current"}, script \in {"none", "plain", "exec"},
       i \in Installed \cup {0} :
        fd = [pc |-> "idle", attempt |-> 0, apk |-> 0, retried |-> FALSE, meta |-> <<>>,
              jar |-> jar, script |-> script,
              file |-> IF i = 0 THEN <<>> ELSE Files[i], path |-> 1, faults |-> Faults,
              agent |-> [a \in 0..Attempts |-> NoAgent]]

(* The command, and update_agent_if_necessary.  The files pushed are new     *)
(* temporary files, so the time stamps compared never keep a push back.      *)
update_agent_if_necessary ==
    /\ fd.pc = "idle" /\ fd.attempt < Attempts
    /\ \E a \in Local :
        fd' = [fd EXCEPT !.attempt = @ + 1, !.apk = a, !.retried = FALSE, !.meta = <<>>,
                         !.pc = IF Strategy = "DifferentVersion" THEN "dump" ELSE "jar"]

(* deploy_agent: two pushes and a chmod.  A push that fails has removed the  *)
(* file it was to write, and the client exits.                               *)
deploy_agent ==
    \/ /\ fd.pc = "jar"
       /\ \/ fd' = [fd EXCEPT !.jar = "current", !.pc = "script"]
          \/ fd.faults > 0 /\ fd' = error_exit(Fault([fd EXCEPT !.jar = "none"]))
    \/ /\ fd.pc = "script"
       /\ \/ fd' = [fd EXCEPT !.script = "plain", !.pc = "chmod"]
          \/ fd.faults > 0 /\ fd' = error_exit(Fault([fd EXCEPT !.script = "none"]))
    \/ /\ fd.pc = "chmod"
       /\ \/ fd' = [fd EXCEPT !.script = "exec", !.pc = "dump"]
          \/ fd.faults > 0 /\ fd' = error_exit(Fault(fd))

(* The exit status of "deployagent dump": DeployAgent.main, or the shell's   *)
(* or the runtime's when there is no script or no agent to run.              *)
dump_status ==
    IF fd.script = "none" THEN {127} ELSE IF fd.script = "plain" THEN {126}
    ELSE IF fd.jar = "none" THEN {1, 134}
    ELSE IF fd.jar = "old" THEN {4} ELSE IF fd.file = <<>> THEN {3} ELSE {0}

kPackageMissing == 3
kInvalidAgentVersion == 4

(* extract_metadata; without a package the client falls back to install.     *)
extract_metadata ==
    /\ fd.pc = "dump"
    /\ \E returnCode \in dump_status :
        fd' = IF returnCode >= kInvalidAgentVersion /\ ~fd.retried
              THEN [fd EXCEPT !.pc = "jar", !.retried = TRUE]
              ELSE IF returnCode = 0
              THEN [fd EXCEPT !.pc = "apply", !.meta = GetDeviceAPKMetaData(ExtractMetadata(fd.file)),
                              !.agent[fd.attempt].path = fd.path]
              ELSE IF returnCode = kPackageMissing THEN Idle(fd)
              ELSE error_exit(fd)

(* install_patch or apply_patch_on_device: the agent is started.             *)
install_patch ==
    /\ fd.pc = "apply"
    /\ fd' = [fd EXCEPT !.pc = "create",
                        !.agent[fd.attempt] = [@ EXCEPT !.pc = "create", !.apk = fd.apk,
                                                        !.open = TRUE]]

(* stream_patch: create_patch, packet by packet, then read_and_dump.         *)
create_patch ==
    /\ fd.pc = "create"
    /\ LET meta == GetHostAPKMetaData(Files[fd.apk])
           same == BuildIdenticalEntries(meta, fd.meta)
           patch == GeneratePatch(same, Files[fd.apk])
       IN  fd' = IF patch.mismatch \/ \E i \in 1..Len(meta) : meta[i].datasize = 0
                 THEN error_exit(fd)
                 ELSE [fd EXCEPT !.pc = "stream",
                                 !.agent[fd.attempt] = [@ EXCEPT !.packets = patch.packets,
                                     !.equal = ReportSavings(same), !.header = TRUE]]
stream_patch ==
    /\ fd.pc = "stream"
    /\ fd' = IF Mine.sent < Len(Mine.packets) THEN [fd EXCEPT !.agent[fd.attempt].sent = @ + 1]
             ELSE [fd EXCEPT !.pc = "wait"]
read_and_dump ==
    /\ fd.pc = "wait" /\ Mine.pc \in {"failed", "committed"}
    /\ fd' = Idle(fd)
(* The user stops the client, or it loses the device.                        *)
Interrupt ==
    /\ fd.pc # "idle" /\ fd.faults > 0
    /\ fd' = Idle(Fault(fd))

-----------------------------------------------------------------------------
(* DeployAgent "apply - -pm": applyPatch, and the functions it calls.        *)
AgentTo(a, pc) == fd' = [fd EXCEPT !.agent[a].pc = pc]
AgentFails(a) == fd.faults > 0 /\ fd' = Fault([fd EXCEPT !.agent[a].pc = "failed"])
createInstallSession(a) ==
    /\ fd.agent[a].pc = "create"
    /\ AgentTo(a, "header") \/ AgentFails(a)

(* readPatchHeader and the opening of the old file, which is gone when       *)
(* another installation has replaced it.                                     *)
readPatchHeader(a) ==
    LET g == fd.agent[a] IN
    /\ g.pc = "header" /\ (g.header \/ ~g.open)
    /\ IF g.header /\ g.path = fd.path
       THEN fd' = [fd EXCEPT !.agent[a].pc = "patch", !.agent[a].old = fd.file]
       ELSE AgentTo(a, "failed")

(* The loop of writePatchedDataToStream; the end of the input is an          *)
(* IOException.                                                              *)
newSize(g) == Len(Files[g.apk])
writePatchedDataToStream(a) ==
    LET g == fd.agent[a] IN
    /\ g.pc = "patch" /\ Len(g.bytes) < newSize(g) /\ (g.read < g.sent \/ ~g.open)
    /\ IF g.read < g.sent
       THEN LET p == g.packets[g.read + 1] IN
            fd' = [fd EXCEPT !.agent[a].read = @ + 1,
                             !.agent[a].bytes = @ \o p.data \o Region(g.old, p.off, p.len)]
       ELSE AgentTo(a, "failed")
writePatchedDataToSession(a) ==
    LET g == fd.agent[a] IN
    /\ g.pc = "patch" /\ Len(g.bytes) >= newSize(g)
    /\ IF Len(g.bytes) # newSize(g) THEN AgentTo(a, "failed")
       ELSE AgentTo(a, "written") \/ AgentFails(a)
commitInstallSession(a) ==
    /\ fd.agent[a].pc = "written"
    /\ \/ fd' = [fd EXCEPT !.agent[a].pc = "committed", !.file = fd.agent[a].bytes, !.path = @ + 1]
       \/ AgentFails(a)
(* Another installation of the package, by somebody else.                    *)
Replace ==
    /\ fd.faults > 0 /\ fd.file # <<>>
    /\ \E i \in Installed : fd' = Fault([fd EXCEPT !.file = Files[i], !.path = @ + 1])

Next ==
    \/ update_agent_if_necessary
    \/ deploy_agent
    \/ extract_metadata
    \/ install_patch
    \/ create_patch
    \/ stream_patch
    \/ read_and_dump
    \/ Interrupt
    \/ Replace
    \/ \E a \in 1..Attempts :
        \/ createInstallSession(a)
        \/ readPatchHeader(a)
        \/ writePatchedDataToStream(a)
        \/ writePatchedDataToSession(a)
        \/ commitInstallSession(a)

-----------------------------------------------------------------------------
(* Type invariant.                                                           *)
TypeOK ==
    /\ fd.pc \in {"idle", "jar", "script", "chmod", "dump", "apply", "create", "stream", "wait"}
    /\ fd.attempt \in 0..Attempts /\ fd.faults \in 0..Faults
    /\ fd.jar \in {"none", "old", "current"} /\ fd.script \in {"none", "plain", "exec"}
    /\ \A a \in 1..Attempts : fd.agent[a].sent <= Len(fd.agent[a].packets)

(* The session the agent commits holds the local APK byte for byte: the      *)
(* entries taken over from the installed file are the same there, although   *)
(* only their records in the central directory were compared, adjacent       *)
(* entries are merged without a look at their places on the device, and      *)
(* another installation, a lost client or a failing command may have come    *)
(* between the dump and the patch.                                           *)
PatchedIsLocal ==
    \A a \in 1..Attempts :
        fd.agent[a].pc = "committed" => fd.agent[a].bytes = Files[fd.agent[a].apk]

(* ReportSavings tells the truth: the bytes of the APK are the ones said to  *)
(* be equal and the ones that the patch carries, none of them twice.         *)
SavingsAreReal ==
    \A a \in 1..Attempts : fd.agent[a].header =>
        FoldLeft(LAMBDA n, p : n + Len(p.data), fd.agent[a].equal, fd.agent[a].packets)
            = Len(Files[fd.agent[a].apk])
=============================================================================
