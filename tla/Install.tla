------------------------------ MODULE Install ------------------------------
(***************************************************************************)
(* adb install, install-multiple and install-multi-package                 *)
(* (client/adb_install.cpp): the choice of the way to install, the ways    *)
(* themselves, and the sessions the client creates, fills, and commits or  *)
(* abandons on the device.  Each command to the device is one step; its    *)
(* outcome is "ok", "no" (refused), "lost" (done, but the answer did not   *)
(* arrive) or "down" (no connection to send it on).  The package manager   *)
(* and its sessions are external.                                          *)
(***************************************************************************)
EXTENDS Integers, Sequences, FiniteSets

CONSTANTS Commands,   \* among "install", "multiple", "multi"
          Splits,     \* the files of each package, a sequence of numbers
          Options,    \* the options given: records [mode, incremental, fastdeploy]
          Devices,    \* what the device supports: records [cmd, abb, fast]
          MaxFaults   \* bound on the commands that do not succeed

VARIABLE inst

Ids == 0 .. Len(Splits)          \* session 0 is the parent, or the only one
Outcomes == {"ok", "no", "lost", "down"}

(* Type invariant. *)
TypeOK ==
    /\ inst.command \in Commands /\ inst.options \in Options /\ inst.device \in Devices
    /\ inst.pc \in {"mode", "run", "create", "child", "write", "link", "finalize", "rest", "exit"}
    /\ inst.result \in {0, 1} /\ inst.faults \in 0 .. MaxFaults /\ inst.installed \in BOOLEAN
    /\ inst.state \in [Ids -> {"none", "open", "committed", "failed", "abandoned"}]
    /\ inst.files \in [Ids -> 0 .. 4] /\ inst.children \subseteq Ids
    /\ inst.known \subseteq Ids /\ inst.tried \subseteq Ids

Init ==
    \E c \in Commands, o \in Options, d \in Devices :
        inst = [command |-> c, options |-> o, device |-> d, pc |-> "mode",
                modes |-> <<>>, silent |-> FALSE, patched |-> FALSE, result |-> 1, faults |-> 0, last |-> "ok",
                installed |-> FALSE, state |-> [s \in Ids |-> "none"], files |-> [s \in Ids |-> 0],
                children |-> {}, known |-> {}, tried |-> {}, current |-> 0, success |-> FALSE,
                rest |-> {}]

Fault(c, r) == [c EXCEPT !.faults = IF r = "ok" THEN @ ELSE @ + 1, !.last = r]
Allowed(r) == r = "ok" \/ inst.faults < MaxFaults
Done(r) == r \in {"ok", "lost"}
Exit(c, n) == [c EXCEPT !.pc = "exit", !.result = n]

best_install_mode == IF inst.device.cmd THEN "stream" ELSE "push"

\* ------------------------------------------------------------------ the mode

\* The ways to try in their order; none is an error.  For an option that is not
\* given, the host and the device may say no to incremental (allowed).
calculate_install_mode(o, allowed) ==
    IF o.incremental = "Enable" /\ (o.fastdeploy \/ o.mode # "default" \/ ~inst.device.abb) THEN <<>>
    ELSE IF o.mode # "default" THEN <<o.mode>>
    ELSE IF o.incremental = "Enable" THEN <<"incremental">>
    ELSE IF o.incremental = "None" /\ inst.device.abb /\ allowed
         THEN <<"incremental", best_install_mode>>
    ELSE <<best_install_mode>>

\* install_app and install_multiple_app up to the first way; install_multi_package
\* has one way, which needs a device with the cmd service
install_app ==
    /\ inst.pc = "mode"
    /\ \E allowed \in BOOLEAN :
        LET o     == IF inst.command = "multiple" THEN [inst.options EXCEPT !.fastdeploy = FALSE]
                     ELSE inst.options
            modes == IF inst.command = "multi" THEN IF inst.device.cmd THEN <<"stream">> ELSE <<>>
                     ELSE calculate_install_mode(o, allowed)
            bad   == \E k \in 1 .. Len(modes) : modes[k] = "stream" /\ ~inst.device.cmd
        IN inst' = IF modes = <<>> \/ bad THEN Exit(inst, 1)
                   ELSE [inst EXCEPT !.pc = "run", !.modes = modes, !.silent = Len(modes) > 1,
                                     !.options.fastdeploy = o.fastdeploy /\ inst.device.fast]


\* The end of one way: the next one, if any, when it failed
WayEnds(c, n) ==
    IF n # 0 /\ Len(c.modes) > 1
    THEN [c EXCEPT !.pc = "run", !.modes = Tail(@), !.silent = FALSE]
    ELSE Exit(c, n)

\* install_app_incremental: a silent one may find that the files are not fit for it
install_app_incremental ==
    /\ inst.pc = "run" /\ inst.modes[1] = "incremental"
    /\ \/ inst.silent /\ inst' = WayEnds(inst, 1)
       \/ \E r \in Outcomes :
            /\ Allowed(r)
            /\ inst' = WayEnds(Fault([inst EXCEPT !.installed = @ \/ Done(r)], r),
                               IF r = "ok" THEN 0 ELSE 1)

\* extract_metadata: with fastdeploy a patch is sent, unless the package is not on
\* the device.  Whatever keeps it from being sent ends the program; what the agent
\* makes of it is printed, and stream_patch returns 0.
Patchable == {FALSE, inst.options.fastdeploy}

\* install_app_streamed: what goes wrong ends the program; a patch is installed by
\* the agent
install_app_streamed ==
    /\ inst.pc = "run" /\ inst.modes[1] = "stream" /\ inst.command = "install"
    /\ \E r \in Outcomes, patched \in Patchable :
        /\ Allowed(r)
        /\ inst' = Exit(Fault([inst EXCEPT !.installed = @ \/ Done(r), !.patched = patched], r),
                        IF r = "ok" \/ (patched /\ r # "down") THEN 0 ELSE 1)

\* install_app_legacy: the file is pushed, or patched together from the installed
\* one, then installed and deleted.  With a patch, what pm_command returns is dropped.
install_app_legacy ==
    /\ inst.pc = "run" /\ inst.modes[1] = "push" /\ inst.command = "install"
    /\ \E file, pm \in Outcomes, patched \in Patchable :
        LET c1 == Fault([inst EXCEPT !.patched = patched], file)
            c2 == Fault([c1 EXCEPT !.installed = @ \/ (Done(pm) /\ Done(file))], pm)
        IN /\ Allowed(file) /\ (pm = "ok" \/ c1.faults < MaxFaults)
           /\ inst' = IF patched THEN IF file = "down" THEN Exit(c1, 1)
                                      ELSE WayEnds(IF Done(file) THEN c2 ELSE c1, 0)
                      ELSE IF file # "ok" THEN WayEnds(c1, 1)
                      ELSE WayEnds(c2, IF pm = "ok" THEN 0 ELSE 1)

\* -------------------------------------------------------------- the sessions

\* install_multiple_app_streamed: one session for all the files
BeginSession ==
    /\ inst.pc = "run" /\ inst.modes[1] # "incremental" /\ inst.command = "multiple"
    /\ \E r \in Outcomes :
        LET c1 == Fault([inst EXCEPT !.state[0] = IF Done(r) THEN "open" ELSE "none"], r)
        IN /\ Allowed(r)
           /\ inst' = IF r = "down" THEN Exit(c1, 1) ELSE IF r # "ok" THEN WayEnds(c1, 1)
                      ELSE [c1 EXCEPT !.known = {0}, !.success = TRUE, !.pc = "write"]

\* A plausible slip: a file that was not written does not end the loop
WriteFileCarriesOn ==
    /\ inst.pc = "write" /\ inst.command = "multiple"
    /\ \E r \in Outcomes :
        LET c1 == Fault([inst EXCEPT !.files[0] = IF Done(r) THEN @ + 1 ELSE @], r)
        IN /\ Allowed(r)
           /\ inst' = [c1 EXCEPT !.pc = IF inst.files[0] + 1 < Len(Splits) /\ r = "ok" THEN "write"
                                        ELSE "finalize"]

\* One install-write: a file that cannot be read, sent or is refused ends the loop
WriteFile ==
    /\ inst.pc = "write" /\ inst.command = "multiple"
    /\ \E r \in Outcomes :
        LET c1 == Fault([inst EXCEPT !.files[0] = IF Done(r) THEN @ + 1 ELSE @], r)
        IN /\ Allowed(r)
           /\ inst' = [c1 EXCEPT !.success = (r = "ok"),
                                 !.pc = IF r = "ok" /\ c1.files[0] < Len(Splits) THEN "write"
                                        ELSE "finalize"]

\* What the device makes of a commit or an abandon: a session ends with those linked to it
Ended(c, s, to) == [t \in Ids |-> IF c.state[t] = "open" /\ (t = s \/ (s = 0 /\ t \in c.children))
                                  THEN to ELSE c.state[t]]

\* install-commit when all went well, install-abandon otherwise
Finalized(c, r) ==
    LET to == IF c.success THEN IF Done(r) THEN "committed" ELSE "failed" ELSE "abandoned"
    IN Fault([c EXCEPT !.tried = @ \cup IF r = "down" THEN {} ELSE {0},
                       !.state = IF r = "down" \/ (to = "abandoned" /\ r = "no") THEN @
                                 ELSE Ended(c, 0, to),
                       !.installed = @ \/ (c.success /\ Done(r))], r)

Finalize ==
    /\ inst.pc = "finalize" /\ inst.command = "multiple"
    /\ \E r \in Outcomes :
        /\ Allowed(r)
        /\ inst' = WayEnds(Finalized(inst, r), IF inst.success /\ r = "ok" THEN 0 ELSE 1)

\* install_multi_package: the session of all
BeginParent ==
    /\ inst.pc = "run" /\ inst.command = "multi"
    /\ \E r \in Outcomes :
        LET c1 == Fault([inst EXCEPT !.state[0] = IF Done(r) THEN "open" ELSE "none"], r)
        IN /\ Allowed(r)
           /\ inst' = IF r # "ok" THEN Exit(c1, 1)
                      ELSE [c1 EXCEPT !.known = {0}, !.current = 1, !.pc = "child"]

\* The session of one package
CreateChild ==
    /\ inst.pc = "child"
    /\ \E r \in Outcomes :
        LET s  == inst.current
            c1 == Fault([inst EXCEPT !.state[s] = IF Done(r) THEN "open" ELSE "none"], r)
        IN /\ Allowed(r)
           /\ inst' = IF r # "ok" THEN [c1 EXCEPT !.pc = "finalize"]
                      ELSE [c1 EXCEPT !.known = @ \cup {s}, !.pc = "write"]

WriteSplit ==
    /\ inst.pc = "write" /\ inst.command = "multi"
    /\ \E r \in Outcomes :
        LET s  == inst.current
            c1 == Fault([inst EXCEPT !.files[s] = IF Done(r) THEN @ + 1 ELSE @], r)
        IN /\ Allowed(r)
           /\ inst' = IF r # "ok" THEN [c1 EXCEPT !.pc = "finalize"]
                      ELSE IF c1.files[s] < Splits[s] THEN c1
                      ELSE IF s < Len(Splits) THEN [c1 EXCEPT !.current = s + 1, !.pc = "child"]
                      ELSE [c1 EXCEPT !.pc = "link"]

\* install-add-session, of every child to the parent
AddSessions ==
    /\ inst.pc = "link"
    /\ \E r \in Outcomes :
        /\ Allowed(r)
        /\ inst' = Fault([inst EXCEPT !.children = IF Done(r) THEN 1 .. Len(Splits) ELSE {},
                                      !.success = (r = "ok"), !.pc = "finalize"], r)

\* A plausible slip: whatever fails afterwards, only the parent is abandoned
FinalizeParentOnly ==
    /\ inst.pc = "finalize" /\ inst.command = "multi"
    /\ \E r \in Outcomes :
        /\ Allowed(r)
        /\ inst' = Exit(Finalized(inst, r), IF inst.success /\ r = "ok" THEN 0 ELSE 1)

\* The parent is committed or abandoned; when that is not a success, every
\* session it made is then abandoned, one by one
FinalizeParent ==
    /\ inst.pc = "finalize" /\ inst.command = "multi"
    /\ \E r \in Outcomes :
        LET c1 == Finalized(inst, r)
        IN /\ Allowed(r)
           /\ inst' = IF r = "down" THEN Exit(c1, 1)
                      ELSE IF inst.success /\ r = "ok" THEN Exit(c1, 0)
                      ELSE [c1 EXCEPT !.pc = "rest", !.rest = inst.known]

AbandonRest ==
    /\ inst.pc = "rest"
    /\ \/ inst.rest = {} /\ inst' = Exit(inst, 1)
       \/ \E s \in inst.rest, r \in Outcomes :
            /\ Allowed(r) /\ (s = 0 => inst.rest = {0})
            /\ \A t \in inst.rest \ {0} : s # 0 => s <= t
            /\ inst' = Fault([inst EXCEPT !.rest = @ \ {s}, !.tried = @ \cup {s},
                                 !.state = IF Done(r) THEN Ended(inst, s, "abandoned") ELSE @], r)

Next ==
    \/ install_app \/ install_app_incremental \/ install_app_streamed \/ install_app_legacy
    \/ BeginSession \/ WriteFile \/ Finalize
    \/ BeginParent \/ CreateChild \/ WriteSplit \/ AddSessions \/ FinalizeParent \/ AbandonRest
    \/ (inst.pc = "exit" /\ UNCHANGED inst)

Spec == Init /\ [][Next]_inst

\* --------------------------------------------------------------- properties

\* A session is committed only when every file was written to it and, of
\* several packages, when every package's session is linked to it
\* (adb_install.cpp, finalize_session and finalize_multi_package_session).
CommittedIsWhole ==
    inst.state[0] = "committed" =>
        IF inst.command = "multi"
        THEN inst.children = 1 .. Len(Splits)
             /\ \A s \in inst.children : inst.files[s] = Splits[s] /\ inst.state[s] = "committed"
        ELSE inst.files[0] = Len(Splits)

\* When the program fails but could still reach the device, it has asked the
\* device to end every session it knows of, whichever step failed
\* (install_multi_package: "try to abandon all remaining sessions").
NoneLeftBehind ==
    inst.pc = "exit" /\ inst.result # 0 /\ inst.last # "down" =>
        \A s \in inst.known : s \in inst.tried

\* The program reports success only when the package is installed, by every way but
\* a patch, of which it is said that it was sent (install_app and the ways it tries;
\* stream_patch, and adb_install.cpp:279).
SuccessIsInstalled == inst.pc = "exit" /\ inst.result = 0 => inst.installed \/ inst.patched
=============================================================================
