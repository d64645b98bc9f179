------------------------------- MODULE Restart -------------------------------
(* A command that has adbd restart and waits for it ("adb root", "adb        *)
(* unroot": adb_root in client/commandline.cpp), or that needs a device and  *)
(* waits for one (send_shell_command); the wait service of the server        *)
(* (services.cpp) and the restart service of the device.  The device is      *)
(* attached by USB: it is found again as a new transport, once the old one   *)
(* has gone.                                                                 *)
EXTENDS Integers, FiniteSets
CONSTANTS
    Command,        \* "root", "unroot" or "shell"
    Target,         \* what the user named: "any", "serial" or "id"
    Debuggable,     \* of the build of the device
    StartRoot,      \* whether the first adbd is root
    Others,         \* another device may be plugged in once the command is connected
    MaxCrashes      \* times adbd goes away by itself

VARIABLE rs

(* gen numbers the runs of adbd, of which 0 is none; fd is what the service  *)
(* sent and whether it is closed; found is the run that the last wait saw.   *)
Init ==
    rs = [gen |-> 1, last |-> 1, uid0 |-> StartRoot, prop |-> StartRoot, crashes |-> 0,
          list |-> {}, ids |-> 0,
          pc |-> IF Command = "shell" THEN "features" ELSE "get-state",
          on |-> [id |-> 0, gen |-> 0], target |-> Target, features |-> FALSE,
          fd |-> [open |-> FALSE, served |-> FALSE, out |-> "", eof |-> FALSE],
          found |-> [gen |-> 0, uid0 |-> FALSE], ret |-> "none"]

-----------------------------------------------------------------------------
(* acquire_one_transport: the transports that a target may mean, and the one *)
(* it does, if that is connected.                                            *)
Mine(t) == t.dev = 1
Meant(target) == {t \in rs.list : CASE target = "id" -> t.id = rs.on.id
                                    [] target = "serial" -> Mine(t)
                                    [] target = "any" -> TRUE}
is_ambiguous(target) == Cardinality(Meant(target)) > 1
Acquired(target) == IF is_ambiguous(target) THEN {} ELSE {t \in Meant(target) : t.state = "device"}
(* The transport id that the user gave is that of the device as it was.      *)
Named == IF rs.target = "id" /\ rs.on.id = 0 THEN "serial" ELSE rs.target

(* adb_root and send_shell_command.                                          *)
Return(r) == [rs EXCEPT !.pc = "end", !.ret = r]
get_state ==
    /\ rs.pc = "get-state"
    /\ rs' = IF Acquired(Named) = {} THEN Return("false") ELSE [rs EXCEPT !.pc = "connect"]
adb_connect ==
    /\ rs.pc = "connect"
    /\ IF Acquired(Named) = {}
       THEN rs' = IF Command = "shell" THEN [rs EXCEPT !.pc = "wait"] ELSE Return("false")
       ELSE \E t \in Acquired(Named) :
                rs' = [rs EXCEPT !.pc = "read", !.on = [id |-> t.id, gen |-> t.gen],
                                 !.fd.open = TRUE]
(* The output is read to its end; none at all, or one that says so, means    *)
(* that adbd restarts.                                                       *)
no_disconnect ==
    /\ rs.pc = "read" /\ rs.fd.eof
    /\ rs' = IF Command = "shell" \/ rs.fd.out = "no" THEN Return("true")
             ELSE [rs EXCEPT !.pc = "wait-for-state"]
read_output ==
    /\ rs.pc = "read" /\ rs.fd.eof
    /\ rs' = IF Command = "shell" \/ rs.fd.out = "no" THEN Return("true")
             ELSE [rs EXCEPT !.pc = "wait-for-disconnect"]
adb_get_feature_set ==
    /\ rs.pc = "features"
    /\ rs' = IF rs.features \/ Acquired(Named) # {}
             THEN [rs EXCEPT !.pc = "connect", !.features = TRUE]
             ELSE [rs EXCEPT !.pc = "wait"]

-----------------------------------------------------------------------------
(* wait_service, of "disconnect" and of a state; it polls.                   *)
disconnect_of_named ==
    /\ rs.pc = "wait-for-disconnect"
    /\ Acquired(rs.target) = {}
    /\ rs' = IF rs.target = "id" THEN Return("true") ELSE [rs EXCEPT !.pc = "wait-for-state"]
wait_for_disconnect ==
    /\ rs.pc = "wait-for-disconnect"
    /\ Acquired("id") = {}
    /\ rs' = IF rs.target = "id" THEN Return("true") ELSE [rs EXCEPT !.pc = "wait-for-state"]
wait_for_state ==
    /\ rs.pc = "wait-for-state"
    /\ \/ is_ambiguous(rs.target) /\ rs' = Return("true")
       \/ \E t \in Acquired(rs.target) :
            rs' = [Return("true") EXCEPT !.found = [gen |-> t.gen, uid0 |-> t.uid0]]
(* The thread of wait_for_device that ends the client after 12 s.            *)
Timeout ==
    /\ rs.pc = "wait-for-state"
    /\ rs' = Return("timeout")
wait_for_device ==
    /\ rs.pc = "wait"
    /\ \/ is_ambiguous(Named) /\ rs' = Return("false")
       \/ Acquired(Named) # {} /\ rs' = [rs EXCEPT !.pc = "features"]

wait_service == wait_for_disconnect \/ wait_for_state \/ wait_for_device

adb_root == get_state \/ adb_connect \/ read_output \/ adb_get_feature_set

-----------------------------------------------------------------------------
(* adbd: the service sets the property and answers; the closing of its       *)
(* socket makes adbd exit (exit_on_close), which may lose the answer.  A     *)
(* shell runs and ends.                                                      *)
Restarts == CASE Command = "root" -> ~rs.uid0 /\ Debuggable
              [] Command = "unroot" -> rs.uid0
              [] Command = "shell" -> FALSE
Serving == rs.fd.open /\ ~rs.fd.served /\ rs.gen = rs.on.gen /\ rs.gen # 0
restart_service ==
    /\ Serving
    /\ IF Restarts
       THEN \E out \in {"", "restarting"}, closed \in BOOLEAN :
            /\ out = "" => ~closed
            /\ rs' = [rs EXCEPT !.prop = (Command = "root"), !.gen = 0,
                                !.fd = [@ EXCEPT !.served = TRUE, !.out = out, !.eof = closed]]
       ELSE rs' = [rs EXCEPT !.fd = [@ EXCEPT !.served = TRUE, !.out = "no", !.eof = TRUE]]
Crash ==
    /\ rs.gen # 0 /\ rs.crashes < MaxCrashes
    /\ rs' = [rs EXCEPT !.gen = 0, !.crashes = @ + 1]
Start ==
    /\ rs.gen = 0
    /\ rs' = [rs EXCEPT !.gen = rs.last + 1, !.last = @ + 1, !.uid0 = rs.prop]

(* The server: a device is found, comes online, and is lost: offline, which  *)
(* closes its sockets, then gone.                                            *)
register_transport(dev) ==
    /\ ~\E t \in rs.list : t.dev = dev
    /\ IF dev = 1 THEN rs.gen # 0 ELSE Others /\ rs.on.id # 0
    /\ rs' = [rs EXCEPT !.ids = @ + 1,
                        !.list = @ \cup {[id |-> rs.ids + 1, dev |-> dev, state |-> "connecting",
                                          gen |-> IF dev = 1 THEN rs.gen ELSE 0,
                                          uid0 |-> dev = 1 /\ rs.uid0]}]
handle_online(t) ==
    /\ t.state = "connecting" /\ (Mine(t) => t.gen = rs.gen)
    /\ rs' = [rs EXCEPT !.list = (@ \ {t}) \cup {[t EXCEPT !.state = "device"]}]
handle_offline(t) ==
    /\ Mine(t) /\ t.state # "offline" /\ t.gen # rs.gen
    /\ rs' = [rs EXCEPT !.list = (@ \ {t}) \cup {[t EXCEPT !.state = "offline"]},
                        !.fd.eof = @ \/ (rs.fd.open /\ t.id = rs.on.id)]
unregister_transport(t) ==
    /\ t.state = "offline"
    /\ rs' = [rs EXCEPT !.list = @ \ {t}]

Server ==
    \/ \E dev \in {1, 2} : register_transport(dev)
    \/ \E t \in rs.list : handle_online(t) \/ handle_offline(t) \/ unregister_transport(t)
Device == restart_service \/ Start
Next == adb_root \/ wait_service \/ Timeout \/ Server \/ Device \/ Crash

-----------------------------------------------------------------------------
(* Type invariant.                                                           *)
TypeOK ==
    /\ rs.ids \in 0..(MaxCrashes + 4) /\ rs.gen \in {0, rs.last}
    /\ \A t \in rs.list : t.id \in 1..rs.ids
    /\ rs.ret \in {"none", "true", "false", "timeout"}

(* When adb_root has seen the device again, it is a new adbd, and one that   *)
(* runs as was asked if the old one said that it would: the wait before does *)
(* not end at the transport that is about to go.                             *)
FoundIsNew ==
    rs.found.gen # 0 =>
        /\ rs.found.gen > rs.on.gen
        /\ rs.fd.out = "restarting" => rs.found.uid0 = (Command = "root")

(* The command has returned: with the transport id to wait for, adb_root     *)
(* does not miss a device that was gone and is back.                         *)
Returned == rs.ret # "none"
=============================================================================
