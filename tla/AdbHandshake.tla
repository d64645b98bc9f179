---------------------------- MODULE AdbHandshake ----------------------------
(***************************************************************************)
(* How a host server and adbd bring a transport online: A_CNXN, A_AUTH and *)
(* A_STLS, the authorisation dialog and the TLS handshake that run outside *)
(* the looper, going offline, and what adbd tells the framework and the    *)
(* watchdog about it.                                                      *)
(*                                                                         *)
(* Source: handle_packet, handle_new_connection, handle_online and         *)
(* handle_offline in adb.cpp, daemon/auth.cpp, client/auth.cpp,            *)
(* daemon/adb_wifi.cpp, daemon/watchdog.cpp.  All handlers of a process    *)
(* run on its looper thread, so each is one atomic action.                 *)
(***************************************************************************)
EXTENDS Integers, Sequences, FiniteSets

CONSTANTS
    Keys,          \* the number of private keys of the host
    Confs,         \* the kinds of connection and settings of adbd to consider
    MaxConnects,   \* bound: times a host server starts to talk to the device
    MaxId,         \* bound: ids handed out for dialogs and connections
    Tokens         \* bound: distinct tokens, more than are ever outstanding

(* with_id: does libadbd_auth have adbd_auth_prompt_user_with_id?           *)
(* fails: may generating a token, signing it or reading the key file fail?  *)
Conf == [kind : {"usb", "tcp", "tls"},        \* "tls": a transport of the TlsServer
         auth_required : BOOLEAN, with_id : BOOLEAN, fails : BOOLEAN,
         known : SUBSET (1..Keys)]            \* the keys in the device's keystore

ASSUME HandshakeAssumption ==
    /\ Keys \in Nat \ {0}
    /\ Confs \subseteq Conf
    /\ MaxConnects \in Nat \ {0}
    /\ MaxId \in Nat
    /\ Tokens \in Nat \ {0}

VARIABLES
    conf,       \* which of Confs it is
    host,       \* the atransport of the host server
    dev,        \* the atransport of adbd
    toDev,      \* packets from the host, in order
    toHost,     \* packets from adbd, in order
    async,      \* dialogs and TLS handshakes adbd has started
    callbacks,  \* the map "transports" of daemon/auth.cpp: arg -> transport
    fw,         \* what the framework knows
    wd,         \* active_connections and the watchdog
    connects,   \* the number of connections made so far
    broken      \* the connection has failed or was stopped

vars == <<conf, host, dev, toDev, toHost, async, callbacks, fw, wd, connects, broken>>

None == 0

(* adb_auth_get_private_keys: a sentinel follows the keys.                  *)
AllKeys == [i \in 1..Keys + 1 |-> IF i <= Keys THEN i ELSE None]

HostTransport == [cs : {"offline", "authorizing", "unauthorized", "device"},
                  online : BOOLEAN, tls : BOOLEAN,
                  keys : {SubSeq(AllKeys, i, Keys + 1) : i \in 1..Keys + 2},   \* keys_
                  waitable : {"pending", "true", "false"},   \* ConnectionWaitable
                  shake : BOOLEAN,      \* the thread of adb_auth_tls_handshake runs
                  kick : BOOLEAN,       \* it failed, and kicks the transport next
                  kicked : BOOLEAN,     \* kicked_
                  alive : BOOLEAN]      \* has a connection

DevTransport == [cs : {"offline", "host"}, online : BOOLEAN, tls : BOOLEAN,
                 token : 0..Tokens - 1, auth_key : 0..Keys, auth_id : 0..MaxId,
                 disconnects : Seq({"auth", "wifi"}), alive : BOOLEAN,
                 dying : BOOLEAN,          \* remove_transport is in the run queue
                 gen : 1..MaxConnects]     \* which atransport object it is

NewHost == [cs |-> "offline", online |-> FALSE, tls |-> FALSE, keys |-> <<>>,
            waitable |-> "pending", shake |-> FALSE, kick |-> FALSE,
            kicked |-> FALSE, alive |-> TRUE]

NewDev(gen) == [cs |-> "offline", online |-> FALSE, tls |-> conf.kind = "tls", token |-> 0,
           auth_key |-> None, auth_id |-> None, disconnects |-> <<>>, alive |-> TRUE,
           dying |-> FALSE, gen |-> gen]

P(cmd, token, key) == [cmd |-> cmd, token |-> token, key |-> key]
CNXN == P("CNXN", 0, None)
STLS == P("STLS", 0, None)

(* The host registers the transport and sends the first A_CNXN.             *)
Init ==
    /\ conf \in Confs
    /\ host = NewHost
    /\ dev = NewDev(1)
    /\ toDev = <<CNXN>>
    /\ toHost = <<>>
    /\ async = {}
    /\ callbacks = <<>>
    /\ fw = [known |-> conf.known, connected |-> {}, ids |-> 0, checkFailed |-> FALSE]
    /\ wd = [active |-> 0, running |-> TRUE, armed |-> FALSE, enabled |-> FALSE]
    /\ connects = 1
    /\ broken = FALSE

-----------------------------------------------------------------------------
(* adbd: a handler works on the transport, the watchdog, what the framework *)
(* is told and the packets sent.                                            *)
Context == [t |-> dev, wd |-> wd, fw |-> fw, out |-> toHost]

send(x, p) == [x EXCEPT !.out = IF broken THEN @ ELSE Append(@, p)]

UpdateWatchdog(w) == [w EXCEPT !.armed = w.enabled /\ w.running]

(* Mutant: the watchdog is stopped only by the second connection.           *)
increment_off_by_one(x) ==
    LET w == [x.wd EXCEPT !.active = @ + 1]
    IN  [x EXCEPT !.wd = IF w.active = 2
                         THEN UpdateWatchdog([w EXCEPT !.running = FALSE]) ELSE w]

IncrementActiveConnections(x) ==
    LET w == [x.wd EXCEPT !.active = @ + 1]
    IN  [x EXCEPT !.wd = IF x.wd.active = 0
                         THEN UpdateWatchdog([w EXCEPT !.running = FALSE]) ELSE w]

DecrementActiveConnections(x) ==
    LET w == [x.wd EXCEPT !.active = @ - 1]
    IN  [x EXCEPT !.wd = IF w.active = 0
                         THEN UpdateWatchdog([w EXCEPT !.running = TRUE]) ELSE w]

handle_online(x) == [IncrementActiveConnections(x) EXCEPT !.t.online = TRUE]

(* Mutant: the callbacks are forgotten instead of run.                      *)
disconnects_dropped(x) == [x EXCEPT !.t.disconnects = <<>>]

(* Each registered adb_disconnected requires t->auth_id and reports it.     *)
RunDisconnects(x) ==
    IF x.t.disconnects = <<>> THEN x
    ELSE [x EXCEPT !.fw.connected = {c \in @ : c[2] # x.t.auth_id},
                   !.fw.checkFailed = @ \/ x.t.auth_id = None,
                   !.t.disconnects = <<>>]

handle_offline(x) ==
    IF x.t.cs = "offline" THEN x
    ELSE RunDisconnects([DecrementActiveConnections(x) EXCEPT
                            !.t.cs = "offline", !.t.online = FALSE])

(* What has no answer when it fails: it is logged and nothing is sent.      *)
Works == {TRUE, ~conf.fails}

send_auth_request(x, ok) ==
    LET token == (x.t.token + 1) % Tokens
    IN  IF ok THEN send([x EXCEPT !.t.token = token], P("TOKEN", token, None)) ELSE x

(* Mutant: A_CNXN is sent without going online.                             *)
verified_only_answers(x) == send(x, CNXN)

adbd_auth_verified(x) == send(handle_online(x), CNXN)

(* The framework hands out a new id.                                        *)
NewId == fw.ids + 1

told(x, how) == [x EXCEPT !.fw.ids = NewId, !.t.auth_id = NewId,
                          !.fw.connected = @ \cup {<<how, NewId>>}]

Become(x) ==
    /\ dev' = x.t
    /\ wd' = x.wd
    /\ fw' = x.fw
    /\ toHost' = x.out

NewArg == Len(callbacks) + 1

(* Mutant: the weak pointer is not stored.                                  *)
arg_not_stored == callbacks' = callbacks

(* transport_to_callback_arg: the args are used up in order.                *)
to_callback_arg == callbacks' = Append(callbacks, dev.gen)

(* transport_from_callback_arg: nullptr once that transport is destroyed.   *)
from_callback_arg(arg) == dev.alive /\ callbacks[arg] = dev.gen

DevReceives(cmd) ==
    /\ dev.alive
    /\ toDev # <<>>
    /\ Head(toDev).cmd = cmd
    /\ toDev' = Tail(toDev)
    /\ UNCHANGED <<host, connects>>
    /\ cmd = "CNXN" \/ UNCHANGED broken

(* CancelWrites of the USB connection when it reads an A_CNXN: the packets  *)
(* that the host has not taken are cancelled, and a cancelled write is      *)
(* reaped with an error, for which the connection is given up.              *)
CancelWrites(n) ==
    /\ n \in (IF conf.kind = "usb" THEN 0 ELSE Len(toHost))..Len(toHost)
    /\ broken' = (broken \/ n < Len(toHost))

(* A_CNXN at adbd: handle_new_connection.                                   *)
dev_cnxn ==
    /\ DevReceives("CNXN")
    /\ \E n \in 0..Len(toHost), ok \in Works :
          /\ CancelWrites(n)
          /\ LET x == [handle_offline([Context EXCEPT !.out = SubSeq(@, 1, n)])
                         EXCEPT !.t.cs = "host"]
             IN  Become(IF dev.tls THEN send(x, STLS)
                        ELSE IF ~conf.auth_required THEN send(handle_online(x), CNXN)
                        ELSE send_auth_request(x, ok))
    /\ UNCHANGED <<async, callbacks>>

(* adbd_auth_verify: the signature must be over the last token sent.        *)
adbd_auth_verify(p) == p.token = dev.token /\ p.key \in fw.known

(* A_AUTH(SIGNATURE).  Nothing of A_AUTH is handled in TLS mode.            *)
dev_signature ==
    /\ DevReceives("SIGNATURE")
    /\ LET p == Head(toDev)
           x == adbd_auth_verified(Context)
       IN  IF dev.tls THEN Become(Context)
           ELSE IF adbd_auth_verify(p)
           THEN NewId <= MaxId /\ Become(told([x EXCEPT !.t.auth_key = p.key], "key"))
           ELSE \E ok \in Works : Become(send_auth_request(Context, ok))
    /\ UNCHANGED <<async, callbacks>>

(* Mutant: the id of the dialog is not kept.                                *)
publickey_forgets_id ==
    /\ DevReceives("RSAPUBLICKEY")
    /\ NewId <= MaxId
    /\ to_callback_arg
    /\ async' = async \cup {[op |-> "dialog", arg |-> NewArg, id |-> NewId,
                             key |-> Head(toDev).key]}
    /\ Become([Context EXCEPT !.t.disconnects = Append(@, "auth"), !.fw.ids = NewId])

(* A_AUTH(RSAPUBLICKEY): adbd_auth_confirm_key opens the dialog.            *)
dev_publickey ==
    /\ DevReceives("RSAPUBLICKEY")
    /\ IF dev.tls THEN Become(Context) /\ UNCHANGED <<async, callbacks>>
       ELSE /\ NewId <= MaxId
            /\ to_callback_arg
            /\ async' = async \cup {[op |-> "dialog", arg |-> NewArg, id |-> NewId,
                                     key |-> Head(toDev).key]}
            /\ Become([Context EXCEPT !.t.auth_key = Head(toDev).key,
                                      !.t.disconnects = Append(@, "auth"),
                                      !.t.auth_id = IF conf.with_id THEN NewId ELSE @,
                                      !.fw.connected = IF conf.with_id
                                                       THEN @ \cup {<<"dialog", NewId>>} ELSE @,
                                      !.fw.ids = NewId])

(* Mutant: the answer can be used a second time.                            *)
authorized_again(a) ==
    /\ a \in async /\ a.op = "dialog"
    /\ from_callback_arg(a.arg)
    /\ Become(adbd_auth_verified(Context))
    /\ UNCHANGED <<host, toDev, async, callbacks, connects, broken>>

(* The user allows the key: adbd_auth_key_authorized, on the looper.        *)
adbd_auth_key_authorized(a) ==
    /\ a \in async /\ a.op = "dialog"
    /\ async' = async \ {a}
    /\ callbacks' = [callbacks EXCEPT ![a.arg] = None]
    /\ LET x == [Context EXCEPT !.fw.known = @ \cup {a.key}]
       IN  Become(IF ~from_callback_arg(a.arg) \/ dev.auth_id \notin {None, a.id}
                  THEN x
                  ELSE adbd_auth_verified([x EXCEPT !.t.auth_id = a.id]))
    /\ UNCHANGED <<host, toDev, connects, broken>>

(* A_STLS at adbd: adbd_auth_tls_handshake starts a thread.                 *)
dev_stls ==
    /\ DevReceives("STLS")
    /\ to_callback_arg
    /\ async' = async \cup {[op |-> "tls", arg |-> NewArg, id |-> None, key |-> None]}
    /\ Become([Context EXCEPT !.t.tls = TRUE])

Shaking(a) == a \in async /\ a.op = "tls"
Trusted == IF conf.auth_required THEN fw.known ELSE 1..Keys

(* Both ends complete the handshake, outside the looper.                    *)
tls_succeeds(a) ==
    /\ Shaking(a) /\ host.shake /\ ~broken
    /\ from_callback_arg(a.arg)
    /\ \E key \in Trusted :
          async' = (async \ {a}) \cup
                   {[a EXCEPT !.op = "connected", !.key = IF conf.auth_required THEN key ELSE None]}
    /\ host' = [host EXCEPT !.shake = FALSE]
    /\ UNCHANGED <<dev, toDev, toHost, callbacks, fw, wd, connects, broken>>

(* Back on the looper adbd goes online: adbd_wifi_secure_connect.           *)
adbd_wifi_secure_connect(a) ==
    /\ a \in async /\ a.op = "connected"
    /\ NewId <= MaxId
    /\ LET x == [Context EXCEPT !.t.auth_key = a.key,
                                !.t.disconnects = Append(@, "wifi")]
       IN  Become(IF from_callback_arg(a.arg)
                  THEN told(adbd_auth_verified(x), "tls") ELSE Context)
    /\ async' = async \ {a}
    /\ callbacks' = [callbacks EXCEPT ![a.arg] = None]
    /\ UNCHANGED <<host, toDev, connects, broken>>

(* The handshake fails, or times out at adbd, which kicks the transport if  *)
(* it is still there.                                                       *)
tls_fails(a) ==
    /\ Shaking(a)
    /\ async' = async \ {a}
    /\ callbacks' = [callbacks EXCEPT ![a.arg] = None]
    /\ broken' = (broken \/ from_callback_arg(a.arg))
    /\ UNCHANGED <<host, dev, toDev, toHost, fw, wd, connects>>

(* The framework removed a key: transports that use it are kicked.          *)
adbd_key_removed(key) ==
    /\ key \in fw.known
    /\ fw' = [fw EXCEPT !.known = @ \ {key}]
    /\ broken' = (broken \/ (dev.alive /\ dev.auth_key = key))
    /\ UNCHANGED <<host, dev, toDev, toHost, async, callbacks, wd, connects>>

(* atransport::HandleError on the looper: handle_offline, and               *)
(* transport_destroy, which posts the removal behind what is in the queue.  *)
dev_error ==
    /\ broken /\ dev.alive /\ ~dev.dying
    /\ Become([handle_offline(Context) EXCEPT !.t.dying = TRUE])
    /\ UNCHANGED <<host, toDev, async, callbacks, connects, broken>>

fdevent_unregister_transport ==
    /\ dev.alive /\ dev.dying
    /\ dev' = [dev EXCEPT !.alive = FALSE]
    /\ UNCHANGED <<host, toDev, toHost, async, callbacks, fw, wd, connects, broken>>

(* The property monitor thread sees persist.adb.watchdog change.            *)
property_changed ==
    /\ wd' = UpdateWatchdog([wd EXCEPT !.enabled = ~@])
    /\ UNCHANGED <<host, dev, toDev, toHost, async, callbacks, fw, connects, broken>>

-----------------------------------------------------------------------------
HostReceives(cmd) ==
    /\ host.alive
    /\ toHost # <<>>
    /\ Head(toHost).cmd = cmd
    /\ toHost' = Tail(toHost)
    /\ UNCHANGED <<dev, async, callbacks, fw, wd, connects, broken>>

HostSends(p) == toDev' = IF broken THEN toDev ELSE Append(toDev, p)

SetConnectionEstablished(t, b) == IF t.waitable = "pending" THEN b ELSE t.waitable

(* Mutant: the waiter is not released when the transport comes online.      *)
cnxn_not_established ==
    /\ HostReceives("CNXN")
    /\ host' = [host EXCEPT !.cs = "device", !.online = TRUE]
    /\ UNCHANGED toDev

(* A_CNXN at the host: handle_new_connection.                               *)
host_cnxn ==
    /\ HostReceives("CNXN")
    /\ host' = [host EXCEPT !.cs = "device", !.online = TRUE,
                            !.waitable = SetConnectionEstablished(host, "true")]
    /\ UNCHANGED toDev

(* Mutant: the key that failed is tried again.                              *)
same_key_again == IF host.keys = <<>> THEN AllKeys ELSE host.keys

(* NextKey pops a key; all of them are fetched again once none is left.     *)
NextKeys == IF host.keys = <<>> THEN AllKeys ELSE Tail(host.keys)
NextKey == IF NextKeys = <<>> THEN None ELSE Head(NextKeys)

(* A_AUTH(TOKEN): send_auth_response signs with the next key, or sends the  *)
(* public key of the user's key, the first one.  Either may fail.           *)
host_token ==
    /\ HostReceives("TOKEN")
    /\ IF host.tls THEN UNCHANGED <<host, toDev>>
       ELSE \E ok \in Works :
            IF NextKey = None
            THEN /\ host' = [host EXCEPT !.keys = NextKeys, !.cs = "unauthorized",
                                 !.waitable = SetConnectionEstablished(host, "true")]
                 /\ IF ok THEN HostSends(P("RSAPUBLICKEY", 0, 1)) ELSE UNCHANGED toDev
            ELSE /\ host' = [host EXCEPT !.keys = NextKeys, !.cs = "authorizing"]
                 /\ IF ok THEN HostSends(P("SIGNATURE", Head(toHost).token, NextKey))
                    ELSE UNCHANGED toDev

(* A_STLS at the host: answer it and start the handshake thread.            *)
host_stls ==
    /\ HostReceives("STLS")
    /\ host' = [host EXCEPT !.tls = TRUE, !.shake = TRUE,
                            !.keys = IF @ = <<>> THEN NextKeys ELSE @]
    /\ HostSends(STLS)

(* The thread of adb_auth_tls_handshake fails, and then kicks the transport *)
(* if it is not yet kicked: whichever connection that has by now.           *)
host_tls_fails ==
    /\ host.shake /\ broken
    /\ host' = [host EXCEPT !.shake = FALSE, !.kick = TRUE]
    /\ UNCHANGED <<dev, toDev, toHost, async, callbacks, fw, wd, connects, broken>>

Destroy(t) == [t EXCEPT !.waitable = SetConnectionEstablished(t, "false")]

host_kick ==
    /\ host.kick
    /\ LET t == [host EXCEPT !.kick = FALSE, !.kicked = TRUE]
       IN  host' = IF t.alive THEN t ELSE Destroy(t)   \* ReconnectHandler gives it up
    /\ broken' = (broken \/ host.alive)
    /\ UNCHANGED <<dev, toDev, toHost, async, callbacks, fw, wd, connects>>

(* HandleError: Stop waits for a handshake; a TCP transport that was not    *)
(* kicked is kept for reconnection, with its keys reset; any other is       *)
(* destroyed, which releases the waiter.                                    *)
host_error ==
    /\ broken /\ host.alive /\ ~host.shake
    /\ LET t == [host EXCEPT !.cs = "offline", !.online = FALSE, !.alive = FALSE]
       IN  host' = IF conf.kind = "usb" \/ host.kicked THEN Destroy(t)
                   ELSE [t EXCEPT !.keys = <<>>]
    /\ UNCHANGED <<dev, toDev, toHost, async, callbacks, fw, wd, connects, broken>>

-----------------------------------------------------------------------------
(* External: the connection fails.                                          *)
Break ==
    /\ ~broken
    /\ broken' = TRUE
    /\ UNCHANGED <<host, dev, toDev, toHost, async, callbacks, fw, wd, connects>>

(* External: a new connection once both ends have given up the last one;    *)
(* a TCP transport of the host is reused by the reconnect handler.          *)
Reconnect ==
    /\ connects < MaxConnects
    /\ ~host.alive /\ ~dev.alive
    /\ host' = IF conf.kind = "usb" \/ host.kicked THEN NewHost ELSE [host EXCEPT !.alive = TRUE]
    /\ dev' = NewDev(connects + 1)
    /\ toDev' = <<CNXN>>
    /\ toHost' = <<>>
    /\ connects' = connects + 1
    /\ broken' = FALSE
    /\ UNCHANGED <<async, callbacks, fw, wd>>

(* External: over USB, a host server that is killed and started again talks *)
(* to the same atransport of adbd; packets for the old one may be lost.     *)
HostRestart ==
    /\ conf.kind = "usb" /\ connects < MaxConnects /\ ~broken
    /\ host.alive
    /\ host' = NewHost
    /\ toDev' = Append(toDev, CNXN)
    /\ \E i \in 0..Len(toHost) : toHost' = SubSeq(toHost, i + 1, Len(toHost))
    /\ connects' = connects + 1
    /\ UNCHANGED <<dev, async, callbacks, fw, wd, broken>>

AdbdLooper ==
    /\ UNCHANGED conf
    /\ \/ dev_cnxn
       \/ dev_signature
       \/ dev_publickey
       \/ dev_stls
       \/ \E a \in async : tls_succeeds(a) \/ tls_fails(a) \/ adbd_wifi_secure_connect(a)
       \/ dev_error
       \/ fdevent_unregister_transport

HostLooper ==
    /\ UNCHANGED conf
    /\ \/ host_cnxn
       \/ host_token
       \/ host_stls
       \/ host_tls_fails
       \/ host_kick
       \/ host_error

Environment ==
    /\ UNCHANGED conf
    /\ \/ \E a \in async : adbd_auth_key_authorized(a)
       \/ \E key \in 1..Keys : adbd_key_removed(key)
       \/ property_changed
       \/ Break
       \/ Reconnect
       \/ HostRestart

Next == AdbdLooper \/ HostLooper \/ Environment

(* Both loopers keep running.  The user need not answer a dialog.           *)
Spec == Init /\ [][Next]_vars /\ WF_vars(AdbdLooper) /\ WF_vars(HostLooper)

-----------------------------------------------------------------------------
(* Types of the transports, the async operations and the counters.          *)
TypeOK ==
    /\ host \in HostTransport
    /\ dev \in DevTransport
    /\ fw.ids \in 0..MaxId /\ fw.known \subseteq 1..Keys
    /\ fw.connected \subseteq {"key", "dialog", "tls"} \X (1..MaxId)
    /\ \A a \in async : a.arg \in DOMAIN callbacks
    /\ wd.active \in Int /\ wd.running \in BOOLEAN

(* A host that takes its transport for online is talking to an adbd that    *)
(* has the transport online too: adbd sends A_CNXN only after handle_online *)
(* and the host is online only after that A_CNXN.  (Over USB an A_CNXN can  *)
(* be left over for the host server that follows a killed one.)             *)
OnlineTogether == (host.online /\ ~broken /\ conf.kind # "usb") => dev.online

(* A transport that goes offline is reported at once: adb_disconnected is   *)
(* registered before the framework can know of the dialog or the TLS        *)
(* connection, so handle_offline takes back what the framework was told;    *)
(* and the CHECK(t->auth_id.has_value()) of both callbacks holds where      *)
(* libadbd_auth returns the id of a dialog.                                 *)
OfflineIsReported ==
    [][/\ conf.with_id => ~fw'.checkFailed
       /\ (dev.cs # "offline" /\ (dev_cnxn \/ dev_error)) =>
             \A c \in fw'.connected : c[2] = dev'.auth_id => c[1] = "key"]_vars

(* "The watchdog is "running" when it's enabled via property and there are  *)
(* no connected clients" (daemon/watchdog.cpp).                             *)
NotRunningWithClients == dev.online => ~wd.running

(* Without authentication the alarm is never left armed while a client is   *)
(* connected, however often clients come and go and the property changes.   *)
ArmedOnlyWithoutClients ==
    (dev.online /\ ~conf.auth_required /\ conf.kind # "tls") => ~wd.armed

(* An A_CNXN makes the host close every stream.  The answer to a dialog or  *)
(* the end of a TLS handshake sends one only on a transport that was not    *)
(* online yet.                                                              *)
ConnectsOnce ==
    [][(/\ Len(toHost') > Len(toHost) /\ toHost'[Len(toHost')] = CNXN
        /\ conf.kind # "usb") => (~dev.online \/ dev_cnxn)]_vars

(* Whoever waits for a new connection is released: the host becomes online  *)
(* or unauthorized, or the transport fails (register_socket_transport),     *)
(* unless a token could not be generated or signed: then both ends wait     *)
(* (daemon/auth.cpp:313, client/auth.cpp:474).                              *)
WaitIsAnswered ==
    host.waitable = "pending" ~> (host.waitable # "pending" \/ broken \/ conf.fails)

(* As long as the device keeps the keys it knew, the handshake over a new   *)
(* connection tries the keys of the host until it comes to one of them, and *)
(* brings both ends online, unless the connection breaks or a token cannot  *)
(* be generated or signed.                                                  *)
BothOnline ==
    (conf.known # {} /\ conf.kind # "usb" /\ ~conf.fails) =>
        <>[](broken \/ ~(conf.known \subseteq fw.known) \/ (host.online /\ dev.online))
=============================================================================
