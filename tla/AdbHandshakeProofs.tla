------------------------- MODULE AdbHandshakeProofs -------------------------
(***************************************************************************)
(* What holds of the handshake for any number of keys, connections, ids    *)
(* and tokens, and for any settings of adbd: the inductive invariant of    *)
(* AdbHandshake, and the theorems.                                         *)
(***************************************************************************)
EXTENDS AdbHandshake, TLAPS

-----------------------------------------------------------------------------
(* The inductive invariant.                                                 *)
Commands == {"CNXN", "STLS", "TOKEN", "SIGNATURE", "RSAPUBLICKEY"}
Packet == {p \in [cmd : Commands, token : 0..Tokens - 1, key : 0..Keys] :
              p.cmd = "RSAPUBLICKEY" => p.key # None}
Operation == {a \in [op : {"dialog", "tls", "connected"}, arg : Nat \ {0}, id : 0..MaxId,
                     key : 0..Keys] : a.op = "dialog" => a.key # None}
Framework == [known : SUBSET (1..Keys),
              connected : SUBSET ({"key", "dialog", "tls"} \X (1..MaxId)),
              ids : 0..MaxId, checkFailed : BOOLEAN]
Watchdog == [active : Int, running : BOOLEAN, armed : BOOLEAN, enabled : BOOLEAN]

Types ==
    /\ conf \in Confs
    /\ host \in HostTransport
    /\ dev \in DevTransport
    /\ toDev \in Seq(Packet)
    /\ toHost \in Seq(Packet)
    /\ async \subseteq Operation
    /\ callbacks \in Seq(0..MaxConnects)
    /\ fw \in Framework
    /\ wd \in Watchdog
    /\ connects \in 1..MaxConnects
    /\ broken \in BOOLEAN

(* An atransport of adbd is newer than every callback for another one.      *)
ObjectInv ==
    /\ dev.gen <= connects
    /\ \A n \in DOMAIN callbacks : callbacks[n] <= dev.gen
    /\ \A a \in async : a.arg \in DOMAIN callbacks
    /\ dev.dying \/ ~dev.alive => broken
    /\ ~host.alive => broken /\ ~host.online

(* What adbd has started for the transport that it has now.                 *)
Current == {a \in async : callbacks[a.arg] = dev.gen}

(* But for USB, whose turn it is in the handshake is clear at any time: one *)
(* packet is on its way, or one dialog or TLS handshake is being waited     *)
(* for, or adbd is online.                                                  *)
TurnInv ==
    (conf.kind # "usb" /\ ~broken) =>
        /\ Len(toDev) + Len(toHost) <= 1
        /\ \A a, b \in Current : a = b
        /\ Current # {} => toDev = <<>> /\ toHost = <<>> /\ ~dev.online
        /\ toDev # <<>> => ~dev.online /\ (Head(toDev).cmd = "CNXN" => dev.cs = "offline")
        /\ toHost # <<>> => (Head(toHost).cmd = "CNXN" <=> dev.online)
        /\ host.online => dev.online

(* Without authentication there is nothing but A_CNXN.                      *)
Open == ~conf.auth_required /\ conf.kind # "tls"

WatchdogInv ==
    /\ wd.armed <=> wd.enabled /\ wd.running
    /\ Open =>
        /\ async = {} /\ ~dev.tls
        /\ \A n \in DOMAIN toDev : toDev[n].cmd = "CNXN"
        /\ \A n \in DOMAIN toHost : toHost[n].cmd = "CNXN"
        /\ dev.online <=> dev.cs # "offline"
        /\ wd.active >= 0 /\ (dev.online => wd.active >= 1)
        /\ wd.running <=> wd.active = 0

(* The ids that the framework has given out, and who answers for them.      *)
ReportInv ==
    /\ conf.with_id => ~fw.checkFailed /\ (dev.disconnects # <<>> => dev.auth_id # None)
    /\ \A c \in fw.connected :
          /\ c[2] <= fw.ids
          /\ (c[2] = dev.auth_id /\ c[1] # "key") => dev.disconnects # <<>>
    /\ \A a \in async : a.op = "dialog" =>
          /\ a.id \in 1..fw.ids
          /\ (conf.with_id /\ callbacks[a.arg] = dev.gen) => dev.auth_id # None
          /\ \A c \in fw.connected : c[2] = a.id => conf.with_id

IInv == Types /\ ObjectInv /\ TurnInv /\ WatchdogInv /\ ReportInv

-----------------------------------------------------------------------------
(* What the functions of adbd do to the fields that the invariant is about. *)
Ctx == [t : DevTransport, wd : Watchdog, fw : Framework, out : Seq(Packet)]

SameObject(s, t) == t.gen = s.gen /\ t.alive = s.alive /\ t.dying = s.dying /\ t.tls = s.tls
SameAuth(s, t) == t.auth_id = s.auth_id /\ t.disconnects = s.disconnects
SameState(s, t) == t.cs = s.cs /\ t.online = s.online

Armed(w) == w.armed <=> w.enabled /\ w.running

LEMMA ContextFacts ==
    ASSUME Types
    PROVE  /\ Context \in Ctx
           /\ Context.t = dev /\ Context.wd = wd /\ Context.fw = fw /\ Context.out = toHost
  BY DEF Types, Context, Ctx

LEMMA CtxFacts ==
    ASSUME NEW x \in Ctx
    PROVE  x.t \in DevTransport /\ x.wd \in Watchdog /\ x.fw \in Framework /\ x.out \in Seq(Packet)
  BY DEF Ctx

LEMMA PacketFacts ==
    /\ CNXN \in Packet /\ CNXN.cmd = "CNXN"
    /\ STLS \in Packet /\ STLS.cmd = "STLS"
    /\ \A token \in 0..Tokens - 1 : /\ P("TOKEN", token, None) \in Packet
                                    /\ P("TOKEN", token, None).cmd = "TOKEN"
  BY HandshakeAssumption DEF CNXN, STLS, P, Packet, Commands, None

LEMMA SendFacts ==
    ASSUME NEW x \in Ctx, NEW p \in Packet
    PROVE  /\ send(x, p) \in Ctx
           /\ send(x, p).t = x.t /\ send(x, p).wd = x.wd /\ send(x, p).fw = x.fw
           /\ send(x, p).out = IF broken THEN x.out ELSE Append(x.out, p)
<1> DEFINE o == IF broken THEN x.out ELSE Append(x.out, p)
<1>1. o \in Seq(Packet) /\ send(x, p) = [x EXCEPT !.out = o]
  BY CtxFacts DEF send
<1> HIDE DEF o
<1>2. /\ send(x, p) \in Ctx /\ send(x, p).t = x.t /\ send(x, p).wd = x.wd
      /\ send(x, p).fw = x.fw /\ send(x, p).out = o
  BY <1>1 DEF Ctx
<1> QED BY <1>2 DEF o

LEMMA UpdateFacts ==
    ASSUME NEW w \in Watchdog
    PROVE  /\ UpdateWatchdog(w) \in Watchdog /\ Armed(UpdateWatchdog(w))
           /\ UpdateWatchdog(w).active = w.active /\ UpdateWatchdog(w).running = w.running
           /\ UpdateWatchdog(w).enabled = w.enabled
  BY DEF UpdateWatchdog, Watchdog, Armed

LEMMA IncrementFacts ==
    ASSUME NEW x \in Ctx
    PROVE  LET y == IncrementActiveConnections(x)
           IN  /\ y \in Ctx /\ y.t = x.t /\ y.fw = x.fw /\ y.out = x.out
               /\ y.wd.active = x.wd.active + 1
               /\ y.wd.running = (x.wd.running /\ x.wd.active # 0)
               /\ Armed(x.wd) => Armed(y.wd)
<1> DEFINE w == [x.wd EXCEPT !.active = @ + 1]
           v == [w EXCEPT !.running = FALSE]
           u == IF x.wd.active = 0 THEN UpdateWatchdog(v) ELSE w
           y == IncrementActiveConnections(x)
<1>1. y = [x EXCEPT !.wd = u]
  BY DEF IncrementActiveConnections
<1>2. x.wd \in Watchdog /\ x.wd.running \in BOOLEAN
  BY CtxFacts DEF Watchdog
<1>3. /\ w \in Watchdog /\ w.active = x.wd.active + 1 /\ w.running = x.wd.running
      /\ w.armed = x.wd.armed /\ w.enabled = x.wd.enabled
  BY <1>2 DEF Watchdog
<1>4. v \in Watchdog /\ v.active = x.wd.active + 1 /\ v.running = FALSE
  BY <1>3, Zenon DEF Watchdog
<1> HIDE DEF w, v
<1>5. /\ u \in Watchdog /\ u.active = x.wd.active + 1
      /\ u.running = (x.wd.running /\ x.wd.active # 0)
      /\ Armed(x.wd) => Armed(u)
  BY <1>2, <1>3, <1>4, UpdateFacts, Zenon DEF Armed
<1> HIDE DEF u, y
<1>6. y \in Ctx /\ y.t = x.t /\ y.fw = x.fw /\ y.out = x.out /\ y.wd = u
  BY <1>1, <1>5 DEF Ctx
<1> QED BY <1>5, <1>6 DEF y

LEMMA DecrementFacts ==
    ASSUME NEW x \in Ctx
    PROVE  LET y == DecrementActiveConnections(x)
           IN  /\ y \in Ctx /\ y.t = x.t /\ y.fw = x.fw /\ y.out = x.out
               /\ y.wd.active = x.wd.active - 1
               /\ y.wd.running = (x.wd.running \/ x.wd.active = 1)
               /\ Armed(x.wd) => Armed(y.wd)
<1> DEFINE w == [x.wd EXCEPT !.active = @ - 1]
           v == [w EXCEPT !.running = TRUE]
           u == IF w.active = 0 THEN UpdateWatchdog(v) ELSE w
           y == DecrementActiveConnections(x)
<1>1. y = [x EXCEPT !.wd = u]
  BY DEF DecrementActiveConnections
<1>2. x.wd \in Watchdog /\ x.wd.running \in BOOLEAN /\ x.wd.active \in Int
  BY CtxFacts DEF Watchdog
<1>3. /\ w \in Watchdog /\ w.active = x.wd.active - 1 /\ w.running = x.wd.running
      /\ w.armed = x.wd.armed /\ w.enabled = x.wd.enabled
  BY <1>2 DEF Watchdog
<1>4. v \in Watchdog /\ v.active = x.wd.active - 1 /\ v.running = TRUE
  BY <1>3, Zenon DEF Watchdog
<1>5. w.active = 0 <=> x.wd.active = 1
  BY <1>2, <1>3
<1> HIDE DEF w, v
<1>6. /\ u \in Watchdog /\ u.active = x.wd.active - 1
      /\ u.running = (x.wd.running \/ x.wd.active = 1)
      /\ Armed(x.wd) => Armed(u)
  BY <1>2, <1>3, <1>4, <1>5, UpdateFacts, Zenon DEF Armed
<1> HIDE DEF u, y
<1>7. y \in Ctx /\ y.t = x.t /\ y.fw = x.fw /\ y.out = x.out /\ y.wd = u
  BY <1>1, <1>6 DEF Ctx
<1> QED BY <1>6, <1>7 DEF y

LEMMA OnlineFacts ==
    ASSUME NEW x \in Ctx
    PROVE  LET y == handle_online(x)
           IN  /\ y \in Ctx /\ y.fw = x.fw /\ y.out = x.out
               /\ SameObject(x.t, y.t) /\ SameAuth(x.t, y.t) /\ y.t.cs = x.t.cs /\ y.t.online
               /\ y.wd.active = x.wd.active + 1
               /\ y.wd.running = (x.wd.running /\ x.wd.active # 0)
               /\ Armed(x.wd) => Armed(y.wd)
<1> DEFINE z == IncrementActiveConnections(x)
           s == [z.t EXCEPT !.online = TRUE]
           y == handle_online(x)
<1>1. y = [z EXCEPT !.t = s]
  BY DEF handle_online
<1>2. /\ z \in Ctx /\ z.t = x.t /\ z.fw = x.fw /\ z.out = x.out
      /\ z.wd.active = x.wd.active + 1
      /\ z.wd.running = (x.wd.running /\ x.wd.active # 0)
      /\ Armed(x.wd) => Armed(z.wd)
  BY IncrementFacts
<1> HIDE DEF z
<1>3. s \in DevTransport /\ SameObject(z.t, s) /\ SameAuth(z.t, s) /\ s.cs = z.t.cs /\ s.online
  BY <1>2, CtxFacts, Zenon DEF DevTransport, SameObject, SameAuth
<1> HIDE DEF s, y
<1>4. y \in Ctx /\ y.fw = z.fw /\ y.out = z.out /\ y.wd = z.wd /\ y.t = s
  BY <1>1, <1>2, <1>3 DEF Ctx
<1> QED BY <1>2, <1>3, <1>4 DEF y

LEMMA DisconnectFacts ==
    ASSUME NEW x \in Ctx
    PROVE  LET y == RunDisconnects(x)
           IN  /\ y \in Ctx /\ y.out = x.out /\ y.wd = x.wd
               /\ SameObject(x.t, y.t) /\ SameState(x.t, y.t) /\ y.t.auth_id = x.t.auth_id
               /\ y.t.disconnects = <<>>
               /\ y.fw.known = x.fw.known /\ y.fw.ids = x.fw.ids
               /\ y.fw.connected = IF x.t.disconnects = <<>> THEN x.fw.connected
                                   ELSE {c \in x.fw.connected : c[2] # x.t.auth_id}
               /\ y.fw.checkFailed = (x.fw.checkFailed \/
                                        (x.t.disconnects # <<>> /\ x.t.auth_id = None))
<1> DEFINE y == RunDisconnects(x)
           k == {c \in x.fw.connected : c[2] # x.t.auth_id}
           b == x.fw.checkFailed \/ x.t.auth_id = None
           f == [x.fw EXCEPT !.connected = k, !.checkFailed = b]
           s == [x.t EXCEPT !.disconnects = <<>>]
<1>0. x.t \in DevTransport /\ x.fw \in Framework
  BY CtxFacts
<1>1. CASE x.t.disconnects = <<>>
  <2>1. y = x /\ x.fw.checkFailed \in BOOLEAN
    BY <1>0, <1>1 DEF RunDisconnects, Framework
  <2> HIDE DEF y
  <2> QED BY <1>1, <2>1 DEF y, SameObject, SameState
<1>2. CASE x.t.disconnects # <<>>
  <2>1. y = [x EXCEPT !.fw = f, !.t = s]
    BY <1>2, Zenon DEF RunDisconnects, Ctx
  <2>2. k \in SUBSET ({"key", "dialog", "tls"} \X (1..MaxId)) /\ b \in BOOLEAN
    BY <1>0 DEF Framework
  <2>3. b = (x.fw.checkFailed \/ (x.t.disconnects # <<>> /\ x.t.auth_id = None))
    BY <1>2
  <2> HIDE DEF k, b
  <2>4. /\ f \in Framework /\ f.known = x.fw.known /\ f.ids = x.fw.ids
        /\ f.connected = k /\ f.checkFailed = b
    BY <1>0, <2>2, Zenon DEF Framework
  <2>5. /\ s \in DevTransport /\ SameObject(x.t, s) /\ SameState(x.t, s)
        /\ s.auth_id = x.t.auth_id /\ s.disconnects = <<>>
    <3>1. <<>> \in Seq({"auth", "wifi"})
      OBVIOUS
    <3> QED BY <1>0, <3>1, Zenon DEF DevTransport, SameObject, SameState
  <2> HIDE DEF f, s, y
  <2>6. y \in Ctx /\ y.out = x.out /\ y.wd = x.wd /\ y.fw = f /\ y.t = s
    BY <2>1, <2>4, <2>5, Zenon DEF Ctx
  <2> QED BY <1>2, <2>3, <2>4, <2>5, <2>6 DEF y, k
<1> QED BY <1>1, <1>2

(* handle_offline: nothing, or the end of a connection.                     *)
LEMMA OfflineFacts ==
    ASSUME NEW x \in Ctx
    PROVE  LET y == handle_offline(x)
           IN  /\ y \in Ctx /\ y.out = x.out
               /\ SameObject(x.t, y.t) /\ y.t.auth_id = x.t.auth_id
               /\ y.fw.known = x.fw.known /\ y.fw.ids = x.fw.ids
               /\ Armed(x.wd) => Armed(y.wd)
               /\ x.t.cs = "offline" => y = x
               /\ x.t.cs # "offline" =>
                    /\ y.t.cs = "offline" /\ ~y.t.online /\ y.t.disconnects = <<>>
                    /\ y.wd.active = x.wd.active - 1
                    /\ y.wd.running = (x.wd.running \/ x.wd.active = 1)
                    /\ y.fw.connected = IF x.t.disconnects = <<>> THEN x.fw.connected
                                        ELSE {c \in x.fw.connected : c[2] # x.t.auth_id}
                    /\ y.fw.checkFailed = (x.fw.checkFailed \/
                                             (x.t.disconnects # <<>> /\ x.t.auth_id = None))
<1> DEFINE d == DecrementActiveConnections(x)
           s == [d.t EXCEPT !.cs = "offline", !.online = FALSE]
           z == [d EXCEPT !.t = s]
           y == handle_offline(x)
<1>1. CASE x.t.cs = "offline"
  <2>1. y = x
    BY <1>1 DEF handle_offline
  <2> HIDE DEF y
  <2> QED BY <1>1, <2>1 DEF y, SameObject
<1>2. CASE x.t.cs # "offline"
  <2>1. y = RunDisconnects(z)
    BY <1>2, Zenon DEF handle_offline
  <2>2. /\ d \in Ctx /\ d.t = x.t /\ d.fw = x.fw /\ d.out = x.out
        /\ d.wd.active = x.wd.active - 1
        /\ d.wd.running = (x.wd.running \/ x.wd.active = 1)
        /\ Armed(x.wd) => Armed(d.wd)
    BY DecrementFacts
  <2> HIDE DEF d
  <2>3. /\ s \in DevTransport /\ SameObject(x.t, s) /\ SameAuth(x.t, s)
        /\ s.cs = "offline" /\ s.online = FALSE
    BY <2>2, CtxFacts, Zenon DEF DevTransport, SameObject, SameAuth
  <2> HIDE DEF s
  <2>4. z \in Ctx /\ z.fw = d.fw /\ z.out = d.out /\ z.wd = d.wd /\ z.t = s
    BY <2>2, <2>3, Zenon DEF Ctx
  <2> HIDE DEF z
  <2>5. /\ y \in Ctx /\ y.out = z.out /\ y.wd = z.wd
        /\ SameObject(z.t, y.t) /\ SameState(z.t, y.t) /\ y.t.auth_id = z.t.auth_id
        /\ y.t.disconnects = <<>>
        /\ y.fw.known = z.fw.known /\ y.fw.ids = z.fw.ids
        /\ y.fw.connected = IF z.t.disconnects = <<>> THEN z.fw.connected
                            ELSE {c \in z.fw.connected : c[2] # z.t.auth_id}
        /\ y.fw.checkFailed = (z.fw.checkFailed \/
                                 (z.t.disconnects # <<>> /\ z.t.auth_id = None))
    BY <2>1, <2>4, DisconnectFacts, ZenonT(40)
  <2> HIDE DEF y
  <2>6. /\ SameObject(x.t, y.t) /\ y.t.auth_id = x.t.auth_id
        /\ y.t.cs = "offline" /\ ~y.t.online
    BY <2>3, <2>4, <2>5 DEF SameObject, SameState, SameAuth
  <2>7. z.t.disconnects = x.t.disconnects /\ z.t.auth_id = x.t.auth_id /\ z.fw = x.fw
    BY <2>2, <2>3, <2>4 DEF SameAuth
  <2> QED BY <1>2, <2>2, <2>4, <2>5, <2>6, <2>7 DEF y
<1> QED BY <1>1, <1>2

LEMMA TokenFacts == \A n \in 0..Tokens - 1 : (n + 1) % Tokens \in 0..Tokens - 1
  BY HandshakeAssumption

LEMMA AuthRequestFacts ==
    ASSUME NEW x \in Ctx
    PROVE  LET y == send_auth_request(x, TRUE)
           IN  /\ y \in Ctx /\ y.wd = x.wd /\ y.fw = x.fw
               /\ SameObject(x.t, y.t) /\ SameAuth(x.t, y.t) /\ SameState(x.t, y.t)
               /\ \E p \in Packet : /\ p.cmd = "TOKEN"
                                    /\ y.out = IF broken THEN x.out ELSE Append(x.out, p)
<1> DEFINE token == (x.t.token + 1) % Tokens
           s == [x.t EXCEPT !.token = token]
           z == [x EXCEPT !.t = s]
           p == P("TOKEN", token, None)
           y == send_auth_request(x, TRUE)
<1>1. y = send(z, p)
  BY DEF send_auth_request
<1>2. token \in 0..Tokens - 1
  BY CtxFacts, TokenFacts DEF DevTransport
<1> HIDE DEF token
<1>3. s \in DevTransport /\ SameObject(x.t, s) /\ SameAuth(x.t, s) /\ SameState(x.t, s)
  BY <1>2, CtxFacts, Zenon DEF DevTransport, SameObject, SameAuth, SameState
<1> HIDE DEF s
<1>4. z \in Ctx /\ z.t = s /\ z.wd = x.wd /\ z.fw = x.fw /\ z.out = x.out
  BY <1>3, Zenon DEF Ctx
<1>5. p \in Packet /\ p.cmd = "TOKEN"
  BY <1>2, PacketFacts
<1> HIDE DEF z, p, y
<1>6. /\ y \in Ctx /\ y.t = z.t /\ y.wd = z.wd /\ y.fw = z.fw
      /\ y.out = IF broken THEN z.out ELSE Append(z.out, p)
  BY <1>1, <1>4, <1>5, SendFacts
<1> QED BY <1>3, <1>4, <1>5, <1>6 DEF y

LEMMA VerifiedFacts ==
    ASSUME NEW x \in Ctx
    PROVE  LET y == adbd_auth_verified(x)
           IN  /\ y \in Ctx /\ y.fw = x.fw
               /\ SameObject(x.t, y.t) /\ SameAuth(x.t, y.t) /\ y.t.cs = x.t.cs /\ y.t.online
               /\ Armed(x.wd) => Armed(y.wd)
               /\ y.out = IF broken THEN x.out ELSE Append(x.out, CNXN)
<1> DEFINE z == handle_online(x)
           y == adbd_auth_verified(x)
<1>1. y = send(z, CNXN)
  BY DEF adbd_auth_verified
<1>2. /\ z \in Ctx /\ z.fw = x.fw /\ z.out = x.out
      /\ SameObject(x.t, z.t) /\ SameAuth(x.t, z.t) /\ z.t.cs = x.t.cs /\ z.t.online
      /\ Armed(x.wd) => Armed(z.wd)
  BY OnlineFacts
<1> HIDE DEF z
<1>3. /\ y \in Ctx /\ y.t = z.t /\ y.wd = z.wd /\ y.fw = z.fw
      /\ y.out = IF broken THEN z.out ELSE Append(z.out, CNXN)
  BY <1>1, <1>2, PacketFacts, SendFacts
<1> HIDE DEF y
<1> QED BY <1>2, <1>3 DEF y

LEMMA ToldFacts ==
    ASSUME NEW x \in Ctx, NEW how \in {"key", "tls"}, NewId \in 1..MaxId
    PROVE  LET y == told(x, how)
           IN  /\ y \in Ctx /\ y.out = x.out /\ y.wd = x.wd
               /\ SameObject(x.t, y.t) /\ SameState(x.t, y.t)
               /\ y.t.auth_id = NewId /\ y.t.disconnects = x.t.disconnects
               /\ y.fw.known = x.fw.known /\ y.fw.ids = NewId
               /\ y.fw.connected = x.fw.connected \cup {<<how, NewId>>}
               /\ y.fw.checkFailed = x.fw.checkFailed
<1> DEFINE k == x.fw.connected \cup {<<how, NewId>>}
           f == [x.fw EXCEPT !.ids = NewId, !.connected = k]
           s == [x.t EXCEPT !.auth_id = NewId]
           y == told(x, how)
<1>0. x.t \in DevTransport /\ x.fw \in Framework
  BY CtxFacts
<1>1. y = [x EXCEPT !.fw = f, !.t = s]
  BY <1>0, Zenon DEF told, Ctx, Framework
<1>2. k \in SUBSET ({"key", "dialog", "tls"} \X (1..MaxId)) /\ NewId \in 0..MaxId
  BY <1>0 DEF Framework
<1> HIDE DEF k
<1>3. /\ f \in Framework /\ f.known = x.fw.known /\ f.ids = NewId
      /\ f.connected = k /\ f.checkFailed = x.fw.checkFailed
  BY <1>0, <1>2, Zenon DEF Framework
<1>4. /\ s \in DevTransport /\ SameObject(x.t, s) /\ SameState(x.t, s)
      /\ s.auth_id = NewId /\ s.disconnects = x.t.disconnects
  BY <1>0, <1>2, Zenon DEF DevTransport, SameObject, SameState
<1> HIDE DEF f, s, y
<1>5. y \in Ctx /\ y.out = x.out /\ y.wd = x.wd /\ y.fw = f /\ y.t = s
  BY <1>1, <1>3, <1>4, Zenon DEF Ctx
<1> QED BY <1>3, <1>4, <1>5 DEF y, k

-----------------------------------------------------------------------------
(* Packets on their way.                                                    *)
AllCnxn(s) == \A n \in DOMAIN s : s[n].cmd = "CNXN"

LEMMA HeadFacts ==
    ASSUME NEW s \in Seq(Packet), s # <<>>
    PROVE  /\ Head(s) \in Packet /\ Tail(s) \in Seq(Packet)
           /\ Len(s) \in Nat /\ Len(s) >= 1 /\ Len(Tail(s)) = Len(s) - 1
           /\ AllCnxn(s) => Head(s).cmd = "CNXN" /\ AllCnxn(Tail(s))
<1>1. /\ Head(s) \in Packet /\ Tail(s) \in Seq(Packet)
      /\ Len(s) \in Nat /\ Len(s) >= 1 /\ Len(Tail(s)) = Len(s) - 1
  OBVIOUS
<1>2. ASSUME AllCnxn(s)
      PROVE  Head(s).cmd = "CNXN" /\ AllCnxn(Tail(s))
  <2>1. 1 \in DOMAIN s /\ Head(s) = s[1]
    BY <1>1
  <2>2. \A n \in DOMAIN Tail(s) : n + 1 \in DOMAIN s /\ Tail(s)[n] = s[n + 1]
    BY <1>1
  <2> QED BY <1>2, <2>1, <2>2 DEF AllCnxn
<1> QED BY <1>1, <1>2

LEMMA AppendFacts ==
    ASSUME NEW s \in Seq(Packet), NEW p \in Packet
    PROVE  /\ Append(s, p) \in Seq(Packet) /\ Append(s, p) # <<>>
           /\ Len(s) \in Nat /\ Len(Append(s, p)) = Len(s) + 1
           /\ s = <<>> => Head(Append(s, p)) = p
           /\ AllCnxn(s) /\ p.cmd = "CNXN" => AllCnxn(Append(s, p))
<1>1. /\ Append(s, p) \in Seq(Packet) /\ Append(s, p) # <<>>
      /\ Len(s) \in Nat /\ Len(Append(s, p)) = Len(s) + 1
      /\ s = <<>> => Head(Append(s, p)) = p
  OBVIOUS
<1>2. \A n \in DOMAIN Append(s, p) :
         \/ n \in DOMAIN s /\ Append(s, p)[n] = s[n]
         \/ Append(s, p)[n] = p
  OBVIOUS
<1> QED BY <1>1, <1>2 DEF AllCnxn

LEMMA EmptyFacts ==
    /\ <<>> \in Seq(Packet) /\ Len(<<>>) = 0 /\ AllCnxn(<<>>)
    /\ \A s \in Seq(Packet) : Len(s) \in Nat /\ (Len(s) = 0 <=> s = <<>>)
    /\ <<CNXN>> \in Seq(Packet) /\ <<CNXN>> # <<>> /\ Len(<<CNXN>>) = 1
    /\ Head(<<CNXN>>) = CNXN /\ AllCnxn(<<CNXN>>)
  BY PacketFacts DEF AllCnxn

(* Packets that are lost from one end of a queue.                           *)
LEMMA LossFacts ==
    ASSUME NEW s \in Seq(Packet), NEW m \in 1..Len(s) + 1, NEW n \in 0..Len(s)
    PROVE  /\ SubSeq(s, m, n) \in Seq(Packet)
           /\ AllCnxn(s) => AllCnxn(SubSeq(s, m, n))
           /\ m = 1 /\ n = Len(s) => SubSeq(s, m, n) = s
<1>1. /\ SubSeq(s, m, n) \in Seq(Packet)
      /\ \A k \in DOMAIN SubSeq(s, m, n) :
            k + m - 1 \in DOMAIN s /\ SubSeq(s, m, n)[k] = s[k + m - 1]
  OBVIOUS
<1>2. m = 1 /\ n = Len(s) => SubSeq(s, m, n) = s
  OBVIOUS
<1> QED BY <1>1, <1>2 DEF AllCnxn

-----------------------------------------------------------------------------
(* What a step leaves alone.                                                *)
LEMMA TypesOf ==
    ASSUME IInv
    PROVE  /\ dev \in DevTransport /\ host \in HostTransport /\ conf \in Conf
           /\ fw \in Framework /\ wd \in Watchdog
           /\ toDev \in Seq(Packet) /\ toHost \in Seq(Packet)
           /\ dev.gen \in 1..MaxConnects /\ connects \in 1..MaxConnects
           /\ fw.ids \in 0..MaxId /\ dev.auth_id \in 0..MaxId
           /\ wd.active \in Int /\ broken \in BOOLEAN
           /\ callbacks \in Seq(0..MaxConnects)
           /\ \A a \in async : /\ a \in Operation /\ a.arg \in DOMAIN callbacks
                               /\ a.id \in 0..MaxId /\ a.key \in 0..Keys
           /\ \A c \in fw.connected : c[2] \in 1..MaxId
  BY HandshakeAssumption, Zenon DEF IInv, Types, ObjectInv, DevTransport, Framework, Watchdog, Operation

LEMMA ObjectKept ==
    ASSUME IInv, UNCHANGED <<connects>>,
           dev'.gen = dev.gen, dev'.alive = dev.alive, dev'.dying = dev.dying,
           host'.alive = host.alive, host'.online => host.online \/ host.alive,
           broken => broken',
           \A n \in DOMAIN callbacks' : callbacks'[n] <= dev.gen,
           \A a \in async' : a.arg \in DOMAIN callbacks'
    PROVE  ObjectInv'
  BY DEF IInv, ObjectInv

LEMMA WatchdogKept ==
    ASSUME IInv, UNCHANGED <<conf, wd>>, SameState(dev, dev'), dev'.tls = dev.tls,
           async' \subseteq async,
           AllCnxn(toDev) => AllCnxn(toDev'), AllCnxn(toHost) => AllCnxn(toHost')
    PROVE  WatchdogInv'
  BY DEF IInv, WatchdogInv, Open, AllCnxn, SameState

LEMMA ReportKept ==
    ASSUME IInv, UNCHANGED conf, SameAuth(dev, dev'), dev'.gen = dev.gen,
           fw'.connected = fw.connected, fw'.ids = fw.ids, fw'.checkFailed = fw.checkFailed,
           \A a \in async' : a.op = "dialog" =>
              a \in async /\ (callbacks'[a.arg] = dev.gen => callbacks[a.arg] = dev.gen)
    PROVE  ReportInv'
  BY DEF IInv, ReportInv, SameAuth

(* A callback that has been used refers to no transport any more.           *)
LEMMA UsedFacts ==
    ASSUME IInv, NEW a \in async, callbacks' = [callbacks EXCEPT ![a.arg] = None]
    PROVE  /\ callbacks' \in Seq(0..MaxConnects) /\ DOMAIN callbacks' = DOMAIN callbacks
           /\ \A n \in DOMAIN callbacks' : callbacks'[n] = callbacks[n] \/ callbacks'[n] = 0
           /\ \A n \in DOMAIN callbacks' : callbacks'[n] <= dev.gen
           /\ callbacks'[a.arg] # dev.gen
<1>1. callbacks \in Seq(0..MaxConnects) /\ a.arg \in DOMAIN callbacks
  BY TypesOf
<1>2. /\ DOMAIN callbacks' = DOMAIN callbacks /\ callbacks'[a.arg] = 0
      /\ \A n \in DOMAIN callbacks : n # a.arg => callbacks'[n] = callbacks[n]
  BY <1>1 DEF None
<1>3. 0 \in 0..MaxConnects /\ dev.gen # 0 /\ dev.gen >= 0
  <2>1. dev.gen \in 1..MaxConnects
    BY TypesOf, Zenon
  <2> QED BY <2>1, HandshakeAssumption
<1>4. callbacks' \in Seq(0..MaxConnects)
  BY <1>1, <1>3 DEF None
<1>5. \A n \in DOMAIN callbacks : callbacks[n] <= dev.gen
  BY DEF IInv, ObjectInv
<1> QED BY <1>1, <1>2, <1>3, <1>4, <1>5

LEMMA NewCallback ==
    ASSUME IInv, to_callback_arg
    PROVE  /\ callbacks' \in Seq(0..MaxConnects)
           /\ NewArg \in Nat \ {0} /\ NewArg \in DOMAIN callbacks'
           /\ \A n \in DOMAIN callbacks : n \in DOMAIN callbacks' /\ callbacks'[n] = callbacks[n]
           /\ \A n \in DOMAIN callbacks' : callbacks'[n] <= dev.gen
           /\ callbacks'[NewArg] = dev.gen
           /\ \A a \in async : a.arg # NewArg
<1>1. /\ callbacks \in Seq(0..MaxConnects) /\ dev.gen \in 0..MaxConnects /\ dev.gen \in Int
      /\ \A a \in async : a.arg \in DOMAIN callbacks
  BY TypesOf, HandshakeAssumption
<1>2. callbacks' = Append(callbacks, dev.gen) /\ NewArg = Len(callbacks) + 1
  BY DEF to_callback_arg, NewArg
<1>3. /\ callbacks' \in Seq(0..MaxConnects) /\ NewArg \in Nat \ {0} /\ NewArg \in DOMAIN callbacks'
      /\ \A n \in DOMAIN callbacks : n \in DOMAIN callbacks' /\ callbacks'[n] = callbacks[n]
      /\ \A n \in DOMAIN callbacks' : n \in DOMAIN callbacks \/ n = NewArg
      /\ callbacks'[NewArg] = dev.gen /\ NewArg \notin DOMAIN callbacks
  BY <1>1, <1>2
<1>4. \A n \in DOMAIN callbacks : callbacks[n] <= dev.gen
  BY DEF IInv, ObjectInv
<1> QED BY <1>1, <1>3, <1>4

(* A packet from adbd, and whose turn it is then.                           *)
LEMMA BecomeTypes ==
    ASSUME NEW x \in Ctx, Become(x)
    PROVE  /\ dev' \in DevTransport /\ wd' \in Watchdog /\ fw' \in Framework
           /\ toHost' \in Seq(Packet)
           /\ dev' = x.t /\ wd' = x.wd /\ fw' = x.fw /\ toHost' = x.out
  BY CtxFacts DEF Become

-----------------------------------------------------------------------------
(* The steps of the host server: keys_ is always a suffix of the keys that  *)
(* it has fetched.                                                          *)
KeySuffix(i) == SubSeq(AllKeys, i, Keys + 1)
KeySuffixes == {KeySuffix(i) : i \in 1..Keys + 2}

LEMMA SuffixFacts ==
    ASSUME NEW i \in 1..Keys + 2
    PROVE  /\ KeySuffix(i) \in Seq(0..Keys) /\ Len(KeySuffix(i)) = Keys + 2 - i
           /\ \A n \in 1..Keys + 2 - i : KeySuffix(i)[n] = AllKeys[i + n - 1]
<1>1. AllKeys \in Seq(0..Keys) /\ Len(AllKeys) = Keys + 1
  BY HandshakeAssumption DEF AllKeys, None
<1> HIDE DEF AllKeys
<1>2. Keys \in Nat
  BY HandshakeAssumption
<1> QED BY <1>1, <1>2, SMTT(30) DEF KeySuffix

LEMMA SameKeys ==
    ASSUME NEW s \in Seq(0..Keys), NEW t \in Seq(0..Keys), Len(s) = Len(t),
           \A n \in 1..Len(s) : s[n] = t[n]
    PROVE  s = t
  OBVIOUS

LEMMA HeadIsMember ==
    ASSUME NEW S, NEW s \in Seq(S), s # <<>>
    PROVE  Head(s) \in S
  OBVIOUS

LEMMA KeysFacts ==
    /\ <<>> \in KeySuffixes /\ AllKeys \in KeySuffixes
    /\ \A s \in KeySuffixes : /\ s \in Seq(0..Keys)
                              /\ s # <<>> => Tail(s) \in KeySuffixes /\ Head(s) \in 0..Keys
<1>1. Keys \in Nat /\ Keys >= 1
  BY HandshakeAssumption
<1>2. <<>> \in KeySuffixes
  <2>1. Keys + 2 \in 1..Keys + 2 /\ KeySuffix(Keys + 2) \in Seq(0..Keys) /\ Len(KeySuffix(Keys + 2)) = 0
    BY <1>1, SuffixFacts
  <2>2. KeySuffix(Keys + 2) = <<>>
    BY <2>1
  <2> QED BY <2>1, <2>2 DEF KeySuffixes
<1>3. AllKeys \in KeySuffixes
  <2>1. /\ 1 \in 1..Keys + 2 /\ KeySuffix(1) \in Seq(0..Keys) /\ Len(KeySuffix(1)) = Keys + 1
        /\ \A n \in 1..Keys + 1 : KeySuffix(1)[n] = AllKeys[n]
    BY <1>1, SuffixFacts
  <2>2. AllKeys \in Seq(0..Keys) /\ Len(AllKeys) = Keys + 1
    BY <1>1 DEF AllKeys, None
  <2> HIDE DEF AllKeys
  <2>3. KeySuffix(1) = AllKeys
    BY <2>1, <2>2, SameKeys
  <2> QED BY <2>1, <2>3 DEF KeySuffixes
<1>4. ASSUME NEW i \in 1..Keys + 2, KeySuffix(i) # <<>>
      PROVE  Tail(KeySuffix(i)) \in KeySuffixes
  <2> DEFINE s == KeySuffix(i)
             t == KeySuffix(i + 1)
  <2>1. /\ s \in Seq(0..Keys) /\ Len(s) = Keys + 2 - i
        /\ \A n \in 1..Keys + 2 - i : s[n] = AllKeys[i + n - 1]
    BY SuffixFacts
  <2>2. i # Keys + 2 /\ i + 1 \in 1..Keys + 2
    BY <1>1, <1>4, <2>1
  <2>3. /\ t \in Seq(0..Keys) /\ Len(t) = Keys + 1 - i
        /\ \A n \in 1..Keys + 1 - i : t[n] = AllKeys[i + n]
    BY <1>1, <2>2, SuffixFacts
  <2> HIDE DEF s, t
  <2>4. /\ Tail(s) \in Seq(0..Keys) /\ Len(Tail(s)) = Keys + 1 - i
        /\ \A n \in 1..Keys + 1 - i : Tail(s)[n] = AllKeys[i + n]
    BY <1>1, <2>1, <2>2 DEF s
  <2>5. Tail(s) = t
    BY <2>3, <2>4, SameKeys, Zenon
  <2> QED BY <2>2, <2>5 DEF s, t, KeySuffixes
<1>5. \A s \in KeySuffixes : s \in Seq(0..Keys)
  BY SuffixFacts, Zenon DEF KeySuffixes
<1>6. \A s \in KeySuffixes : s # <<>> => Tail(s) \in KeySuffixes
  <2> SUFFICES ASSUME NEW s \in KeySuffixes, s # <<>> PROVE Tail(s) \in KeySuffixes
    OBVIOUS
  <2>1. PICK i \in 1..Keys + 2 : s = KeySuffix(i)
    BY Zenon DEF KeySuffixes
  <2> QED BY <1>4, <2>1, Zenon
<1>7. \A s \in Seq(0..Keys) : s # <<>> => Head(s) \in 0..Keys
  BY HeadIsMember, Zenon
<1> QED BY <1>2, <1>3, <1>5, <1>6, <1>7, Zenon

LEMMA NextKeyFacts ==
    ASSUME host \in HostTransport
    PROVE  /\ NextKeys \in KeySuffixes /\ NextKey \in 0..Keys
           /\ host.keys \in KeySuffixes
<1>1. host.keys \in KeySuffixes
  BY DEF HostTransport, KeySuffixes, KeySuffix
<1>2. NextKeys \in KeySuffixes
  BY <1>1, KeysFacts DEF NextKeys
<1>3. None \in 0..Keys
  BY HandshakeAssumption DEF None
<1> QED BY <1>1, <1>2, <1>3, KeysFacts DEF NextKey

(* A step of the host server keeps the invariant when it keeps the turns.   *)
LEMMA HostKept ==
    ASSUME IInv, UNCHANGED <<conf, dev, async, callbacks, fw, wd, connects>>,
           host' \in HostTransport, ~host'.alive => broken' /\ ~host'.online,
           toDev' \in Seq(Packet), toHost' \in Seq(Packet),
           broken' \in BOOLEAN, broken => broken',
           Open /\ AllCnxn(toDev) /\ AllCnxn(toHost) => AllCnxn(toDev') /\ AllCnxn(toHost'),
           TurnInv'
    PROVE  IInv'
<1>1. Types'
  BY DEF IInv, Types
<1>2. ObjectInv'
  BY DEF IInv, ObjectInv
<1>3. WatchdogInv'
  BY DEF IInv, WatchdogInv, Open, AllCnxn
<1>4. ReportInv'
  BY DEF IInv, ReportInv
<1> QED BY <1>1, <1>2, <1>3, <1>4 DEF IInv

LEMMA OneAtMost == \A m \in {0, 1} : \A n : n = 0 => m + n <= 1
  OBVIOUS

(* Where a packet is the only one, and the packet that answers it follows.  *)
LEMMA HostTurn ==
    ASSUME IInv, UNCHANGED <<conf, dev, async, callbacks, broken>>,
           host.alive, toHost # <<>>, toHost' = Tail(toHost),
           NEW p \in Packet, p.cmd # "CNXN", Head(toHost).cmd # "CNXN",
           host'.online = host.online, HostSends(p) \/ UNCHANGED toDev
    PROVE  TurnInv' /\ toDev' \in Seq(Packet) /\ toHost' \in Seq(Packet)
<1>1. toDev \in Seq(Packet) /\ toHost \in Seq(Packet) /\ broken \in BOOLEAN
  BY DEF IInv, Types
<1>2. toHost' \in Seq(Packet) /\ Len(toHost) >= 1 /\ Len(toHost') = Len(toHost) - 1
  BY <1>1, HeadFacts
<1>3. /\ toDev' \in Seq(Packet)
      /\ ~broken => toDev' = toDev \/ toDev' = Append(toDev, p)
  BY <1>1, AppendFacts, Zenon DEF HostSends
<1>0. conf' = conf /\ dev' = dev /\ async' = async /\ callbacks' = callbacks /\ broken' = broken
  OBVIOUS
<1>4. CASE conf.kind # "usb" /\ ~broken
  <2>1. /\ Len(toDev) + Len(toHost) <= 1 /\ ~dev.online /\ Current = {}
        /\ host.online => dev.online
    BY <1>4 DEF IInv, TurnInv
  <2>2. Len(toDev) = 0 /\ Len(toHost) = 1
    BY <1>1, <1>2, <2>1, EmptyFacts
  <2>3. toDev = <<>> /\ toHost' = <<>> /\ Len(toHost') = 0
    BY <1>1, <1>2, <2>2, EmptyFacts
  <2>4. toDev' = <<>> \/ (Len(toDev') = 1 /\ Head(toDev') = p)
    BY <1>1, <1>3, <1>4, <2>3, AppendFacts, EmptyFacts
  <2>7. Len(toDev') \in {0, 1}
    BY <2>4, EmptyFacts
  <2>8. Len(toHost') = 0
    BY <2>3
  <2>5. Current' = {}
    BY <1>0, <2>1, Zenon DEF Current
  <2>6. Len(toDev') + Len(toHost') <= 1
    BY <2>7, <2>8, OneAtMost, Zenon
  <2> QED BY <1>0, <1>2, <1>3, <2>1, <2>3, <2>4, <2>5, <2>6, Zenon DEF TurnInv
<1>5. CASE ~(conf.kind # "usb" /\ ~broken)
  BY <1>0, <1>2, <1>3, <1>5 DEF TurnInv
<1> QED BY <1>2, <1>3, <1>4, <1>5

LEMMA HostCnxn == ASSUME IInv, UNCHANGED conf, host_cnxn PROVE IInv'
<1>1. /\ host \in HostTransport /\ toDev \in Seq(Packet) /\ toHost \in Seq(Packet)
      /\ broken \in BOOLEAN
  BY DEF IInv, Types
<1>2. /\ host.alive /\ toHost # <<>> /\ Head(toHost).cmd = "CNXN" /\ toHost' = Tail(toHost)
      /\ UNCHANGED <<conf, dev, async, callbacks, fw, wd, connects, broken, toDev>>
  BY DEF host_cnxn, HostReceives
<1> DEFINE w == SetConnectionEstablished(host, "true")
<1>3. w \in {"pending", "true", "false"}
  BY <1>1 DEF SetConnectionEstablished, HostTransport
<1>4. host' = [host EXCEPT !.cs = "device", !.online = TRUE, !.waitable = w]
  BY DEF host_cnxn
<1> HIDE DEF w
<1>5. host' \in HostTransport /\ host'.alive = host.alive
  BY <1>1, <1>3, <1>4, Zenon DEF HostTransport
<1>6. /\ toHost' \in Seq(Packet) /\ Len(toHost) >= 1 /\ Len(toHost') = Len(toHost) - 1
      /\ AllCnxn(toHost) => AllCnxn(toHost')
  BY <1>1, <1>2, HeadFacts
<1>7. TurnInv'
  <2> SUFFICES ASSUME conf.kind # "usb", ~broken
               PROVE  TurnInv'
    BY <1>2 DEF TurnInv
  <2>1. Len(toDev) + Len(toHost) <= 1 /\ dev.online /\ Current = {}
    BY <1>2 DEF IInv, TurnInv
  <2>2. Len(toDev) = 0 /\ Len(toHost) = 1
    BY <1>1, <1>6, <2>1, EmptyFacts
  <2>3. toDev' = <<>> /\ toHost' = <<>>
    BY <1>1, <1>2, <1>6, <2>2, EmptyFacts
  <2>4. Current' = {}
    BY <1>2, <2>1 DEF Current
  <2>5. Len(toDev') + Len(toHost') <= 1
    BY <2>3, EmptyFacts
  <2> QED BY <1>2, <2>1, <2>3, <2>4, <2>5 DEF TurnInv
<1> QED BY <1>1, <1>2, <1>5, <1>6, <1>7, HostKept

LEMMA HostToken == ASSUME IInv, UNCHANGED conf, host_token PROVE IInv'
<1>1. /\ host \in HostTransport /\ toDev \in Seq(Packet) /\ toHost \in Seq(Packet)
      /\ broken \in BOOLEAN
  BY DEF IInv, Types
<1>2. /\ host.alive /\ toHost # <<>> /\ Head(toHost).cmd = "TOKEN" /\ toHost' = Tail(toHost)
      /\ UNCHANGED <<conf, dev, async, callbacks, fw, wd, connects, broken>>
  BY DEF host_token, HostReceives
<1> DEFINE w == SetConnectionEstablished(host, "true")
           p == P("RSAPUBLICKEY", 0, 1)
           q == P("SIGNATURE", Head(toHost).token, NextKey)
<1>3. w \in {"pending", "true", "false"}
  BY <1>1 DEF SetConnectionEstablished, HostTransport
<1>4. NextKeys \in KeySuffixes /\ NextKey \in 0..Keys
  BY <1>1, NextKeyFacts
<1>5. p \in Packet /\ p.cmd = "RSAPUBLICKEY"
  BY HandshakeAssumption DEF P, Packet, Commands, None
<1>6. q \in Packet /\ q.cmd = "SIGNATURE"
  <2>1. Head(toHost) \in Packet
    BY <1>1, <1>2, HeadFacts
  <2>2. Head(toHost).token \in 0..Tokens - 1
    BY <2>1 DEF Packet
  <2> QED BY <1>4, <2>2 DEF P, Packet, Commands
<1>7. \/ UNCHANGED <<host, toDev>>
      \/ /\ host' = [host EXCEPT !.keys = NextKeys, !.cs = "unauthorized", !.waitable = w]
         /\ HostSends(p) \/ UNCHANGED toDev
      \/ /\ host' = [host EXCEPT !.keys = NextKeys, !.cs = "authorizing"]
         /\ HostSends(q) \/ UNCHANGED toDev
  BY Zenon DEF host_token
<1> HIDE DEF w, p, q
<1>8. host' \in HostTransport /\ host'.alive = host.alive /\ host'.online = host.online
  <2>1. CASE UNCHANGED host
    BY <1>1, <2>1
  <2>2. CASE host' = [host EXCEPT !.keys = NextKeys, !.cs = "unauthorized", !.waitable = w]
    BY <1>1, <1>3, <1>4, <2>2, Zenon DEF HostTransport, KeySuffixes, KeySuffix
  <2>3. CASE host' = [host EXCEPT !.keys = NextKeys, !.cs = "authorizing"]
    BY <1>1, <1>4, <2>3, Zenon DEF HostTransport, KeySuffixes, KeySuffix
  <2> QED BY <1>7, <2>1, <2>2, <2>3
<1>9. TurnInv' /\ toDev' \in Seq(Packet) /\ toHost' \in Seq(Packet)
  <2>1. CASE HostSends(p)
    BY <1>2, <1>5, <1>8, <2>1, HostTurn
  <2>2. CASE ~HostSends(p)
    BY <1>2, <1>6, <1>7, <1>8, <2>2, HostTurn
  <2> QED BY <2>1, <2>2
<1>10. ~AllCnxn(toHost)
  BY <1>1, <1>2, HeadFacts
<1>11. ~host.alive => broken /\ ~host.online
  BY DEF IInv, ObjectInv
<1> QED BY <1>1, <1>2, <1>8, <1>9, <1>10, <1>11, HostKept

LEMMA HostStls == ASSUME IInv, UNCHANGED conf, host_stls PROVE IInv'
<1>1. /\ host \in HostTransport /\ toDev \in Seq(Packet) /\ toHost \in Seq(Packet)
      /\ broken \in BOOLEAN
  BY DEF IInv, Types
<1>2. /\ host.alive /\ toHost # <<>> /\ Head(toHost).cmd = "STLS" /\ toHost' = Tail(toHost)
      /\ UNCHANGED <<conf, dev, async, callbacks, fw, wd, connects, broken>>
      /\ HostSends(STLS)
  BY DEF host_stls, HostReceives
<1> DEFINE k == IF host.keys = <<>> THEN NextKeys ELSE host.keys
<1>3. k \in KeySuffixes
  BY <1>1, NextKeyFacts
<1>4. host' = [host EXCEPT !.tls = TRUE, !.shake = TRUE, !.keys = k]
  BY DEF host_stls
<1> HIDE DEF k
<1>5. host' \in HostTransport /\ host'.alive = host.alive /\ host'.online = host.online
  BY <1>1, <1>3, <1>4, Zenon DEF HostTransport, KeySuffixes, KeySuffix
<1>6. STLS \in Packet /\ STLS.cmd # "CNXN" /\ Head(toHost).cmd # "CNXN"
  BY <1>2, PacketFacts
<1>7. TurnInv' /\ toDev' \in Seq(Packet) /\ toHost' \in Seq(Packet)
  BY <1>2, <1>5, <1>6, HostTurn
<1>8. ~AllCnxn(toHost)
  BY <1>1, <1>2, <1>6, HeadFacts
<1>9. ~host'.alive => broken' /\ ~host'.online
  BY <1>2, <1>5
<1> QED BY <1>1, <1>2, <1>5, <1>7, <1>8, <1>9, HostKept

(* After the connection has broken there are no turns.                      *)
LEMMA BrokenTurn == ASSUME broken' PROVE TurnInv'
  BY DEF TurnInv

LEMMA DestroyFacts ==
    ASSUME NEW t \in HostTransport
    PROVE  /\ Destroy(t) \in HostTransport /\ Destroy(t).alive = t.alive
           /\ Destroy(t).online = t.online
<1> DEFINE w == SetConnectionEstablished(t, "false")
<1>1. w \in {"pending", "true", "false"} /\ Destroy(t) = [t EXCEPT !.waitable = w]
  BY DEF SetConnectionEstablished, HostTransport, Destroy
<1> HIDE DEF w
<1> QED BY <1>1, Zenon DEF HostTransport

(* The steps that the host server takes once the connection has failed.     *)
LEMMA HostBroken ==
    ASSUME IInv, UNCHANGED conf, host_tls_fails \/ host_kick \/ host_error
    PROVE  IInv'
<1>1. /\ host \in HostTransport /\ toDev \in Seq(Packet) /\ toHost \in Seq(Packet)
      /\ broken \in BOOLEAN /\ host.alive \in BOOLEAN
      /\ ~host.alive => broken /\ ~host.online
  BY DEF IInv, Types, ObjectInv, HostTransport
<1>2. UNCHANGED <<conf, dev, async, callbacks, fw, wd, connects, toDev, toHost>>
  BY DEF host_tls_fails, host_kick, host_error
<1>3. broken' = TRUE
  BY <1>1 DEF host_tls_fails, host_kick, host_error
<1>4. host' \in HostTransport /\ (~host'.alive => ~host'.online)
  <2>1. CASE host_tls_fails
    <3>1. host' = [host EXCEPT !.shake = FALSE, !.kick = TRUE]
      BY <2>1 DEF host_tls_fails
    <3>2. host' \in HostTransport /\ host'.alive = host.alive /\ host'.online = host.online
      BY <1>1, <3>1, Zenon DEF HostTransport
    <3> QED BY <1>1, <3>2
  <2>2. CASE host_kick
    <3> DEFINE t == [host EXCEPT !.kick = FALSE, !.kicked = TRUE]
    <3>1. host' = IF t.alive THEN t ELSE Destroy(t)
      BY <2>2 DEF host_kick
    <3>2. t \in HostTransport /\ t.alive = host.alive /\ t.online = host.online
      BY <1>1, Zenon DEF HostTransport
    <3> HIDE DEF t
    <3> QED BY <1>1, <3>1, <3>2, DestroyFacts
  <2>3. CASE host_error
    <3> DEFINE t == [host EXCEPT !.cs = "offline", !.online = FALSE, !.alive = FALSE]
               u == [t EXCEPT !.keys = <<>>]
    <3>1. host' = Destroy(t) \/ host' = u
      BY <2>3 DEF host_error
    <3>2. t \in HostTransport /\ t.alive = FALSE /\ t.online = FALSE
      BY <1>1, Zenon DEF HostTransport
    <3> HIDE DEF t
    <3>3. u \in HostTransport /\ u.online = t.online
      BY <3>2, KeysFacts, Zenon DEF HostTransport, KeySuffixes, KeySuffix
    <3> HIDE DEF u
    <3> QED BY <3>1, <3>2, <3>3, DestroyFacts
  <2> QED BY <2>1, <2>2, <2>3
<1>5. TurnInv'
  BY <1>3, BrokenTurn
<1> QED BY <1>1, <1>2, <1>3, <1>4, <1>5, HostKept

LEMMA BreakKeeps == ASSUME IInv, UNCHANGED conf, Break PROVE IInv'
<1>1. /\ host \in HostTransport /\ toDev \in Seq(Packet) /\ toHost \in Seq(Packet)
      /\ ~host.alive => broken /\ ~host.online
  BY DEF IInv, Types, ObjectInv
<1>2. /\ UNCHANGED <<conf, host, dev, async, callbacks, fw, wd, connects, toDev, toHost>>
      /\ broken' = TRUE
  BY DEF Break
<1>3. TurnInv'
  BY <1>2, BrokenTurn
<1> QED BY <1>1, <1>2, <1>3, HostKept

(* Nothing changes but what adbd has started, and that only becomes less.   *)
LEMMA TurnKept ==
    ASSUME IInv, UNCHANGED <<conf, toDev, toHost>>, host'.online = host.online,
           SameState(dev, dev'), Current' \subseteq Current, broken => broken'
    PROVE  TurnInv'
<1>1. CASE conf.kind # "usb" /\ ~broken
  BY <1>1 DEF IInv, TurnInv, SameState
<1>2. CASE ~(conf.kind # "usb" /\ ~broken)
  BY <1>2 DEF TurnInv
<1> QED BY <1>1, <1>2

LEMMA UsedCurrent ==
    ASSUME IInv, NEW a \in async, callbacks' = [callbacks EXCEPT ![a.arg] = None],
           async' = async \ {a}, dev'.gen = dev.gen
    PROVE  Current' \subseteq Current \ {a}
<1>1. /\ DOMAIN callbacks' = DOMAIN callbacks
      /\ \A n \in DOMAIN callbacks' : callbacks'[n] = callbacks[n] \/ callbacks'[n] = 0
  BY UsedFacts, Zenon
<1>2. \A b \in async : b.arg \in DOMAIN callbacks
  BY TypesOf
<1>3. dev.gen # 0
  BY TypesOf
<1> QED BY <1>1, <1>2, <1>3 DEF Current

-----------------------------------------------------------------------------
(* The steps of adbd that send nothing.                                     *)
LEMMA TlsFails == ASSUME IInv, UNCHANGED conf, NEW a \in async, tls_fails(a) PROVE IInv'
<1>1. /\ UNCHANGED <<conf, host, dev, toDev, toHost, fw, wd, connects>>
      /\ async' = async \ {a} /\ callbacks' = [callbacks EXCEPT ![a.arg] = None]
      /\ broken' = (broken \/ from_callback_arg(a.arg))
  BY DEF tls_fails
<1>2. /\ callbacks' \in Seq(0..MaxConnects) /\ DOMAIN callbacks' = DOMAIN callbacks
      /\ \A n \in DOMAIN callbacks' : callbacks'[n] = callbacks[n] \/ callbacks'[n] = 0
      /\ \A n \in DOMAIN callbacks' : callbacks'[n] <= dev.gen
  BY <1>1, UsedFacts, Zenon
<1>3. /\ broken \in BOOLEAN /\ broken' \in BOOLEAN /\ (broken => broken') /\ dev.gen # 0
      /\ \A b \in async : b.arg \in DOMAIN callbacks
  BY <1>1, TypesOf DEF from_callback_arg
<1>4. Types'
  BY <1>1, <1>2, <1>3, Zenon DEF IInv, Types
<1>5. ObjectInv'
  BY <1>1, <1>2, <1>3, ObjectKept DEF IInv, ObjectInv
<1>6. TurnInv'
  <2>1. Current' \subseteq Current
    BY <1>1, UsedCurrent, Zenon
  <2> QED BY <1>1, <1>3, <2>1, TurnKept DEF SameState
<1>7. WatchdogInv'
  BY <1>1, WatchdogKept DEF SameState
<1>8. ReportInv'
  BY <1>1, <1>2, <1>3, ReportKept DEF SameAuth
<1> QED BY <1>4, <1>5, <1>6, <1>7, <1>8, Zenon DEF IInv

LEMMA KeyRemoved ==
    ASSUME IInv, UNCHANGED conf, NEW key \in 1..Keys, adbd_key_removed(key)
    PROVE  IInv'
<1>1. /\ UNCHANGED <<conf, host, dev, toDev, toHost, async, callbacks, wd, connects>>
      /\ fw' = [fw EXCEPT !.known = @ \ {key}]
      /\ broken' = (broken \/ (dev.alive /\ dev.auth_key = key))
  BY DEF adbd_key_removed
<1>2. /\ fw' \in Framework /\ fw'.connected = fw.connected /\ fw'.ids = fw.ids
      /\ fw'.checkFailed = fw.checkFailed
  <2> DEFINE k == fw.known \ {key}
  <2>1. fw \in Framework
    BY TypesOf
  <2>2. k \in SUBSET (1..Keys)
    BY <2>1 DEF Framework
  <2>3. fw' = [fw EXCEPT !.known = k]
    BY <1>1
  <2> HIDE DEF k
  <2> QED BY <2>1, <2>2, <2>3, Zenon DEF Framework
<1>3. broken \in BOOLEAN /\ broken' \in BOOLEAN /\ (broken => broken')
  BY <1>1, TypesOf
<1>4. Types'
  BY <1>1, <1>2, <1>3 DEF IInv, Types
<1>5. ObjectInv'
  BY <1>1, <1>3, ObjectKept DEF IInv, ObjectInv
<1>6. TurnInv'
  <2>1. Current' \subseteq Current
    BY <1>1 DEF Current
  <2> QED BY <1>1, <1>3, <2>1, TurnKept DEF SameState
<1>7. WatchdogInv'
  BY <1>1, WatchdogKept DEF SameState
<1>8. ReportInv'
  BY <1>1, <1>2, ReportKept DEF SameAuth
<1> QED BY <1>4, <1>5, <1>6, <1>7, <1>8 DEF IInv

LEMMA Unregister ==
    ASSUME IInv, UNCHANGED conf, fdevent_unregister_transport
    PROVE  IInv'
<1>1. /\ UNCHANGED <<conf, host, toDev, toHost, async, callbacks, fw, wd, connects, broken>>
      /\ dev' = [dev EXCEPT !.alive = FALSE] /\ dev.dying
  BY DEF fdevent_unregister_transport
<1>2. /\ dev' \in DevTransport /\ dev'.gen = dev.gen /\ dev'.tls = dev.tls
      /\ SameAuth(dev, dev') /\ SameState(dev, dev')
  BY <1>1, TypesOf, Zenon DEF DevTransport, SameAuth, SameState
<1>3. Types'
  BY <1>1, <1>2 DEF IInv, Types
<1>4. broken /\ broken'
  BY <1>1 DEF IInv, ObjectInv
<1>5. ObjectInv'
  BY <1>1, <1>2, <1>4 DEF IInv, ObjectInv
<1>6. TurnInv'
  BY <1>4, BrokenTurn
<1>7. WatchdogInv'
  BY <1>1, <1>2, WatchdogKept
<1>8. ReportInv'
  BY <1>1, <1>2, ReportKept
<1> QED BY <1>3, <1>5, <1>6, <1>7, <1>8 DEF IInv

LEMMA PropertyChanged == ASSUME IInv, UNCHANGED conf, property_changed PROVE IInv'
<1> DEFINE w == [wd EXCEPT !.enabled = ~@]
<1>1. /\ UNCHANGED <<conf, host, dev, toDev, toHost, async, callbacks, fw, connects, broken>>
      /\ wd' = UpdateWatchdog(w)
  BY DEF property_changed
<1>2. w \in Watchdog /\ w.active = wd.active /\ w.running = wd.running
  BY TypesOf, Zenon DEF Watchdog
<1> HIDE DEF w
<1>3. wd' \in Watchdog /\ Armed(wd') /\ wd'.active = wd.active /\ wd'.running = wd.running
  BY <1>1, <1>2, UpdateFacts
<1>4. Types'
  BY <1>1, <1>3 DEF IInv, Types
<1>5. ObjectInv'
  BY <1>1, Zenon DEF IInv, ObjectInv
<1>6. TurnInv'
  BY <1>1, Zenon DEF IInv, TurnInv, Current
<1>7. WatchdogInv'
  BY <1>1, <1>3, Zenon DEF IInv, WatchdogInv, Open, Armed
<1>8. ReportInv'
  BY <1>1 DEF IInv, ReportInv
<1> QED BY <1>4, <1>5, <1>6, <1>7, <1>8 DEF IInv

(* The handshake that is completed was the one waited for, and still is.    *)
LEMMA TlsSucceeds ==
    ASSUME IInv, UNCHANGED conf, NEW a \in async, tls_succeeds(a)
    PROVE  IInv'
<1>1. /\ UNCHANGED <<conf, dev, toDev, toHost, callbacks, fw, wd, connects, broken>>
      /\ host' = [host EXCEPT !.shake = FALSE]
      /\ a.op = "tls" /\ dev.alive /\ callbacks[a.arg] = dev.gen
  BY ZenonT(40) DEF tls_succeeds, Shaking, from_callback_arg
<1>2. PICK key \in Trusted :
         async' = (async \ {a}) \cup
                  {[a EXCEPT !.op = "connected", !.key = IF conf.auth_required THEN key ELSE None]}
  BY Zenon DEF tls_succeeds
<1> DEFINE k == IF conf.auth_required THEN key ELSE None
           b == [a EXCEPT !.op = "connected", !.key = k]
<1>3. k \in 0..Keys
  BY TypesOf, HandshakeAssumption DEF Trusted, Framework, None
<1>4. a \in Operation
  BY TypesOf
<1> HIDE DEF k
<1>5. b \in Operation /\ b.arg = a.arg /\ b.op = "connected"
  <2>1. a \in [op : {"dialog", "tls", "connected"}, arg : Nat \ {0}, id : 0..MaxId, key : 0..Keys]
    BY <1>4 DEF Operation
  <2>2. /\ b \in [op : {"dialog", "tls", "connected"}, arg : Nat \ {0}, id : 0..MaxId, key : 0..Keys]
        /\ b.arg = a.arg /\ b.op = "connected"
    BY <1>3, <2>1, Zenon
  <2> QED BY <2>2, Zenon DEF Operation
<1>6. async' = (async \ {a}) \cup {b}
  BY <1>2 DEF k
<1> HIDE DEF b
<1>7. host' \in HostTransport /\ host'.online = host.online /\ host'.alive = host.alive
  BY <1>1, TypesOf, Zenon DEF HostTransport
<1>8. Types'
  BY <1>1, <1>5, <1>6, <1>7 DEF IInv, Types
<1>9. ObjectInv'
  BY <1>1, <1>5, <1>6, <1>7 DEF IInv, ObjectInv
<1>10. TurnInv'
  <2>1. Current' = (Current \ {a}) \cup {b} /\ a \in Current
    BY <1>1, <1>5, <1>6 DEF Current
  <2> QED BY <1>1, <1>7, <2>1 DEF IInv, TurnInv
<1>11. WatchdogInv'
  BY <1>1 DEF IInv, WatchdogInv, Open
<1>12. ReportInv'
  BY <1>1, <1>5, <1>6, ReportKept, Zenon DEF SameAuth
<1> QED BY <1>8, <1>9, <1>10, <1>11, <1>12 DEF IInv

-----------------------------------------------------------------------------
(* A new connection, and a new host server on an old one.                   *)
LEMMA NewHostFacts ==
    NewHost \in HostTransport /\ ~NewHost.online /\ NewHost.alive
<1>1. <<>> \in {SubSeq(AllKeys, i, Keys + 1) : i \in 1..Keys + 2}
  BY KeysFacts, Zenon DEF KeySuffixes, KeySuffix
<1> QED BY <1>1 DEF NewHost, HostTransport

LEMMA NewDevFacts ==
    ASSUME NEW gen \in 1..MaxConnects
    PROVE  /\ NewDev(gen) \in DevTransport /\ NewDev(gen).gen = gen
           /\ NewDev(gen).cs = "offline" /\ ~NewDev(gen).online
           /\ NewDev(gen).auth_id = None /\ NewDev(gen).disconnects = <<>>
           /\ NewDev(gen).alive /\ ~NewDev(gen).dying
           /\ NewDev(gen).tls = (conf.kind = "tls")
<1>1. /\ <<>> \in Seq({"auth", "wifi"}) /\ 0 \in 0..Tokens - 1
      /\ None \in 0..Keys /\ None \in 0..MaxId /\ (conf.kind = "tls") \in BOOLEAN
  BY HandshakeAssumption DEF None
<1> QED BY <1>1 DEF NewDev, DevTransport

LEMMA ReconnectKeeps == ASSUME IInv, UNCHANGED conf, Reconnect PROVE IInv'
<1>1. /\ UNCHANGED <<conf, async, callbacks, fw, wd>>
      /\ connects' = connects + 1 /\ connects < MaxConnects
      /\ host' = NewHost \/ host' = [host EXCEPT !.alive = TRUE]
      /\ dev' = NewDev(connects + 1)
      /\ toDev' = <<CNXN>> /\ toHost' = <<>> /\ broken' = FALSE /\ ~host.alive
  BY DEF Reconnect
<1>2. /\ connects + 1 \in 1..MaxConnects /\ dev.gen \in Int /\ connects \in Int
      /\ dev.gen <= connects
  BY <1>1, TypesOf, HandshakeAssumption, SMTT(30) DEF IInv, ObjectInv
<1>3. /\ dev' \in DevTransport /\ dev'.gen = connects + 1
      /\ dev'.cs = "offline" /\ ~dev'.online
      /\ dev'.auth_id = None /\ dev'.disconnects = <<>>
      /\ dev'.alive /\ ~dev'.dying /\ dev'.tls = (conf.kind = "tls")
  BY <1>1, <1>2, NewDevFacts
<1>4. host' \in HostTransport /\ ~host'.online /\ host'.alive
  <2>1. host \in HostTransport /\ ~host.online
    BY <1>1 DEF IInv, Types, ObjectInv
  <2>2. CASE host' = [host EXCEPT !.alive = TRUE]
    <3>1. host' \in HostTransport /\ host'.online = host.online /\ host'.alive = TRUE
      BY <2>1, <2>2, Zenon DEF HostTransport
    <3> QED BY <2>1, <3>1
  <2> QED BY <1>1, <2>2, NewHostFacts
<1>5. \A n \in DOMAIN callbacks : callbacks[n] <= dev.gen /\ callbacks[n] \in Int
  BY TypesOf, HandshakeAssumption DEF IInv, ObjectInv
<1>6. \A n \in DOMAIN callbacks : callbacks[n] <= connects + 1 /\ callbacks[n] # connects + 1
  BY <1>2, <1>5
<1>7. \A a \in async : a.arg \in DOMAIN callbacks
  BY TypesOf
<1>8. Types'
  BY <1>1, <1>2, <1>3, <1>4, EmptyFacts, Zenon DEF IInv, Types
<1>9. ObjectInv'
  BY <1>1, <1>2, <1>3, <1>4, <1>6, <1>7 DEF ObjectInv
<1>10. TurnInv'
  <2>1. Current' = {}
    BY <1>1, <1>3, <1>6, <1>7 DEF Current
  <2>2. Len(toDev') = 1 /\ Len(toHost') = 0
    BY <1>1, EmptyFacts
  <2>3. Len(toDev') + Len(toHost') <= 1
    BY <2>2
  <2> QED BY <1>1, <1>3, <1>4, <2>1, <2>3 DEF TurnInv
<1>11. WatchdogInv'
  <2>1. AllCnxn(toDev') /\ AllCnxn(toHost')
    BY <1>1, EmptyFacts
  <2> QED BY <1>1, <1>3, <2>1, Zenon DEF IInv, WatchdogInv, Open, AllCnxn
<1>12. ReportInv'
  <2>1. \A c \in fw.connected : c[2] # None
    BY TypesOf DEF None
  <2> QED BY <1>1, <1>3, <1>6, <1>7, <2>1 DEF IInv, ReportInv
<1> QED BY <1>8, <1>9, <1>10, <1>11, <1>12 DEF IInv

LEMMA HostRestarts == ASSUME IInv, UNCHANGED conf, HostRestart PROVE IInv'
<1>1. /\ UNCHANGED <<conf, dev, async, callbacks, fw, wd, broken>>
      /\ conf.kind = "usb" /\ connects' = connects + 1 /\ connects < MaxConnects
      /\ host' = NewHost /\ toDev' = Append(toDev, CNXN)
  BY DEF HostRestart
<1>2. /\ connects + 1 \in 1..MaxConnects /\ dev.gen <= connects + 1
  BY <1>1, TypesOf, HandshakeAssumption, SMTT(30) DEF IInv, ObjectInv
<1>3. host' \in HostTransport /\ ~host'.online /\ host'.alive
  BY <1>1, NewHostFacts
<1>4. toDev' \in Seq(Packet) /\ (AllCnxn(toDev) => AllCnxn(toDev'))
  BY <1>1, TypesOf, PacketFacts, AppendFacts
<1>5. toHost' \in Seq(Packet) /\ (AllCnxn(toHost) => AllCnxn(toHost'))
  <2>1. PICK i \in 0..Len(toHost) : toHost' = SubSeq(toHost, i + 1, Len(toHost))
    BY DEF HostRestart
  <2>2. toHost \in Seq(Packet) /\ Len(toHost) \in Nat
    BY TypesOf
  <2>3. i + 1 \in 1..Len(toHost) + 1 /\ Len(toHost) \in 0..Len(toHost)
    BY <2>2
  <2> QED BY <2>1, <2>2, <2>3, LossFacts, Zenon
<1>6. Types'
  BY <1>1, <1>2, <1>3, <1>4, <1>5, Zenon DEF IInv, Types
<1>7. ObjectInv'
  BY <1>1, <1>2, <1>3 DEF IInv, ObjectInv
<1>8. TurnInv'
  BY <1>1 DEF TurnInv
<1>9. WatchdogInv'
  BY <1>1, <1>4, <1>5, WatchdogKept, Zenon DEF SameState
<1>10. ReportInv'
  BY <1>1 DEF IInv, ReportInv
<1> QED BY <1>6, <1>7, <1>8, <1>9, <1>10 DEF IInv

-----------------------------------------------------------------------------
(* The steps of adbd that answer: whose turn it was, and whose it is then.  *)
LEMMA DevTurn ==
    ASSUME IInv, UNCHANGED conf, NEW cmd, DevReceives(cmd)
    PROVE  /\ dev.alive /\ Head(toDev) \in Packet /\ Head(toDev).cmd = cmd
           /\ toDev' \in Seq(Packet) /\ (AllCnxn(toDev) => AllCnxn(toDev') /\ cmd = "CNXN")
           /\ UNCHANGED <<conf, host, connects>> /\ (cmd # "CNXN" => UNCHANGED broken)
           /\ (conf.kind # "usb" /\ ~broken) =>
                /\ toDev' = <<>> /\ toHost = <<>> /\ Current = {}
                /\ ~dev.online /\ ~host.online
                /\ cmd = "CNXN" => dev.cs = "offline"
<1>1. /\ dev.alive /\ toDev # <<>> /\ Head(toDev).cmd = cmd /\ toDev' = Tail(toDev)
      /\ UNCHANGED <<host, connects>> /\ (cmd # "CNXN" => UNCHANGED broken)
  BY DEF DevReceives
<1>2. toDev \in Seq(Packet) /\ toHost \in Seq(Packet)
  BY TypesOf
<1>3. /\ Head(toDev) \in Packet /\ toDev' \in Seq(Packet)
      /\ Len(toDev) >= 1 /\ Len(toDev') = Len(toDev) - 1
      /\ AllCnxn(toDev) => AllCnxn(toDev') /\ cmd = "CNXN"
  BY <1>1, <1>2, HeadFacts
<1>4. ASSUME conf.kind # "usb", ~broken
      PROVE  /\ toDev' = <<>> /\ toHost = <<>> /\ Current = {}
             /\ ~dev.online /\ ~host.online
             /\ cmd = "CNXN" => dev.cs = "offline"
  <2>1. /\ Len(toDev) + Len(toHost) <= 1 /\ Current = {} /\ ~dev.online /\ ~host.online
        /\ cmd = "CNXN" => dev.cs = "offline"
    BY <1>1, <1>4 DEF IInv, TurnInv
  <2>2. Len(toDev) \in Nat /\ Len(toHost) \in Nat
    BY <1>2, EmptyFacts
  <2>3. Len(toDev') = 0 /\ Len(toHost) = 0
    BY <1>3, <2>1, <2>2
  <2> QED BY <1>2, <1>3, <2>1, <2>3, EmptyFacts
<1> QED BY <1>1, <1>3, <1>4

LEMMA AnswerTurn ==
    ASSUME UNCHANGED conf,
           (conf.kind # "usb" /\ ~broken') =>
              /\ toDev' = <<>> /\ ~host'.online /\ Current' = {}
              /\ \E p \in Packet : /\ toHost' = Append(<<>>, p)
                                   /\ p.cmd = "CNXN" <=> dev'.online
    PROVE  TurnInv'
<1>1. CASE conf.kind # "usb" /\ ~broken'
  <2>1. PICK p \in Packet : toHost' = Append(<<>>, p) /\ (p.cmd = "CNXN" <=> dev'.online)
    BY <1>1
  <2>2. Head(toHost') = p /\ Len(toHost') = 0 + 1
    BY <2>1, AppendFacts, EmptyFacts
  <2>3. toDev' = <<>> /\ ~host'.online /\ Current' = {} /\ Len(toDev') = 0
    BY <1>1, EmptyFacts
  <2>4. Len(toDev') + Len(toHost') <= 1
    BY <2>2, <2>3
  <2> QED BY <2>1, <2>2, <2>3, <2>4 DEF TurnInv
<1>2. CASE ~(conf.kind # "usb" /\ ~broken')
  BY <1>2 DEF TurnInv
<1> QED BY <1>1, <1>2

LEMMA WaitTurn ==
    ASSUME UNCHANGED conf,
           (conf.kind # "usb" /\ ~broken') =>
              /\ toDev' = <<>> /\ toHost' = <<>> /\ ~dev'.online /\ ~host'.online
              /\ \A a, b \in Current' : a = b
    PROVE  TurnInv'
<1>1. CASE conf.kind # "usb" /\ ~broken'
  <2>1. Len(toDev') + Len(toHost') <= 1
    BY <1>1, EmptyFacts
  <2> QED BY <1>1, <2>1 DEF TurnInv
<1>2. CASE ~(conf.kind # "usb" /\ ~broken')
  BY <1>2 DEF TurnInv
<1> QED BY <1>1, <1>2

(* handle_offline takes back what the framework was told.                   *)
Reported(s, t, f, g) ==
    /\ t.disconnects = <<>>
    /\ g.connected = IF s.disconnects = <<>> THEN f.connected
                     ELSE {c \in f.connected : c[2] # s.auth_id}
    /\ g.checkFailed = (f.checkFailed \/ (s.disconnects # <<>> /\ s.auth_id = None))

SameReport(s, t, f, g) ==
    t.disconnects = s.disconnects /\ g.connected = f.connected /\ g.checkFailed = f.checkFailed

LEMMA OfflineReport ==
    ASSUME IInv, UNCHANGED <<conf, async, callbacks>>, dev'.auth_id = dev.auth_id,
           dev'.gen = dev.gen, fw'.ids = fw.ids,
           Reported(dev, dev', fw, fw') \/ SameReport(dev, dev', fw, fw')
    PROVE  ReportInv'
<1>1. CASE SameReport(dev, dev', fw, fw')
  BY <1>1, ReportKept, Zenon DEF SameReport, SameAuth
<1>2. CASE Reported(dev, dev', fw, fw')
  <2>1. conf.with_id => ~fw'.checkFailed
    BY <1>2, Zenon DEF Reported, IInv, ReportInv
  <2>2. fw'.connected \subseteq fw.connected
    BY <1>2, Zenon DEF Reported
  <2>3. \A c \in fw'.connected : c[2] = dev.auth_id => c[1] = "key"
    BY <1>2 DEF Reported, IInv, ReportInv
  <2> QED BY <1>2, <2>1, <2>2, <2>3 DEF Reported, IInv, ReportInv
<1> QED BY <1>1, <1>2, Zenon

(* Counting the connections without authentication.                         *)
Counted(t, w) ==
    /\ t.online <=> t.cs # "offline"
    /\ w.active >= 0 /\ (t.online => w.active >= 1)
    /\ w.running <=> w.active = 0

LEMMA OfflineCounted ==
    ASSUME NEW x \in Ctx, Counted(x.t, x.wd)
    PROVE  LET y == handle_offline(x)
           IN  /\ y.t.cs = "offline" /\ ~y.t.online
               /\ y.wd.active >= 0 /\ (y.wd.running <=> y.wd.active = 0)
<1> DEFINE y == handle_offline(x)
<1>1. x.wd.active \in Int /\ x.wd.running \in BOOLEAN
  BY CtxFacts DEF Watchdog
<1>2. /\ x.t.cs = "offline" => y = x
      /\ x.t.cs # "offline" =>
           /\ y.t.cs = "offline" /\ ~y.t.online
           /\ y.wd.active = x.wd.active - 1
           /\ y.wd.running = (x.wd.running \/ x.wd.active = 1)
  BY OfflineFacts, Zenon
<1> HIDE DEF y
<1>3. CASE x.t.cs = "offline"
  BY <1>2, <1>3 DEF y, Counted
<1>4. CASE x.t.cs # "offline"
  <2>1. x.wd.active >= 1 /\ (x.wd.running <=> x.wd.active = 0)
    BY <1>4 DEF Counted
  <2>2. /\ y.t.cs = "offline" /\ ~y.t.online /\ y.wd.active = x.wd.active - 1
        /\ y.wd.running = (x.wd.running \/ x.wd.active = 1)
    BY <1>2, <1>4, Zenon
  <2>3. ~x.wd.running
    BY <1>1, <2>1
  <2>4. y.wd.running <=> x.wd.active = 1
    BY <2>2, <2>3, Zenon
  <2>5. y.wd.active >= 0 /\ (y.wd.active = 0 <=> x.wd.active = 1)
    BY <1>1, <2>1, <2>2
  <2> QED BY <2>2, <2>4, <2>5, Zenon DEF y
<1> QED BY <1>3, <1>4

LEMMA OnlineCounted ==
    ASSUME NEW x \in Ctx, x.t.cs # "offline",
           x.wd.active >= 0, x.wd.running <=> x.wd.active = 0
    PROVE  Counted(handle_online(x).t, handle_online(x).wd)
<1> DEFINE y == handle_online(x)
<1>1. x.wd.active \in Int /\ x.wd.running \in BOOLEAN
  BY CtxFacts, Zenon DEF Watchdog
<1>2. /\ y.t.cs = x.t.cs /\ y.t.online
      /\ y.wd.active = x.wd.active + 1
      /\ y.wd.running = (x.wd.running /\ x.wd.active # 0)
  BY OnlineFacts
<1> HIDE DEF y
<1>3. y.wd.active >= 1 /\ y.wd.active >= 0 /\ y.wd.active # 0
  BY <1>1, <1>2
<1>4. ~y.wd.running
  <2>1. ~(x.wd.running /\ x.wd.active # 0)
    BY Zenon
  <2> QED BY <1>2, <2>1, Zenon
<1>5. y.t.online /\ y.t.cs # "offline"
  BY <1>2, Zenon
<1> QED BY <1>3, <1>4, <1>5, Zenon DEF y, Counted

(* The transport after handle_offline, with its new connection state.       *)
CnxnContext(n) == [handle_offline([Context EXCEPT !.out = SubSeq(@, 1, n)]) EXCEPT !.t.cs = "host"]

LEMMA CnxnContextFacts ==
    ASSUME IInv, NEW n \in 0..Len(toHost)
    PROVE  LET z == CnxnContext(n)
           IN  /\ z \in Ctx /\ SameObject(dev, z.t) /\ z.t.cs = "host"
               /\ z.t.auth_id = dev.auth_id /\ z.fw.ids = fw.ids /\ z.fw.known = fw.known
               /\ z.out \in Seq(Packet) /\ (AllCnxn(toHost) => AllCnxn(z.out))
               /\ n = Len(toHost) => z.out = toHost
               /\ Armed(z.wd)
               /\ dev.cs # "offline" => ~z.t.online /\ Reported(dev, z.t, fw, z.fw)
               /\ dev.cs = "offline" => z.t.online = dev.online /\ SameReport(dev, z.t, fw, z.fw)
               /\ Open => ~z.t.online /\ z.wd.active >= 0 /\ (z.wd.running <=> z.wd.active = 0)
<1> DEFINE o == SubSeq(toHost, 1, n)
           x == [Context EXCEPT !.out = o]
           y == handle_offline(x)
           s == [y.t EXCEPT !.cs = "host"]
           z == CnxnContext(n)
<1>1. Types
  BY DEF IInv
<1>2. z = [y EXCEPT !.t = s]
  BY <1>1, ContextFacts, Zenon DEF CnxnContext, Context
<1>3. /\ o \in Seq(Packet) /\ (AllCnxn(toHost) => AllCnxn(o))
      /\ n = Len(toHost) => o = toHost
  <2>1. toHost \in Seq(Packet) /\ Len(toHost) \in Nat
    BY TypesOf
  <2>2. 1 \in 1..Len(toHost) + 1
    BY <2>1
  <2> QED BY <2>1, <2>2, LossFacts
<1> HIDE DEF o
<1>4. x \in Ctx /\ x.t = dev /\ x.wd = wd /\ x.fw = fw /\ x.out = o
  BY <1>1, <1>3, ContextFacts, Zenon DEF Ctx
<1> HIDE DEF x
<1>5. Armed(wd) /\ (Open => Counted(dev, wd))
  BY DEF IInv, WatchdogInv, Armed, Counted
<1>6. /\ y \in Ctx /\ y.out = o /\ SameObject(dev, y.t) /\ y.t.auth_id = dev.auth_id
      /\ y.fw.known = fw.known /\ y.fw.ids = fw.ids /\ Armed(y.wd)
      /\ dev.cs = "offline" => y = x
      /\ dev.cs # "offline" => ~y.t.online /\ Reported(dev, y.t, fw, y.fw)
  BY <1>4, <1>5, OfflineFacts, Zenon DEF Reported
<1>7. Open => ~y.t.online /\ y.wd.active >= 0 /\ (y.wd.running <=> y.wd.active = 0)
  BY <1>4, <1>5, OfflineCounted
<1> HIDE DEF y
<1>8. /\ s \in DevTransport /\ SameObject(y.t, s) /\ SameAuth(y.t, s)
      /\ s.cs = "host" /\ s.online = y.t.online
  BY <1>6, CtxFacts, Zenon DEF DevTransport, SameObject, SameAuth
<1> HIDE DEF s
<1>9. z \in Ctx /\ z.t = s /\ z.wd = y.wd /\ z.fw = y.fw /\ z.out = y.out
  BY <1>2, <1>6, <1>8, Zenon DEF Ctx
<1> HIDE DEF z
<1>10. SameObject(dev, z.t) /\ z.t.auth_id = dev.auth_id /\ z.t.disconnects = y.t.disconnects
  BY <1>6, <1>8, <1>9, Zenon DEF SameObject, SameAuth
<1>11. dev.cs # "offline" => ~z.t.online /\ Reported(dev, z.t, fw, z.fw)
  BY <1>6, <1>8, <1>9, <1>10 DEF Reported
<1>12. dev.cs = "offline" => z.t.online = dev.online /\ SameReport(dev, z.t, fw, z.fw)
  BY <1>4, <1>6, <1>8, <1>9, <1>10, ZenonT(40) DEF SameReport
<1> QED BY <1>3, <1>6, <1>7, <1>8, <1>9, <1>10, <1>11, <1>12, Zenon DEF z

(* What handle_new_connection answers.                                      *)
CnxnAnswer(z, ok) ==
    IF dev.tls THEN send(z, STLS)
    ELSE IF ~conf.auth_required THEN send(handle_online(z), CNXN)
    ELSE send_auth_request(z, ok)

(* A token that could not be generated is not sent.                         *)
Silent(ok) == ~ok /\ ~dev.tls /\ conf.auth_required

LEMMA CnxnAnswerFacts ==
    ASSUME NEW z \in Ctx, Armed(z.wd), NEW ok \in BOOLEAN
    PROVE  LET r == CnxnAnswer(z, ok)
           IN  /\ r \in Ctx /\ SameObject(z.t, r.t) /\ SameAuth(z.t, r.t) /\ r.t.cs = z.t.cs
               /\ r.fw = z.fw /\ Armed(r.wd)
               /\ Silent(ok) => r = z
               /\ ~Silent(ok) => \E p \in Packet :
                     /\ r.out = IF broken THEN z.out ELSE Append(z.out, p)
                     /\ ~z.t.online => (p.cmd = "CNXN" <=> r.t.online)
                     /\ ~dev.tls /\ ~conf.auth_required =>
                           /\ p.cmd = "CNXN" /\ r.t = handle_online(z).t
                           /\ r.wd = handle_online(z).wd
<1> DEFINE r == CnxnAnswer(z, ok)
           h == handle_online(z)
<1>1. CASE dev.tls
  <2>1. r = send(z, STLS)
    BY <1>1 DEF CnxnAnswer
  <2>2. STLS \in Packet /\ STLS.cmd = "STLS"
    BY PacketFacts
  <2>3. /\ r \in Ctx /\ r.t = z.t /\ r.wd = z.wd /\ r.fw = z.fw
        /\ r.out = IF broken THEN z.out ELSE Append(z.out, STLS)
    BY <2>1, <2>2, SendFacts
  <2> HIDE DEF r
  <2>4. SameObject(z.t, r.t) /\ SameAuth(z.t, r.t) /\ r.t.cs = z.t.cs /\ Armed(r.wd)
    BY <2>3 DEF SameObject, SameAuth
  <2>5. ~z.t.online => (STLS.cmd = "CNXN" <=> r.t.online)
    BY <2>2, <2>3, Zenon
  <2> QED BY <1>1, <2>2, <2>3, <2>4, <2>5 DEF r, Silent
<1>2. CASE ~dev.tls /\ ~conf.auth_required
  <2>1. r = send(h, CNXN)
    BY <1>2 DEF CnxnAnswer
  <2>2. CNXN \in Packet /\ CNXN.cmd = "CNXN"
    BY PacketFacts, Zenon
  <2>3. /\ h \in Ctx /\ h.fw = z.fw /\ h.out = z.out
        /\ SameObject(z.t, h.t) /\ SameAuth(z.t, h.t) /\ h.t.cs = z.t.cs /\ h.t.online
        /\ Armed(h.wd)
    BY OnlineFacts
  <2> HIDE DEF h
  <2>4. /\ r \in Ctx /\ r.t = h.t /\ r.wd = h.wd /\ r.fw = h.fw
        /\ r.out = IF broken THEN h.out ELSE Append(h.out, CNXN)
    BY <2>1, <2>2, <2>3, SendFacts
  <2> HIDE DEF r
  <2> QED BY <1>2, <2>2, <2>3, <2>4 DEF r, h, Silent
<1>3. CASE Silent(ok)
  <2>1. r = z
    BY <1>3, Zenon DEF CnxnAnswer, send_auth_request, Silent
  <2> QED BY <1>3, <2>1 DEF SameObject, SameAuth
<1>4. CASE ~dev.tls /\ conf.auth_required /\ ok
  <2>1. r = send_auth_request(z, TRUE)
    BY <1>4, Zenon DEF CnxnAnswer
  <2>2. /\ r \in Ctx /\ r.wd = z.wd /\ r.fw = z.fw
        /\ SameObject(z.t, r.t) /\ SameAuth(z.t, r.t) /\ SameState(z.t, r.t)
    BY <2>1, AuthRequestFacts
  <2>3. PICK p \in Packet : p.cmd = "TOKEN" /\ r.out = IF broken THEN z.out ELSE Append(z.out, p)
    BY <2>1, AuthRequestFacts
  <2> HIDE DEF r
  <2>4. r.t.cs = z.t.cs /\ Armed(r.wd) /\ (~z.t.online => (p.cmd = "CNXN" <=> r.t.online))
    BY <2>2, <2>3, Zenon DEF SameState
  <2> QED BY <1>4, <2>2, <2>3, <2>4, Zenon DEF r, Silent
<1> QED BY <1>1, <1>2, <1>3, <1>4, ZenonT(60) DEF Silent

(* But for the transport of adbd, what the framework knows and the packets, *)
(* nothing has changed.                                                     *)
LEMMA AnswerObject ==
    ASSUME IInv, UNCHANGED <<host, connects, async, callbacks>>, SameObject(dev, dev'),
           broken => broken'
    PROVE  ObjectInv'
  BY ObjectKept DEF SameObject, IInv, ObjectInv

LEMMA DevCnxn == ASSUME IInv, UNCHANGED conf, dev_cnxn PROVE IInv'
<1>0. DevReceives("CNXN") /\ UNCHANGED <<async, callbacks>>
  BY DEF dev_cnxn
<1>1. /\ toDev' \in Seq(Packet) /\ (AllCnxn(toDev) => AllCnxn(toDev'))
      /\ UNCHANGED <<conf, host, connects, async, callbacks>>
      /\ (conf.kind # "usb" /\ ~broken) =>
           /\ toDev' = <<>> /\ toHost = <<>> /\ Current = {}
           /\ ~dev.online /\ ~host.online /\ dev.cs = "offline"
  BY <1>0, DevTurn
<1>2. PICK n \in 0..Len(toHost), ok \in Works :
        CancelWrites(n) /\ Become(CnxnAnswer(CnxnContext(n), ok))
  BY Zenon DEF dev_cnxn, CnxnAnswer, CnxnContext
<1>20. ok \in BOOLEAN
  BY Zenon DEF Works
<1> DEFINE z == CnxnContext(n)
           r == CnxnAnswer(z, ok)
<1>3. /\ z \in Ctx /\ SameObject(dev, z.t) /\ z.t.cs = "host"
      /\ z.t.auth_id = dev.auth_id /\ z.fw.ids = fw.ids
      /\ z.out \in Seq(Packet) /\ (AllCnxn(toHost) => AllCnxn(z.out))
      /\ n = Len(toHost) => z.out = toHost
      /\ Armed(z.wd)
      /\ Reported(dev, z.t, fw, z.fw) \/ SameReport(dev, z.t, fw, z.fw)
      /\ dev.cs = "offline" => z.t.online = dev.online
      /\ Open => z.wd.active >= 0 /\ (z.wd.running <=> z.wd.active = 0)
  BY CnxnContextFacts, ZenonT(60)
<1> HIDE DEF z
<1>4. /\ r \in Ctx /\ SameObject(z.t, r.t) /\ SameAuth(z.t, r.t) /\ r.t.cs = z.t.cs
      /\ r.fw = z.fw /\ Armed(r.wd) /\ (Silent(ok) => r = z)
  BY <1>3, <1>20, CnxnAnswerFacts, ZenonT(60)
<1>5. PICK p \in Packet : ~Silent(ok) =>
        /\ r.out = IF broken THEN z.out ELSE Append(z.out, p)
        /\ ~z.t.online => (p.cmd = "CNXN" <=> r.t.online)
        /\ ~dev.tls /\ ~conf.auth_required =>
              /\ p.cmd = "CNXN" /\ r.t = handle_online(z).t /\ r.wd = handle_online(z).wd
  <2>1. CASE Silent(ok)
    BY <2>1, PacketFacts, Zenon
  <2>2. CASE ~Silent(ok)
    BY <1>3, <1>20, <2>2, CnxnAnswerFacts, ZenonT(60)
  <2> QED BY <2>1, <2>2
<1>6. /\ dev' \in DevTransport /\ wd' \in Watchdog /\ fw' \in Framework /\ toHost' \in Seq(Packet)
      /\ dev' = r.t /\ wd' = r.wd /\ fw' = r.fw /\ toHost' = r.out
  BY <1>2, <1>4, BecomeTypes, Zenon DEF z
<1>7. /\ broken \in BOOLEAN /\ broken' \in BOOLEAN /\ (broken => broken')
      /\ ~broken' => ~broken /\ n >= Len(toHost)
  <2>1. broken \in BOOLEAN /\ Len(toHost) \in Nat
    BY TypesOf
  <2>2. broken' = (broken \/ n < Len(toHost))
    BY <1>2 DEF CancelWrites
  <2>3. broken' \in BOOLEAN /\ (broken => broken') /\ (~broken' => ~broken /\ ~(n < Len(toHost)))
    BY <2>1, <2>2, Zenon
  <2>4. ~(n < Len(toHost)) => n >= Len(toHost)
    BY <2>1
  <2> QED BY <2>1, <2>3, <2>4, Zenon
<1> HIDE DEF r
<1>8. SameObject(dev, dev') /\ dev'.auth_id = dev.auth_id /\ dev'.disconnects = z.t.disconnects
  BY <1>3, <1>4, <1>6, Zenon DEF SameObject, SameAuth
<1>9. Types'
  BY <1>1, <1>6, <1>7, Zenon DEF IInv, Types
<1>10. ObjectInv'
  BY <1>1, <1>7, <1>8, AnswerObject
<1>11. TurnInv'
  <2>2. CASE Silent(ok)
    <3>1. ASSUME conf.kind # "usb", ~broken'
          PROVE  /\ toDev' = <<>> /\ toHost' = <<>> /\ ~host'.online /\ Current' = {}
                 /\ ~dev'.online
      <4>1. ~broken /\ n = Len(toHost)
        <5>1. Len(toHost) \in Nat
          BY TypesOf
        <5> QED BY <1>7, <3>1, <5>1
      <4>2. Current' = {}
        BY <1>1, <1>8, <3>1, <4>1 DEF Current, SameObject
      <4> QED BY <1>1, <1>3, <1>4, <1>6, <2>2, <3>1, <4>1, <4>2, Zenon
    <3> QED BY <1>1, <3>1, WaitTurn
  <2>1. ASSUME ~Silent(ok), conf.kind # "usb", ~broken'
        PROVE  /\ toDev' = <<>> /\ ~host'.online /\ Current' = {}
               /\ \E q \in Packet : toHost' = Append(<<>>, q) /\ (q.cmd = "CNXN" <=> dev'.online)
    <3>1. ~broken /\ n = Len(toHost)
      <4>1. Len(toHost) \in Nat
        BY TypesOf
      <4> QED BY <1>7, <2>1, <4>1
    <3>2. Current' = {}
      BY <1>1, <1>8, <2>1, <3>1 DEF Current, SameObject
    <3>3. toHost' = Append(<<>>, p)
      BY <1>1, <1>3, <1>5, <1>6, <2>1, <3>1, Zenon
    <3>4. p.cmd = "CNXN" <=> dev'.online
      BY <1>1, <1>3, <1>5, <1>6, <2>1, <3>1, ZenonT(60)
    <3> QED BY <1>1, <2>1, <3>1, <3>2, <3>3, <3>4, Zenon
  <2>3. CASE ~Silent(ok)
    BY <1>1, <2>1, <2>3, AnswerTurn
  <2> QED BY <2>2, <2>3
<1>12. WatchdogInv'
  <2>1. Armed(wd')
    BY <1>4, <1>6, Zenon
  <2>2. ASSUME Open
        PROVE  /\ async = {} /\ ~dev'.tls /\ AllCnxn(toDev') /\ AllCnxn(toHost')
               /\ Counted(dev', wd')
    <3>1. async = {} /\ ~dev.tls /\ AllCnxn(toDev) /\ AllCnxn(toHost) /\ ~conf.auth_required
      BY <2>2 DEF IInv, WatchdogInv, Open, AllCnxn
    <3>4. ~Silent(ok)
      BY <3>1 DEF Silent
    <3>2. Counted(dev', wd')
      BY <1>3, <1>5, <1>6, <2>2, <3>1, <3>4, OnlineCounted, Zenon
    <3>3. AllCnxn(toHost')
      BY <1>3, <1>5, <1>6, <3>1, <3>4, AppendFacts, Zenon
    <3> QED BY <1>1, <1>8, <3>1, <3>2, <3>3, Zenon DEF SameObject
  <2> QED BY <1>1, <2>1, <2>2 DEF WatchdogInv, Open, Armed, Counted, AllCnxn
<1>13. ReportInv'
  <2>1. Reported(dev, dev', fw, fw') \/ SameReport(dev, dev', fw, fw')
    BY <1>3, <1>4, <1>6, <1>8, ZenonT(40) DEF Reported, SameReport
  <2>2. fw'.ids = fw.ids /\ dev'.gen = dev.gen
    BY <1>3, <1>4, <1>6, <1>8, ZenonT(60) DEF SameObject
  <2> QED BY <1>1, <1>8, <2>1, <2>2, OfflineReport, Zenon
<1> QED BY <1>9, <1>10, <1>11, <1>12, <1>13, Zenon DEF IInv

LEMMA DevError == ASSUME IInv, UNCHANGED conf, dev_error PROVE IInv'
<1> DEFINE y == handle_offline(Context)
           s == [y.t EXCEPT !.dying = TRUE]
           r == [y EXCEPT !.t = s]
<1>1. /\ UNCHANGED <<conf, host, toDev, async, callbacks, connects, broken>>
      /\ broken /\ dev.alive /\ Become(r)
  BY Zenon DEF dev_error
<1>2. /\ Context \in Ctx
      /\ Context.t = dev /\ Context.wd = wd /\ Context.fw = fw /\ Context.out = toHost
  BY ContextFacts, Zenon DEF IInv
<1>3. Armed(wd) /\ (Open => Counted(dev, wd))
  BY Zenon DEF IInv, WatchdogInv, Armed, Counted
<1>4. /\ y \in Ctx /\ y.out = toHost /\ SameObject(dev, y.t) /\ y.t.auth_id = dev.auth_id
      /\ y.fw.ids = fw.ids /\ Armed(y.wd)
      /\ Reported(dev, y.t, fw, y.fw) \/ SameReport(dev, y.t, fw, y.fw)
  <2>1. /\ y \in Ctx /\ y.out = toHost /\ SameObject(dev, y.t) /\ y.t.auth_id = dev.auth_id
        /\ y.fw.ids = fw.ids /\ Armed(y.wd)
    BY <1>2, <1>3, OfflineFacts, Zenon
  <2>2. dev.cs = "offline" => SameReport(dev, y.t, fw, y.fw)
    BY <1>2, OfflineFacts, Zenon DEF SameReport
  <2>3. dev.cs # "offline" => Reported(dev, y.t, fw, y.fw)
    BY <1>2, OfflineFacts, Zenon DEF Reported
  <2> QED BY <2>1, <2>2, <2>3, Zenon
<1>5. Open => /\ y.t.cs = "offline" /\ ~y.t.online
              /\ y.wd.active >= 0 /\ (y.wd.running <=> y.wd.active = 0)
  BY <1>2, <1>3, OfflineCounted
<1> HIDE DEF y
<1>6. /\ s \in DevTransport /\ s.gen = y.t.gen /\ s.alive = y.t.alive /\ s.tls = y.t.tls
      /\ SameState(y.t, s) /\ SameAuth(y.t, s)
  BY <1>4, CtxFacts, Zenon DEF DevTransport, SameState, SameAuth
<1> HIDE DEF s
<1>7. r \in Ctx /\ r.t = s /\ r.wd = y.wd /\ r.fw = y.fw /\ r.out = y.out
  BY <1>4, <1>6, Zenon DEF Ctx
<1> HIDE DEF r
<1>8. /\ dev' \in DevTransport /\ wd' \in Watchdog /\ fw' \in Framework /\ toHost' \in Seq(Packet)
      /\ dev' = s /\ wd' = y.wd /\ fw' = y.fw /\ toHost' = toHost
  BY <1>1, <1>4, <1>7, BecomeTypes, ZenonT(60)
<1>9. /\ dev'.gen = dev.gen /\ dev'.alive = dev.alive /\ dev'.tls = dev.tls
      /\ dev'.auth_id = dev.auth_id /\ fw'.ids = fw.ids
  BY <1>4, <1>6, <1>8 DEF SameObject, SameAuth
<1>10. Types'
  BY <1>1, <1>8, Zenon DEF IInv, Types
<1>11. ObjectInv'
  BY <1>1, <1>9 DEF IInv, ObjectInv
<1>12. TurnInv'
  BY <1>1, BrokenTurn, Zenon
<1>13. WatchdogInv'
  <2>1. Armed(wd')
    BY <1>4, <1>8, Zenon
  <2>2. Open => /\ async = {} /\ ~dev.tls /\ AllCnxn(toDev) /\ AllCnxn(toHost)
                /\ dev'.cs = "offline" /\ ~dev'.online
                /\ wd'.active >= 0 /\ (wd'.running <=> wd'.active = 0)
    BY <1>5, <1>6, <1>8, Zenon DEF IInv, WatchdogInv, Open, AllCnxn, SameState
  <2> QED BY <1>1, <1>8, <1>9, <2>1, <2>2, ZenonT(60) DEF WatchdogInv, Open, Armed, AllCnxn
<1>14. ReportInv'
  <2>1. Reported(dev, dev', fw, fw') \/ SameReport(dev, dev', fw, fw')
    BY <1>4, <1>6, <1>8 DEF Reported, SameReport, SameAuth
  <2> QED BY <1>1, <1>9, <2>1, OfflineReport, Zenon
<1> QED BY <1>10, <1>11, <1>12, <1>13, <1>14 DEF IInv

-----------------------------------------------------------------------------
(* The steps of the authentication.                                         *)
LEMMA NotOpen == ASSUME UNCHANGED conf, ~Open, Armed(wd') PROVE WatchdogInv'
  BY DEF WatchdogInv, Open, Armed

LEMMA OpenFacts == ASSUME IInv, Open PROVE async = {} /\ AllCnxn(toDev)
  BY DEF IInv, WatchdogInv, AllCnxn

LEMMA ToldReport ==
    ASSUME IInv, UNCHANGED conf, NEW how \in {"key", "tls"}, NewId \in 1..MaxId,
           dev'.auth_id = NewId, fw'.ids = NewId,
           fw'.connected = fw.connected \cup {<<how, NewId>>}, fw'.checkFailed = fw.checkFailed,
           how = "key" \/ dev'.disconnects # <<>>, async' \subseteq async
    PROVE  ReportInv'
<1>1. fw.ids \in Int /\ NewId = fw.ids + 1 /\ NewId # None
  BY TypesOf DEF NewId, None
<1>2. \A c \in fw.connected : c[2] \in Int /\ c[2] <= fw.ids
  BY TypesOf DEF IInv, ReportInv
<1>3. \A c \in fw.connected : c[2] <= NewId /\ c[2] # NewId
  BY <1>1, <1>2
<1>4. \A a \in async : a.op = "dialog" => a.id \in 1..NewId /\ a.id # NewId
  <2>1. \A a \in async : a.op = "dialog" => a.id \in 1..fw.ids
    BY DEF IInv, ReportInv
  <2> QED BY <1>1, <2>1
<1>5. conf.with_id => ~fw'.checkFailed
  BY DEF IInv, ReportInv
<1>6. \A c \in fw'.connected : \/ c \in fw.connected
                               \/ c[1] = how /\ c[2] = NewId
  OBVIOUS
<1>7. \A c \in fw'.connected : /\ c[2] <= fw'.ids
                               /\ (c[2] = dev'.auth_id /\ c[1] # "key") => dev'.disconnects # <<>>
  BY <1>1, <1>3, <1>6
<1>8. \A a \in async' : a.op = "dialog" =>
         /\ a.id \in 1..fw'.ids
         /\ \A c \in fw'.connected : c[2] = a.id => conf.with_id
  <2>1. \A a \in async : a.op = "dialog" => \A c \in fw.connected : c[2] = a.id => conf.with_id
    BY DEF IInv, ReportInv
  <2> QED BY <1>4, <1>6, <2>1, Zenon
<1> QED BY <1>1, <1>5, <1>7, <1>8, Zenon DEF ReportInv

LEMMA NewIdFacts ==
    ASSUME IInv, NewId <= MaxId
    PROVE  NewId \in 1..MaxId /\ NewId \in 0..MaxId /\ NewId # None
<1>1. fw.ids \in 0..MaxId
  BY TypesOf
<1> QED BY <1>1, HandshakeAssumption DEF NewId, None

LEMMA DevSignature ==
    ASSUME IInv, UNCHANGED conf, dev_signature
    PROVE  IInv' /\ (broken => toHost' = toHost)
<1>0. DevReceives("SIGNATURE") /\ UNCHANGED <<async, callbacks>>
  BY DEF dev_signature
<1>1. /\ Head(toDev) \in Packet /\ toDev' \in Seq(Packet) /\ ~AllCnxn(toDev)
      /\ UNCHANGED <<conf, host, connects, async, callbacks, broken>>
      /\ (conf.kind # "usb" /\ ~broken) =>
           /\ toDev' = <<>> /\ toHost = <<>> /\ Current = {} /\ ~dev.online /\ ~host.online
  BY <1>0, DevTurn, Zenon
<1>2. /\ Context \in Ctx
      /\ Context.t = dev /\ Context.wd = wd /\ Context.fw = fw /\ Context.out = toHost
  BY ContextFacts DEF IInv
<1>3. Armed(wd) /\ ~Open
  BY <1>1, OpenFacts DEF IInv, WatchdogInv, Armed
(* The step but for its turn and its report.                                *)
<1>4. ASSUME NEW r \in Ctx, Become(r), SameObject(dev, r.t), Armed(r.wd)
      PROVE  Types' /\ ObjectInv' /\ WatchdogInv' /\ (Current = {} => Current' = {})
  <2>1. /\ dev' \in DevTransport /\ wd' \in Watchdog /\ fw' \in Framework
        /\ toHost' \in Seq(Packet) /\ dev' = r.t /\ wd' = r.wd
    BY <1>4, BecomeTypes
  <2>2. Types'
    BY <1>1, <2>1 DEF IInv, Types
  <2>3. ObjectInv'
    BY <1>1, <1>4, <2>1, AnswerObject
  <2>4. WatchdogInv'
    BY <1>1, <1>3, <1>4, <2>1, NotOpen, Zenon
  <2>5. Current = {} => Current' = {}
    BY <1>1, <1>4, <2>1 DEF Current, SameObject
  <2> QED BY <2>2, <2>3, <2>4, <2>5
<1>5. CASE dev.tls
  <2>1. Become(Context)
    BY <1>5 DEF dev_signature
  <2>2. dev' = dev /\ wd' = wd /\ fw' = fw /\ toHost' = toHost
    BY <1>2, <2>1, BecomeTypes
  <2>3. Types' /\ ObjectInv' /\ WatchdogInv' /\ (Current = {} => Current' = {})
    BY <1>2, <1>3, <1>4, <2>1 DEF SameObject
  <2>4. TurnInv'
    BY <1>1, <2>2, <2>3, WaitTurn
  <2>5. ReportInv'
    BY <1>1, <2>2, ReportKept DEF SameAuth
  <2> QED BY <2>2, <2>3, <2>4, <2>5 DEF IInv
<1>6. CASE ~dev.tls /\ adbd_auth_verify(Head(toDev))
  <2> DEFINE k == Head(toDev).key
             x == adbd_auth_verified(Context)
             s == [x.t EXCEPT !.auth_key = k]
             z == [x EXCEPT !.t = s]
             r == told(z, "key")
  <2>1. NewId <= MaxId /\ Become(r)
    BY <1>6, Zenon DEF dev_signature
  <2>2. NewId \in 1..MaxId
    BY <2>1, NewIdFacts
  <2>3. /\ x \in Ctx /\ x.fw = fw /\ SameObject(dev, x.t) /\ SameAuth(dev, x.t) /\ x.t.online
        /\ Armed(x.wd) /\ x.out = IF broken THEN toHost ELSE Append(toHost, CNXN)
    BY <1>2, <1>3, VerifiedFacts, Zenon
  <2>4. k \in 0..Keys
    BY <1>1 DEF Packet
  <2> HIDE DEF x, k
  <2>5. /\ s \in DevTransport /\ SameObject(x.t, s) /\ SameAuth(x.t, s) /\ s.online = x.t.online
    BY <2>3, <2>4, CtxFacts, Zenon DEF DevTransport, SameObject, SameAuth
  <2> HIDE DEF s
  <2>6. z \in Ctx /\ z.t = s /\ z.wd = x.wd /\ z.fw = x.fw /\ z.out = x.out
    BY <2>3, <2>5, Zenon DEF Ctx
  <2> HIDE DEF z
  <2>7. /\ r \in Ctx /\ r.out = z.out /\ r.wd = z.wd
        /\ SameObject(z.t, r.t) /\ SameState(z.t, r.t)
        /\ r.t.auth_id = NewId /\ r.t.disconnects = z.t.disconnects
        /\ r.fw.ids = NewId /\ r.fw.connected = z.fw.connected \cup {<<"key", NewId>>}
        /\ r.fw.checkFailed = z.fw.checkFailed
    BY <2>2, <2>6, ToldFacts, Zenon
  <2> HIDE DEF r
  <2>8. SameObject(dev, r.t) /\ Armed(r.wd) /\ r.t.online
    BY <2>3, <2>5, <2>6, <2>7 DEF SameObject, SameState
  <2>9. /\ dev' = r.t /\ fw' = r.fw /\ toHost' = IF broken THEN toHost ELSE Append(toHost, CNXN)
    BY <2>1, <2>3, <2>6, <2>7, BecomeTypes, Zenon
  <2>10. Types' /\ ObjectInv' /\ WatchdogInv' /\ (Current = {} => Current' = {})
    BY <1>4, <2>1, <2>7, <2>8, Zenon
  <2>11. TurnInv'
    <3>1. (conf.kind # "usb" /\ ~broken) => toHost' = Append(<<>>, CNXN) /\ dev'.online
      BY <1>1, <2>8, <2>9, Zenon
    <3> QED BY <1>1, <2>10, <3>1, PacketFacts, AnswerTurn
  <2>12. ReportInv'
    BY <1>1, <2>2, <2>3, <2>6, <2>7, <2>9, ToldReport, Zenon
  <2> QED BY <2>9, <2>10, <2>11, <2>12 DEF IInv
<1>7. CASE ~dev.tls /\ ~adbd_auth_verify(Head(toDev))
  <2>0. PICK ok \in Works : Become(send_auth_request(Context, ok))
    BY <1>7, Zenon DEF dev_signature
  <2>10. CASE ~ok
    <3>1. Become(Context)
      BY <2>0, <2>10, Zenon DEF send_auth_request
    <3>2. SameObject(dev, dev) /\ SameAuth(dev, dev) /\ SameState(dev, dev)
      BY DEF SameObject, SameAuth, SameState
    <3>3. dev' = dev /\ fw' = fw /\ wd' = wd /\ toHost' = toHost
      BY <1>2, <3>1, BecomeTypes
    <3>4. Types' /\ ObjectInv' /\ WatchdogInv' /\ (Current = {} => Current' = {})
      BY <1>2, <1>3, <1>4, <3>1, <3>2
    <3>5. TurnInv'
      BY <1>1, <3>3, <3>4, WaitTurn
    <3>6. ReportInv'
      BY <1>1, <3>2, <3>3, ReportKept DEF SameObject, SameAuth
    <3> QED BY <3>3, <3>4, <3>5, <3>6 DEF IInv
  <2>11. CASE ok
    <3> DEFINE r == send_auth_request(Context, TRUE)
    <3>1. Become(r)
      BY <2>0, <2>11, Zenon
    <3>2. /\ r \in Ctx /\ r.wd = wd /\ r.fw = fw
          /\ SameObject(dev, r.t) /\ SameAuth(dev, r.t) /\ SameState(dev, r.t)
      BY <1>2, AuthRequestFacts
    <3>3. PICK p \in Packet : p.cmd = "TOKEN" /\ r.out = IF broken THEN toHost ELSE Append(toHost, p)
      BY <1>2, AuthRequestFacts
    <3> HIDE DEF r
    <3>4. dev' = r.t /\ fw' = fw /\ toHost' = r.out
      BY <3>1, <3>2, BecomeTypes
    <3>5. Types' /\ ObjectInv' /\ WatchdogInv' /\ (Current = {} => Current' = {})
      BY <1>3, <1>4, <3>1, <3>2
    <3>6. TurnInv'
      <4>1. (conf.kind # "usb" /\ ~broken) => toHost' = Append(<<>>, p) /\ ~dev'.online
        BY <1>1, <3>2, <3>3, <3>4, Zenon DEF SameState
      <4> QED BY <1>1, <3>3, <3>5, <4>1, AnswerTurn
    <3>7. ReportInv'
      BY <1>1, <3>2, <3>4, ReportKept DEF SameObject
    <3> QED BY <3>3, <3>4, <3>5, <3>6, <3>7 DEF IInv
  <2> QED BY <2>10, <2>11
<1> QED BY <1>5, <1>6, <1>7

LEMMA AppendIsSeq ==
    ASSUME NEW S, NEW s \in Seq(S), NEW e \in S
    PROVE  Append(s, e) \in Seq(S) /\ Append(s, e) # <<>>
<1>1. Append(s, e) \in Seq(S) /\ Len(Append(s, e)) = Len(s) + 1 /\ Len(s) \in Nat
  OBVIOUS
<1>2. Len(Append(s, e)) # 0
  BY <1>1
<1> QED BY <1>1, <1>2

(* AddDisconnect.                                                           *)
LEMMA RegisterFacts ==
    ASSUME NEW t \in DevTransport, NEW who \in {"auth", "wifi"}
    PROVE  /\ Append(t.disconnects, who) \in Seq({"auth", "wifi"})
           /\ Append(t.disconnects, who) # <<>>
<1>1. t.disconnects \in Seq({"auth", "wifi"})
  BY DEF DevTransport
<1> QED BY <1>1, AppendIsSeq

(* adbd starts a dialog or a handshake where it had nothing to wait for.    *)
LEMMA StartTurn ==
    ASSUME IInv, to_callback_arg, NEW a \in Operation, a.arg = NewArg,
           async' = async \cup {a}, dev'.gen = dev.gen
    PROVE  /\ callbacks' \in Seq(0..MaxConnects)
           /\ \A n \in DOMAIN callbacks' : callbacks'[n] <= dev.gen
           /\ \A b \in async' : b.arg \in DOMAIN callbacks'
           /\ \A b \in async : callbacks'[b.arg] = callbacks[b.arg]
           /\ Current = {} => \A b, c \in Current' : b = c
<1>1. /\ callbacks' \in Seq(0..MaxConnects) /\ NewArg \in DOMAIN callbacks'
      /\ \A n \in DOMAIN callbacks : n \in DOMAIN callbacks' /\ callbacks'[n] = callbacks[n]
      /\ \A n \in DOMAIN callbacks' : callbacks'[n] <= dev.gen
  BY NewCallback
<1>2. \A b \in async : b.arg \in DOMAIN callbacks
  BY TypesOf
<1>3. \A b \in async : callbacks'[b.arg] = callbacks[b.arg]
  BY <1>1, <1>2
<1>4. ASSUME Current = {}, NEW b \in Current' PROVE b = a
  BY <1>3, <1>4 DEF Current
<1> QED BY <1>1, <1>2, <1>3, <1>4

LEMMA DevStls ==
    ASSUME IInv, UNCHANGED conf, dev_stls
    PROVE  IInv' /\ UNCHANGED toHost
<1> DEFINE a == [op |-> "tls", arg |-> NewArg, id |-> None, key |-> None]
           s == [dev EXCEPT !.tls = TRUE]
           r == [Context EXCEPT !.t = s]
<1>0. /\ DevReceives("STLS") /\ to_callback_arg /\ async' = async \cup {a} /\ Become(r)
  BY ContextFacts, Zenon DEF dev_stls, Context, IInv
<1>1. /\ toDev' \in Seq(Packet) /\ ~AllCnxn(toDev)
      /\ UNCHANGED <<conf, host, connects, broken>>
      /\ (conf.kind # "usb" /\ ~broken) =>
           /\ toDev' = <<>> /\ toHost = <<>> /\ Current = {} /\ ~dev.online /\ ~host.online
  BY <1>0, DevTurn
<1>2. a \in Operation /\ a.arg = NewArg /\ a.op = "tls"
  <2>1. NewArg \in Nat \ {0} /\ None \in 0..MaxId /\ None \in 0..Keys
    BY <1>0, NewCallback, HandshakeAssumption DEF None
  <2> QED BY <2>1 DEF Operation
<1> HIDE DEF a
<1>3. /\ s \in DevTransport /\ s.gen = dev.gen /\ s.alive = dev.alive /\ s.dying = dev.dying
      /\ SameAuth(dev, s) /\ SameState(dev, s)
  BY TypesOf, Zenon DEF DevTransport, SameAuth, SameState
<1> HIDE DEF s
<1>4. r \in Ctx /\ r.t = s /\ r.wd = wd /\ r.fw = fw /\ r.out = toHost
  BY <1>3, ContextFacts, Zenon DEF Ctx, IInv
<1> HIDE DEF r
<1>5. /\ dev' = s /\ wd' = wd /\ fw' = fw /\ toHost' = toHost
  BY <1>0, <1>4, BecomeTypes
<1>6. /\ callbacks' \in Seq(0..MaxConnects)
      /\ \A n \in DOMAIN callbacks' : callbacks'[n] <= dev.gen
      /\ \A b \in async' : b.arg \in DOMAIN callbacks'
      /\ \A b \in async : callbacks'[b.arg] = callbacks[b.arg]
      /\ Current = {} => \A b, c \in Current' : b = c
  BY <1>0, <1>2, <1>3, <1>5, StartTurn, ZenonT(40)
<1>7. Types'
  BY <1>0, <1>1, <1>2, <1>3, <1>5, <1>6, Zenon DEF IInv, Types
<1>8. ObjectInv'
  BY <1>1, <1>3, <1>5, <1>6, ObjectKept
<1>9. TurnInv'
  BY <1>1, <1>3, <1>5, <1>6, WaitTurn, Zenon DEF SameState
<1>10. WatchdogInv'
  BY <1>1, <1>5, OpenFacts, NotOpen, ZenonT(40) DEF IInv, WatchdogInv, Armed
<1>11. ReportInv'
  BY <1>0, <1>1, <1>2, <1>3, <1>5, <1>6, ReportKept
<1> QED BY <1>5, <1>7, <1>8, <1>9, <1>10, <1>11 DEF IInv

LEMMA DevPublickey ==
    ASSUME IInv, UNCHANGED conf, dev_publickey
    PROVE  IInv' /\ UNCHANGED toHost
<1>0. DevReceives("RSAPUBLICKEY")
  BY DEF dev_publickey
<1>1. /\ Head(toDev) \in Packet /\ Head(toDev).cmd = "RSAPUBLICKEY"
      /\ toDev' \in Seq(Packet) /\ ~AllCnxn(toDev)
      /\ UNCHANGED <<conf, host, connects, broken>>
      /\ (conf.kind # "usb" /\ ~broken) =>
           /\ toDev' = <<>> /\ toHost = <<>> /\ Current = {} /\ ~dev.online /\ ~host.online
  BY <1>0, DevTurn
<1>2. /\ Context \in Ctx
      /\ Context.t = dev /\ Context.wd = wd /\ Context.fw = fw /\ Context.out = toHost
  BY ContextFacts DEF IInv
<1>3. CASE dev.tls
  <2>1. Become(Context) /\ UNCHANGED <<async, callbacks>>
    BY <1>3 DEF dev_publickey
  <2>2. dev' = dev /\ wd' = wd /\ fw' = fw /\ toHost' = toHost
    BY <1>2, <2>1, BecomeTypes
  <2>3. Types'
    BY <1>1, <2>1, <2>2 DEF IInv, Types
  <2>4. ObjectInv'
    BY <1>1, <2>1, <2>2, Zenon DEF IInv, ObjectInv
  <2>5. TurnInv'
    BY <1>1, <2>1, <2>2, WaitTurn, Zenon DEF Current
  <2>6. WatchdogInv'
    BY <1>1, <2>2, OpenFacts, NotOpen, Zenon DEF IInv, WatchdogInv, Armed
  <2>7. ReportInv'
    BY <1>1, <2>1, <2>2 DEF IInv, ReportInv
  <2> QED BY <2>2, <2>3, <2>4, <2>5, <2>6, <2>7 DEF IInv
<1>4. CASE ~dev.tls
  <2> DEFINE k == Head(toDev).key
             a == [op |-> "dialog", arg |-> NewArg, id |-> NewId, key |-> k]
             d == Append(dev.disconnects, "auth")
             i == IF conf.with_id THEN NewId ELSE dev.auth_id
             c == IF conf.with_id THEN fw.connected \cup {<<"dialog", NewId>>} ELSE fw.connected
             s == [dev EXCEPT !.auth_key = k, !.disconnects = d, !.auth_id = i]
             f == [fw EXCEPT !.connected = c, !.ids = NewId]
             r == [Context EXCEPT !.t = s, !.fw = f]
  <2>1. NewId <= MaxId /\ to_callback_arg /\ async' = async \cup {a}
    BY <1>4, Zenon DEF dev_publickey
  <2>2. Become(r)
    BY <1>4, TypesOf, ZenonT(60) DEF dev_publickey, Context, DevTransport, Framework
  <2>3. NewId \in 1..MaxId /\ NewId \in 0..MaxId /\ NewId # None
    BY <2>1, NewIdFacts
  <2>4. k \in 0..Keys /\ k # None
    BY <1>1 DEF Packet
  <2>5. a \in Operation /\ a.arg = NewArg /\ a.op = "dialog" /\ a.id = NewId
    <3>1. NewArg \in Nat \ {0}
      BY <2>1, NewCallback
    <3> QED BY <2>3, <2>4, <3>1 DEF Operation
  <2>6. d \in Seq({"auth", "wifi"}) /\ d # <<>>
    BY TypesOf, RegisterFacts, Zenon
  <2>7. i \in 0..MaxId /\ c \in SUBSET ({"key", "dialog", "tls"} \X (1..MaxId))
    BY <2>3, TypesOf DEF Framework
  <2> HIDE DEF k, a, d, i, c
  <2>8. /\ s \in DevTransport /\ SameObject(dev, s) /\ SameState(dev, s)
        /\ s.auth_id = i /\ s.disconnects = d
    BY <2>4, <2>6, <2>7, TypesOf, Zenon DEF DevTransport, SameObject, SameState
  <2>9. /\ f \in Framework /\ f.connected = c /\ f.ids = NewId /\ f.checkFailed = fw.checkFailed
    BY <2>3, <2>7, TypesOf, Zenon DEF Framework
  <2> HIDE DEF s, f
  <2>10. r \in Ctx /\ r.t = s /\ r.wd = wd /\ r.fw = f /\ r.out = toHost
    BY <1>2, <2>8, <2>9, Zenon DEF Ctx
  <2> HIDE DEF r
  <2>11. dev' = s /\ wd' = wd /\ fw' = f /\ toHost' = toHost
    BY <2>2, <2>10, BecomeTypes, Zenon
  <2>12. /\ callbacks' \in Seq(0..MaxConnects)
         /\ \A n \in DOMAIN callbacks' : callbacks'[n] <= dev.gen
         /\ \A b \in async' : b.arg \in DOMAIN callbacks'
         /\ \A b \in async : callbacks'[b.arg] = callbacks[b.arg]
         /\ Current = {} => \A b, e \in Current' : b = e
    BY <2>1, <2>5, <2>8, <2>11, StartTurn DEF SameObject
  <2>13. Types'
    BY <1>1, <2>1, <2>5, <2>8, <2>9, <2>11, <2>12, ZenonT(40) DEF IInv, Types
  <2>14. ObjectInv'
    BY <1>1, <2>8, <2>11, <2>12, ObjectKept, Zenon DEF SameObject
  <2>15. TurnInv'
    BY <1>1, <2>8, <2>11, <2>12, WaitTurn, Zenon DEF SameState
  <2>16. WatchdogInv'
    BY <1>1, <2>11, OpenFacts, NotOpen, ZenonT(40) DEF IInv, WatchdogInv, Armed
  <2>17. ReportInv'
    <3>1. fw.ids \in Int /\ NewId = fw.ids + 1 /\ fw.ids >= 0
      BY TypesOf DEF NewId
    <3>2. \A b \in fw.connected : b[2] <= NewId /\ b[2] # NewId
      <4>1. \A b \in fw.connected : b[2] \in Int /\ b[2] <= fw.ids
        BY TypesOf DEF IInv, ReportInv
      <4> QED BY <3>1, <4>1
    <3>3. \A b \in async : b.op = "dialog" => b.id \in 1..NewId /\ b.id # NewId
      <4>1. \A b \in async : b.op = "dialog" => b.id \in 1..fw.ids
        BY DEF IInv, ReportInv
      <4> QED BY <3>1, <4>1
    <3>4. \A b \in c : b \in fw.connected \/ (conf.with_id /\ b[2] = NewId)
      BY DEF c
    <3>5. /\ conf.with_id => ~fw'.checkFailed /\ i = NewId
          /\ \A b \in async : b.op = "dialog" =>
                \A e \in fw.connected : e[2] = b.id => conf.with_id
      BY <2>9, <2>11 DEF IInv, ReportInv, i
    <3>6. NewId <= NewId /\ NewId \in 1..NewId
      BY <3>1
    <3>7. \A b \in c : b[2] <= NewId
      BY <3>2, <3>4, <3>6
    <3>8. \A b \in async' : b.op = "dialog" =>
             /\ b.id \in 1..NewId
             /\ \A e \in c : e[2] = b.id => conf.with_id
      BY <2>1, <2>5, <3>2, <3>3, <3>4, <3>5, <3>6, Zenon
    <3> QED BY <1>1, <2>3, <2>6, <2>8, <2>9, <2>11, <3>5, <3>7, <3>8 DEF ReportInv
  <2> QED BY <2>11, <2>13, <2>14, <2>15, <2>16, <2>17 DEF IInv
<1> QED BY <1>3, <1>4

(* An answer counts for a transport that waits for it: nothing else is on   *)
(* its way then.                                                            *)
LEMMA LiveTurn ==
    ASSUME IInv, NEW a \in async, from_callback_arg(a.arg)
    PROVE  (conf.kind # "usb" /\ ~broken) =>
              /\ toDev = <<>> /\ toHost = <<>> /\ ~dev.online /\ ~host.online
              /\ Current = {a}
  BY DEF IInv, TurnInv, Current, from_callback_arg

LEMMA StaleTurn ==
    ASSUME IInv, NEW a \in async, callbacks' = [callbacks EXCEPT ![a.arg] = None],
           async' = async \ {a}, UNCHANGED <<conf, toDev, toHost, host, broken>>,
           dev' = dev
    PROVE  TurnInv'
<1>1. Current' \subseteq Current
  BY UsedCurrent, Zenon
<1> QED BY <1>1, TurnKept DEF SameState

LEMMA VerifiedTurn ==
    ASSUME IInv, NEW a \in async, from_callback_arg(a.arg),
           callbacks' = [callbacks EXCEPT ![a.arg] = None], async' = async \ {a},
           UNCHANGED <<conf, toDev, host, broken>>, dev'.gen = dev.gen, dev'.online,
           toHost' = IF broken THEN toHost ELSE Append(toHost, CNXN)
    PROVE  TurnInv'
<1>1. (conf.kind # "usb" /\ ~broken) =>
         /\ toDev = <<>> /\ toHost = <<>> /\ ~host.online /\ Current = {a}
  BY LiveTurn
<1>2. Current' \subseteq Current \ {a}
  BY UsedCurrent, Zenon
<1>3. (conf.kind # "usb" /\ ~broken) =>
         /\ toDev' = <<>> /\ ~host'.online /\ Current' = {} /\ toHost' = Append(<<>>, CNXN)
  BY <1>1, <1>2, Zenon
<1> QED BY <1>3, PacketFacts, AnswerTurn

LEMMA SecureConnect ==
    ASSUME IInv, UNCHANGED conf, NEW a \in async, adbd_wifi_secure_connect(a)
    PROVE  IInv' /\ (UNCHANGED toHost \/ (from_callback_arg(a.arg) /\ ~broken))
<1>1. /\ UNCHANGED <<conf, host, toDev, connects, broken>> /\ NewId <= MaxId
      /\ async' = async \ {a} /\ callbacks' = [callbacks EXCEPT ![a.arg] = None]
  BY DEF adbd_wifi_secure_connect
<1>2. /\ callbacks' \in Seq(0..MaxConnects) /\ DOMAIN callbacks' = DOMAIN callbacks
      /\ \A n \in DOMAIN callbacks' : callbacks'[n] = callbacks[n] \/ callbacks'[n] = 0
      /\ \A n \in DOMAIN callbacks' : callbacks'[n] <= dev.gen
  BY <1>1, UsedFacts, Zenon
<1>3. /\ Context \in Ctx
      /\ Context.t = dev /\ Context.wd = wd /\ Context.fw = fw /\ Context.out = toHost
  BY ContextFacts DEF IInv
<1>4. Armed(wd) /\ ~Open /\ dev.gen # 0 /\ \A b \in async : b.arg \in DOMAIN callbacks
  <2>1. dev.gen # 0
    <3>1. dev.gen \in 1..MaxConnects
      BY TypesOf, Zenon
    <3> QED BY <3>1
  <2>2. Armed(wd) /\ \A b \in async : b.arg \in DOMAIN callbacks
    BY TypesOf, Zenon DEF IInv, WatchdogInv, Armed
  <2>3. ~Open
    BY OpenFacts, Zenon
  <2> QED BY <2>1, <2>2, <2>3, Zenon
<1>5. ASSUME NEW r \in Ctx, Become(r), SameObject(dev, r.t), Armed(r.wd)
      PROVE  Types' /\ ObjectInv' /\ WatchdogInv'
  <2>1. /\ dev' \in DevTransport /\ wd' \in Watchdog /\ fw' \in Framework
        /\ toHost' \in Seq(Packet) /\ dev' = r.t /\ wd' = r.wd
    BY <1>5, BecomeTypes, Zenon
  <2>2. Types'
    BY <1>1, <1>2, <2>1, Zenon DEF IInv, Types
  <2>3. ObjectInv'
    BY <1>1, <1>2, <1>4, <1>5, <2>1, ObjectKept DEF SameObject
  <2>4. WatchdogInv'
    BY <1>1, <1>4, <1>5, <2>1, NotOpen
  <2> QED BY <2>2, <2>3, <2>4
<1>6. CASE ~from_callback_arg(a.arg)
  <2>1. Become(Context)
    BY <1>6 DEF adbd_wifi_secure_connect
  <2>2. dev' = dev /\ wd' = wd /\ fw' = fw /\ toHost' = toHost
    BY <1>3, <2>1, BecomeTypes
  <2>3. Types' /\ ObjectInv' /\ WatchdogInv'
    BY <1>3, <1>4, <1>5, <2>1 DEF SameObject
  <2>4. TurnInv'
    BY <1>1, <2>2, StaleTurn, Zenon
  <2>5. ReportInv'
    BY <1>1, <1>2, <1>4, <2>2, ReportKept, Zenon DEF SameAuth
  <2> QED BY <2>2, <2>3, <2>4, <2>5 DEF IInv
<1>7. CASE from_callback_arg(a.arg)
  <2> DEFINE d == Append(dev.disconnects, "wifi")
             s == [dev EXCEPT !.auth_key = a.key, !.disconnects = d]
             x == [Context EXCEPT !.t = s]
             v == adbd_auth_verified(x)
             r == told(v, "tls")
  <2>0. x = [Context EXCEPT !.t.auth_key = a.key, !.t.disconnects = Append(@, "wifi")]
    <3> DEFINE u == [dev EXCEPT !.auth_key = a.key]
    <3>1. u.disconnects = dev.disconnects /\ s = [u EXCEPT !.disconnects = d]
      BY TypesOf, Zenon DEF DevTransport
    <3> DEFINE w == [Context EXCEPT !.t = u]
    <3> HIDE DEF u
    <3>2. w.t = u /\ x = [w EXCEPT !.t = s]
      BY Zenon DEF Context
    <3> HIDE DEF w
    <3>3. x = [w EXCEPT !.t.disconnects = Append(@, "wifi")]
      BY <3>1, <3>2, Zenon
    <3> QED BY <1>3, <3>3, Zenon DEF w, u
  <2>1. Become(r)
    BY <1>7, <2>0, Zenon DEF adbd_wifi_secure_connect
  <2>2. NewId \in 1..MaxId
    BY <1>1, NewIdFacts
  <2>3. d \in Seq({"auth", "wifi"}) /\ d # <<>> /\ a.key \in 0..Keys
    BY TypesOf, RegisterFacts, Zenon
  <2> HIDE DEF d
  <2>4. s \in DevTransport /\ SameObject(dev, s) /\ s.disconnects = d
    BY <2>3, TypesOf, Zenon DEF DevTransport, SameObject
  <2> HIDE DEF s
  <2>5. x \in Ctx /\ x.t = s /\ x.wd = wd /\ x.fw = fw /\ x.out = toHost
    BY <1>3, <2>4, Zenon DEF Ctx
  <2> HIDE DEF x
  <2>6. /\ v \in Ctx /\ v.fw = fw /\ SameObject(s, v.t) /\ SameAuth(s, v.t) /\ v.t.online
        /\ Armed(v.wd) /\ v.out = IF broken THEN toHost ELSE Append(toHost, CNXN)
    BY <1>4, <2>5, VerifiedFacts, Zenon
  <2> HIDE DEF v
  <2>7. /\ r \in Ctx /\ r.out = v.out /\ r.wd = v.wd
        /\ SameObject(v.t, r.t) /\ SameState(v.t, r.t)
        /\ r.t.auth_id = NewId /\ r.t.disconnects = v.t.disconnects
        /\ r.fw.ids = NewId /\ r.fw.connected = fw.connected \cup {<<"tls", NewId>>}
        /\ r.fw.checkFailed = fw.checkFailed
    BY <2>2, <2>6, ToldFacts
  <2> HIDE DEF r
  <2>8. /\ SameObject(dev, r.t) /\ Armed(r.wd) /\ r.t.online /\ r.t.disconnects # <<>>
    BY <2>3, <2>4, <2>6, <2>7 DEF SameObject, SameState, SameAuth
  <2>9. dev' = r.t /\ fw' = r.fw /\ toHost' = r.out
    BY <2>1, <2>7, BecomeTypes
  <2>10. Types' /\ ObjectInv' /\ WatchdogInv'
    BY <1>5, <2>1, <2>7, <2>8, ZenonT(40)
  <2>11. TurnInv'
    BY <1>1, <1>7, <2>6, <2>7, <2>8, <2>9, VerifiedTurn, Zenon DEF SameObject
  <2>12. ReportInv'
    BY <1>1, <2>2, <2>7, <2>8, <2>9, ToldReport
  <2> QED BY <1>7, <2>6, <2>7, <2>9, <2>10, <2>11, <2>12 DEF IInv
<1> QED BY <1>6, <1>7

LEMMA KeyAuthorized ==
    ASSUME IInv, UNCHANGED conf, NEW a \in async, adbd_auth_key_authorized(a)
    PROVE  IInv' /\ (UNCHANGED toHost \/ (from_callback_arg(a.arg) /\ ~broken))
<1> DEFINE k == fw.known \cup {a.key}
           f == [fw EXCEPT !.known = k]
           x == [Context EXCEPT !.fw = f]
           s == [dev EXCEPT !.auth_id = a.id]
           y == [x EXCEPT !.t = s]
           v == adbd_auth_verified(y)
           Counts == from_callback_arg(a.arg) /\ dev.auth_id \in {None, a.id}
<1>0. /\ [Context EXCEPT !.fw.known = @ \cup {a.key}] = x
      /\ [x EXCEPT !.t.auth_id = a.id] = y
  BY Zenon DEF Context
<1>1. /\ UNCHANGED <<conf, host, toDev, connects, broken>> /\ a.op = "dialog"
      /\ async' = async \ {a} /\ callbacks' = [callbacks EXCEPT ![a.arg] = None]
      /\ ~Counts => Become(x)
      /\ Counts => Become(v)
  BY <1>0, Zenon DEF adbd_auth_key_authorized
<1>2. /\ callbacks' \in Seq(0..MaxConnects) /\ DOMAIN callbacks' = DOMAIN callbacks
      /\ \A n \in DOMAIN callbacks' : callbacks'[n] = callbacks[n] \/ callbacks'[n] = 0
      /\ \A n \in DOMAIN callbacks' : callbacks'[n] <= dev.gen
  BY <1>1, UsedFacts, Zenon
<1>3. /\ Context \in Ctx
      /\ Context.t = dev /\ Context.wd = wd /\ Context.fw = fw /\ Context.out = toHost
  BY ContextFacts DEF IInv
<1>4. Armed(wd) /\ ~Open /\ dev.gen # 0 /\ \A b \in async : b.arg \in DOMAIN callbacks
  BY TypesOf, OpenFacts DEF IInv, WatchdogInv, Armed
<1>5. ASSUME NEW r \in Ctx, Become(r), SameObject(dev, r.t), Armed(r.wd)
      PROVE  Types' /\ ObjectInv' /\ WatchdogInv'
  <2>1. /\ dev' \in DevTransport /\ wd' \in Watchdog /\ fw' \in Framework
        /\ toHost' \in Seq(Packet) /\ dev' = r.t /\ wd' = r.wd
    BY <1>5, BecomeTypes
  <2>2. Types'
    BY <1>1, <1>2, <2>1 DEF IInv, Types
  <2>3. ObjectInv'
    BY <1>1, <1>2, <1>4, <1>5, <2>1, ObjectKept DEF SameObject
  <2>4. WatchdogInv'
    BY <1>1, <1>4, <1>5, <2>1, NotOpen, ZenonT(40)
  <2> QED BY <2>2, <2>3, <2>4
<1>6. k \in SUBSET (1..Keys)
  <2>1. a \in Operation
    BY TypesOf
  <2>2. a.key \in 1..Keys
    BY <1>1, <2>1, HandshakeAssumption DEF Operation, None
  <2> QED BY <2>2, TypesOf DEF Framework
<1> HIDE DEF k
<1>7. /\ f \in Framework /\ f.connected = fw.connected /\ f.ids = fw.ids
      /\ f.checkFailed = fw.checkFailed
  BY <1>6, TypesOf, Zenon DEF Framework
<1> HIDE DEF f
<1>8. x \in Ctx /\ x.t = dev /\ x.wd = wd /\ x.fw = f /\ x.out = toHost
  BY <1>3, <1>7, Zenon DEF Ctx
<1> HIDE DEF x
<1>9. CASE ~Counts
  <2>1. dev' = dev /\ wd' = wd /\ fw' = f /\ toHost' = toHost /\ Become(x)
    BY <1>1, <1>8, <1>9, BecomeTypes
  <2>2. Types' /\ ObjectInv' /\ WatchdogInv'
    BY <1>4, <1>5, <1>8, <2>1 DEF SameObject
  <2>3. TurnInv'
    BY <1>1, <2>1, StaleTurn, Zenon
  <2>4. ReportInv'
    BY <1>1, <1>2, <1>4, <1>7, <2>1, ReportKept, Zenon DEF SameAuth
  <2> QED BY <2>1, <2>2, <2>3, <2>4 DEF IInv
<1>10. CASE Counts
  <2>1. from_callback_arg(a.arg) /\ dev.auth_id \in {None, a.id} /\ Become(v)
    BY <1>1, <1>10
  <2>2. /\ s \in DevTransport /\ SameObject(dev, s) /\ s.auth_id = a.id
        /\ s.disconnects = dev.disconnects
    BY TypesOf, Zenon DEF DevTransport, SameObject
  <2> HIDE DEF s
  <2>3. y \in Ctx /\ y.t = s /\ y.wd = wd /\ y.fw = f /\ y.out = toHost
    BY <1>8, <2>2, Zenon DEF Ctx
  <2> HIDE DEF y
  <2>4. /\ v \in Ctx /\ v.fw = f /\ SameObject(s, v.t) /\ SameAuth(s, v.t) /\ v.t.online
        /\ Armed(v.wd) /\ v.out = IF broken THEN toHost ELSE Append(toHost, CNXN)
    BY <1>4, <2>3, VerifiedFacts, Zenon
  <2> HIDE DEF v
  <2>5. /\ SameObject(dev, v.t) /\ v.t.auth_id = a.id /\ v.t.disconnects = dev.disconnects
    BY <2>2, <2>4 DEF SameObject, SameAuth
  <2>6. dev' = v.t /\ fw' = f /\ toHost' = v.out
    BY <2>1, <2>4, BecomeTypes, Zenon
  <2>7. Types' /\ ObjectInv' /\ WatchdogInv'
    BY <1>5, <2>1, <2>4, <2>5
  <2>8. TurnInv'
    BY <1>1, <2>1, <2>4, <2>5, <2>6, VerifiedTurn, ZenonT(40) DEF SameObject
  <2>9. ReportInv'
    <3>1. a.id # None /\ (conf.with_id => dev.auth_id # None)
          /\ \A c \in fw.connected : c[2] = a.id => conf.with_id
      <4>1. /\ a.id \in 1..fw.ids /\ (conf.with_id => dev.auth_id # None)
            /\ \A c \in fw.connected : c[2] = a.id => conf.with_id
        BY <1>1, <2>1, Zenon DEF IInv, ReportInv, from_callback_arg
      <4>2. a.id # None
        BY <4>1 DEF None
      <4> QED BY <4>1, <4>2, Zenon
    <3>2. CASE conf.with_id
      <4>1. dev'.auth_id = dev.auth_id
        BY <2>1, <2>5, <2>6, <3>1, <3>2, ZenonT(40)
      <4> QED BY <1>1, <1>2, <1>4, <1>7, <2>5, <2>6, <4>1, ReportKept, Zenon DEF SameAuth, SameObject
    <3>3. CASE ~conf.with_id
      <4>1. \A c \in fw.connected : c[2] # dev'.auth_id
        BY <2>5, <2>6, <3>1, <3>3
      <4> QED BY <1>1, <1>7, <2>6, <3>3, <4>1 DEF IInv, ReportInv
    <3> QED BY <3>2, <3>3
  <2> QED BY <2>1, <2>4, <2>6, <2>7, <2>8, <2>9 DEF IInv
<1> QED BY <1>9, <1>10

-----------------------------------------------------------------------------
LEMMA InitInv == ASSUME Init PROVE IInv
<1>1. /\ conf \in Confs /\ host = NewHost /\ dev = NewDev(1)
      /\ toDev = <<CNXN>> /\ toHost = <<>> /\ async = {} /\ callbacks = <<>>
      /\ fw = [known |-> conf.known, connected |-> {}, ids |-> 0, checkFailed |-> FALSE]
      /\ wd = [active |-> 0, running |-> TRUE, armed |-> FALSE, enabled |-> FALSE]
      /\ connects = 1 /\ broken = FALSE
  BY DEF Init
<1>2. 1 \in 1..MaxConnects /\ 0 \in 0..MaxId
  BY HandshakeAssumption
<1>3. /\ dev \in DevTransport /\ dev.gen = 1 /\ dev.cs = "offline" /\ ~dev.online
      /\ dev.auth_id = None /\ dev.disconnects = <<>> /\ dev.alive /\ ~dev.dying
      /\ dev.tls = (conf.kind = "tls")
  BY <1>1, <1>2, NewDevFacts
<1>4. host \in HostTransport /\ ~host.online /\ host.alive
  BY <1>1, NewHostFacts
<1>5. fw \in Framework /\ fw.connected = {} /\ ~fw.checkFailed
  <2>1. conf.known \in SUBSET (1..Keys)
    BY <1>1, HandshakeAssumption DEF Conf
  <2> QED BY <1>1, <1>2, <2>1 DEF Framework
<1>6. wd \in Watchdog /\ wd.active = 0 /\ wd.running = TRUE /\ wd.armed = FALSE /\ wd.enabled = FALSE
  BY <1>1 DEF Watchdog
<1>7. callbacks \in Seq(0..MaxConnects) /\ DOMAIN callbacks = {}
  BY <1>1
<1>8. Types
  BY <1>1, <1>2, <1>3, <1>4, <1>5, <1>6, <1>7, EmptyFacts, Zenon DEF Types
<1>9. ObjectInv
  BY <1>1, <1>3, <1>4, <1>7 DEF ObjectInv
<1>10. TurnInv
  <2>1. Len(toDev) = 1 /\ Len(toHost) = 0
    BY <1>1, EmptyFacts
  <2>2. Len(toDev) + Len(toHost) <= 1 /\ Current = {}
    BY <1>1, <2>1 DEF Current
  <2> QED BY <1>1, <1>3, <1>4, <2>2, Zenon DEF TurnInv
<1>11. WatchdogInv
  <2>1. AllCnxn(toDev) /\ AllCnxn(toHost)
    BY <1>1, EmptyFacts
  <2>2. wd.active >= 0
    BY <1>6
  <2> QED BY <1>1, <1>3, <1>6, <2>1, <2>2, Zenon DEF WatchdogInv, Open, AllCnxn
<1>12. ReportInv
  BY <1>1, <1>3, <1>5 DEF ReportInv
<1> QED BY <1>8, <1>9, <1>10, <1>11, <1>12, Zenon DEF IInv

LEMMA NextInv == ASSUME IInv, [Next]_vars PROVE IInv'
<1>1. CASE UNCHANGED vars
  <2>1. UNCHANGED <<conf, host, dev, toDev, toHost, async, callbacks, fw, wd, connects, broken>>
    BY <1>1, ZenonT(40) DEF vars
  <2>2. Types' /\ ObjectInv'
    BY <2>1, Zenon DEF IInv, Types, ObjectInv
  <2>3. TurnInv'
    BY <2>1 DEF IInv, TurnInv, Current
  <2>4. WatchdogInv'
    BY <2>1, Zenon DEF IInv, WatchdogInv, Open
  <2>5. ReportInv'
    BY <2>1 DEF IInv, ReportInv
  <2> QED BY <2>2, <2>3, <2>4, <2>5 DEF IInv
<1>2. CASE AdbdLooper
  BY <1>2, DevCnxn, DevSignature, DevPublickey, DevStls, TlsSucceeds, TlsFails,
     SecureConnect, DevError, Unregister DEF AdbdLooper
<1>3. CASE HostLooper
  BY <1>3, HostCnxn, HostToken, HostStls, HostBroken DEF HostLooper
<1>4. CASE Environment
  BY <1>4, KeyAuthorized, KeyRemoved, PropertyChanged, BreakKeeps, ReconnectKeeps,
     HostRestarts DEF Environment
<1> QED BY <1>1, <1>2, <1>3, <1>4 DEF Next

(* The invariant that all of the others follow from.                        *)
THEOREM Invariance == Spec => []IInv
<1>1. Init => IInv
  BY InitInv
<1>2. IInv /\ [Next]_vars => IInv'
  BY NextInv
<1> QED BY <1>1, <1>2, PTL DEF Spec

(* Types: the bounds on keys, tokens, ids and connections are kept, and the *)
(* callbacks that are referred to exist.                                    *)
THEOREM TypeCorrect == Spec => []TypeOK
<1>1. IInv => TypeOK
  BY DEF IInv, Types, ObjectInv, TypeOK, Framework, Watchdog
<1> QED BY <1>1, Invariance, PTL

(* A host that takes its transport for online is talking to an adbd that    *)
(* has it online too.                                                       *)
THEOREM BothSeeOnline == Spec => []OnlineTogether
<1>1. IInv => OnlineTogether
  BY DEF IInv, TurnInv, OnlineTogether
<1> QED BY <1>1, Invariance, PTL

(* Without authentication, the watchdog of adbd is never armed while a      *)
(* client is connected.                                                     *)
THEOREM NotArmedWithClients == Spec => []ArmedOnlyWithoutClients
<1>1. IInv => ArmedOnlyWithoutClients
  <2> SUFFICES ASSUME IInv, dev.online, ~conf.auth_required, conf.kind # "tls"
               PROVE  ~wd.armed
    BY DEF ArmedOnlyWithoutClients
  <2>1. Open /\ wd.active \in Int
    BY TypesOf DEF Open
  <2>2. wd.active >= 1 /\ (wd.running <=> wd.active = 0) /\ (wd.armed <=> wd.enabled /\ wd.running)
    BY <2>1 DEF IInv, WatchdogInv
  <2>3. wd.active # 0
    BY <2>1, <2>2
  <2> QED BY <2>2, <2>3
<1> QED BY <1>1, Invariance, PTL

(* A transport that goes offline: adb_disconnected runs in the same step.   *)
LEMMA OfflineRuns ==
    ASSUME IInv, dev_cnxn \/ dev_error, dev.cs # "offline"
    PROVE  dev'.disconnects = <<>>
<1>1. CASE dev_cnxn
  <2>1. PICK n \in 0..Len(toHost), ok \in Works : Become(CnxnAnswer(CnxnContext(n), ok))
    BY <1>1, Zenon DEF dev_cnxn, CnxnAnswer, CnxnContext
  <2>0. ok \in BOOLEAN
    BY Zenon DEF Works
  <2> DEFINE z == CnxnContext(n)
             r == CnxnAnswer(z, ok)
  <2>2. z \in Ctx /\ Armed(z.wd) /\ z.t.disconnects = <<>>
    BY CnxnContextFacts, Zenon DEF Reported
  <2> HIDE DEF z
  <2>3. r \in Ctx /\ SameAuth(z.t, r.t)
    BY <2>0, <2>2, CnxnAnswerFacts
  <2>4. dev' = r.t
    BY <2>1, <2>3, BecomeTypes DEF z
  <2> HIDE DEF r
  <2> QED BY <2>2, <2>3, <2>4 DEF SameAuth
<1>2. CASE dev_error
  <2> DEFINE y == handle_offline(Context)
             s == [y.t EXCEPT !.dying = TRUE]
             r == [y EXCEPT !.t = s]
  <2>1. Become(r)
    BY <1>2, Zenon DEF dev_error
  <2>2. Context \in Ctx /\ Context.t = dev
    BY ContextFacts DEF IInv
  <2>3. y \in Ctx /\ y.t.disconnects = <<>>
    BY <2>2, OfflineFacts, Zenon
  <2> HIDE DEF y
  <2>4. s \in DevTransport /\ s.disconnects = y.t.disconnects
    BY <2>3, CtxFacts, Zenon DEF DevTransport
  <2> HIDE DEF s
  <2>5. r \in Ctx /\ r.t = s
    BY <2>3, <2>4, Zenon DEF Ctx
  <2> HIDE DEF r
  <2> QED BY <2>1, <2>3, <2>4, <2>5, BecomeTypes
<1> QED BY <1>1, <1>2

(* Going offline takes back in the same step what the framework was told    *)
(* of a dialog or a TLS connection, and the CHECK of adb_disconnected holds *)
(* wherever libadbd_auth returns the id of a dialog.                        *)
THEOREM OfflineReported == Spec => OfflineIsReported
<1> DEFINE A == /\ conf.with_id => ~fw'.checkFailed
                /\ (dev.cs # "offline" /\ (dev_cnxn \/ dev_error)) =>
                      \A c \in fw'.connected : c[2] = dev'.auth_id => c[1] = "key"
<1>1. IInv /\ [Next]_vars => [A]_vars
  <2> SUFFICES ASSUME IInv, Next PROVE A
    OBVIOUS
  <2>1. IInv' /\ conf' = conf
    BY NextInv, Zenon DEF Next, AdbdLooper, HostLooper, Environment
  <2>2. conf.with_id => ~fw'.checkFailed
    BY <2>1, Zenon DEF IInv, ReportInv
  <2>3. \A c \in fw'.connected : (c[2] = dev'.auth_id /\ c[1] # "key") => dev'.disconnects # <<>>
    BY <2>1 DEF IInv, ReportInv
  <2> QED BY <2>2, <2>3, OfflineRuns
<1> QED BY <1>1, Invariance, PTL DEF Spec, OfflineIsReported

(* Nothing but A_CNXN makes an adbd that is online send anything.           *)
LEMMA OnlineSilent ==
    ASSUME IInv, Next, dev.online, conf.kind # "usb", ~dev_cnxn
    PROVE  ~(Len(toHost') > Len(toHost))
<1>0. toHost \in Seq(Packet) /\ Len(toHost) \in Nat /\ UNCHANGED conf
  BY TypesOf DEF Next, AdbdLooper, HostLooper, Environment
<1> SUFFICES Len(toHost') <= Len(toHost) \/ toHost' = toHost
  <2>1. CASE Len(toHost') <= Len(toHost)
    <3>1. Len(toHost') \in Nat
      <4>1. toHost' \in Seq(Packet)
        BY NextInv DEF IInv, Types
      <4> QED BY <4>1
    <3> QED BY <1>0, <2>1, <3>1
  <2>2. CASE toHost' = toHost
    BY <1>0, <2>2
  <2> QED BY <2>1, <2>2
<1>1. CASE AdbdLooper
  <2>1. CASE dev_signature
    <3>1. broken
      BY <1>0, <2>1, DevTurn DEF dev_signature
    <3> QED BY <1>0, <2>1, <3>1, DevSignature
  <2>2. CASE dev_publickey \/ dev_stls
    BY <1>0, <2>2, DevPublickey, DevStls, Zenon
  <2>3. ASSUME NEW a \in async, tls_succeeds(a) \/ tls_fails(a) PROVE toHost' = toHost
    BY <2>3, Zenon DEF tls_succeeds, tls_fails
  <2>4. ASSUME NEW a \in async, adbd_wifi_secure_connect(a) PROVE toHost' = toHost
    BY <1>0, <2>4, SecureConnect, LiveTurn
  <2>5. CASE dev_error \/ fdevent_unregister_transport
    <3>1. CASE dev_error
      <4> DEFINE y == handle_offline(Context)
                 r == [y EXCEPT !.t.dying = TRUE]
      <4>1. Become(r)
        BY <3>1, ZenonT(40) DEF dev_error
      <4>2. y \in Ctx /\ y.out = toHost
        BY ContextFacts, OfflineFacts, Zenon DEF IInv
      <4> HIDE DEF y
      <4>3. r.out = y.out
        BY <4>2, Zenon DEF Ctx
      <4> QED BY <4>1, <4>2, <4>3 DEF Become
    <3> QED BY <2>5, <3>1 DEF fdevent_unregister_transport
  <2> QED BY <1>1, <2>1, <2>2, <2>3, <2>4, <2>5 DEF AdbdLooper
<1>2. CASE HostLooper
  <2>1. CASE host_cnxn \/ host_token \/ host_stls
    <3>1. toHost # <<>> /\ toHost' = Tail(toHost)
      BY <2>1 DEF host_cnxn, host_token, host_stls, HostReceives
    <3>2. Len(toHost') = Len(toHost) - 1
      BY <1>0, <3>1, HeadFacts
    <3> QED BY <1>0, <3>2
  <2> QED BY <1>2, <2>1 DEF HostLooper, host_tls_fails, host_kick, host_error
<1>3. CASE Environment
  <2>1. ASSUME NEW a \in async, adbd_auth_key_authorized(a) PROVE toHost' = toHost
    BY <1>0, <2>1, KeyAuthorized, LiveTurn
  <2>2. CASE Reconnect
    BY <1>0, <2>2, EmptyFacts DEF Reconnect
  <2> QED BY <1>3, <2>1, <2>2
          DEF Environment, adbd_key_removed, property_changed, Break, HostRestart
<1> QED BY <1>1, <1>2, <1>3 DEF Next

(* An adbd that has a transport online answers no second dialog and no      *)
(* second TLS handshake: only a new A_CNXN makes it send A_CNXN again.      *)
THEOREM ConnectedOnce == Spec => ConnectsOnce
<1> DEFINE A == (/\ Len(toHost') > Len(toHost) /\ toHost'[Len(toHost')] = CNXN
                 /\ conf.kind # "usb") => (~dev.online \/ dev_cnxn)
<1>1. IInv /\ [Next]_vars => [A]_vars
  BY OnlineSilent
<1> QED BY <1>1, Invariance, PTL DEF Spec, ConnectsOnce
=============================================================================
