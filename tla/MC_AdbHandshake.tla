-------------------------- MODULE MC_AdbHandshake --------------------------
(* Instances of AdbHandshake for TLC: the kinds of connection.              *)
EXTENDS AdbHandshake

C(kind, auth_required, known) ==
    [kind |-> kind, auth_required |-> auth_required, with_id |-> TRUE, fails |-> FALSE, known |-> known]

AllKinds == {C("tls", TRUE, {2}),    \* adb over Wi-Fi, paired
             C("tcp", TRUE, {}),     \* a key that only a dialog can allow
             C("tcp", TRUE, {2}),    \* the second key is known
             C("tcp", FALSE, {}),    \* no authentication
             C("usb", TRUE, {1}),    \* a host server that is restarted
             [C("tcp", TRUE, {2}) EXCEPT !.fails = TRUE],
             [C("usb", TRUE, {1}) EXCEPT !.fails = TRUE]}
KnownKey == {C("tcp", TRUE, {1})}
=============================================================================
