----------------------------- MODULE ByteStream -----------------------------
(* What a stream promises to the applications at its two ends: in each      *)
(* direction the bytes that come out are the first of those that went in,   *)
(* each once; an end hands out bytes only while it exists, and what one end *)
(* does changes neither what the other has sent nor what it has handed out. *)
EXTENDS Integers

CONSTANTS End, Most   \* the two ends; the most bytes an end sends in one step

VARIABLES sent,       \* sent[e]: the bytes end e has sent
          got,        \* got[e]: the bytes that came out at end e
          over        \* the ends that are gone

vars == <<sent, got, over>>

Init ==
    /\ sent = [e \in End |-> 0]
    /\ got = [e \in End |-> 0]
    /\ over = {}

(* One step of an end: it hands out what the other end has sent, sends, and *)
(* perhaps goes away.                                                       *)
Turn(e) ==
    /\ e \notin over
    /\ \E n \in 0 .. Most : sent' = [sent EXCEPT ![e] = @ + n]
    /\ \A o \in End \ {e} : \E g \in got[e] .. sent[o] : got' = [got EXCEPT ![e] = g]
    /\ over' \in {over, over \cup {e}}

Next == \E e \in End : Turn(e)

Spec == Init /\ [][Next]_vars
=============================================================================
