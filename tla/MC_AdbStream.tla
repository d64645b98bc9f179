---------------------------- MODULE MC_AdbStream ----------------------------
(* Instances of AdbStream for TLC: which end supports delayed acks, and how *)
(* many bytes each application writes.                                      *)
EXTENDS AdbStream

Both       == [e \in End |-> TRUE]

Bytes(o, a) == [e \in End |-> IF e = opener THEN o ELSE a]
Bytes_3_1 == Bytes(3, 1)
Bytes_3_0 == Bytes(3, 0)
=============================================================================
