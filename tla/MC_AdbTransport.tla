-------------------------- MODULE MC_AdbTransport --------------------------
(* AdbTransport for TLC.                                                    *)
EXTENDS AdbTransport
=============================================================================
