----------------------------- MODULE MCWakeLock -----------------------------
(* Model-checking instance of WakeLock.                                    *)
EXTENDS WakeLock

CONSTANTS d1, d2, i1
=============================================================================
