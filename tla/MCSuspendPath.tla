---------------------------- MODULE MCSuspendPath ----------------------------
(* Model-checking instance of SuspendPath: one handler, two users.         *)
EXTENDS SuspendPath

CONSTANTS d1, fb, u1, u2

MCLevel == [h \in Handlers |-> 150]
=============================================================================
