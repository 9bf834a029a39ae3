--------------------------- MODULE MCEarlySuspend ---------------------------
(* Model-checking instance of EarlySuspend: a screen handler below the     *)
(* frame buffer's level and the frame buffer's.                            *)
EXTENDS EarlySuspend, TLC

CONSTANTS d1, screen, fb, u1, u2

MCLevel == [h \in Handlers |-> IF h = fb THEN 150 ELSE 50]

Sym == Permutations({u1, u2})
=============================================================================
