-------------------------- MODULE MCFbEarlySuspend --------------------------
(* The drawing process and two watchers.                                   *)
EXTENDS FbEarlySuspend

CONSTANTS w1, w2

MCWatchers == {w1, w2}

=============================================================================
