--------------------------- MODULE MCUserWakeLock ---------------------------
(* Names that begin one another; a long of 4 bits, a u64 of 7, a jiffy of  *)
(* 3 ns: timeouts at every boundary, and some too long for a long.         *)
EXTENDS UserWakeLock

MCNames == {<<1>>, <<1, 1>>, <<1, 2>>, <<2>>}

MCTimeouts == {0, 1, 3, 4, 21, 24, 48}

=============================================================================
