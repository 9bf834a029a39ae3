------------------------------ MODULE MCLogger ------------------------------
(* Model-checking instance of Logger: a buffer of 8 cells, entries of 3    *)
(* and 4 or of 4 alone, so that the third write overwrites the first.      *)
EXTENDS Logger, TLC

CONSTANTS w1, w2, r1, r2

TwoIovs == {<<1>>, <<1, 2>>}

(* Cut off at MaxPayload in its second segment.                            *)
LongIov == {<<1, 2>>}
=============================================================================
