------------------------------ MODULE MCAshmem ------------------------------
(* One area of two or three pages, whose size may change after it is       *)
(* mapped.                                                                 *)
EXTENDS Ashmem

CONSTANT a1

MCSizes == [a \in Areas |-> {2, 3}]
=============================================================================
