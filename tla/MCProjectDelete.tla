-------------------------- MODULE MCProjectDelete --------------------------
(* Model checking of ProjectDelete.                                         *)
EXTENDS ProjectDelete, TLC

CONSTANTS u1, u2
TwoRequests == {u1, u2}

=============================================================================
