------------------------- MODULE MCWorkspaceDelete -------------------------
(* Model checking of WorkspaceDelete.                                       *)
EXTENDS WorkspaceDelete, TLC

CONSTANTS t1, t2
TwoTokens == {t1, t2}
FirstOld == {t1}

=============================================================================
