------------------------- MODULE MCSaveTransaction -------------------------
(* Small instances of SaveTransaction for TLC.                             *)
EXTENDS SaveTransaction, TLC

CONSTANTS f1, f2, t1, t2

MCFiles == {f1, f2}
MCTxs == {t1, t2}
OneTx == {t1}
Production == {FALSE}
ViewWithoutBase == <<live, plan, linked, mode, dirVars, recorded, pc, cur, left,
                     scanVars, faults, pastVars>>
EitherMode == BOOLEAN
Symmetry == Permutations(MCFiles) \union Permutations(MCTxs)
=============================================================================
