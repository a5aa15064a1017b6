----------------------------- MODULE MCProofChain -----------------------------
(* Instances of ProofChain for TLC: two chapters and two rounds.           *)
EXTENDS ProofChainHistory

CONSTANTS c1, c2, a, b
=============================================================================
