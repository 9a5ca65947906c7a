---------------------------- MODULE MCSequencerByz ----------------------------
(* SequencerByz for TLC: four nodes (n = 4, f = 1), n3 Byzantine, n0 the  *)
(* proposer.                                                              *)
EXTENDS SequencerByz, TLC

CONSTANTS n0, n1, n2, n3

MCNode == {n0, n1, n2, n3}
MCProposerOne == {n0}
MCFaulty == {n3}

\* n1 and n2 are honest peers that do not propose: interchangeable.
MCSymmetry == Permutations({n1, n2})
=============================================================================
