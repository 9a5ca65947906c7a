----------------------------- MODULE MCSequencer -----------------------------
(* Sequencer instantiated for TLC: four nodes as model values (n = 4,     *)
(* f = 1, 2f+1 = 3), one proposer; rounds and crashes set per run.         *)
EXTENDS Sequencer

CONSTANTS n0, n1, n2, n3

MCNode == {n0, n1, n2, n3}
MCProposerOne == {n0}
=============================================================================
