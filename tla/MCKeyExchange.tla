---------------------------- MODULE MCKeyExchange ----------------------------
EXTENDS KeyExchange

CONSTANTS n0, n1, n2, n3

MCNode == {n0, n1, n2, n3}
MCProposer == {n0}

(* Three nodes are enough for a restart and the peers it greets again *)
MCNodeThree == {n0, n1, n2}
====
