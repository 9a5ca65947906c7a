----------------------------- MODULE MCTaskLocks -----------------------------
(* Node 0 of a four-node cluster (nodes 0..3) and the frames in its queue *)
EXTENDS TaskLocks

Frame(k, i) == [kind |-> k, id |-> i]

(* Frames honest peers send: a late SYN from node 3, node 2's SEND and    *)
(* FIN for its round, an ECHO from node 1 and a SUP for node 0's round    *)
MCHonestFrames ==
    { Frame("Syn", 3), Frame("Send", 2), Frame("Fin", 2),
      Frame("Echo", 1), Frame("Sup", 0) }

(* A faulty peer puts node 0's own index in the sender field of a FIN *)
MCFaultyFrames ==
    { Frame("Syn", 3), Frame("Echo", 1), Frame("Fin", 0) }
====
