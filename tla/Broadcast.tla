------------------------------ MODULE Broadcast ------------------------------
(***************************************************************************)
(* What the consistent-broadcast sequencer promises, per originator and    *)
(* round, with no messages: an originator proposes its rounds in order, a  *)
(* proposal is certified (its originator assembled the ECHO quorum and     *)
(* emitted the FIN) at most once, and a node delivers only a certified     *)
(* proposal, at most once, and never takes a delivery back.                *)
(***************************************************************************)
EXTENDS Naturals

CONSTANTS Node,       \* the peers of the address book
          Round,      \* the round numbers within the horizon
          RoundCap    \* RoundCap[o]: rounds o proposes within the horizon

VARIABLES proposed,   \* proposed[o]: number of rounds o has proposed
          certified,  \* certified[o]: rounds of o whose FIN was assembled
          delivered   \* delivered[i][o]: rounds of o that i delivered

vars == <<proposed, certified, delivered>>

Init ==
    /\ proposed = [o \in Node |-> 0]
    /\ certified = [o \in Node |-> {}]
    /\ delivered = [i \in Node |-> [o \in Node |-> {}]]

Propose(o) ==
    /\ proposed[o] < RoundCap[o]
    /\ proposed' = [proposed EXCEPT ![o] = @ + 1]
    /\ UNCHANGED <<certified, delivered>>

Certify(o, r) ==
    /\ r < proposed[o]
    /\ r \notin certified[o]
    /\ certified' = [certified EXCEPT ![o] = @ \cup {r}]
    /\ UNCHANGED <<proposed, delivered>>

Deliver(i, o, r) ==
    /\ r \in certified[o]
    /\ r \notin delivered[i][o]
    /\ delivered' = [delivered EXCEPT ![i][o] = @ \cup {r}]
    /\ UNCHANGED <<proposed, certified>>

Next ==
    \/ \E o \in Node : Propose(o)
    \/ \E o \in Node, r \in Round : Certify(o, r)
    \/ \E i, o \in Node, r \in Round : Deliver(i, o, r)

Spec == Init /\ [][Next]_vars
=============================================================================
