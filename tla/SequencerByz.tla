----------------------------- MODULE SequencerByz -----------------------------
(***************************************************************************)
(* Sequencer with Byzantine peers.  A peer of Faulty runs none of the code *)
(* (Alive excludes it); instead it may put any frame it can build on the   *)
(* network, up to MaxForged frames.  Nothing in the dispatcher or the      *)
(* handlers checks who sent a frame: only signatures are verified, and a   *)
(* faulty peer signs with its own key only.  The payload of every node is  *)
(* vec![node_ind; payload_size] (sequencer.rs 278), so a faulty peer can   *)
(* sign the digest of any round of any originator in advance.  An ECHO    *)
(* signs only that digest (465), not the round or the sender, and every   *)
(* FIN carries the originator's echo_list (533-538) to every peer, the    *)
(* faulty one included, so the faulty peer can also replay any honest     *)
(* signature it received in a FIN of the same originator.                 *)
(*   ECHO: any claimed sender, any originator and round, signed with its  *)
(*         own key or with a signature it saw in a FIN for that           *)
(*         originator;                                                     *)
(*   FIN:  any claimed assembler and round, with 2f+1 entries that are all *)
(*         its own signature or all the receiver's id (counted unverified  *)
(*         by handle_fin_msg, 613-616);                                     *)
(*   SUP:  any originator and round (handle_sup_msg reads only those).     *)
(* Entries with a forged signature of another honest node fail to verify,  *)
(* and count as nothing, so they are left out.  A FIN rebuilt from seen   *)
(* signatures is not injected: the originator's own FIN already reaches   *)
(* every peer with those entries, and sent_sup makes a second one a no-op. *)
(* A SEND with a false payload is not injected: payloads are abstracted.  *)
(***************************************************************************)
EXTENDS Sequencer

CONSTANT MaxForged   \* frames the faulty peers inject in a behaviour

VARIABLE forged      \* frames injected so far

varsByz == <<vars, forged>>

Honest == Node \ Faulty

\* The bags of FIN entries a faulty peer f can make for receiver i.
ForgedSigns(f, i) == { [x \in {f} |-> Quorum], [x \in {i} |-> Quorum] }

\* The honest signatures over o's digest that f has received: the
\* entries of every FIN of originator o addressed to f.
SeenSigns(f, o) ==
    UNION { BagToSet(m.signs) :
            m \in { x \in BagToSet(net) :
                      x.type = "FIN" /\ x.to = f /\ x.from = o } }

ForgedFrames(f) ==
    UNION { [type : {"ECHO"}, from : Node, to : {o}, rnd : Round,
             sig : {f} \cup SeenSigns(f, o)] : o \in Honest }
    \cup UNION { { FinMsg(s, i, r, signs) : signs \in ForgedSigns(f, i) } :
                  s \in Node, i \in Honest, r \in Round }
    \cup [type : {"SUP"}, to : Honest, orig : Node, rnd : Round]

\* A faulty peer writes a frame on its connection to an honest peer.
Inject(f, m) ==
    /\ forged < MaxForged
    /\ forged' = forged + 1
    /\ net' = net (+) SetToBag({m})
    /\ UNCHANGED <<round, hashSlot, sentEcho, echoList, sentFin, sentSup,
                   delivered, supCnt, storing, checking, selfSup, crashed>>

InitByz == Init /\ forged = 0

NextByz ==
    \/ Next /\ UNCHANGED forged
    \/ \E f \in Faulty : \E m \in ForgedFrames(f) : Inject(f, m)

SpecByz == InitByz /\ [][NextByz]_varsByz
=============================================================================
