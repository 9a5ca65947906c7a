------------------------------ MODULE Sequencer ------------------------------
(***************************************************************************)
(* The per-node SEND -> ECHO -> FIN -> SUP state machine of sequencer.rs,  *)
(* for every node of the address book at once.  The network is the bag of  *)
(* frames in flight: frames are handled by tasks spawned from the main     *)
(* loop, so two frames are handled in either order whatever their          *)
(* connection; a bag, so that a frame sent twice is handled twice.  A handler is one action per stretch of code between two    *)
(* suspension points where another task can observe the shared state:     *)
(*   SEND: HandleSend (flag + ECHO), then StoreSend (tx/hash slots);       *)
(*   ECHO: HandleEcho (verify + append), then CheckEcho (sent_fin and      *)
(*         quorum, FIN and SUP multicast), then EchoSelfSup (own count);   *)
(*   FIN and SUP: one action each.                                         *)
(* Payloads, digests and signatures are abstracted: an honest node's       *)
(* payload is fixed per originator, so a hash slot is only "none" (past    *)
(* the vector's end), "empty" (a lazily pushed default) or "set", and a    *)
(* signature verifies iff it is checked against the "set" slot.  All       *)
(* SYN frames are taken as handled during the proposer's 5 s warm-up.      *)
(***************************************************************************)
EXTENDS Naturals, FiniteSets, Bags, BagsExt, FiniteSetsExt

CONSTANTS Node,        \* the peers of the address book
          Proposer,    \* nodes whose periodic sender ticks within the horizon
          MaxRound,    \* rounds each proposer proposes within the horizon
          MaxCrashes,  \* nodes that may crash-stop
          Faulty       \* Byzantine peers: they run none of this code

ASSUME /\ Proposer \subseteq Node \ Faulty
       /\ Faulty \subseteq Node
       /\ MaxRound \in Nat /\ MaxCrashes \in Nat

VARIABLES
    round,      \* curr_round of each node's periodic sender
    hashSlot,   \* hashSlot[i][s][r]: slot r of hash_list[s] at node i
    sentEcho,   \* sentEcho[i][s]: rounds r with sent_echo[s][r] at node i
    echoList,   \* echoList[i][r]: bag of signers in echo_list[r] at node i
    sentFin,    \* sentFin[i]: rounds r with sent_fin[r] at node i
    sentSup,    \* sentSup[i][s]: rounds r with sent_sup[s][r] at node i
    delivered,  \* delivered[i][o]: rounds r with delivered[o][r] at node i
    supCnt,     \* supCnt[i][o][r]: recv_sup_cnt[o][r] at node i
    net,        \* bag of frames sent and not yet handled
    storing,    \* SEND handlers that emitted the ECHO and have not stored
    checking,   \* ECHO handlers that appended and have not locked sent_fin
    selfSup,    \* ECHO handlers that sent FIN/SUP and have not counted self
    crashed     \* nodes that crash-stopped

vars == <<round, hashSlot, sentEcho, echoList, sentFin, sentSup, delivered,
          supCnt, net, storing, checking, selfSup, crashed>>

Round == 0..(MaxRound - 1)
N == Cardinality(Node)

\* f_cnt: (num_nodes - 1) / 3 in Sequencer::new.
F == (N - 1) \div 3

\* threashold = f_cnt * 2 + 1, used by the SUP and FIN handlers.
Quorum == 2 * F + 1

\* The main loop passes num_nodes as handle_echo_msg's echo_threashold.
EchoThreshold == N

RoundCap == [o \in Node |-> IF o \in Proposer THEN MaxRound ELSE 0]

\* A node that runs the code of sequencer.rs: not crashed, not Byzantine.
Alive(i) == i \notin crashed \cup Faulty

-----------------------------------------------------------------------------
(* Frames, as the handlers read them.                                      *)

SendMsg(o, i, r) == [type |-> "SEND", from |-> o, to |-> i, rnd |-> r]
\* The ECHO's sign is made with the key of its signer (KeyPair::sign); an
\* honest ECHO is signed by the node it names as sender.
EchoMsg(j, o, r) == [type |-> "ECHO", from |-> j, to |-> o, rnd |-> r, sig |-> j]
FinMsg(o, i, r, signs) ==
    [type |-> "FIN", from |-> o, to |-> i, rnd |-> r, signs |-> signs]
\* The dispatcher reads only rn and originator of a SUP (sequencer.rs 413),
\* so a SUP frame carries no sender: SUPs for (o, r) are interchangeable.
SupMsg(i, o, r) == [type |-> "SUP", to |-> i, orig |-> o, rnd |-> r]

\* Mutant of Multicast: the sender task's peers list keeps its own address.
MulticastToAll(j, frame) == SetToBag({frame[k] : k \in Node})

\* A multicast is one frame to every peer but the sender; frame[k] is the
\* frame addressed to k.
Multicast(j, frame) == SetToBag({frame[k] : k \in Node \ {j}})

\* A handler consumes its frame and emits the frames of a set.
Reply(m, frames) == BagRemove(net, m) (+) SetToBag(frames)

-----------------------------------------------------------------------------
(* Shared-state helpers.                                                   *)

\* hash_list[s] extended to slot r with empty defaults, and r set.
StoreHash(slots, r) ==
    [q \in Round |-> IF q = r THEN "set"
                     ELSE IF q < r /\ slots[q] = "none" THEN "empty"
                     ELSE slots[q]]

\* append_echo: echo_list[r].push((signer, sign)), with no deduplication.
AppendEcho(list, signer) == BagAdd(list, signer)

\* KeyPair::verify_signature against peer_pkeys[sender] over the own
\* digest of the round: a signature verifies iff the key that made it is
\* the sender's and the digest exists (hash[rn] panics the task otherwise,
\* which changes no state).
VerifySignature(slot, sender, sig) == slot = "set" /\ sig = sender

\* got_enough_echo: echo_list[rn].len() == echo_threashold.
GotEnoughEcho(list) == BagCardinality(list) = EchoThreshold

\* The FIN handler's count: an entry of this node counts unconditionally,
\* any other verifies only against the digest the SEND stored.
ValidSignatures(i, slot, signs) ==
    IF slot = "set" THEN BagCardinality(signs) ELSE CopiesIn(i, signs)

-----------------------------------------------------------------------------
Init ==
    /\ round = [i \in Node |-> 0]
    /\ hashSlot = [i \in Node |-> [s \in Node |-> [r \in Round |-> "none"]]]
    /\ sentEcho = [i \in Node |-> [s \in Node |-> {}]]
    /\ echoList = [i \in Node |-> [r \in Round |-> EmptyBag]]
    /\ sentFin = [i \in Node |-> {}]
    /\ sentSup = [i \in Node |-> [s \in Node |-> {}]]
    /\ delivered = [i \in Node |-> [o \in Node |-> {}]]
    /\ supCnt = [i \in Node |-> [o \in Node |-> [r \in Round |-> 0]]]
    /\ net = EmptyBag
    /\ storing = {}
    /\ checking = {}
    /\ selfSup = {}
    /\ crashed = {}

-----------------------------------------------------------------------------
(* Mutants: plausible slips in the code the properties must catch.         *)

\* Propose with `<=` for `<` on the round bound.
ProposeOffByOne(o) ==
    LET r == round[o] IN
    /\ Alive(o)
    /\ r <= RoundCap[o]
    /\ hashSlot' = [hashSlot EXCEPT ![o][o][r] = "set"]
    /\ echoList' = [echoList EXCEPT ![o][r] = AppendEcho(@, o)]
    /\ net' = net (+) Multicast(o, [k \in Node |-> SendMsg(o, k, r)])
    /\ round' = [round EXCEPT ![o] = r + 1]
    /\ UNCHANGED <<sentEcho, sentFin, sentSup, delivered, supCnt, storing,
                   checking, selfSup, crashed>>

\* Propose without append_echo of the own signature.
ProposeNoSelfEcho(o) ==
    LET r == round[o] IN
    /\ Alive(o)
    /\ r < RoundCap[o]
    /\ hashSlot' = [hashSlot EXCEPT ![o][o][r] = "set"]
    /\ net' = net (+) Multicast(o, [k \in Node |-> SendMsg(o, k, r)])
    /\ round' = [round EXCEPT ![o] = r + 1]
    /\ UNCHANGED <<echoList, sentEcho, sentFin, sentSup, delivered, supCnt,
                   storing, checking, selfSup, crashed>>

\* CheckEcho without `!sent_fin[rn]` in the condition.
CheckEchoUnguarded(t) ==
    LET o == t.at
        r == t.rnd
    IN
    /\ Alive(o)
    /\ checking' = checking \ {t}
    /\ IF GotEnoughEcho(echoList[o][r])
       THEN /\ sentFin' = [sentFin EXCEPT ![o] = @ \cup {r}]
            /\ net' = net
                      (+) Multicast(o, [k \in Node |-> FinMsg(o, k, r, echoList[o][r])])
                      (+) Multicast(o, [k \in Node |-> SupMsg(k, o, r)])
            /\ selfSup' = selfSup \cup {[at |-> o, rnd |-> r]}
       ELSE UNCHANGED <<sentFin, net, selfSup>>
    /\ UNCHANGED <<round, hashSlot, sentEcho, echoList, sentSup, delivered,
                   supCnt, storing, crashed>>

\* CheckEcho that never sets sent_fin[rn] = true.
CheckEchoUnmarked(t) ==
    LET o == t.at
        r == t.rnd
    IN
    /\ Alive(o)
    /\ checking' = checking \ {t}
    /\ IF r \notin sentFin[o] /\ GotEnoughEcho(echoList[o][r])
       THEN /\ net' = net
                      (+) Multicast(o, [k \in Node |-> FinMsg(o, k, r, echoList[o][r])])
                      (+) Multicast(o, [k \in Node |-> SupMsg(k, o, r)])
            /\ selfSup' = selfSup \cup {[at |-> o, rnd |-> r]}
       ELSE UNCHANGED <<net, selfSup>>
    /\ UNCHANGED <<round, hashSlot, sentEcho, echoList, sentFin, sentSup,
                   delivered, supCnt, storing, crashed>>

-----------------------------------------------------------------------------
\* One tick of spawn_periodic_sender: push the own payload and digest,
\* append the own signature to echo_list, multicast SEND, next round.
Propose(o) ==
    LET r == round[o] IN
    /\ Alive(o)
    /\ r < RoundCap[o]
    /\ hashSlot' = [hashSlot EXCEPT ![o][o][r] = "set"]
    /\ echoList' = [echoList EXCEPT ![o][r] = AppendEcho(@, o)]
    /\ net' = net (+) Multicast(o, [k \in Node |-> SendMsg(o, k, r)])
    /\ round' = [round EXCEPT ![o] = r + 1]
    /\ UNCHANGED <<sentEcho, sentFin, sentSup, delivered, supCnt, storing,
                   checking, selfSup, crashed>>

\* handle_send_msg up to the ECHO: set sent_echo[s][r], release it, emit
\* the signed ECHO to s; the slots are written afterwards (StoreSend).
HandleSend(i, m) ==
    LET s == m.from
        r == m.rnd
    IN
    /\ m.type = "SEND" /\ m.to = i /\ Alive(i)
    /\ IF r \notin sentEcho[i][s]
       THEN /\ sentEcho' = [sentEcho EXCEPT ![i][s] = @ \cup {r}]
            /\ net' = Reply(m, {EchoMsg(i, s, r)})
            /\ storing' = storing \cup {[at |-> i, from |-> s, rnd |-> r]}
       ELSE /\ net' = BagRemove(net, m)
            /\ UNCHANGED <<sentEcho, storing>>
    /\ UNCHANGED <<round, hashSlot, echoList, sentFin, sentSup, delivered,
                   supCnt, checking, selfSup, crashed>>

\* The rest of handle_send_msg: tx_list[s][r] and hash_list[s][r] written.
StoreSend(t) ==
    /\ Alive(t.at)
    /\ hashSlot' = [hashSlot EXCEPT ![t.at][t.from] = StoreHash(@, t.rnd)]
    /\ storing' = storing \ {t}
    /\ UNCHANGED <<round, sentEcho, echoList, sentFin, sentSup, delivered,
                   supCnt, net, checking, selfSup, crashed>>

\* peer_pkeys[j] at node o is set by the SYN that j's sender task sends
\* first to every address of its peers list (236), the same list as every
\* multicast (227-232); keys are taken as exchanged.  A node never greets
\* itself, so its own slot stays None (168) and the unwrap at 510 panics
\* the ECHO task, which drops the frame.
PeerKeyKnown(o, j) == BagIn(o, Multicast(j, [k \in Node |-> k]))

HandleEcho(o, m) ==
    LET r == m.rnd IN
    /\ m.type = "ECHO" /\ m.to = o /\ Alive(o)
    /\ net' = BagRemove(net, m)
    /\ IF PeerKeyKnown(o, m.from)
          /\ VerifySignature(hashSlot[o][o][r], m.from, m.sig)
       THEN /\ echoList' = [echoList EXCEPT ![o][r] = AppendEcho(@, m.from)]
            /\ checking' = checking \cup {[at |-> o, from |-> m.from, rnd |-> r]}
       ELSE UNCHANGED <<echoList, checking>>
    /\ UNCHANGED <<round, hashSlot, sentEcho, sentFin, sentSup, delivered,
                   supCnt, storing, selfSup, crashed>>

\* handle_echo_msg under the sent_fin lock: on the first quorum, mark
\* sent_fin[r], multicast FIN with the echo_list[r] snapshot and SUP with
\* originator = self; the own SUP count follows in EchoSelfSup.
CheckEcho(t) ==
    LET o == t.at
        r == t.rnd
    IN
    /\ Alive(o)
    /\ checking' = checking \ {t}
    /\ IF r \notin sentFin[o] /\ GotEnoughEcho(echoList[o][r])
       THEN /\ sentFin' = [sentFin EXCEPT ![o] = @ \cup {r}]
            /\ net' = net
                      (+) Multicast(o, [k \in Node |-> FinMsg(o, k, r, echoList[o][r])])
                      (+) Multicast(o, [k \in Node |-> SupMsg(k, o, r)])
            /\ selfSup' = selfSup \cup {[at |-> o, rnd |-> r]}
       ELSE UNCHANGED <<sentFin, net, selfSup>>
    /\ UNCHANGED <<round, hashSlot, sentEcho, echoList, sentSup, delivered,
                   supCnt, storing, crashed>>

\* The end of handle_echo_msg: recv_sup_cnt[self][r] += 1, with no
\* delivery check.
EchoSelfSup(t) ==
    /\ Alive(t.at)
    /\ supCnt' = [supCnt EXCEPT ![t.at][t.at][t.rnd] = @ + 1]
    /\ selfSup' = selfSup \ {t}
    /\ UNCHANGED <<round, hashSlot, sentEcho, echoList, sentFin, sentSup,
                   delivered, net, storing, checking, crashed>>

\* handle_fin_msg: mark sent_sup[s][r] first; drop if the hash slot does
\* not exist; count valid signatures; on a quorum count self and unicast
\* SUP (originator s) to every other peer.
HandleFin(i, m) ==
    LET s == m.from
        r == m.rnd
        slot == hashSlot[i][s][r]
    IN
    /\ m.type = "FIN" /\ m.to = i /\ Alive(i)
    /\ IF r \notin sentSup[i][s]
       THEN /\ sentSup' = [sentSup EXCEPT ![i][s] = @ \cup {r}]
            /\ IF slot # "none" /\ ValidSignatures(i, slot, m.signs) >= Quorum
               THEN /\ supCnt' = [supCnt EXCEPT ![i][s][r] = @ + 1]
                    /\ net' = BagRemove(net, m)
                              (+) Multicast(i, [k \in Node |-> SupMsg(k, s, r)])
               ELSE /\ net' = BagRemove(net, m)
                    /\ UNCHANGED supCnt
       ELSE /\ net' = BagRemove(net, m)
            /\ UNCHANGED <<sentSup, supCnt>>
    /\ UNCHANGED <<round, hashSlot, sentEcho, echoList, sentFin, delivered,
                   storing, checking, selfSup, crashed>>

\* handle_sup_msg: count the SUP; deliver on the first count >= 2f+1.
HandleSup(i, m) ==
    LET o == m.orig
        r == m.rnd
        cnt == supCnt[i][o][r] + 1
    IN
    /\ m.type = "SUP" /\ m.to = i /\ Alive(i)
    /\ net' = BagRemove(net, m)
    /\ supCnt' = [supCnt EXCEPT ![i][o][r] = cnt]
    /\ delivered' = IF r \notin delivered[i][o] /\ cnt >= Quorum
                    THEN [delivered EXCEPT ![i][o] = @ \cup {r}]
                    ELSE delivered
    /\ UNCHANGED <<round, hashSlot, sentEcho, echoList, sentFin, sentSup,
                   storing, checking, selfSup, crashed>>

\* A process stops: its tasks never run again, frames to it stay unread.
Crash(i) ==
    /\ Alive(i)
    /\ Cardinality(crashed) < MaxCrashes
    /\ crashed' = crashed \cup {i}
    /\ UNCHANGED <<round, hashSlot, sentEcho, echoList, sentFin, sentSup,
                   delivered, supCnt, net, storing, checking, selfSup>>

\* The model's horizon: every proposer has proposed its MaxRound rounds and
\* no live node has a frame or a task left.  The program itself would keep
\* ticking; the model stutters here instead of reporting a deadlock.
HorizonEnd ==
    /\ \A o \in Node : round[o] = RoundCap[o] \/ ~Alive(o)
    /\ \A m \in BagToSet(net) : ~Alive(m.to)
    /\ \A t \in storing \cup checking \cup selfSup : ~Alive(t.at)
    /\ UNCHANGED vars

Next ==
    \/ \E o \in Node : Propose(o)
    \/ \E m \in BagToSet(net) : HandleSend(m.to, m)
    \/ \E t \in storing : StoreSend(t)
    \/ \E m \in BagToSet(net) : HandleEcho(m.to, m)
    \/ \E t \in checking : CheckEcho(t)
    \/ \E t \in selfSup : EchoSelfSup(t)
    \/ \E m \in BagToSet(net) : HandleFin(m.to, m)
    \/ \E m \in BagToSet(net) : HandleSup(m.to, m)
    \/ \E i \in Node : Crash(i)
    \/ HorizonEnd

\* The tokio runtime eventually polls every spawned task, the transport
\* delivers every frame to a live peer, and the interval keeps ticking.
Fairness ==
    /\ \A o \in Node : WF_vars(Propose(o))
    /\ WF_vars(\E m \in BagToSet(net) : HandleSend(m.to, m))
    /\ WF_vars(\E t \in storing : StoreSend(t))
    /\ WF_vars(\E m \in BagToSet(net) : HandleEcho(m.to, m))
    /\ WF_vars(\E t \in checking : CheckEcho(t))
    /\ WF_vars(\E t \in selfSup : EchoSelfSup(t))
    /\ WF_vars(\E m \in BagToSet(net) : HandleFin(m.to, m))
    /\ WF_vars(\E m \in BagToSet(net) : HandleSup(m.to, m))

Spec == Init /\ [][Next]_vars /\ Fairness

-----------------------------------------------------------------------------
(* Properties.                                                             *)

Msg ==
    [type : {"SEND"}, from : Node, to : Node, rnd : Round]
    \cup [type : {"ECHO"}, from : Node, to : Node, rnd : Round, sig : Node]
    \cup [type : {"SUP"}, to : Node, orig : Node, rnd : Round]

TypeOK ==
    /\ round \in [Node -> 0..MaxRound]
    /\ hashSlot \in [Node -> [Node -> [Round -> {"none", "empty", "set"}]]]
    /\ sentEcho \in [Node -> [Node -> SUBSET Round]]
    /\ \A i \in Node, r \in Round :
           IsABag(echoList[i][r]) /\ BagToSet(echoList[i][r]) \subseteq Node
    /\ sentFin \in [Node -> SUBSET Round]
    /\ sentSup \in [Node -> [Node -> SUBSET Round]]
    /\ delivered \in [Node -> [Node -> SUBSET Round]]
    /\ supCnt \in [Node -> [Node -> [Round -> Nat]]]
    /\ IsABag(net)
    /\ \A m \in BagToSet(net) : m \in Msg \/ (m.type = "FIN" /\ IsABag(m.signs))
    /\ storing \subseteq [at : Node, from : Node, rnd : Round]
    /\ checking \subseteq [at : Node, from : Node, rnd : Round]
    /\ selfSup \subseteq [at : Node, rnd : Round]
    /\ crashed \subseteq Node

\* P1 and the EchoCollector contract, for every honest originator and
\* honest signer: an entry of echo_list[r] at the originator is the
\* signature of a node that really signed (o, r) (the originator itself,
\* or a node that set sent_echo for it), and no honest signer appears
\* twice.  append_echo does not deduplicate, so this rests on sent_echo at
\* every peer, on the sender task never sending to self, and, against
\* Byzantine peers that name an honest sender, on verify_signature.
EchoCollectorSound ==
    \A o \in Node \ Faulty, r \in Round :
        \A j \in BagToSet(echoList[o][r]) \ Faulty :
            /\ CopiesIn(j, echoList[o][r]) = 1
            /\ j = o \/ r \in sentEcho[j][o]

SupportsFor(i, o, r) ==
    supCnt[i][o][r]
      + MapThenSumSet(LAMBDA m : CopiesIn(m, net),
                      {m \in BagToSet(net) : m.type = "SUP" /\ m.to = i
                                             /\ m.orig = o /\ m.rnd = r})
      + (IF i = o /\ [at |-> i, rnd |-> r] \in selfSup THEN 1 ELSE 0)

SupportBound ==
    \A i, o \in Node, r \in Round : SupportsFor(i, o, r) <= N

\* I4 of the spec: once a node emitted its ECHO for (s, r), the payload
\* and digest of (s, r) are stored.  handle_send_msg stores them only after
\* sending the ECHO.
EchoImpliesStored ==
    \A i, s \in Node, r \in Round :
        r \in sentEcho[i][s] => hashSlot[i][s][r] = "set"

\* The detailed state machine implements Broadcast: rounds are proposed
\* in order, certified once by the FIN, and delivered only when certified,
\* never undelivered.
BC == INSTANCE Broadcast WITH proposed <- round, certified <- sentFin,
                             delivered <- delivered
BroadcastRefined == BC!Spec

\* Every round a live originator proposes reaches its FIN: the ECHO
\* handlers of the originator eventually see echo_list[r] at the
\* threshold while sent_fin[r] is unset.
FinEventually ==
    \A o \in Proposer, r \in Round :
        (r < round[o] /\ Alive(o)) ~> (r \in sentFin[o] \/ ~Alive(o))

\* Spec section 1: if one honest node delivers (o, r), every live node
\* eventually does.
Totality ==
    \A o \in Proposer, r \in Round :
        (\E i \in Node : r \in delivered[i][o])
            ~> (\A j \in Node : r \in delivered[j][o] \/ ~Alive(j))

\* Validity, as spec scenario 1 expects of the happy path: a round that a
\* live originator proposed is eventually delivered by the originator.
Validity ==
    \A o \in Proposer, r \in Round :
        (r < round[o]) ~> (r \in delivered[o][o] \/ ~Alive(o))
=============================================================================
