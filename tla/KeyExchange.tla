----------------------------- MODULE KeyExchange -----------------------------
(***************************************************************************)
(* The peer key exchange of the sequencer and the two handlers that look   *)
(* keys up (sequencer.rs).  At start the sender task greets every peer     *)
(* with a SYN carrying its public key before it sends anything else (236). *)
(* The main loop stores the key of a SYN (331-337) and panics on a second  *)
(* SYN from the same peer.  The ECHO handler unwraps the key of the ECHO's *)
(* sender (510); the FIN handler unwraps the key of every signer of the    *)
(* list (620).  A handler task that unwraps None panics, and the frame is  *)
(* lost with it.                                                           *)
(*                                                                         *)
(* The transport is FIFO and at-most-once per connection, and a connection *)
(* dies with either end: chan[j][i] is the queue of frames from j to i.    *)
(* The main loop of a node takes frames of different connections in any    *)
(* order.  A restarted process runs main again: Sequencer::new makes a new *)
(* key pair and empty key table, and the sender task greets every peer.    *)
(* Its peers greeted only once, at their own start.                        *)
(*                                                                         *)
(* Payloads and rounds are left out: each originator makes one round, and  *)
(* a signature is the key of the incarnation that made it, so it verifies  *)
(* exactly against that key.                                               *)
(***************************************************************************)
EXTENDS Naturals, Sequences, FiniteSets, SequencesExt

CONSTANTS Node,        \* the address book
          Proposer,    \* originators whose round is followed
          MaxRestarts  \* bound on process restarts

None == [node |-> "none", inc |-> 0]

VARIABLES up,        \* the process runs
          inc,       \* inc[n]: how many times n has been started
          mainUp,    \* the main-loop task of n has not panicked
          pkeys,     \* pkeys[i][j]: peer_pkeys[j] at i
          chan,      \* chan[j][i]: frames in flight from j to i, in order
          proposed,  \* proposed[o]: o's proposer has sent its round-0 SEND
          sentEcho,  \* sentEcho[j]: originators j has echoed (sent_echo[o][0])
          echoes,    \* echoes[o]: signers in echo_list at o, with their key
          finSent,   \* sent_fin at o
          panics,    \* handler tasks that panicked: [at, inc, kind]
          restarts

vars == <<up, inc, mainUp, pkeys, chan, proposed, sentEcho, echoes, finSent, panics, restarts>>

Key(n) == [node |-> n, inc |-> inc[n]]

Syn(n)  == [type |-> "SYN", key |-> Key(n)]
Echo(n) == [type |-> "ECHO", key |-> Key(n)]
Fin(signs) == [type |-> "FIN", key |-> None, signs |-> signs]
Send    == [type |-> "SEND", key |-> None]

Peers(n) == Node \ {n}

(* Sequencer::new (peer_pkeys all None) and spawn_sender's greeting: the *)
(* SYN is the first frame on every connection the node opens.            *)
Init ==
    /\ up = [n \in Node |-> TRUE]
    /\ inc = [n \in Node |-> 1]
    /\ mainUp = [n \in Node |-> TRUE]
    /\ pkeys = [i \in Node |-> [j \in Node |-> None]]
    /\ chan = [j \in Node |-> [i \in Node |->
                 IF i = j THEN <<>> ELSE << [type |-> "SYN", key |-> [node |-> j, inc |-> 1]] >>]]
    /\ proposed = [n \in Node |-> FALSE]
    /\ sentEcho = [n \in Node |-> {}]
    /\ echoes = [n \in Node |-> {}]
    /\ finSent = [n \in Node |-> FALSE]
    /\ panics = {}
    /\ restarts = 0

(* A frame put on the connection from j to i; with i down it is lost *)
Put(c, j, i, m) == IF up[i] THEN [c EXCEPT ![j][i] = Append(@, m)] ELSE c

(* Mutant: the frames of one connection are handed over in any order *)
DeliverableAny(j, i) == DOMAIN chan[j][i]

(* The transport hands over the frames of a connection in order *)
Deliverable(j, i) == IF chan[j][i] = <<>> THEN {} ELSE {1}

(* The proposer's first tick (round 0) multicasts its SEND *)
Propose(o) ==
    /\ up[o] /\ o \in Proposer
    /\ ~proposed[o]
    /\ proposed' = [proposed EXCEPT ![o] = TRUE]
    /\ chan' = [k \in Node |-> [l \in Node |->
                  IF k = o /\ l # o /\ up[l] THEN Append(chan[k][l], Send) ELSE chan[k][l]]]
    /\ UNCHANGED <<up, inc, mainUp, pkeys, sentEcho, echoes, finSent, panics, restarts>>

(* handle_send_msg: the first SEND of (o, round 0) is echoed to o *)
HandleSend(o, i, c) ==
    /\ sentEcho' = [sentEcho EXCEPT ![i] = @ \cup {o}]
    /\ chan' = IF o \in sentEcho[i] THEN c ELSE Put(c, i, o, Echo(i))
    /\ UNCHANGED <<pkeys, mainUp, echoes, finSent, panics>>

(* The SYN arm of run_main_loop: store the key, or panic the main loop *)
HandleSyn(j, i, m) ==
    IF pkeys[i][j] = None
    THEN /\ pkeys' = [pkeys EXCEPT ![i][j] = m.key]
         /\ UNCHANGED <<mainUp, echoes, finSent, panics>>
    ELSE /\ mainUp' = [mainUp EXCEPT ![i] = FALSE]
         /\ UNCHANGED <<pkeys, echoes, finSent, panics>>

(* Multicast of the FIN from i to every live peer *)
PutFin(c, i, signs) ==
    [k \in Node |-> [l \in Node |->
        IF k = i /\ l # i /\ up[l] THEN Append(c[k][l], Fin(signs)) ELSE c[k][l]]]

(* handle_echo_msg: unwrap peer_pkeys[sender] (a panic on None), return  *)
(* on a bad signature, else append; the handler that brings echo_list to *)
(* num_nodes entries, its own echo included, marks sent_fin and          *)
(* multicasts the FIN with the list.                                     *)
HandleEcho(j, i, m, c) ==
    /\ UNCHANGED <<pkeys, mainUp>>
    /\ \/ /\ pkeys[i][j] = None
          /\ panics' = panics \cup {[at |-> i, inc |-> inc[i], kind |-> "echo"]}
          /\ chan' = c
          /\ UNCHANGED <<echoes, finSent>>
       \/ /\ pkeys[i][j] \notin {None, m.key}
          /\ chan' = c
          /\ UNCHANGED <<echoes, finSent, panics>>
       \/ /\ pkeys[i][j] = m.key
          /\ echoes' = [echoes EXCEPT ![i] = @ \cup {m.key}]
          /\ UNCHANGED panics
          /\ IF ~finSent[i] /\ Cardinality(echoes'[i]) + 1 = Cardinality(Node)
             THEN /\ finSent' = [finSent EXCEPT ![i] = TRUE]
                  /\ chan' = PutFin(c, i, echoes'[i] \cup {Key(i)})
             ELSE /\ UNCHANGED finSent
                  /\ chan' = c

(* handle_fin_msg's loop: every signer other than i has its key unwrapped *)
HandleFin(i, m, c) ==
    /\ chan' = c
    /\ panics' = IF \E k \in m.signs : k.node # i /\ pkeys[i][k.node] = None
                 THEN panics \cup {[at |-> i, inc |-> inc[i], kind |-> "fin"]}
                 ELSE panics
    /\ UNCHANGED <<pkeys, mainUp, echoes, finSent>>

(* run_main_loop takes the next frame from j off rx_recv *)
Receive(j, i) ==
    /\ up[i] /\ mainUp[i]
    /\ \E k \in Deliverable(j, i) :
         LET m == chan[j][i][k]
             c == [chan EXCEPT ![j][i] = RemoveAt(@, k)]
         IN CASE m.type = "SYN"  -> HandleSyn(j, i, m) /\ chan' = c /\ UNCHANGED sentEcho
              [] m.type = "SEND" -> HandleSend(j, i, c)
              [] m.type = "ECHO" -> HandleEcho(j, i, m, c) /\ UNCHANGED sentEcho
              [] m.type = "FIN"  -> HandleFin(i, m, c) /\ UNCHANGED sentEcho
    /\ UNCHANGED <<up, inc, proposed, restarts>>

(* The process stops; its connections close and what was in flight on   *)
(* them is lost                                                          *)
Crash(n) ==
    /\ up[n]
    /\ restarts < MaxRestarts
    /\ up' = [up EXCEPT ![n] = FALSE]
    /\ chan' = [j \in Node |-> [i \in Node |-> IF n \in {i, j} THEN <<>> ELSE chan[j][i]]]
    /\ UNCHANGED <<inc, mainUp, pkeys, proposed, sentEcho, echoes, finSent, panics, restarts>>

(* main runs again: Sequencer::new with a new key pair and no peer keys, *)
(* and spawn_sender greets every peer that is up                         *)
Restart(n) ==
    /\ ~up[n]
    /\ up' = [up EXCEPT ![n] = TRUE]
    /\ inc' = [inc EXCEPT ![n] = @ + 1]
    /\ mainUp' = [mainUp EXCEPT ![n] = TRUE]
    /\ pkeys' = [pkeys EXCEPT ![n] = [j \in Node |-> None]]
    /\ chan' = [j \in Node |-> [i \in Node |->
                  IF j = n /\ i # n /\ up[i]
                  THEN << [type |-> "SYN", key |-> [node |-> n, inc |-> inc[n] + 1]] >>
                  ELSE chan[j][i]]]
    /\ proposed' = [proposed EXCEPT ![n] = FALSE]
    /\ sentEcho' = [sentEcho EXCEPT ![n] = {}]
    /\ echoes' = [echoes EXCEPT ![n] = {}]
    /\ finSent' = [finSent EXCEPT ![n] = FALSE]
    /\ restarts' = restarts + 1
    /\ UNCHANGED panics

Next ==
    \/ \E o \in Node : Propose(o)
    \/ \E j, i \in Node : Receive(j, i)
    \/ \E n \in Node : Crash(n) \/ Restart(n)

Spec == Init /\ [][Next]_vars

-----------------------------------------------------------------------------
(* The ECHO handler's unwrap of peer_pkeys[sender] (510) never panics in *)
(* a node's first incarnation, whatever its peers do: the sender's SYN   *)
(* is the first frame of its connection and the main loop handles SYNs   *)
(* inline, so the key is stored before any ECHO of the sender is         *)
(* dispatched.  A restarted incarnation is excepted: nobody greets it    *)
(* again (236), so its table stays empty.                                *)
EchoKeyKnown == \A p \in panics : p.kind = "echo" => p.inc > 1

(* The FIN handler's unwrap of peer_pkeys[signer] (620) never panics:    *)
(* the spec drops a FIN it cannot verify and goes on.                    *)
FinKeysKnown == \A p \in panics : p.kind # "fin"

(* Spec 1: up to f nodes may fail.  A node that crashes and restarts     *)
(* never stops the main loop of a node that stayed up.                   *)
DispatcherSurvivesRestart == \A n \in Node : up[n] => mainUp[n]

====
