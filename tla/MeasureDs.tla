------------------------------ MODULE MeasureDs ------------------------------
(***************************************************************************)
(* The measurement store of one node (MeasureDs, sequencer.rs 23-120) and  *)
(* the tasks that touch it: the sender task counts the bytes of every      *)
(* frame it sends, the main loop the bytes of every frame it receives,     *)
(* the proposer closes a round at each tick with append_round, the SUP     *)
(* handler records the latency of an own round it delivers, and main       *)
(* writes the file on shutdown while all of them still run (main.rs        *)
(* 59-76: no cancellation, one second of sleep, then write_measurements). *)
(*                                                                         *)
(* Every tokio Mutex scope of a task is one action; append_round has      *)
(* three scopes and the writer holds total_sent, total_recv and           *)
(* deliver_latency from its first lock to its last line, so its locks of  *)
(* total_sent and total_recv are separate steps (main is a multi-thread  *)
(* tokio runtime, main.rs 14, so they interleave for real).  Instants are *)
(* abstracted: a measured latency is the value Measured, the padding of   *)
(* measure_latency is 0.                                                  *)
(***************************************************************************)
EXTENDS Naturals, Sequences, SequencesExt

CONSTANTS
    MaxRound,       \* ticks of the proposer in a behaviour
    MaxFrames,      \* frames counted by the sender task and by the main loop
    FrameLen,       \* possible lengths of a frame
    NumPeers,       \* peers a multicast frame goes to
    INF             \* the "INF" written for a round with no latency

ASSUME MaxRound \in Nat /\ MaxFrames \in Nat /\ NumPeers \in Nat \ {0}
ASSUME FrameLen \subseteq Nat \ {0} /\ INF \notin Nat

\* round_start[rn].elapsed().as_millis(): some positive number of
\* milliseconds, told apart only from the 0 that pads the vector.
Measured == 1

VARIABLES
    bytesSent, bytesRecv,  \* bytes_sent, bytes_recv
    totalSent, totalRecv,  \* total_sent, total_recv: one entry per tick
    roundStart,            \* round_start: number of Instants pushed
    deliverLatency,        \* deliver_latency
    arPc,                  \* where the proposer is in append_round
    delivered,             \* own rounds the SUP handler has delivered
    framesSent, framesRecv,\* frames counted so far (bounded)
    sentGhost, recvGhost,  \* every byte ever counted
    wHeld,                 \* the writer's locks
    file                   \* rows written, and how the write ended

vars == << bytesSent, bytesRecv, totalSent, totalRecv, roundStart,
           deliverLatency, arPc, delivered, framesSent, framesRecv,
           sentGhost, recvGhost, wHeld, file >>

Row == [lat : {0, Measured, INF}, sent : Nat, recv : Nat]

TypeOK ==
    /\ bytesSent \in Nat /\ bytesRecv \in Nat
    /\ totalSent \in Seq(Nat) /\ totalRecv \in Seq(Nat)
    /\ roundStart \in 0..MaxRound
    /\ deliverLatency \in Seq({0, Measured})
    /\ arPc \in {"tick", "recv", "start"}
    /\ delivered \subseteq 0..MaxRound
    /\ wHeld \subseteq {"total_sent", "total_recv"}
    /\ file \in [rows : Seq(Row), end : {"none", "ok", "panic"}]

Init ==
    /\ bytesSent = 0 /\ bytesRecv = 0
    /\ totalSent = << >> /\ totalRecv = << >>
    /\ roundStart = 0
    /\ deliverLatency = << >>
    /\ arPc = "tick"
    /\ delivered = {}
    /\ framesSent = 0 /\ framesRecv = 0
    /\ sentGhost = 0 /\ recvGhost = 0
    /\ wHeld = {}
    /\ file = [rows |-> << >>, end |-> "none"]

\* The process is still running until main has written the file.
Running == file.end = "none"

(***************************************************************************)
(* spawn_sender (233-250): incr_bytes_sent(len * peers) for a Multicast,  *)
(* incr_bytes_sent(len) for a Unicast.                                     *)
(***************************************************************************)
incr_bytes_sent(len) ==
    /\ bytesSent' = bytesSent + len
    /\ sentGhost' = sentGhost + len

SendFrame(len, multicast) ==
    /\ Running /\ framesSent < MaxFrames
    /\ incr_bytes_sent(IF multicast THEN len * NumPeers ELSE len)
    /\ framesSent' = framesSent + 1
    /\ UNCHANGED << bytesRecv, totalSent, totalRecv, roundStart,
                    deliverLatency, arPc, delivered, framesRecv, recvGhost,
                    wHeld, file >>

\* run_main_loop (327-329): incr_bytes_recv(bytes.len()) for each frame.
RecvFrame(len) ==
    /\ Running /\ framesRecv < MaxFrames
    /\ bytesRecv' = bytesRecv + len
    /\ recvGhost' = recvGhost + len
    /\ framesRecv' = framesRecv + 1
    /\ UNCHANGED << bytesSent, totalSent, totalRecv, roundStart,
                    deliverLatency, arPc, delivered, framesSent, sentGhost,
                    wHeld, file >>

(***************************************************************************)
(* append_round (52-67), called by the proposer at each tick (281-283).   *)
(***************************************************************************)
\* First scope: total_sent then bytes_sent; push and reset.
AppendSent ==
    /\ Running /\ arPc = "tick" /\ Len(totalSent) < MaxRound
    /\ "total_sent" \notin wHeld
    /\ totalSent' = Append(totalSent, bytesSent)
    /\ bytesSent' = 0
    /\ arPc' = "recv"
    /\ UNCHANGED << bytesRecv, totalRecv, roundStart, deliverLatency,
                    delivered, framesSent, framesRecv, sentGhost, recvGhost,
                    wHeld, file >>

\* Second scope: total_recv then bytes_recv; push and reset.
AppendRecv ==
    /\ Running /\ arPc = "recv"
    /\ "total_recv" \notin wHeld
    /\ totalRecv' = Append(totalRecv, bytesRecv)
    /\ bytesRecv' = 0
    /\ arPc' = "start"
    /\ UNCHANGED << bytesSent, totalSent, roundStart, deliverLatency,
                    delivered, framesSent, framesRecv, sentGhost, recvGhost,
                    wHeld, file >>

\* Third scope: push Instant::now() to round_start; the tick then
\* proposes round roundStart (285-310), which touches no measurement.
AppendStart ==
    /\ Running /\ arPc = "start"
    /\ roundStart' = roundStart + 1
    /\ arPc' = "tick"
    /\ UNCHANGED << bytesSent, bytesRecv, totalSent, totalRecv,
                    deliverLatency, delivered, framesSent, framesRecv,
                    sentGhost, recvGhost, wHeld, file >>

(***************************************************************************)
(* handle_sup_msg (701-706) delivers an own round rn once and calls       *)
(* measure_latency(rn) (69-76): pad deliver_latency with 0 up to rn, then *)
(* store the elapsed time.  The writer holds deliver_latency only in its  *)
(* last step, so the scope is never blocked here.                         *)
(***************************************************************************)
measure_latency(rn) ==
    LET padded == deliverLatency \o
                  [i \in 1..(rn + 1 - Len(deliverLatency)) |-> 0]
    IN  deliverLatency' = [padded EXCEPT ![rn + 1] = Measured]

DeliverOwn(rn) ==
    /\ Running /\ rn < roundStart /\ rn \notin delivered
    /\ delivered' = delivered \cup {rn}
    /\ measure_latency(rn)
    /\ UNCHANGED << bytesSent, bytesRecv, totalSent, totalRecv, roundStart,
                    arPc, framesSent, framesRecv, sentGhost, recvGhost,
                    wHeld, file >>

(***************************************************************************)
(* write_measurements (78-120) after ctrl_c and the one-second sleep:     *)
(* lock total_sent, lock total_recv, lock deliver_latency, then one row   *)
(* per entry of total_sent: the latency if deliver_latency has an entry   *)
(* for it, INF otherwise, and total_sent[i], total_recv[i].  Indexing     *)
(* total_recv past its end panics main; the rows before it are written.   *)
(***************************************************************************)
LockTotalSent ==
    /\ Running /\ wHeld = {}
    /\ wHeld' = {"total_sent"}
    /\ UNCHANGED << bytesSent, bytesRecv, totalSent, totalRecv, roundStart,
                    deliverLatency, arPc, delivered, framesSent, framesRecv,
                    sentGhost, recvGhost, file >>

LockTotalRecv ==
    /\ Running /\ wHeld = {"total_sent"}
    /\ wHeld' = {"total_sent", "total_recv"}
    /\ UNCHANGED << bytesSent, bytesRecv, totalSent, totalRecv, roundStart,
                    deliverLatency, arPc, delivered, framesSent, framesRecv,
                    sentGhost, recvGhost, file >>

RowOf(i) ==
    [lat  |-> IF Len(deliverLatency) > i THEN deliverLatency[i + 1] ELSE INF,
     sent |-> totalSent[i + 1],
     recv |-> totalRecv[i + 1]]

write_measurements ==
    /\ Running /\ wHeld = {"total_sent", "total_recv"}
    /\ LET n == IF Len(totalRecv) < Len(totalSent) THEN Len(totalRecv)
                ELSE Len(totalSent)
       IN  file' = [rows |-> [i \in 1..n |-> RowOf(i - 1)],
                    end  |-> IF n < Len(totalSent) THEN "panic" ELSE "ok"]
    /\ UNCHANGED << bytesSent, bytesRecv, totalSent, totalRecv, roundStart,
                    deliverLatency, arPc, delivered, framesSent, framesRecv,
                    sentGhost, recvGhost, wHeld >>

Next ==
    \/ \E len \in FrameLen, multicast \in BOOLEAN : SendFrame(len, multicast)
    \/ \E len \in FrameLen : RecvFrame(len)
    \/ AppendSent \/ AppendRecv \/ AppendStart
    \/ \E rn \in 0..MaxRound : DeliverOwn(rn)
    \/ LockTotalSent \/ LockTotalRecv \/ write_measurements

Spec == Init /\ [][Next]_vars

-----------------------------------------------------------------------------
\* Spec sections 4 and "Persisted state": once main has written the file,
\* it holds one line per round, showing INF exactly for the own rounds
\* that were never delivered, and the rows with the bytes still counted
\* account for every byte the sender task and the main loop counted.
MeasurementFileFaithful ==
    file.end # "none" =>
        /\ file.end = "ok"
        /\ \A i \in 1..Len(file.rows) :
               (file.rows[i].lat = INF) <=> (i - 1 \notin delivered)
        /\ FoldSeq(LAMBDA r, s : r.sent + s, 0, file.rows) + bytesSent
               = sentGhost
        /\ FoldSeq(LAMBDA r, s : r.recv + s, 0, file.rows) + bytesRecv
               = recvGhost
=============================================================================
