------------------------------ MODULE TaskLocks ------------------------------
(***************************************************************************)
(* The locks one sequencer node takes, and the order its tasks take them   *)
(* in (sequencer.rs).  The main loop (run_main_loop) dispatches the frames *)
(* of its receive queue one by one: it counts the bytes, handles a SYN     *)
(* inline under the write lock of peer_pkeys, and spawns one task for      *)
(* every SEND, ECHO, FIN and SUP.  The periodic proposer and the sender    *)
(* task run beside it; the sender task only counts bytes under          *)
(* bytes_sent in a short scope, so it never holds up another task.       *)
(*                                                                         *)
(* Every lock is a tokio Mutex or RwLock.  Both are fair: waiters are      *)
(* served first in, first out, and a task that asks while others wait       *)
(* queues behind them, so a queued writer holds back every later reader.   *)
(* A task's run is a sequence of lock steps: "acq" takes a lock and keeps  *)
(* it, "rel" gives it back, and "use" takes a lock and gives it back with  *)
(* no other lock asked for in between (a guard in a short scope).  Which   *)
(* path a handler takes (signature valid, enough echoes, hash found, ...)  *)
(* depends on data this module leaves out, so it is chosen freely when the *)
(* task is spawned.                                                         *)
(***************************************************************************)
EXTENDS Integers, Sequences, FiniteSets, SequencesExt

CONSTANTS Self,          \* self_node_ind
          Frames,        \* frames in the receive queue: [kind, id]
          Ticks,         \* proposer ticks
          MaxSigners     \* bound on the signers a FIN handler verifies

(* Lock names.  A per-originator vector lock is <<name, originator>>; a   *)
(* lock of the whole node carries the index -1.                           *)
Global(name) == <<name, -1>>
PK   == Global("peer_pkeys")      \* RwLock (131)
EL   == Global("echo_list")       \* RwLock (136)
SF   == Global("sent_fin")        \* Mutex (140)
TS   == Global("total_sent")      \* MeasureDs mutexes (24-29)
TR   == Global("total_recv")
BS   == Global("bytes_sent")
BR   == Global("bytes_recv")
RS   == Global("round_start")
DLAT == Global("deliver_latency")
HL(o)  == <<"hash_list", o>>      \* RwLock per originator (135)
TL(o)  == <<"tx_list", o>>        \* RwLock per originator (134)
SE(o)  == <<"sent_echo", o>>      \* Mutex per originator (139)
SS(o)  == <<"sent_sup", o>>       \* Mutex per originator (141)
DL(o)  == <<"delivered", o>>      \* RwLock per originator (144)
RSC(o) == <<"recv_sup_cnt", o>>   \* RwLock per originator (145)

Acq(l, m) == [op |-> "acq", lock |-> l, mode |-> m]
Rel(l)    == [op |-> "rel", lock |-> l, mode |-> "w"]
Use(l, m) == [op |-> "use", lock |-> l, mode |-> m]
Spawn     == [op |-> "spawn", lock |-> Global("none"), mode |-> "w"]

(* [i \in 1..k |-> s] *)
Rep(s, k) == [i \in 1..k |-> s]

-----------------------------------------------------------------------------
(* The runs of each task, one sequence per path through its code.         *)

(* MeasureDs::append_round: total_sent then bytes_sent, total_recv then *)
(* bytes_recv, then round_start                                          *)
AppendRound ==
    << Acq(TS, "w"), Use(BS, "w"), Rel(TS),
       Acq(TR, "w"), Use(BR, "w"), Rel(TR), Use(RS, "w") >>

(* MeasureDs::measure_latency: deliver_latency then round_start *)
MeasureLatency == << Acq(DLAT, "w"), Use(RS, "w"), Rel(DLAT) >>

(* One tick of spawn_periodic_sender: append_round, then push to         *)
(* tx_list[self] and hash_list[self] and append the own echo             *)
ProposerTick ==
    AppendRound \o << Use(TL(Self), "w"), Use(HL(Self), "w"), Use(EL, "w") >>

(* handle_send_msg: a repeated SEND stops at the sent_echo test *)
SendPaths(s) ==
    { << Use(SE(s), "w") >>,
      << Use(SE(s), "w"), Use(TL(s), "w"), Use(HL(s), "w") >> }

(* handle_echo_msg: verify under peer_pkeys then hash_list[self]; a bad  *)
(* signature, or a panic on a missing key or round, ends here.  Then      *)
(* append, and under sent_fin test the flag and the echo count.           *)
EchoVerify == << Acq(PK, "r"), Use(HL(Self), "r"), Rel(PK) >>
EchoAppend == EchoVerify \o << Use(EL, "w"), Acq(SF, "w") >>
EchoPaths ==
    { EchoVerify,
      EchoAppend \o << Rel(SF) >>,
      EchoAppend \o << Use(EL, "r"), Rel(SF) >>,
      EchoAppend \o << Use(EL, "r"), Rel(SF), Use(EL, "r"),
                       Acq(DL(Self), "w"), Use(RSC(Self), "w"), Rel(DL(Self)) >> }

(* handle_fin_msg: test-and-set sent_sup, then hold hash_list[sender]    *)
(* for reading while it takes peer_pkeys once per signer other than self *)
(* (k of them).  With a quorum it counts its own support and reads        *)
(* tx_list[sender] for every peer that did not sign (a before its own     *)
(* index, b after).                                                       *)
(* Mutant: the FIN handler reads the hash list by its own index, as the  *)
(* ECHO handler does, instead of by the FIN's sender                      *)
FinVerifyOwnHash(s, k) ==
    << Use(SS(s), "w"), Acq(HL(Self), "r") >> \o Rep(Use(PK, "r"), k) \o << Rel(HL(Self)) >>

FinVerify(s, k) ==
    << Use(SS(s), "w"), Acq(HL(s), "r") >> \o Rep(Use(PK, "r"), k) \o << Rel(HL(s)) >>
FinPaths(s) ==
    { <<>>, << Use(SS(s), "w") >> }
    \cup { FinVerify(s, k) : k \in 0..MaxSigners }
    \cup { FinVerify(s, k) \o Rep(Use(TL(s), "r"), a)
             \o << Acq(DL(s), "w"), Use(RSC(s), "w"), Rel(DL(s)) >>
             \o Rep(Use(TL(s), "r"), b) :
           k \in 0..MaxSigners, a \in 0..1, b \in 0..1 }

(* handle_sup_msg: delivered[o] then recv_sup_cnt[o]; delivering its own *)
(* round, it records the latency under both.                             *)
SupPaths(o) ==
    { << Acq(DL(o), "w"), Use(RSC(o), "w"), Rel(DL(o)) >> }
    \cup (IF o = Self
          THEN { << Acq(DL(o), "w"), Acq(RSC(o), "w") >> \o MeasureLatency
                   \o << Rel(RSC(o)), Rel(DL(o)) >> }
          ELSE {})

Paths(f) ==
    CASE f.kind = "Send" -> SendPaths(f.id)
      [] f.kind = "Echo" -> EchoPaths
      [] f.kind = "Fin"  -> FinPaths(f.id)
      [] f.kind = "Sup"  -> SupPaths(f.id)

(* run_main_loop for one frame: count its bytes, then the SYN arm under  *)
(* the write lock of peer_pkeys, or spawn the handler task               *)
MainRun(f) ==
    << Use(BR, "w") >> \o (IF f.kind = "Syn" THEN << Use(PK, "w") >> ELSE << Spawn >>)

-----------------------------------------------------------------------------
MainLoop   == [kind |-> "Main", id |-> Self]
Proposer   == [kind |-> "Proposer", id |-> Self]
Task == Frames \cup {MainLoop, Proposer}

(* Every step some run of task t may take *)
StepsOf(t) ==
    CASE t = MainLoop -> UNION { ToSet(MainRun(f)) : f \in Frames }
      [] t = Proposer -> ToSet(ProposerTick)
      [] t.kind = "Syn" -> {}
      [] OTHER        -> UNION { ToSet(p) : p \in Paths(t) }

(* The locks one task may keep while another task asks for them.  Any    *)
(* other lock is only ever taken in a short scope, or by one task alone, *)
(* so it never makes a task wait, and its steps are left out of a run.   *)
Contended ==
    { l \in {s.lock : s \in UNION {StepsOf(t) : t \in Task}} :
        \E t1, t2 \in Task :
            /\ t1 # t2
            /\ \E s \in StepsOf(t1) : s.lock = l /\ s.op = "acq"
            /\ \E s \in StepsOf(t2) : s.lock = l }
Trim(p) == SelectSeq(p, LAMBDA s : s.lock \in Contended \/ s.op = "spawn")
MainArm(f) == Trim(MainRun(f))

Locks == {PK, EL, SF, TS, TR, BS, BR, RS, DLAT}
         \cup { <<n, o>> : n \in {"hash_list", "tx_list", "sent_echo", "sent_sup",
                                 "delivered", "recv_sup_cnt"},
                          o \in {f.id : f \in Frames} \cup {Self} }

VARIABLES inbox,    \* frames not yet taken from rx_recv
          cur,      \* the frame the main loop is dispatching
          prog,     \* prog[t]: the run task t follows
          pc,       \* pc[t]: its next step
          readers,  \* readers[l]: tasks holding l for reading
          writer,   \* writer[l]: the task holding l exclusively, or {}
          queue     \* queue[l]: <<task, mode>> waiting for l, oldest first

vars == <<inbox, cur, prog, pc, readers, writer, queue>>

Step(t) == prog[t][pc[t]]
Running(t) == pc[t] <= Len(prog[t])

(* A lock is free for a reader when nobody writes it, for a writer when   *)
(* nobody holds it at all                                                 *)
Free(l, m) == writer[l] = {} /\ (m = "w" => readers[l] = {})

Queued(t) == \E l \in Locks : \E i \in 1..Len(queue[l]) : queue[l][i][1] = t

Init ==
    /\ inbox = Frames
    /\ cur = MainLoop
    /\ prog = [t \in Task |->
                 IF t = Proposer THEN Trim(FlattenSeq(Rep(ProposerTick, Ticks)))
                 ELSE <<>>]
    /\ pc = [t \in Task |-> 1]
    /\ readers = [l \in Locks |-> {}]
    /\ writer = [l \in Locks |-> {}]
    /\ queue = [l \in Locks |-> <<>>]

(* Taking lock l for step s: "acq" keeps it, "use" gives it back at once *)
Take(t, s) ==
    /\ readers' = IF s.op = "acq" /\ s.mode = "r"
                  THEN [readers EXCEPT ![s.lock] = @ \cup {t}] ELSE readers
    /\ writer' = IF s.op = "acq" /\ s.mode = "w"
                 THEN [writer EXCEPT ![s.lock] = {t}] ELSE writer
    /\ pc' = [pc EXCEPT ![t] = @ + 1]

(* run_main_loop takes the next frame from rx_recv; frames of different  *)
(* connections arrive in any order                                       *)
Receive(f) ==
    /\ ~Running(MainLoop)
    /\ f \in inbox
    /\ inbox' = inbox \ {f}
    /\ cur' = f
    /\ prog' = [prog EXCEPT ![MainLoop] = MainArm(f)]
    /\ pc' = [pc EXCEPT ![MainLoop] = 1]
    /\ UNCHANGED <<readers, writer, queue>>

(* lock().await / read().await / write().await when nobody waits and the *)
(* lock is free: the task gets it at once                                *)
Acquire(t) ==
    /\ Running(t) /\ ~Queued(t)
    /\ Step(t).op \in {"acq", "use"}
    /\ queue[Step(t).lock] = <<>>
    /\ Free(Step(t).lock, Step(t).mode)
    /\ Take(t, Step(t))
    /\ UNCHANGED <<inbox, cur, prog, queue>>

(* ... otherwise the task joins the end of the lock's wait queue *)
Enqueue(t) ==
    /\ Running(t) /\ ~Queued(t)
    /\ Step(t).op \in {"acq", "use"}
    /\ LET l == Step(t).lock
       IN /\ queue[l] # <<>> \/ ~Free(l, Step(t).mode)
          /\ queue' = [queue EXCEPT ![l] = Append(@, <<t, Step(t).mode>>)]
    /\ UNCHANGED <<inbox, cur, prog, pc, readers, writer>>

(* The semaphore hands the lock to the oldest waiter once it is free *)
Grant(l) ==
    /\ queue[l] # <<>>
    /\ Free(l, Head(queue[l])[2])
    /\ queue' = [queue EXCEPT ![l] = Tail(@)]
    /\ Take(Head(queue[l])[1], Step(Head(queue[l])[1]))
    /\ UNCHANGED <<inbox, cur, prog>>

(* A guard goes out of scope or is dropped *)
Release(t) ==
    /\ Running(t)
    /\ Step(t).op = "rel"
    /\ readers' = [readers EXCEPT ![Step(t).lock] = @ \ {t}]
    /\ writer' = [writer EXCEPT ![Step(t).lock] = @ \ {t}]
    /\ pc' = [pc EXCEPT ![t] = @ + 1]
    /\ UNCHANGED <<inbox, cur, prog, queue>>

(* tokio::spawn of the handler task for the frame being dispatched *)
SpawnHandler ==
    /\ Running(MainLoop)
    /\ Step(MainLoop).op = "spawn"
    /\ \E p \in Paths(cur) :
          prog' = [prog EXCEPT ![cur] = Trim(p)]
    /\ pc' = [pc EXCEPT ![MainLoop] = @ + 1, ![cur] = 1]
    /\ UNCHANGED <<inbox, cur, readers, writer, queue>>

Next ==
    \/ \E f \in inbox : Receive(f)
    \/ \E t \in Task : Acquire(t) \/ Enqueue(t) \/ Release(t)
    \/ \E l \in Locks : Grant(l)
    \/ SpawnHandler

Spec == Init /\ [][Next]_vars

-----------------------------------------------------------------------------
(* A task waits for a lock it cannot get now *)
Blocked(t) ==
    \E l \in Locks : \E i \in 1..Len(queue[l]) :
        /\ queue[l][i][1] = t
        /\ (i > 1 \/ ~Free(l, queue[l][i][2]))

(* Spec 5 (shared-resource policy): the lock discipline of the node is   *)
(* deadlock free.  Whatever order frames are dispatched in and tasks are *)
(* scheduled, it never happens that some task still has work and every   *)
(* such task, the main loop included, waits for a lock held or queued    *)
(* for by another of them.  A deadlock here stops the main loop, so the  *)
(* node handles no frame ever after.                                     *)
NoDeadlock ==
    ~ /\ \E t \in Task : Running(t)
      /\ inbox # {} => Running(MainLoop)
      /\ \A t \in Task : Running(t) => Blocked(t)
====
