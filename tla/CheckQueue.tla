----------------------------- MODULE CheckQueue ------------------------------
(***************************************************************************)
(* The script check queue (checkqueue.h): a master thread adds checks,     *)
(* workers and then the master itself take them in batches, and the master *)
(* learns whether all passed.  Each critical section of m_mutex is one     *)
(* step; cond.wait ends one step and its wake-up begins another.  A check  *)
(* is an identity and a verdict, and the LIFO order of the vector, which   *)
(* "doesn't matter", is left open: a batch is any subset of its size.      *)
(***************************************************************************)
EXTENDS Integers, FiniteSets

CONSTANTS
  Masters,     \* threads that run ConnectBlock
  Workers,     \* the threads of StartWorkerThreads
  Checks,      \* the checks of all blocks, each added once
  Bad,         \* the checks whose operator() returns false
  nBatchSize

ASSUME CheckQueueAssumption ==
  /\ IsFiniteSet(Masters) /\ IsFiniteSet(Workers) /\ Masters \cap Workers = {}
  /\ IsFiniteSet(Checks) /\ Bad \subseteq Checks
  /\ nBatchSize \in Nat \ {0}

VARIABLES
  queue, nIdle, nTotal, fAllOk, nTodo,
  stop,      \* m_request_stop
  pc,        \* for each thread, where it stands
  batch,     \* for each thread, the checks that make up its nNow
  fOk,       \* for each thread, the local result
  mine,      \* for each master, the checks added under its controller
  verdict,   \* for each master, what Wait last returned
  used,      \* the checks ever added
  called,    \* the checks whose operator() was called
  pool       \* where the thread that starts and stops the workers stands

shared == <<queue, nIdle, nTotal, fAllOk, nTodo>>
local == <<batch, fOk>>
history == <<mine, used, called>>
vars == <<shared, stop, pc, local, verdict, history, pool>>

Threads == Masters \cup Workers

\* "outside" and "returned" are a master's, before and after its controller's work;
\* "off" is a worker's, before it starts and after it returns.
Inside == {"enter", "waiting", "woken", "working", "finish"}

MasterStates == Inside \cup {"outside", "adding", "returned"}
WorkerStates == Inside \cup {"off"}

Min2(a, b) == IF a < b THEN a ELSE b
Max2(a, b) == IF a < b THEN b ELSE a

Init ==
  /\ queue = {} /\ nIdle = 0 /\ nTotal = 0 /\ fAllOk = TRUE /\ nTodo = 0
  /\ stop = FALSE
  /\ pc = [t \in Threads |-> IF t \in Masters THEN "outside" ELSE "off"]
  /\ batch = [t \in Threads |-> {}] /\ fOk = [t \in Threads |-> TRUE]
  /\ mine = [m \in Masters |-> {}] /\ verdict = [m \in Masters |-> TRUE]
  /\ used = {} /\ called = {}
  /\ pool = "stopped"

(***************************************************************************)
(* Condition variables: the threads that wait on one are those of the set  *)
(* S whose pc is "waiting".                                                *)
(***************************************************************************)

Waiting(S) == {t \in S : pc[t] = "waiting"}

\* The program counters after notify_one and notify_all.
NotifyOne(S) ==
  IF Waiting(S) = {} THEN {pc} ELSE {[pc EXCEPT ![t] = "woken"] : t \in Waiting(S)}

NotifyAll(S) ==
  [t \in Threads |-> IF t \in Waiting(S) THEN "woken" ELSE pc[t]]

\* condition_variable::wait may return without a notification.
SpuriousWakeup(t) ==
  /\ pc[t] = "waiting"
  /\ pc' = [pc EXCEPT ![t] = "woken"]
  /\ UNCHANGED <<shared, stop, local, verdict, history, pool>>

(***************************************************************************)
(* Loop.  p, idle, total, ok and todo are the program counters and the     *)
(* shared counters at the head of the inner while.                         *)
(***************************************************************************)

\* Mutant of Return: fAllOk is not reset for the next block.
ReturnKeepsStatus(t, p, idle, total, ok, todo) ==
  /\ queue = {} /\ ~stop /\ t \in Masters /\ todo = 0
  /\ pc' = [p EXCEPT ![t] = "returned"]
  /\ verdict' = [verdict EXCEPT ![t] = ok]
  /\ nIdle' = idle /\ nTotal' = total - 1 /\ fAllOk' = ok /\ nTodo' = todo
  /\ batch' = [batch EXCEPT ![t] = {}]
  /\ UNCHANGED <<queue, fOk>>

Return(t, p, idle, total, ok, todo) ==
  /\ queue = {} /\ ~stop /\ t \in Masters /\ todo = 0
  /\ pc' = [p EXCEPT ![t] = "returned"]
  /\ verdict' = [verdict EXCEPT ![t] = ok]
  /\ nIdle' = idle /\ nTotal' = total - 1 /\ fAllOk' = TRUE /\ nTodo' = todo
  /\ batch' = [batch EXCEPT ![t] = {}]
  /\ UNCHANGED <<queue, fOk>>

CondWait(t, p, idle, total, ok, todo) ==
  /\ queue = {} /\ ~stop /\ ~(t \in Masters /\ todo = 0)
  /\ pc' = [p EXCEPT ![t] = "waiting"]
  /\ nIdle' = idle + 1 /\ nTotal' = total /\ fAllOk' = ok /\ nTodo' = todo
  /\ batch' = [batch EXCEPT ![t] = {}]
  /\ UNCHANGED <<queue, fOk, verdict>>

\* A stopped thread returns false and leaves nTotal as it is.
ReturnStopped(t, p, idle, total, ok, todo) ==
  /\ stop
  /\ pc' = [p EXCEPT ![t] = IF t \in Masters THEN "returned" ELSE "off"]
  /\ verdict' = IF t \in Masters THEN [verdict EXCEPT ![t] = FALSE] ELSE verdict
  /\ nIdle' = idle /\ nTotal' = total /\ fAllOk' = ok /\ nTodo' = todo
  /\ batch' = [batch EXCEPT ![t] = {}]
  /\ UNCHANGED <<queue, fOk>>

\* How many checks to take: smaller batches as the queue runs out.
NNow(idle, total) ==
  Max2(1, Min2(nBatchSize, Cardinality(queue) \div (total + idle + 1)))

\* Mutant of Take: the checks are copied to the batch and stay queued.
TakeCopies(t, p, idle, total, ok, todo) ==
  /\ queue # {} /\ ~stop
  /\ \E S \in SUBSET queue :
       /\ Cardinality(S) = NNow(idle, total)
       /\ batch' = [batch EXCEPT ![t] = S]
  /\ fOk' = [fOk EXCEPT ![t] = ok]
  /\ pc' = [p EXCEPT ![t] = "working"]
  /\ nIdle' = idle /\ nTotal' = total /\ fAllOk' = ok /\ nTodo' = todo
  /\ UNCHANGED <<queue, verdict>>

Take(t, p, idle, total, ok, todo) ==
  /\ queue # {} /\ ~stop
  /\ \E S \in SUBSET queue :
       /\ Cardinality(S) = NNow(idle, total)
       /\ batch' = [batch EXCEPT ![t] = S]
       /\ queue' = queue \ S
  /\ fOk' = [fOk EXCEPT ![t] = ok]
  /\ pc' = [p EXCEPT ![t] = "working"]
  /\ nIdle' = idle /\ nTotal' = total /\ fAllOk' = ok /\ nTodo' = todo
  /\ UNCHANGED verdict

Scan(t, p, idle, total, ok, todo) ==
  /\ \/ Return(t, p, idle, total, ok, todo)
     \/ CondWait(t, p, idle, total, ok, todo)
     \/ ReturnStopped(t, p, idle, total, ok, todo)
     \/ Take(t, p, idle, total, ok, todo)
  /\ UNCHANGED <<stop, history, pool>>

\* The first iteration.
Enter(t) ==
  /\ pc[t] = "enter"
  /\ Scan(t, pc, nIdle, nTotal + 1, fAllOk, nTodo)

\* cond.wait has the lock again.
Woken(t) ==
  /\ pc[t] = "woken"
  /\ Scan(t, pc, nIdle - 1, nTotal, fAllOk, nTodo)

\* Mutant of Finish: a batch that passes hides an earlier failure.
FinishOverwrites(t) ==
  /\ pc[t] = "finish"
  /\ LET todo == nTodo - Cardinality(batch[t])
     IN  \E p \in IF todo = 0 /\ t \notin Masters THEN NotifyOne(Masters) ELSE {pc} :
           Scan(t, p, nIdle, nTotal, fOk[t], todo)

\* Mutant of Finish: the master is informed of the last check by nobody.
FinishSilent(t) ==
  /\ pc[t] = "finish"
  /\ Scan(t, pc, nIdle, nTotal, fAllOk /\ fOk[t], nTodo - Cardinality(batch[t]))

\* The clean-up of the previous iteration; a worker that finished the last check
\* informs the master.
Finish(t) ==
  /\ pc[t] = "finish"
  /\ LET todo == nTodo - Cardinality(batch[t])
     IN  \E p \in IF todo = 0 /\ t \notin Masters THEN NotifyOne(Masters) ELSE {pc} :
           Scan(t, p, nIdle, nTotal, fAllOk /\ fOk[t], todo)

\* The checks of the batch, in any order, until one fails; none when an earlier one
\* of the block already had.
Execute(t) ==
  /\ pc[t] = "working"
  /\ pc' = [pc EXCEPT ![t] = "finish"]
  /\ \/ /\ ~fOk[t]
        /\ UNCHANGED <<fOk, called>>
     \/ /\ fOk[t] /\ batch[t] \cap Bad = {}
        /\ called' = called \cup batch[t]
        /\ UNCHANGED fOk
     \/ /\ fOk[t]
        /\ \E b \in batch[t] \cap Bad : \E S \in SUBSET (batch[t] \ Bad) :
             called' = called \cup S \cup {b}
        /\ fOk' = [fOk EXCEPT ![t] = FALSE]
  /\ UNCHANGED <<shared, stop, batch, verdict, mine, used, pool>>

(***************************************************************************)
(* CCheckQueueControl, as ConnectBlock uses it.                            *)
(***************************************************************************)

\* The constructor takes m_control_mutex.
Control(m) ==
  /\ \A n \in Masters : pc[n] = "outside"
  /\ pool \in {"stopped", "started"}
  /\ pc' = [pc EXCEPT ![m] = "adding"]
  /\ UNCHANGED <<shared, stop, local, verdict, history, pool>>

Add(m, S) ==
  /\ pc[m] = "adding"
  /\ queue' = queue \cup S
  /\ nTodo' = nTodo + Cardinality(S)
  /\ IF Cardinality(S) = 1 THEN pc' \in NotifyOne(Workers) ELSE pc' = NotifyAll(Workers)
  /\ mine' = [mine EXCEPT ![m] = @ \cup S]
  /\ used' = used \cup S
  /\ UNCHANGED <<nIdle, nTotal, fAllOk, stop, local, verdict, called, pool>>

\* Wait, called by ConnectBlock or, after an early return, by the destructor.
Wait(m) ==
  /\ pc[m] = "adding"
  /\ pc' = [pc EXCEPT ![m] = "enter"]
  /\ UNCHANGED <<shared, stop, local, verdict, history, pool>>

\* The destructor releases m_control_mutex.
Release(m) ==
  /\ pc[m] = "returned"
  /\ pc' = [pc EXCEPT ![m] = "outside"]
  /\ mine' = [mine EXCEPT ![m] = {}]
  /\ UNCHANGED <<shared, stop, local, verdict, used, called, pool>>

(***************************************************************************)
(* StartWorkerThreads and StopWorkerThreads.  AppInitMain starts them      *)
(* before any other thread can connect a block, and Shutdown stops them    *)
(* when every such thread has been joined.                                 *)
(***************************************************************************)

NoMaster == \A m \in Masters : pc[m] = "outside"

StartWorkerThreads ==
  /\ pool = "stopped" /\ NoMaster
  /\ pool' = "started"
  /\ nIdle' = 0 /\ nTotal' = 0 /\ fAllOk' = TRUE
  /\ pc' = [t \in Threads |-> IF t \in Workers THEN "enter" ELSE pc[t]]
  /\ UNCHANGED <<queue, nTodo, stop, local, verdict, history>>

RequestStop ==
  /\ pool = "started" /\ NoMaster
  /\ pool' = "stopping" /\ stop' = TRUE
  /\ UNCHANGED <<shared, pc, local, verdict, history>>

\* Mutant of NotifyWorkers: one worker is notified.
NotifyOneWorker ==
  /\ pool = "stopping"
  /\ pool' = "joining" /\ pc' \in NotifyOne(Workers)
  /\ UNCHANGED <<shared, stop, local, verdict, history>>

NotifyWorkers ==
  /\ pool = "stopping"
  /\ pool' = "joining" /\ pc' = NotifyAll(Workers)
  /\ UNCHANGED <<shared, stop, local, verdict, history>>

JoinWorkers ==
  /\ pool = "joining" /\ \A w \in Workers : pc[w] = "off"
  /\ pool' = "stopped" /\ stop' = FALSE
  /\ UNCHANGED <<shared, pc, local, verdict, history>>

LoopStep(t) == Enter(t) \/ Woken(t) \/ Execute(t) \/ Finish(t)

Next ==
  \/ \E t \in Threads : LoopStep(t) \/ SpuriousWakeup(t)
  \/ \E m \in Masters :
       \/ Control(m) \/ Wait(m) \/ Release(m)
       \/ \E S \in SUBSET (Checks \ used) \ {{}} : Add(m, S)
  \/ StartWorkerThreads \/ RequestStop \/ NotifyWorkers \/ JoinWorkers

Spec == Init /\ [][Next]_vars

\* Threads inside Loop, and the thread in StopWorkerThreads, are scheduled.
FairSpec ==
  /\ Spec
  /\ \A t \in Threads : WF_vars(LoopStep(t))
  /\ WF_vars(NotifyWorkers) /\ WF_vars(JoinWorkers)

(***************************************************************************)
(* Properties.                                                             *)
(***************************************************************************)

\* Every variable has its type; in particular nTodo, an unsigned int, never wraps.
TypeOK ==
  /\ queue \subseteq Checks /\ nIdle \in Nat /\ nTotal \in Nat /\ nTodo \in Nat
  /\ fAllOk \in BOOLEAN /\ stop \in BOOLEAN
  /\ pc \in [Threads -> MasterStates \cup WorkerStates]
  /\ \A m \in Masters : pc[m] \in MasterStates
  /\ \A w \in Workers : pc[w] \in WorkerStates
  /\ batch \in [Threads -> SUBSET Checks] /\ fOk \in [Threads -> BOOLEAN]
  /\ mine \in [Masters -> SUBSET Checks] /\ verdict \in [Masters -> BOOLEAN]
  /\ used \subseteq Checks /\ called \subseteq Checks
  /\ pool \in {"stopped", "started", "stopping", "joining"}

\* What Wait returns to ConnectBlock is exact: it is true when, and only when, every
\* check added under this controller was called and passed, whichever threads took
\* them and whatever the previous block left behind.
VerdictExact ==
  \A m \in Masters : pc[m] = "returned" =>
    /\ verdict[m] = (mine[m] \cap Bad = {})
    /\ verdict[m] => mine[m] \subseteq called

\* "Test that checks are not called more than once" (checkqueue_tests.cpp): a check
\* that is still queued or in a batch not yet run has not been called, and is in one
\* place only.
CalledOnce ==
  /\ queue \cap called = {}
  /\ \A t \in Threads : pc[t] = "working" => batch[t] \cap called = {}
  /\ \A t \in Threads : queue \cap batch[t] = {}
  /\ \A t, u \in Threads : t # u => batch[t] \cap batch[u] = {}

\* When m_control_mutex is free nothing of the last block is left: no check queued, in
\* a batch or owed, and no failure remembered, so the next controller starts afresh.
NothingLeftOver ==
  NoMaster => /\ queue = {} /\ nTodo = 0 /\ fAllOk
              /\ \A t \in Threads : batch[t] = {}

\* The promise to ConnectBlock, workers and batches hidden.
controlState ==
  [m \in Masters |-> IF pc[m] \in Inside THEN "waiting" ELSE pc[m]]

Promise == INSTANCE ParallelCheck WITH control <- controlState

\* The queue implements ParallelCheck: one controller at a time, Wait returns the
\* conjunction of its checks, and, with Loop's threads scheduled, it does return.
ImplementsParallelCheck == Promise!Spec

\* StopWorkerThreads ends: every worker sees m_request_stop, also one that was about
\* to wait when it was set, and can be joined.
StopEnds == pool = "stopping" ~> pool = "stopped"

=============================================================================
