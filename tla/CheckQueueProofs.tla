-------------------------- MODULE CheckQueueProofs ---------------------------
(***************************************************************************)
(* The check queue's verdict is exact, no check is lost or called twice,   *)
(* and the queue implements ParallelCheck's safety part, for any number of *)
(* masters, workers and checks and any batch size.                         *)
(***************************************************************************)
EXTENDS CheckQueueLoop

\* Notification changes no count and no master's standing.
LEMMA NotifyFacts ==
  ASSUME TypeOK, NEW S \in SUBSET Threads, NEW p, p \in NotifyOne(S) \cup {NotifyAll(S), pc}
  PROVE  /\ p \in [Threads -> MasterStates \cup WorkerStates]
         /\ \A u \in Threads : p[u] = pc[u] \/ (pc[u] = "waiting" /\ p[u] = "woken")
         /\ Idlers(p) = Idlers(pc) /\ Joined(p) = Joined(pc)
<1>1. /\ p \in [Threads -> MasterStates \cup WorkerStates]
      /\ \A u \in Threads : p[u] = pc[u] \/ (pc[u] = "waiting" /\ p[u] = "woken")
  <2>1. "woken" \in MasterStates
    BY Zenon DEF MasterStates, Inside
  <2>2. CASE p = pc
    BY Zenon, <2>2 DEF TypeOK
  <2>3. CASE p = NotifyAll(S)
    BY Zenon, <2>1, <2>3 DEF TypeOK, NotifyAll, Waiting
  <2>4. CASE p \in NotifyOne(S) /\ p # pc
    <3>1. PICK v \in Waiting(S) : p = [pc EXCEPT ![v] = "woken"]
      BY Zenon, <2>4 DEF NotifyOne
    <3>2. v \in Threads /\ pc[v] = "waiting"
      BY Zenon DEF Waiting
    <3>. QED
      BY Zenon, <2>1, <3>1, <3>2 DEF TypeOK
  <2>. QED
    BY Zenon, <2>2, <2>3, <2>4
<1>. QED
  BY Zenon, <1>1 DEF Idlers, Joined

LEMMA FinishInv == ASSUME Inv, NEW t \in Threads, Finish(t) PROVE Inv'
<1>1. PICK b, ok, todo, idle, total :
        /\ b = [batch EXCEPT ![t] = {}] /\ ok = (fAllOk /\ fOk[t])
        /\ todo = nTodo - Cardinality(batch[t]) /\ idle = nIdle /\ total = nTotal
  BY Zenon
<1>2. pc[t] = "finish" /\ \E p \in NotifyOne(Masters) \cup {pc} : Scan(t, p, idle, total, ok, todo)
  BY Zenon, <1>1 DEF Finish
<1>3. PICK p \in NotifyOne(Masters) \cup {pc} : Scan(t, p, idle, total, ok, todo)
  BY Zenon, <1>2
<1>4. /\ p \in [Threads -> MasterStates \cup WorkerStates]
      /\ \A u \in Threads : p[u] = pc[u] \/ (pc[u] = "waiting" /\ p[u] = "woken")
      /\ Idlers(p) = Idlers(pc) /\ Joined(p) = Joined(pc)
  <2>1. Masters \in SUBSET Threads
    BY Zenon DEF Threads
  <2>2. p \in NotifyOne(Masters) \cup {NotifyAll(Masters), pc}
    BY Zenon, <1>3
  <2>. QED
    BY Zenon, <2>1, <2>2, NotifyFacts DEF Inv
<1>5. /\ p[t] = "finish" /\ pc[t] = "finish"
      /\ \A u \in Threads : p[u] \in {"working", "finish"} <=> pc[u] \in {"working", "finish"}
      /\ \A u \in Threads : p[u] = "working" <=> pc[u] = "working"
      /\ \A u \in Threads : p[u] = "finish" <=> pc[u] = "finish"
      /\ \A m \in Masters : p[m] = "outside" <=> pc[m] = "outside"
      /\ \A m \in Masters : p[m] \in Active <=> pc[m] \in Active
  BY Zenon, <1>2, <1>4 DEF Threads, Active, Inside
<1>6. /\ b \in [Threads -> SUBSET Checks] /\ b[t] = {}
      /\ \A u \in Threads : b[u] = IF u = t THEN {} ELSE batch[u]
      /\ \A S : [b EXCEPT ![t] = S] = [batch EXCEPT ![t] = S]
  BY Zenon, <1>1 DEF Inv, TypeOK
<1>7. /\ Pending(queue, b) = Pending(queue, batch) \ batch[t]
      /\ batch[t] \subseteq Pending(queue, batch)
  <2>1. batch \in [Threads -> SUBSET Checks] /\ Places(queue, batch, pc)
    BY Zenon DEF Inv, TypeOK
  <2>. QED
    BY Zenon, <1>1, <2>1, PendingClear
<1>8. todo = Cardinality(Pending(queue, b)) /\ todo \in Nat
  <2>1. Pending(queue, batch) \in SUBSET Checks /\ Pending(queue, b) \in SUBSET Checks
    BY <1>6 DEF Inv, TypeOK, Pending
  <2>2. Cardinality(Pending(queue, b)) = Cardinality(Pending(queue, batch)) - Cardinality(batch[t])
    BY Zenon, <1>7, <2>1, FiniteParts, CountPart
  <2>. QED
    BY ZenonT(60), <1>1, <2>1, <2>2, FiniteParts DEF Inv, Counts
<1>9. /\ idle \in Nat /\ idle = Cardinality(Idlers(p) \ {t})
      /\ total \in Nat /\ total >= Cardinality(Joined(p) \cup {t})
  <2>1. Idlers(pc) \ {t} = Idlers(pc) /\ Joined(pc) \cup {t} = Joined(pc)
    BY Zenon, <1>2 DEF Idlers, Joined
  <2>. QED
    BY Zenon, <1>1, <1>4, <2>1 DEF Inv, Counts, TypeOK
<1>10. /\ ok \in BOOLEAN
       /\ ok = TRUE => fAllOk = TRUE /\ fOk[t] = TRUE
       /\ ok = FALSE => fAllOk = FALSE \/ fOk[t] = FALSE
  BY Zenon, <1>1 DEF Inv, TypeOK
<1>11. Places(queue, b, p) /\ Busy(b, p, Threads \ {t}) /\ Calls(queue, b, p)
  BY <1>5, <1>6 DEF Inv, Places, Busy, Calls
<1>12. Owner(queue, b, p, ok)
  <2>1. Owner(queue, batch, pc, fAllOk) /\ batch[t] # {}
    BY Zenon, <1>5 DEF Inv, Busy
  <2>2. batch[t] \subseteq Pending(queue, batch)
    BY Zenon DEF Pending
  <2>3. ~ \A m \in Masters : pc[m] \notin Active
    BY Zenon, <2>1, <2>2 DEF Owner
  <2>4. ~ \A m \in Masters : p[m] \notin Active
    BY Zenon, <1>5, <2>3
  <2>5. Pending(queue, b) \subseteq Pending(queue, batch)
    BY Zenon, <1>7
  <2>. QED
    BY Zenon, <1>5, <2>1, <2>4, <2>5 DEF Owner
<1>13. Results(queue, b, p, ok)
  <2>1. ASSUME NEW m \in Masters, p[m] \in Active
        PROVE  /\ ok = TRUE => mine[m] \ Pending(queue, b) \subseteq called \ Bad
               /\ ok = FALSE => mine[m] \cap Bad # {}
               /\ \A u \in Threads : p[u] \in {"working", "finish"} /\ fOk[u] = FALSE =>
                    mine[m] \cap Bad # {}
    <3>1. /\ fAllOk = TRUE => mine[m] \ Pending(queue, batch) \subseteq called \ Bad
          /\ fAllOk = FALSE => mine[m] \cap Bad # {}
          /\ \A u \in Threads : pc[u] \in {"working", "finish"} /\ fOk[u] = FALSE =>
               mine[m] \cap Bad # {}
          /\ fOk[t] = TRUE => batch[t] \subseteq called \ Bad
      BY Zenon, <1>5, <2>1 DEF Inv, Results
    <3>. QED
      BY Zenon, <1>5, <1>7, <1>10, <3>1
  <2>2. \A u \in Threads : p[u] = "finish" /\ fOk[u] = TRUE => b[u] \subseteq called \ Bad
    BY ZenonT(60), <1>5, <1>6 DEF Inv, Results
  <2>. QED
    BY Zenon, <2>1, <2>2 DEF Results
<1>14. Head(t, b, p, idle, total, ok, todo)
  <2>1. p[t] \in Inside
    BY Zenon, <1>5 DEF Inside
  <2>. QED
    BY Zenon, <1>4, <1>6, <1>8, <1>9, <1>10, <1>11, <1>12, <1>13, <2>1 DEF Head, Inv
<1>. QED
  BY Zenon, <1>3, <1>14, ScanInv

(***************************************************************************)
(* The other steps.                                                        *)
(***************************************************************************)

\* A batch is run: what it calls was called by nobody, and its result is recorded.
LEMMA ExecuteInv == ASSUME Inv, NEW t \in Threads, Execute(t) PROVE Inv'
<1>1. /\ pc[t] = "working" /\ pc' = [pc EXCEPT ![t] = "finish"]
      /\ queue' = queue /\ nIdle' = nIdle /\ nTotal' = nTotal /\ fAllOk' = fAllOk
      /\ nTodo' = nTodo /\ stop' = stop /\ batch' = batch /\ verdict' = verdict
      /\ mine' = mine /\ used' = used /\ pool' = pool
  BY ZenonT(60) DEF Execute, shared
<1>2. /\ pc' \in [Threads -> MasterStates \cup WorkerStates]
      /\ \A u \in Threads : pc'[u] = IF u = t THEN "finish" ELSE pc[u]
  BY Zenon, <1>1 DEF Inv, TypeOK, MasterStates, Inside
<1>3. /\ \A m \in Masters : pc'[m] = "outside" <=> pc[m] = "outside"
      /\ \A m \in Masters : pc'[m] \in Active <=> pc[m] \in Active
      /\ \A m \in Masters : pc'[m] = "returned" <=> pc[m] = "returned"
      /\ \A w \in Workers : pc'[w] = "off" <=> pc[w] = "off"
      /\ \A u \in Threads : pc'[u] \in {"working", "finish"} <=> pc[u] \in {"working", "finish"}
      /\ \A u \in Threads : pc'[u] = "working" => pc[u] = "working" /\ u # t
  BY Zenon, <1>1, <1>2 DEF Threads, Active, Inside
<1>4. Idlers(pc') = Idlers(pc) /\ Joined(pc') = Joined(pc)
  BY Zenon, <1>1, <1>2 DEF Idlers, Joined
<1>5. /\ called \subseteq called' /\ called' \subseteq called \cup batch[t]
      /\ fOk' \in [Threads -> BOOLEAN]
      /\ \A u \in Threads : u # t => fOk'[u] = fOk[u]
      /\ fOk'[t] = TRUE => batch[t] \subseteq called' \ Bad
      /\ fOk'[t] = FALSE => fOk[t] = FALSE \/ batch[t] \cap Bad # {}
  <2>1. fOk \in [Threads -> BOOLEAN]
    BY Zenon DEF Inv, TypeOK
  <2>2. CASE ~fOk[t] /\ UNCHANGED <<fOk, called>>
    BY Zenon, <2>1, <2>2
  <2>3. CASE fOk[t] /\ batch[t] \cap Bad = {} /\ called' = called \cup batch[t] /\ UNCHANGED fOk
    BY Zenon, <2>1, <2>3
  <2>4. CASE /\ fOk' = [fOk EXCEPT ![t] = FALSE]
             /\ \E c \in batch[t] \cap Bad : \E S \in SUBSET (batch[t] \ Bad) :
                  called' = called \cup S \cup {c}
    BY Zenon, <2>1, <2>4
  <2>. QED
    BY ZenonT(60), <2>2, <2>3, <2>4 DEF Execute
<1>6. TypeOK' /\ Counts' /\ Stopping'
  <2>1. /\ \A m \in Masters : pc'[m] \in MasterStates
        /\ \A w \in Workers : pc'[w] \in WorkerStates
    BY Zenon, <1>1, <1>2 DEF Inv, TypeOK, Threads, MasterStates, WorkerStates, Inside
  <2>2. TypeOK'
    BY ZenonT(60), <1>1, <1>2, <1>5, <2>1 DEF Inv, TypeOK
  <2>3. Counts'
    BY Zenon, <1>1, <1>4 DEF Inv, Counts
  <2>4. Stopping'
    BY Zenon, <1>1, <1>3 DEF Inv, Stopping
  <2>. QED
    BY Zenon, <2>2, <2>3, <2>4
<1>7. Places(queue, batch, pc)' /\ Busy(batch, pc, Threads)'
  BY ZenonT(60), <1>1, <1>3 DEF Inv, Places, Busy
<1>8. Owner(queue, batch, pc, fAllOk)'
  BY <1>1, <1>3 DEF Inv, Owner
<1>9. Results(queue, batch, pc, fAllOk)'
  <2>1. ASSUME NEW m \in Masters, pc'[m] \in Active
        PROVE  /\ fAllOk = TRUE => mine[m] \ Pending(queue, batch) \subseteq called' \ Bad
               /\ fAllOk = FALSE => mine[m] \cap Bad # {}
               /\ \A u \in Threads : pc'[u] \in {"working", "finish"} /\ fOk'[u] = FALSE =>
                    mine[m] \cap Bad # {}
    <3>1. pc[m] \in Active
      BY Zenon, <1>3, <2>1
    <3>2. batch[t] \subseteq mine[m]
      BY <3>1 DEF Inv, Owner, Pending
    <3>3. /\ fAllOk = TRUE => mine[m] \ Pending(queue, batch) \subseteq called \ Bad
          /\ fAllOk = FALSE => mine[m] \cap Bad # {}
          /\ \A u \in Threads : pc[u] \in {"working", "finish"} /\ fOk[u] = FALSE =>
               mine[m] \cap Bad # {}
      BY Zenon, <3>1 DEF Inv, Results
    <3>. QED
      BY ZenonT(60), <1>1, <1>3, <1>5, <3>2, <3>3
  <2>2. \A u \in Threads : pc'[u] = "finish" /\ fOk'[u] = TRUE => batch[u] \subseteq called' \ Bad
    BY ZenonT(60), <1>2, <1>5 DEF Inv, Results
  <2>. QED
    BY Zenon, <1>1, <2>1, <2>2 DEF Results
<1>10. Calls(queue, batch, pc)'
  <2>1. called' \subseteq used /\ queue \cap called' = {}
    BY ZenonT(60), <1>5 DEF Inv, Calls, Places
  <2>2. \A u \in Threads : pc'[u] = "working" => batch[u] \cap called' = {}
    <3>1. SUFFICES ASSUME NEW u \in Threads, pc'[u] = "working"
                   PROVE  batch[u] \cap called' = {}
      BY Zenon
    <3>2. pc[u] = "working" /\ u # t
      BY Zenon, <1>3, <3>1
    <3>3. batch[u] \cap called = {}
      BY Zenon, <3>2 DEF Inv, Calls
    <3>4. batch[u] \cap batch[t] = {}
      BY Zenon, <3>2 DEF Inv, Places
    <3>. QED
      BY Zenon, <1>5, <3>3, <3>4
  <2>. QED
    BY Zenon, <1>1, <2>1, <2>2 DEF Inv, Calls
<1>11. VerdictExact'
  BY SMTT(60), <1>1, <1>3, <1>5 DEF Inv, VerdictExact
<1>. QED
  BY Zenon, <1>6, <1>7, <1>8, <1>9, <1>10, <1>11 DEF Inv

\* Steps that only move program counters among states of equal standing.
LEMMA StandingInv ==
  ASSUME Inv, UNCHANGED <<shared, local, verdict, history>>,
         pc' \in [Threads -> MasterStates \cup WorkerStates],
         \A u \in Threads : pc'[u] = pc[u] \/ (pc[u] = "waiting" /\ pc'[u] = "woken"),
         Stopping', stop' \in BOOLEAN,
         pool' \in {"stopped", "started", "stopping", "joining"}
  PROVE  Inv'
<1>1. /\ queue' = queue /\ nIdle' = nIdle /\ nTotal' = nTotal /\ fAllOk' = fAllOk
      /\ nTodo' = nTodo /\ batch' = batch /\ fOk' = fOk /\ verdict' = verdict
      /\ mine' = mine /\ used' = used /\ called' = called
  BY Zenon DEF shared, local, history
<1>2. /\ \A m \in Masters : pc'[m] = "outside" <=> pc[m] = "outside"
      /\ \A m \in Masters : pc'[m] \in Active <=> pc[m] \in Active
      /\ \A m \in Masters : pc'[m] = "returned" <=> pc[m] = "returned"
      /\ \A u \in Threads : pc'[u] \in {"working", "finish"} <=> pc[u] \in {"working", "finish"}
      /\ \A u \in Threads : pc'[u] = "working" <=> pc[u] = "working"
      /\ \A u \in Threads : pc'[u] = "finish" <=> pc[u] = "finish"
  BY Zenon DEF Threads, Active, Inside
<1>3. Idlers(pc') = Idlers(pc) /\ Joined(pc') = Joined(pc)
  BY Zenon DEF Idlers, Joined
<1>4. TypeOK'
  <2>1. /\ \A m \in Masters : pc'[m] \in MasterStates
        /\ \A w \in Workers : pc'[w] \in WorkerStates
    BY Zenon DEF Inv, TypeOK, Threads, MasterStates, WorkerStates, Inside
  <2>. QED
    BY Zenon, <1>1, <2>1 DEF Inv, TypeOK
<1>5. Counts'
  BY Zenon, <1>1, <1>3 DEF Inv, Counts
<1>6. Places(queue, batch, pc)' /\ Busy(batch, pc, Threads)'
  BY Zenon, <1>1, <1>2 DEF Inv, Places, Busy
<1>7. Owner(queue, batch, pc, fAllOk)'
  BY Zenon, <1>1, <1>2 DEF Inv, Owner
<1>8. Results(queue, batch, pc, fAllOk)'
  BY Zenon, <1>1, <1>2 DEF Inv, Results
<1>9. Calls(queue, batch, pc)'
  BY Zenon, <1>1, <1>2 DEF Inv, Calls
<1>10. VerdictExact'
  BY Zenon, <1>1, <1>2 DEF Inv, VerdictExact
<1>. QED
  BY Zenon, <1>4, <1>5, <1>6, <1>7, <1>8, <1>9, <1>10 DEF Inv

LEMMA SpuriousInv == ASSUME Inv, NEW t \in Threads, SpuriousWakeup(t) PROVE Inv'
<1>1. /\ pc' \in [Threads -> MasterStates \cup WorkerStates]
      /\ \A u \in Threads : pc'[u] = pc[u] \/ (pc[u] = "waiting" /\ pc'[u] = "woken")
  BY Zenon DEF SpuriousWakeup, Inv, TypeOK, MasterStates, Inside
<1>2. UNCHANGED <<shared, local, verdict, history>> /\ stop' = stop /\ pool' = pool
  BY Zenon DEF SpuriousWakeup
<1>3. Stopping'
  BY Zenon, <1>1, <1>2 DEF Inv, Stopping, Threads
<1>. QED
  BY ZenonT(60), <1>1, <1>2, <1>3, StandingInv DEF Inv, TypeOK

LEMMA StopStepsInv ==
  ASSUME Inv, RequestStop \/ NotifyWorkers \/ JoinWorkers PROVE Inv'
<1>1. UNCHANGED <<shared, local, verdict, history>>
  BY Zenon DEF RequestStop, NotifyWorkers, JoinWorkers
<1>2. Workers \in SUBSET Threads /\ Masters \in SUBSET Threads
  BY Zenon DEF Threads
<1>3. /\ pc' \in [Threads -> MasterStates \cup WorkerStates]
      /\ \A u \in Threads : pc'[u] = pc[u] \/ (pc[u] = "waiting" /\ pc'[u] = "woken")
  <2>1. CASE UNCHANGED pc
    BY Zenon, <2>1 DEF Inv, TypeOK
  <2>2. CASE pc' = NotifyAll(Workers)
    <3>1. \A p : p = NotifyAll(Workers) =>
            /\ p \in [Threads -> MasterStates \cup WorkerStates]
            /\ \A u \in Threads : p[u] = pc[u] \/ (pc[u] = "waiting" /\ p[u] = "woken")
      BY Zenon, <1>2, NotifyFacts DEF Inv
    <3>. QED
      BY Zenon, <2>2, <3>1
  <2>. QED
    BY Zenon, <2>1, <2>2 DEF RequestStop, NotifyWorkers, JoinWorkers
<1>4. Stopping' /\ stop' \in BOOLEAN /\ pool' \in {"stopped", "started", "stopping", "joining"}
  <2>1. CASE RequestStop
    BY Zenon, <2>1 DEF RequestStop, NoMaster, Inv, TypeOK, Stopping
  <2>2. CASE NotifyWorkers
    <3>1. stop' = stop /\ pool = "stopping" /\ pool' = "joining"
      BY Zenon, <2>2 DEF NotifyWorkers
    <3>. QED
      BY Zenon, <1>2, <1>3, <3>1 DEF Inv, TypeOK, Stopping
  <2>3. CASE JoinWorkers
    BY ZenonT(60), <2>3 DEF JoinWorkers, Inv, TypeOK, Stopping
  <2>. QED
    BY Zenon, <2>1, <2>2, <2>3
<1>. QED
  BY Zenon, <1>1, <1>3, <1>4, StandingInv

\* The steps of a controller that move its own program counter only.
LEMMA ControlStepsInv ==
  ASSUME Inv, NEW m \in Masters, Control(m) \/ Wait(m) \/ Release(m)
  PROVE  Inv'
<1>1. /\ queue' = queue /\ nIdle' = nIdle /\ nTotal' = nTotal /\ fAllOk' = fAllOk
      /\ nTodo' = nTodo /\ batch' = batch /\ fOk' = fOk /\ verdict' = verdict
      /\ used' = used /\ called' = called /\ stop' = stop /\ pool' = pool
  BY Zenon DEF Control, Wait, Release, shared, local, history
<1>2. PICK s : /\ pc' = [pc EXCEPT ![m] = s]
               /\ \/ pc[m] = "outside" /\ s = "adding" /\ mine' = mine /\ Control(m)
                  \/ pc[m] = "adding" /\ s = "enter" /\ mine' = mine
                  \/ pc[m] = "returned" /\ s = "outside" /\ mine' = [mine EXCEPT ![m] = {}]
  BY Zenon DEF Control, Wait, Release, history
<1>3. m \in Threads /\ Masters \cap Workers = {} /\ Threads = Masters \cup Workers
  BY Zenon, CheckQueueAssumption DEF Threads
<1>4. s \in MasterStates /\ s \notin {"waiting", "woken", "working", "finish", "returned"}
  BY Zenon, <1>2 DEF MasterStates, Inside
<1>5. pc[m] \notin {"waiting", "woken", "working", "finish"}
  BY Zenon, <1>2
<1>6. /\ pc' \in [Threads -> MasterStates \cup WorkerStates]
      /\ \A u \in Threads : pc'[u] = IF u = m THEN s ELSE pc[u]
  BY Zenon, <1>2, <1>3, <1>4 DEF Inv, TypeOK
<1>7. Idlers(pc') = Idlers(pc) /\ Joined(pc') = Joined(pc)
  BY Zenon, <1>4, <1>5, <1>6 DEF Idlers, Joined
<1>8. /\ mine' \in [Masters -> SUBSET Checks]
      /\ \A n \in Masters : n # m => mine'[n] = mine[n]
      /\ s # "outside" => mine'[m] = mine[m]
      /\ s = "outside" => mine'[m] = {}
  BY Zenon, <1>2 DEF Inv, TypeOK
<1>9. TypeOK'
  <2>1. /\ \A n \in Masters : pc'[n] \in MasterStates
        /\ \A w \in Workers : pc'[w] \in WorkerStates
    BY Zenon, <1>3, <1>4, <1>6 DEF Inv, TypeOK
  <2>. QED
    BY Zenon, <1>1, <1>6, <1>8, <2>1 DEF Inv, TypeOK
<1>10. Counts'
  BY Zenon, <1>1, <1>7 DEF Inv, Counts
<1>11. Stopping'
  <2>1. Control(m) => stop = FALSE
    BY Zenon DEF Control, Inv, Stopping, TypeOK
  <2>2. stop = TRUE => s = "outside"
    BY Zenon, <1>2, <1>3, <2>1 DEF Inv, Stopping
  <2>. QED
    BY Zenon, <1>1, <1>3, <1>6, <2>2 DEF Inv, Stopping
<1>12. Places(queue, batch, pc)' /\ Busy(batch, pc, Threads)'
  BY ZenonT(60), <1>1, <1>4, <1>5, <1>6 DEF Inv, Places, Busy
<1>13. \A n \in Masters : n # m => pc[n] = "outside"
  <2>1. CASE Control(m)
    BY Zenon, <2>1 DEF Control
  <2>2. CASE pc[m] # "outside"
    BY Zenon, <2>2 DEF Inv, Owner
  <2>. QED
    BY Zenon, <1>2, <2>1, <2>2
<1>14. (Pending(queue, batch) = {} /\ fAllOk = TRUE) \/ s = "enter"
  <2>1. CASE s # "enter"
    <3>1. \A n \in Masters : pc[n] \notin Active
      BY Zenon, <1>2, <1>13, <2>1 DEF Active, Inside
    <3>. QED
      BY Zenon, <3>1 DEF Inv, Owner
  <2>. QED
    BY ZenonT(60), <2>1
<1>15. Owner(queue, batch, pc, fAllOk)'
  BY Zenon, <1>1, <1>2, <1>3, <1>6, <1>8, <1>13, <1>14 DEF Inv, Owner, Active, Inside
<1>16. Results(queue, batch, pc, fAllOk)'
  <2>1. ASSUME NEW n \in Masters, pc'[n] \in Active
        PROVE  /\ fAllOk = TRUE => mine'[n] \ Pending(queue, batch) \subseteq called \ Bad
               /\ fAllOk = FALSE => mine'[n] \cap Bad # {}
               /\ \A u \in Threads : pc[u] \in {"working", "finish"} /\ fOk[u] = FALSE =>
                    mine'[n] \cap Bad # {}
    <3>1. n = m /\ s # "outside"
      BY Zenon, <1>3, <1>6, <1>13, <2>1 DEF Active, Inside
    <3>2. CASE s = "enter"
      BY Zenon, <1>2, <1>8, <3>1, <3>2 DEF Inv, Results, Active, Inside
    <3>3. CASE s = "adding"
      <4>1. Pending(queue, batch) = {} /\ fAllOk = TRUE
        BY Zenon, <1>14, <3>3
      <4>2. mine'[n] = {}
        BY Zenon, <1>2, <1>8, <3>1, <3>3 DEF Inv, Owner
      <4>3. \A u \in Threads : pc[u] \notin {"working", "finish"}
        BY Zenon, <4>1 DEF Inv, Busy, Pending
      <4>. QED
        BY Zenon, <4>1, <4>2, <4>3
    <3>. QED
      BY ZenonT(60), <1>2, <3>1, <3>2, <3>3
  <2>2. \A u \in Threads : pc'[u] \in {"working", "finish"} => pc'[u] = pc[u]
    BY Zenon, <1>4, <1>6
  <2>. QED
    BY ZenonT(60), <1>1, <2>1, <2>2 DEF Inv, Results
<1>17. Calls(queue, batch, pc)'
  BY Zenon, <1>1, <1>4, <1>6 DEF Inv, Calls
<1>18. VerdictExact'
  BY ZenonT(60), <1>1, <1>3, <1>4, <1>6, <1>8 DEF Inv, VerdictExact
<1>. QED
  BY Zenon, <1>9, <1>10, <1>11, <1>12, <1>15, <1>16, <1>17, <1>18 DEF Inv

LEMMA AddInv ==
  ASSUME Inv, NEW m \in Masters, NEW S \in SUBSET (Checks \ used), Add(m, S)
  PROVE  Inv'
<1>1. /\ pc[m] = "adding" /\ queue' = queue \cup S /\ nTodo' = nTodo + Cardinality(S)
      /\ mine' = [mine EXCEPT ![m] = @ \cup S] /\ used' = used \cup S
      /\ nIdle' = nIdle /\ nTotal' = nTotal /\ fAllOk' = fAllOk /\ stop' = stop
      /\ batch' = batch /\ fOk' = fOk /\ verdict' = verdict /\ called' = called /\ pool' = pool
  BY Zenon DEF Add, local
<1>2. /\ pc' \in [Threads -> MasterStates \cup WorkerStates]
      /\ \A u \in Threads : pc'[u] = pc[u] \/ (pc[u] = "waiting" /\ pc'[u] = "woken")
      /\ Idlers(pc') = Idlers(pc) /\ Joined(pc') = Joined(pc)
  <2>1. PICK p : p = pc' /\ p \in NotifyOne(Workers) \cup {NotifyAll(Workers), pc}
    BY Zenon DEF Add
  <2>2. Workers \in SUBSET Threads
    BY Zenon DEF Threads
  <2>3. /\ p \in [Threads -> MasterStates \cup WorkerStates]
        /\ \A u \in Threads : p[u] = pc[u] \/ (pc[u] = "waiting" /\ p[u] = "woken")
        /\ Idlers(p) = Idlers(pc) /\ Joined(p) = Joined(pc)
    BY Zenon, <2>1, <2>2, NotifyFacts DEF Inv
  <2>. QED
    BY Zenon, <2>1, <2>3
<1>3. /\ \A n \in Masters : pc'[n] = "outside" <=> pc[n] = "outside"
      /\ \A n \in Masters : pc'[n] \in Active <=> pc[n] \in Active
      /\ \A n \in Masters : pc'[n] = "returned" <=> pc[n] = "returned"
      /\ \A w \in Workers : pc'[w] = "off" <=> pc[w] = "off"
      /\ \A u \in Threads : pc'[u] \in {"working", "finish"} <=> pc[u] \in {"working", "finish"}
      /\ \A u \in Threads : pc'[u] = "working" <=> pc[u] = "working"
      /\ \A u \in Threads : pc'[u] = "finish" <=> pc[u] = "finish"
  BY Zenon, <1>2 DEF Threads, Active, Inside
<1>4. \A n \in Masters : n # m => pc[n] = "outside"
  BY Zenon, <1>1 DEF Inv, Owner
<1>5. /\ mine' \in [Masters -> SUBSET Checks]
      /\ \A n \in Masters : n # m => mine'[n] = mine[n]
      /\ mine'[m] = mine[m] \cup S
  BY Zenon, <1>1 DEF Inv, TypeOK
<1>6. Pending(queue', batch') = Pending(queue, batch) \cup S /\ S \cap Pending(queue, batch) = {}
  <2>1. Pending(queue, batch) \subseteq used
    BY Zenon DEF Inv, Calls, Pending
  <2>. QED
    BY SMTT(60), <1>1, <2>1 DEF Pending
<1>7. Cardinality(S) \in Nat /\ Cardinality(Pending(queue', batch')) = nTodo'
  <2>1. Pending(queue, batch) \in SUBSET Checks /\ S \in SUBSET Checks
    BY SMTT(60) DEF Inv, TypeOK, Pending
  <2>2. /\ IsFiniteSet(Pending(queue, batch)) /\ IsFiniteSet(S)
        /\ Cardinality(Pending(queue, batch)) \in Nat /\ Cardinality(S) \in Nat
    BY Zenon, <2>1, FiniteParts
  <2>3. Pending(queue, batch) \cap S = {}
    BY Zenon, <1>6
  <2>4. Cardinality(Pending(queue, batch) \cup S) =
          Cardinality(Pending(queue, batch)) + Cardinality(S)
            - Cardinality(Pending(queue, batch) \cap S)
    BY Zenon, <2>2, FS_Union
  <2>5. Cardinality(Pending(queue, batch) \cap S) = 0
    BY Zenon, <2>3, FS_EmptySet
  <2>6. Cardinality(Pending(queue', batch')) = Cardinality(Pending(queue, batch)) + Cardinality(S)
    BY SMTT(60), <1>6, <2>2, <2>4, <2>5
  <2>. QED
    BY Zenon, <1>1, <2>2, <2>6 DEF Inv, Counts
<1>8. TypeOK'
  <2>1. /\ \A n \in Masters : pc'[n] \in MasterStates
        /\ \A w \in Workers : pc'[w] \in WorkerStates
    BY Zenon, <1>2 DEF Inv, TypeOK, Threads, MasterStates, WorkerStates, Inside
  <2>. QED
    BY SMTT(60), <1>1, <1>2, <1>5, <1>7, <2>1 DEF Inv, TypeOK
<1>9. Counts'
  BY Zenon, <1>1, <1>2, <1>7 DEF Inv, Counts
<1>10. Stopping'
  BY Zenon, <1>1, <1>3 DEF Inv, Stopping
<1>11. Places(queue, batch, pc)' /\ Busy(batch, pc, Threads)'
  <2>1. \A u \in Threads : S \cap batch[u] = {}
    BY ZenonT(60) DEF Inv, Calls
  <2>. QED
    BY Zenon, <1>1, <1>3, <2>1 DEF Inv, Places, Busy
<1>12. Owner(queue, batch, pc, fAllOk)'
  <2>1. pc[m] \in Active
    BY Zenon, <1>1 DEF Active
  <2>2. /\ \A n, k \in Masters : pc'[n] # "outside" /\ pc'[k] # "outside" => n = k
        /\ \A n \in Masters : pc'[n] = "outside" => mine'[n] = {}
    BY ZenonT(60), <1>1, <1>3, <1>4, <1>5 DEF Inv, Owner
  <2>3. \A n \in Masters : pc'[n] \in Active => Pending(queue', batch') \subseteq mine'[n]
    <3>1. Pending(queue, batch) \subseteq mine[m]
      BY ZenonT(60), <2>1 DEF Inv, Owner
    <3>2. \A n \in Masters : pc'[n] \in Active => n = m
      BY Zenon, <1>3, <1>4 DEF Active, Inside
    <3>. QED
      BY Zenon, <1>5, <1>6, <3>1, <3>2
  <2>4. pc'[m] \in Active /\ m \in Masters
    BY Zenon, <1>3, <2>1
  <2>. QED
    BY Zenon, <2>2, <2>3, <2>4 DEF Owner
<1>13. Results(queue, batch, pc, fAllOk)'
  <2>1. ASSUME NEW n \in Masters, pc'[n] \in Active
        PROVE  /\ fAllOk = TRUE => mine'[n] \ Pending(queue', batch') \subseteq called \ Bad
               /\ fAllOk = FALSE => mine'[n] \cap Bad # {}
               /\ \A u \in Threads : pc[u] \in {"working", "finish"} /\ fOk[u] = FALSE =>
                    mine'[n] \cap Bad # {}
    <3>1. n = m /\ pc[n] \in Active
      BY Zenon, <1>3, <1>4, <2>1 DEF Active, Inside
    <3>2. /\ fAllOk = TRUE => mine[n] \ Pending(queue, batch) \subseteq called \ Bad
          /\ fAllOk = FALSE => mine[n] \cap Bad # {}
          /\ \A u \in Threads : pc[u] \in {"working", "finish"} /\ fOk[u] = FALSE =>
               mine[n] \cap Bad # {}
      BY Zenon, <3>1 DEF Inv, Results
    <3>. QED
      BY ZenonT(60), <1>5, <1>6, <3>1, <3>2
  <2>2. \A u \in Threads : pc[u] = "finish" /\ fOk[u] = TRUE => batch[u] \subseteq called \ Bad
    BY Zenon DEF Inv, Results
  <2>. QED
    BY Zenon, <1>1, <1>3, <2>1, <2>2 DEF Results
<1>14. Calls(queue, batch, pc)'
  BY Zenon, <1>1, <1>3 DEF Inv, Calls
<1>15. VerdictExact'
  BY ZenonT(60), <1>1, <1>3, <1>4, <1>5 DEF Inv, VerdictExact
<1>. QED
  BY Zenon, <1>8, <1>9, <1>10, <1>11, <1>12, <1>13, <1>14, <1>15 DEF Inv

LEMMA StartInv == ASSUME Inv, StartWorkerThreads PROVE Inv'
<1>1. /\ pool = "stopped" /\ pool' = "started" /\ nIdle' = 0 /\ nTotal' = 0 /\ fAllOk' = TRUE
      /\ pc' = [t \in Threads |-> IF t \in Workers THEN "enter" ELSE pc[t]]
      /\ queue' = queue /\ nTodo' = nTodo /\ stop' = stop /\ batch' = batch /\ fOk' = fOk
      /\ verdict' = verdict /\ mine' = mine /\ used' = used /\ called' = called
      /\ \A m \in Masters : pc[m] = "outside"
  BY Zenon DEF StartWorkerThreads, local, history, NoMaster
<1>2. Masters \cap Workers = {} /\ Threads = Masters \cup Workers
  BY Zenon, CheckQueueAssumption DEF Threads
<1>3. /\ \A m \in Masters : pc'[m] = "outside"
      /\ \A w \in Workers : pc'[w] = "enter" /\ pc[w] = "off"
  BY Zenon, <1>1, <1>2 DEF Inv, Stopping
<1>4. /\ \A t \in Threads : pc'[t] \in {"outside", "enter"} /\ pc[t] \in {"outside", "off"}
      /\ \A m \in Masters : pc'[m] = "outside"
  BY Zenon, <1>1, <1>2, <1>3
<1>5. Idlers(pc') = {} /\ Joined(pc') = {}
  BY Zenon, <1>4 DEF Idlers, Joined
<1>6. TypeOK'
  <2>1. pc' \in [Threads -> MasterStates \cup WorkerStates]
    BY Zenon, <1>1, <1>4 DEF MasterStates, Inside
  <2>2. /\ \A m \in Masters : pc'[m] \in MasterStates
        /\ \A w \in Workers : pc'[w] \in WorkerStates
    BY Zenon, <1>3 DEF MasterStates, WorkerStates, Inside
  <2>. QED
    BY Zenon, <1>1, <2>1, <2>2 DEF Inv, TypeOK
<1>7. Counts'
  BY SMTT(60), <1>1, <1>5, FS_EmptySet DEF Inv, Counts
<1>8. Stopping'
  BY Zenon, <1>1, <1>4 DEF Inv, Stopping
<1>9. Places(queue, batch, pc)' /\ Busy(batch, pc, Threads)'
  <2>1. \A t \in Threads : batch[t] = {}
    <3>1. Places(queue, batch, pc)
      BY Zenon DEF Inv
    <3>2. \A t \in Threads : pc[t] \notin {"working", "finish"}
      BY Zenon, <1>4
    <3>. QED
      BY Zenon, <3>1, <3>2 DEF Places
  <2>. QED
    BY ZenonT(60), <1>1, <1>4, <2>1 DEF Places, Busy
<1>10. \A m \in Masters : pc'[m] \notin Active /\ pc[m] \notin Active
  BY Zenon, <1>1, <1>4 DEF Active, Inside
<1>11. Owner(queue, batch, pc, fAllOk)'
  BY Zenon, <1>1, <1>4, <1>10 DEF Inv, Owner
<1>12. Results(queue, batch, pc, fAllOk)'
  BY Zenon, <1>1, <1>4, <1>10 DEF Results
<1>13. Calls(queue, batch, pc)'
  BY ZenonT(60), <1>1, <1>4 DEF Inv, Calls
<1>14. VerdictExact'
  BY Zenon, <1>4 DEF VerdictExact
<1>. QED
  BY Zenon, <1>6, <1>7, <1>8, <1>9, <1>11, <1>12, <1>13, <1>14 DEF Inv

LEMMA InitInv == Init => Inv
<1>. SUFFICES ASSUME Init PROVE Inv
  BY Zenon
<1>1. Masters \cap Workers = {} /\ Threads = Masters \cup Workers
  BY Zenon, CheckQueueAssumption DEF Threads
<1>2. /\ \A m \in Masters : pc[m] = "outside"
      /\ \A w \in Workers : pc[w] = "off"
      /\ \A t \in Threads : pc[t] \in {"outside", "off"} /\ batch[t] = {}
  BY Zenon, <1>1 DEF Init
<1>3. TypeOK
  <2>1. pc \in [Threads -> MasterStates \cup WorkerStates]
    BY Zenon, <1>2 DEF Init, MasterStates, WorkerStates
  <2>2. /\ \A m \in Masters : pc[m] \in MasterStates
        /\ \A w \in Workers : pc[w] \in WorkerStates
    BY Zenon, <1>2 DEF MasterStates, WorkerStates
  <2>. QED
    BY Zenon, <2>1, <2>2 DEF Init, TypeOK
<1>4. Pending(queue, batch) = {} /\ Idlers(pc) = {} /\ Joined(pc) = {}
  BY Zenon, <1>2 DEF Init, Pending, Idlers, Joined
<1>5. Counts
  <2>1. /\ Cardinality(Idlers(pc)) = 0 /\ Cardinality(Joined(pc)) = 0
        /\ Cardinality(Pending(queue, batch)) = 0
    BY Zenon, <1>4, FS_EmptySet
  <2>. QED
    BY <2>1 DEF Init, Counts
<1>6. Stopping
  BY Zenon, <1>2 DEF Init, Stopping
<1>7. Places(queue, batch, pc) /\ Busy(batch, pc, Threads) /\ Calls(queue, batch, pc)
  BY Zenon, <1>2 DEF Init, Places, Busy, Calls
<1>8. \A m \in Masters : pc[m] \notin Active
  BY Zenon, <1>2 DEF Active, Inside
<1>9. Owner(queue, batch, pc, fAllOk) /\ Results(queue, batch, pc, fAllOk)
  BY ZenonT(60), <1>2, <1>4, <1>8 DEF Init, Owner, Results
<1>10. VerdictExact
  BY Zenon, <1>2 DEF VerdictExact
<1>. QED
  BY Zenon, <1>3, <1>5, <1>6, <1>7, <1>9, <1>10 DEF Inv

LEMMA NextInv == Inv /\ [Next]_vars => Inv'
<1>. SUFFICES ASSUME Inv, [Next]_vars PROVE Inv'
  BY Zenon
<1>1. CASE UNCHANGED vars
  <2>1. UNCHANGED <<shared, local, verdict, history>> /\ pc' = pc /\ stop' = stop /\ pool' = pool
    BY Zenon, <1>1 DEF vars
  <2>2. Stopping'
    BY Zenon, <2>1 DEF Inv, Stopping
  <2>. QED
    BY Zenon, <2>1, <2>2, StandingInv DEF Inv, TypeOK
<1>2. ASSUME NEW t \in Threads, LoopStep(t) \/ SpuriousWakeup(t) PROVE Inv'
  BY Zenon, <1>2, EnterInv, WokenInv, ExecuteInv, FinishInv, SpuriousInv DEF LoopStep
<1>3. ASSUME NEW m \in Masters, Control(m) \/ Wait(m) \/ Release(m) PROVE Inv'
  BY Zenon, <1>3, ControlStepsInv
<1>4. ASSUME NEW m \in Masters, NEW S \in SUBSET (Checks \ used) \ {{}}, Add(m, S) PROVE Inv'
  BY Zenon, <1>4, AddInv
<1>5. CASE StartWorkerThreads
  BY Zenon, <1>5, StartInv
<1>6. CASE RequestStop \/ NotifyWorkers \/ JoinWorkers
  BY Zenon, <1>6, StopStepsInv
<1>. QED
  BY Zenon, <1>1, <1>2, <1>3, <1>4, <1>5, <1>6 DEF Next

\* The parts of Inv that the runs check.
LEMMA InvImplies == Inv => TypeOK /\ VerdictExact /\ CalledOnce /\ NothingLeftOver
<1>. SUFFICES ASSUME Inv PROVE CalledOnce /\ NothingLeftOver
  BY Zenon DEF Inv
<1>1. CalledOnce
  BY Zenon DEF Inv, Calls, Places, CalledOnce
<1>2. NothingLeftOver
  <2>1. ASSUME NoMaster PROVE queue = {} /\ nTodo = 0 /\ fAllOk /\ \A t \in Threads : batch[t] = {}
    <3>1. \A m \in Masters : pc[m] \notin Active
      BY Zenon, <2>1 DEF NoMaster, Active, Inside
    <3>2. Pending(queue, batch) = {} /\ fAllOk = TRUE
      BY ZenonT(60), <3>1 DEF Inv, Owner
    <3>3. nTodo = 0
      BY Zenon, <3>2, FS_EmptySet DEF Inv, Counts
    <3>. QED
      BY Zenon, <3>2, <3>3 DEF Pending
  <2>. QED
    BY Zenon, <2>1 DEF NothingLeftOver
<1>. QED
  BY Zenon, <1>1, <1>2

LEMMA InvAlways == Spec => []Inv
  BY InitInv, NextInv, PTL DEF Spec

\* Types hold and nTodo never wraps, for every number of threads and checks.
THEOREM QueueTypeCorrect == Spec => []TypeOK
  BY InvAlways, InvImplies, PTL

\* Wait's result is exact: true exactly when every check of the controller was called
\* and passed (Loop, Add and CCheckQueueControl::Wait).
THEOREM VerdictIsExact == Spec => []VerdictExact
  BY InvAlways, InvImplies, PTL

\* No check is called twice or held in two places (Loop's batches).
THEOREM NoCheckTwice == Spec => []CalledOnce
  BY InvAlways, InvImplies, PTL

\* A controller leaves nothing behind for the next one.
THEOREM CleanHandover == Spec => []NothingLeftOver
  BY InvAlways, InvImplies, PTL

(***************************************************************************)
(* Refinement.  A master inside Loop is a waiting controller; only its     *)
(* return from Loop is a visible step, and there the verdict is exact.     *)
(***************************************************************************)

\* A step that moves no controller is invisible.
LEMMA Invisible ==
  ASSUME TypeOK, UNCHANGED <<mine, used, verdict>>,
         \A m \in Masters : pc'[m] = pc[m] \/ (pc'[m] \in Inside /\ pc[m] \in Inside)
  PROVE  UNCHANGED Promise!vars
<1>1. controlState' = controlState
  BY Zenon DEF controlState
<1>. QED
  BY Zenon, <1>1 DEF Promise!vars

\* A step that moves controller m alone, from inside Loop or not, to state s outside Loop.
LEMMA Visible ==
  ASSUME NEW m \in Masters, NEW s, s \notin Inside, pc'[m] = s,
         \A n \in Masters : n # m => pc'[n] = pc[n]
  PROVE  controlState' = [controlState EXCEPT ![m] = s]
  BY Zenon DEF controlState

LEMMA ScanRefines ==
  ASSUME Inv, Inv', NEW t \in Threads, pc[t] \in Inside,
         NEW p, NEW idle, NEW total, NEW ok, NEW todo,
         p \in [Threads -> MasterStates \cup WorkerStates],
         \A u \in Threads : p[u] = pc[u] \/ (pc[u] = "waiting" /\ p[u] = "woken"),
         Scan(t, p, idle, total, ok, todo)
  PROVE  Promise!Next \/ UNCHANGED Promise!vars
<1>1. Masters \cap Workers = {} /\ Threads = Masters \cup Workers
  BY Zenon, CheckQueueAssumption DEF Threads
<1>2. mine' = mine /\ used' = used
  BY Zenon DEF Scan, history
<1>3. \A m \in Masters : p[m] = pc[m] \/ (p[m] \in Inside /\ pc[m] \in Inside)
  BY Zenon, <1>1 DEF Inside
<1>4. CASE \/ CondWait(t, p, idle, total, ok, todo)
           \/ Take(t, p, idle, total, ok, todo)
           \/ ReturnStopped(t, p, idle, total, ok, todo)
  <2>1. PICK s : pc' = [p EXCEPT ![t] = s] /\ verdict' = verdict /\ (t \in Masters => s \in Inside)
    <3>1. CASE CondWait(t, p, idle, total, ok, todo)
      BY Zenon, <3>1 DEF CondWait, Inside
    <3>2. CASE Take(t, p, idle, total, ok, todo)
      BY Zenon, <3>2 DEF Take, Inside
    <3>3. CASE ReturnStopped(t, p, idle, total, ok, todo)
      <4>1. t \notin Masters
        BY ZenonT(60), <3>3 DEF ReturnStopped, Inv, Stopping, TypeOK, Inside
      <4>. QED
        BY Zenon, <3>3, <4>1 DEF ReturnStopped
    <3>. QED
      BY Zenon, <1>4, <3>1, <3>2, <3>3
  <2>2. \A m \in Masters : pc'[m] = pc[m] \/ (pc'[m] \in Inside /\ pc[m] \in Inside)
    BY Zenon, <1>1, <1>3, <2>1
  <2>. QED
    BY ZenonT(60), <1>2, <2>1, <2>2, Invisible DEF Inv
<1>5. CASE Return(t, p, idle, total, ok, todo)
  <2>1. t \in Masters /\ pc' = [p EXCEPT ![t] = "returned"] /\ verdict' = [verdict EXCEPT ![t] = ok]
    BY Zenon, <1>5 DEF Return
  <2>2. pc'[t] = "returned" /\ \A n \in Masters : n # t => pc'[n] = p[n]
    BY Zenon, <1>1, <2>1
  <2>3. \A n \in Masters : n # t => pc'[n] = pc[n]
    <3>1. \A n \in Masters : n # t => pc[n] = "outside"
      BY ZenonT(60), <2>1 DEF Inv, Owner, Inside
    <3>. QED
      BY Zenon, <1>1, <2>2, <3>1
  <2>4. controlState' = [controlState EXCEPT ![t] = "returned"]
    BY SMTT(60), <2>1, <2>2, <2>3, Visible DEF Inside
  <2>5. controlState[t] = "waiting"
    BY Zenon, <2>1 DEF controlState
  <2>6. verdict'[t] = (mine[t] \cap Bad = {}) /\ verdict'[t] = ok
    <3>1. verdict'[t] = (mine'[t] \cap Bad = {})
      BY ZenonT(60), <2>1, <2>2 DEF Inv, VerdictExact
    <3>. QED
      BY Zenon, <1>2, <2>1, <3>1 DEF Inv, TypeOK
  <2>7. verdict' = [verdict EXCEPT ![t] = (mine[t] \cap Bad = {})]
    BY ZenonT(60), <2>1, <2>6
  <2>8. Promise!Return(t)
    BY Zenon, <1>2, <2>4, <2>5, <2>7 DEF Promise!Return
  <2>. QED
    BY Zenon, <2>1, <2>8 DEF Promise!Next
<1>. QED
  BY Zenon, <1>4, <1>5 DEF Scan

LEMMA NextRefines ==
  ASSUME Inv, Inv', [Next]_vars PROVE [Promise!Next]_(Promise!vars)
<1>1. Masters \cap Workers = {} /\ Threads = Masters \cup Workers
  BY Zenon, CheckQueueAssumption DEF Threads
<1>2. CASE UNCHANGED vars
  BY Zenon, <1>2, Invisible DEF Inv, vars, history
<1>3. ASSUME NEW t \in Threads, LoopStep(t) PROVE Promise!Next \/ UNCHANGED Promise!vars
  <2>1. PICK p, idle, total, ok, todo :
          /\ pc[t] \in {"enter", "woken", "finish"}
          /\ p \in NotifyOne(Masters) \cup {NotifyAll(Masters), pc}
          /\ Scan(t, p, idle, total, ok, todo)
        \/ Execute(t)
    <3>1. CASE Enter(t)
      BY Zenon, <3>1 DEF Enter
    <3>2. CASE Woken(t)
      BY Zenon, <3>2 DEF Woken
    <3>3. CASE Finish(t)
      BY ZenonT(60), <3>3 DEF Finish
    <3>. QED
      BY Zenon, <1>3, <3>1, <3>2, <3>3 DEF LoopStep
  <2>2. CASE Execute(t)
    <3>1. UNCHANGED <<mine, used, verdict>>
      BY Zenon, <2>2 DEF Execute
    <3>2. \A m \in Masters : pc'[m] = pc[m] \/ (pc'[m] \in Inside /\ pc[m] \in Inside)
      BY ZenonT(60), <1>1, <2>2 DEF Execute, Inv, TypeOK, Inside
    <3>. QED
      BY Zenon, <3>1, <3>2, Invisible DEF Inv
  <2>3. CASE /\ pc[t] \in {"enter", "woken", "finish"}
             /\ p \in NotifyOne(Masters) \cup {NotifyAll(Masters), pc}
             /\ Scan(t, p, idle, total, ok, todo)
    <3>1. /\ p \in [Threads -> MasterStates \cup WorkerStates]
          /\ \A u \in Threads : p[u] = pc[u] \/ (pc[u] = "waiting" /\ p[u] = "woken")
      BY SMTT(60), <1>1, <2>3, NotifyFacts DEF Inv
    <3>2. pc[t] \in Inside
      BY Zenon, <2>3 DEF Inside
    <3>. QED
      BY Zenon, <2>3, <3>1, <3>2, ScanRefines
  <2>. QED
    BY Zenon, <2>1, <2>2, <2>3
<1>4. ASSUME NEW t \in Threads, SpuriousWakeup(t) PROVE UNCHANGED Promise!vars
  <2>1. UNCHANGED <<mine, used, verdict>>
    BY Zenon, <1>4 DEF SpuriousWakeup, history
  <2>2. \A m \in Masters : pc'[m] = pc[m] \/ (pc'[m] \in Inside /\ pc[m] \in Inside)
    BY Zenon, <1>1, <1>4 DEF SpuriousWakeup, Inv, TypeOK, Inside
  <2>. QED
    BY Zenon, <2>1, <2>2, Invisible DEF Inv
<1>5. ASSUME NEW m \in Masters, Control(m) PROVE Promise!Next
  <2>1. /\ pc'[m] = "adding" /\ \A n \in Masters : n # m => pc'[n] = pc[n]
        /\ UNCHANGED <<mine, used, verdict>> /\ \A n \in Masters : pc[n] = "outside"
    BY Zenon, <1>1, <1>5 DEF Control, history, Inv, TypeOK
  <2>2. controlState' = [controlState EXCEPT ![m] = "adding"]
    BY Zenon, <2>1, Visible DEF Inside
  <2>3. \A n \in Masters : controlState[n] = "outside"
    BY Zenon, <2>1 DEF controlState, Inside
  <2>. QED
    BY ZenonT(60), <2>1, <2>2, <2>3 DEF Promise!Next, Promise!Begin
<1>6. ASSUME NEW m \in Masters, Wait(m) PROVE Promise!Next
  <2>1. /\ pc[m] = "adding" /\ pc'[m] = "enter" /\ \A n \in Masters : n # m => pc'[n] = pc[n]
        /\ UNCHANGED <<mine, used, verdict>>
    BY Zenon, <1>1, <1>6 DEF Wait, history, Inv, TypeOK
  <2>2. controlState' = [controlState EXCEPT ![m] = "waiting"] /\ controlState[m] = "adding"
    BY Zenon, <2>1 DEF controlState, Inside
  <2>. QED
    BY ZenonT(60), <2>1, <2>2 DEF Promise!Next, Promise!Wait
<1>7. ASSUME NEW m \in Masters, Release(m) PROVE Promise!Next
  <2>1. /\ pc[m] = "returned" /\ pc'[m] = "outside" /\ \A n \in Masters : n # m => pc'[n] = pc[n]
        /\ mine' = [mine EXCEPT ![m] = {}] /\ UNCHANGED <<used, verdict>>
    BY Zenon, <1>1, <1>7 DEF Release, Inv, TypeOK
  <2>2. controlState' = [controlState EXCEPT ![m] = "outside"] /\ controlState[m] = "returned"
    BY ZenonT(60), <2>1, Visible DEF controlState, Inside
  <2>. QED
    BY Zenon, <2>1, <2>2 DEF Promise!Next, Promise!End
<1>8. ASSUME NEW m \in Masters, NEW S \in SUBSET (Checks \ used), Add(m, S) PROVE Promise!Next
  <2>1. /\ pc[m] = "adding" /\ mine' = [mine EXCEPT ![m] = @ \cup S] /\ used' = used \cup S
        /\ verdict' = verdict
    BY Zenon, <1>8 DEF Add
  <2>2. PICK p : p = pc' /\ p \in NotifyOne(Workers) \cup {NotifyAll(Workers), pc}
    BY Zenon, <1>8 DEF Add
  <2>3. \A u \in Threads : p[u] = pc[u] \/ (pc[u] = "waiting" /\ p[u] = "woken")
    <3>1. Workers \in SUBSET Threads
      BY Zenon, <1>1
    <3>. QED
      BY Zenon, <2>2, <3>1, NotifyFacts DEF Inv
  <2>4. controlState' = controlState /\ controlState[m] = "adding"
    BY Zenon, <1>1, <2>1, <2>2, <2>3 DEF controlState, Inside
  <2>. QED
    BY Zenon, <2>1, <2>4 DEF Promise!Next, Promise!Add
<1>9. ASSUME StartWorkerThreads \/ RequestStop \/ NotifyWorkers \/ JoinWorkers
      PROVE  UNCHANGED Promise!vars
  <2>1. UNCHANGED <<mine, used, verdict>>
    BY Zenon, <1>9 DEF StartWorkerThreads, RequestStop, NotifyWorkers, JoinWorkers, history
  <2>2. \A m \in Masters : pc'[m] = pc[m]
    BY Zenon, <1>1, <1>9 DEF StartWorkerThreads, RequestStop, NotifyWorkers, JoinWorkers,
                      NotifyAll, Waiting
  <2>. QED
    BY Zenon, <2>1, <2>2, Invisible DEF Inv
<1>. QED
  BY Zenon, <1>2, <1>3, <1>4, <1>5, <1>6, <1>7, <1>8, <1>9 DEF Next

\* The queue of workers, batches and condition variables implements ParallelCheck's
\* safety part: controllers never overlap and Wait returns the conjunction of the
\* checks added under its controller.
THEOREM QueueImplementsParallelCheck == Spec => Promise!SafeSpec
<1>1. Init => Promise!Init
  BY Zenon, CheckQueueAssumption DEF Init, Promise!Init, controlState, Threads, Inside
<1>2. Inv /\ Inv' /\ [Next]_vars => [Promise!Next]_(Promise!vars)
  BY Zenon, NextRefines
<1>. QED
  BY <1>1, <1>2, InvAlways, PTL DEF Spec, Promise!SafeSpec

=============================================================================
