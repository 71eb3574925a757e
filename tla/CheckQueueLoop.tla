--------------------------- MODULE CheckQueueLoop ----------------------------
(***************************************************************************)
(* The inductive invariant of the check queue, and the proof that Loop's   *)
(* inner while (checkqueue.h) keeps it: whatever way a thread leaves the   *)
(* while, by waiting, by returning or with a batch, the invariant holds    *)
(* again.  CheckQueueProofs puts the rest of the queue around it.          *)
(***************************************************************************)
EXTENDS CheckQueue, FiniteSetTheorems, TLAPS

(***************************************************************************)
(* The inductive invariant, in parts that name the state they read, so     *)
(* that they can also be stated at the head of Loop's inner while.         *)
(***************************************************************************)

\* Threads that nIdle counts, and threads that nTotal counts.
Idlers(p) == {t \in Threads : p[t] \in {"waiting", "woken"}}
Joined(p) == {t \in Threads : p[t] \in {"waiting", "woken", "working", "finish"}}

\* The checks that nTodo counts.
Pending(q, b) == q \cup UNION {b[t] : t \in Threads}

Active == Inside \cup {"adding"}

\* A check is in the queue or in one batch, and only threads at work have a batch.
Places(q, b, p) ==
  /\ \A t \in Threads : q \cap b[t] = {}
  /\ \A t, u \in Threads : t # u => b[t] \cap b[u] = {}
  /\ \A t \in Threads : b[t] # {} => p[t] \in {"working", "finish"}

\* A thread at work has a batch; at the head of the inner while t's is gone.
Busy(b, p, S) == \A t \in S : p[t] \in {"working", "finish"} => b[t] # {}

\* One controller; what is pending is its own; between blocks nothing is.
Owner(q, b, p, ok) ==
  /\ \A m, n \in Masters : p[m] # "outside" /\ p[n] # "outside" => m = n
  /\ \A m \in Masters : p[m] = "outside" => mine[m] = {}
  /\ \A m \in Masters : p[m] \in Active => Pending(q, b) \subseteq mine[m]
  /\ (\A m \in Masters : p[m] \notin Active) => Pending(q, b) = {} /\ ok = TRUE

\* fAllOk and the local results say what the finished checks said.
Results(q, b, p, ok) ==
  /\ \A m \in Masters : p[m] \in Active =>
       /\ ok = TRUE => mine[m] \ Pending(q, b) \subseteq called \ Bad
       /\ ok = FALSE => mine[m] \cap Bad # {}
       /\ \A t \in Threads : p[t] \in {"working", "finish"} /\ fOk[t] = FALSE =>
            mine[m] \cap Bad # {}
  /\ \A t \in Threads : p[t] = "finish" /\ fOk[t] = TRUE => b[t] \subseteq called \ Bad

\* Calls: what waits to be called has not been.
Calls(q, b, p) ==
  /\ called \subseteq used
  /\ q \cap called = {}
  /\ \A t \in Threads : p[t] = "working" => b[t] \cap called = {}
  /\ q \subseteq used /\ \A t \in Threads : b[t] \subseteq used

Stopping ==
  /\ stop = TRUE => \A m \in Masters : pc[m] = "outside"
  /\ stop = TRUE <=> pool \in {"stopping", "joining"}
  /\ pool = "stopped" => \A w \in Workers : pc[w] = "off"

Counts ==
  /\ nIdle = Cardinality(Idlers(pc))
  /\ nTotal >= Cardinality(Joined(pc))
  /\ nTodo = Cardinality(Pending(queue, batch))

Inv ==
  /\ TypeOK /\ Counts /\ Stopping
  /\ Places(queue, batch, pc) /\ Busy(batch, pc, Threads)
  /\ Owner(queue, batch, pc, fAllOk)
  /\ Results(queue, batch, pc, fAllOk) /\ Calls(queue, batch, pc)
  /\ VerdictExact

(***************************************************************************)
(* Counting.                                                               *)
(***************************************************************************)

\* Sets of threads and of checks are finite, so their cardinalities are naturals.
LEMMA FiniteParts ==
  /\ \A S \in SUBSET Threads : IsFiniteSet(S) /\ Cardinality(S) \in Nat
  /\ \A S \in SUBSET Checks : IsFiniteSet(S) /\ Cardinality(S) \in Nat
<1>1. IsFiniteSet(Threads)
  BY Zenon, CheckQueueAssumption, FS_Union DEF Threads
<1>2. IsFiniteSet(Checks)
  BY Zenon, CheckQueueAssumption
<1>3. ASSUME NEW T, IsFiniteSet(T), NEW S \in SUBSET T
      PROVE  IsFiniteSet(S) /\ Cardinality(S) \in Nat
  BY Zenon, <1>3, FS_Subset, FS_CardinalityType
<1>. QED
  BY Zenon, <1>1, <1>2, <1>3

\* Adding one new element to a finite set, or taking one away.
LEMMA CountOne ==
  ASSUME NEW S, IsFiniteSet(S), NEW x
  PROVE  /\ x \notin S => Cardinality(S \cup {x}) = Cardinality(S) + 1
         /\ x \in S => Cardinality(S \ {x}) = Cardinality(S) - 1
  BY Zenon, FS_AddElement, FS_RemoveElement

\* The cardinality of a part of a finite set, taken away.
LEMMA CountPart ==
  ASSUME NEW S, IsFiniteSet(S), NEW P \in SUBSET S
  PROVE  Cardinality(S \ P) = Cardinality(S) - Cardinality(P)
<1>1. S \cap P = P
  BY Zenon
<1>. QED
  BY ZenonT(60), <1>1, FS_Difference

\* Emptying one batch takes exactly its checks out of what is pending.
LEMMA PendingClear ==
  ASSUME NEW q, NEW b \in [Threads -> SUBSET Checks], NEW p, Places(q, b, p),
         NEW t \in Threads
  PROVE  /\ b[t] \subseteq Pending(q, b)
         /\ Pending(q, [b EXCEPT ![t] = {}]) = Pending(q, b) \ b[t]
         /\ \A u \in Threads : [b EXCEPT ![t] = {}][u] = IF u = t THEN {} ELSE b[u]
<1>. DEFINE c == [b EXCEPT ![t] = {}]
<1>1. \A u \in Threads : c[u] = IF u = t THEN {} ELSE b[u]
  BY Zenon
<1>. HIDE DEF c
<1>2. b[t] \subseteq Pending(q, b)
  BY Zenon DEF Pending
<1>3. ASSUME NEW x PROVE x \in Pending(q, c) <=> x \in Pending(q, b) \ b[t]
  BY <1>1 DEF Pending, Places
<1>. QED
  BY Zenon, <1>1, <1>2, <1>3 DEF c

\* Filling an empty batch from the queue leaves what is pending as it was.
LEMMA PendingTake ==
  ASSUME NEW q, NEW b \in [Threads -> SUBSET Checks], NEW t \in Threads, b[t] = {},
         NEW S \in SUBSET q, NEW c, c = [b EXCEPT ![t] = S]
  PROVE  Pending(q \ S, c) = Pending(q, b)
<1>1. \A u \in Threads : c[u] = IF u = t THEN S ELSE b[u]
  BY Zenon
<1>2. ASSUME NEW x PROVE x \in Pending(q \ S, c) <=> x \in Pending(q, b)
  BY <1>1 DEF Pending
<1>. QED
  BY Zenon, <1>2

(***************************************************************************)
(* The head of the inner while: thread t holds the lock, its batch is      *)
(* accounted for, and the counters are idle, total and todo.               *)
(***************************************************************************)

Head(t, b, p, idle, total, ok, todo) ==
  /\ p \in [Threads -> MasterStates \cup WorkerStates]
  /\ p[t] \in Inside
  /\ \A u \in Threads : p[u] = pc[u] \/ (pc[u] = "waiting" /\ p[u] = "woken")
  /\ b \in [Threads -> SUBSET Checks] /\ b[t] = {}
  /\ \A S : [b EXCEPT ![t] = S] = [batch EXCEPT ![t] = S]
  /\ ok \in BOOLEAN /\ idle \in Nat /\ total \in Nat /\ todo \in Nat
  /\ idle = Cardinality(Idlers(p) \ {t})
  /\ total >= Cardinality(Joined(p) \cup {t})
  /\ todo = Cardinality(Pending(queue, b))
  /\ Places(queue, b, p) /\ Busy(b, p, Threads \ {t}) /\ Owner(queue, b, p, ok)
  /\ Results(queue, b, p, ok) /\ Calls(queue, b, p)
  /\ TypeOK /\ Stopping /\ VerdictExact

\* What the four ways out of the inner while have in common: t moves on to state s.
Moved(t, p, s, r) ==
  /\ r \in [Threads -> MasterStates \cup WorkerStates]
  /\ \A u \in Threads : r[u] = IF u = t THEN s ELSE p[u]
  /\ \A m \in Masters : r[m] \in MasterStates
  /\ \A w \in Workers : r[w] \in WorkerStates
  /\ \A m \in Masters : p[m] \in MasterStates
  /\ \A m \in Masters : p[m] = "outside" <=> pc[m] = "outside"
  /\ \A m \in Masters : p[m] = "returned" <=> pc[m] = "returned"
  /\ \A w \in Workers : p[w] = "off" <=> pc[w] = "off"
  /\ Idlers(r) = IF s \in {"waiting", "woken"} THEN (Idlers(p) \ {t}) \cup {t}
                 ELSE Idlers(p) \ {t}
  /\ Joined(r) \subseteq Joined(p) \cup {t}
  /\ s \notin {"waiting", "woken", "working", "finish"} =>
       Joined(r) = (Joined(p) \cup {t}) \ {t}

LEMMA MoveOn ==
  ASSUME NEW t \in Threads, NEW b, NEW p, NEW idle, NEW total, NEW ok, NEW todo,
         Head(t, b, p, idle, total, ok, todo),
         NEW s, NEW r, r = [p EXCEPT ![t] = s],
         t \in Masters => s \in Inside \cup {"returned"},
         t \in Workers => s \in Inside \cup {"off"}
  PROVE  Moved(t, p, s, r)
<1>1. Threads = Masters \cup Workers /\ Masters \cap Workers = {}
  BY Zenon, CheckQueueAssumption DEF Threads
<1>2. s \in MasterStates \cup WorkerStates
  BY Zenon, <1>1 DEF MasterStates, WorkerStates
<1>3. \A u \in Threads : r[u] = IF u = t THEN s ELSE p[u]
  BY Zenon DEF Head
<1>4. r \in [Threads -> MasterStates \cup WorkerStates]
  BY Zenon, <1>2 DEF Head
<1>5. /\ \A m \in Masters : pc[m] \in MasterStates
      /\ \A w \in Workers : pc[w] \in WorkerStates
      /\ \A u \in Threads : p[u] = pc[u] \/ (pc[u] = "waiting" /\ p[u] = "woken")
  BY Zenon DEF Head, TypeOK
<1>6. /\ \A m \in Masters : p[m] \in MasterStates
      /\ \A w \in Workers : p[w] \in WorkerStates
  BY Zenon, <1>1, <1>5 DEF MasterStates, WorkerStates, Inside
<1>7. /\ \A m \in Masters : p[m] = "outside" <=> pc[m] = "outside"
      /\ \A m \in Masters : p[m] = "returned" <=> pc[m] = "returned"
      /\ \A w \in Workers : p[w] = "off" <=> pc[w] = "off"
  BY Zenon, <1>1, <1>5
<1>8. /\ \A m \in Masters : r[m] \in MasterStates
      /\ \A w \in Workers : r[w] \in WorkerStates
  BY <1>1, <1>3, <1>6 DEF MasterStates, WorkerStates
<1>9. Idlers(r) = IF s \in {"waiting", "woken"} THEN (Idlers(p) \ {t}) \cup {t}
                  ELSE Idlers(p) \ {t}
  BY Zenon, <1>3 DEF Idlers
<1>10. /\ Joined(r) \subseteq Joined(p) \cup {t}
       /\ s \notin {"waiting", "woken", "working", "finish"} =>
            Joined(r) = (Joined(p) \cup {t}) \ {t}
  BY Zenon, <1>3 DEF Joined
<1>. QED
  BY Zenon, <1>3, <1>4, <1>6, <1>7, <1>8, <1>9, <1>10 DEF Moved

\* The parts of the invariant at the head, one by one.
LEMMA HeadParts ==
  ASSUME NEW t \in Threads, NEW b, NEW p, NEW idle, NEW total, NEW ok, NEW todo,
         Head(t, b, p, idle, total, ok, todo)
  PROVE  /\ Places(queue, b, p) /\ Busy(b, p, Threads \ {t}) /\ b[t] = {}
         /\ Owner(queue, b, p, ok) /\ Results(queue, b, p, ok) /\ Calls(queue, b, p)
         /\ TypeOK /\ Stopping /\ VerdictExact
  BY Zenon DEF Head

\* The set an EXCEPT leaves when it empties a batch that is empty already.
LEMMA HeadBatch ==
  ASSUME NEW t \in Threads, NEW b, NEW p, NEW idle, NEW total, NEW ok, NEW todo,
         Head(t, b, p, idle, total, ok, todo)
  PROVE  [batch EXCEPT ![t] = {}] = b
<1>1. [b EXCEPT ![t] = {}] = b
  BY Zenon DEF Head
<1>. QED
  BY Zenon, <1>1 DEF Head

\* cond.wait: the thread becomes idle.
LEMMA CondWaitInv ==
  ASSUME NEW t \in Threads, NEW b, NEW p, NEW idle, NEW total, NEW ok, NEW todo,
         Head(t, b, p, idle, total, ok, todo),
         CondWait(t, p, idle, total, ok, todo), UNCHANGED <<stop, history, pool>>
  PROVE  Inv'
<1>1. /\ pc' = [p EXCEPT ![t] = "waiting"] /\ batch' = b
      /\ queue' = queue /\ fOk' = fOk /\ verdict' = verdict
      /\ nIdle' = idle + 1 /\ nTotal' = total /\ fAllOk' = ok /\ nTodo' = todo
      /\ stop' = stop /\ mine' = mine /\ used' = used /\ called' = called /\ pool' = pool
      /\ stop = FALSE
  BY Zenon, HeadBatch DEF CondWait, history, Head, TypeOK
<1>2. /\ pc' \in [Threads -> MasterStates \cup WorkerStates]
      /\ \A u \in Threads : pc'[u] = IF u = t THEN "waiting" ELSE p[u]
      /\ \A m \in Masters : pc'[m] \in MasterStates
      /\ \A w \in Workers : pc'[w] \in WorkerStates
      /\ \A m \in Masters : p[m] = "outside" <=> pc[m] = "outside"
      /\ \A m \in Masters : p[m] = "returned" <=> pc[m] = "returned"
      /\ \A w \in Workers : p[w] = "off" <=> pc[w] = "off"
      /\ Idlers(pc') = (Idlers(p) \ {t}) \cup {t}
      /\ Joined(pc') \subseteq Joined(p) \cup {t}
  <2>1. "waiting" \in Inside
    BY Zenon DEF Inside
  <2>2. Moved(t, p, "waiting", pc')
    BY Zenon, <1>1, <2>1, MoveOn
  <2>. QED
    BY Zenon, <2>2 DEF Moved
<1>3. Threads = Masters \cup Workers /\ Masters \cap Workers = {}
  BY Zenon, CheckQueueAssumption DEF Threads
<1>4. TypeOK'
  BY <1>1, <1>2 DEF TypeOK, Head
<1>5. Counts'
  <2>1. Idlers(p) \ {t} \in SUBSET Threads /\ Joined(p) \cup {t} \in SUBSET Threads
    BY Zenon DEF Idlers, Joined
  <2>2. Cardinality(Idlers(pc')) = idle + 1
    BY SMTT(60), <1>2, <2>1, FiniteParts, CountOne DEF Head
  <2>3. /\ Cardinality(Joined(pc')) <= Cardinality(Joined(p) \cup {t})
        /\ Cardinality(Joined(pc')) \in Nat /\ Cardinality(Joined(p) \cup {t}) \in Nat
    BY Zenon, <1>2, <2>1, FiniteParts, FS_Subset
  <2>. QED
    BY <1>1, <2>2, <2>3 DEF Counts, Head
<1>6. Stopping'
  BY Zenon, <1>1, <1>2, <1>3 DEF Stopping, Head, Inside
<1>7. Places(queue, batch, pc)' /\ Busy(batch, pc, Threads)'
  BY SMTT(60), <1>1, <1>2 DEF Places, Busy, Head
<1>8. Owner(queue, batch, pc, fAllOk)'
  BY SMTT(60), <1>1, <1>2, <1>3 DEF Owner, Head, Active, Inside
<1>9. Results(queue, batch, pc, fAllOk)'
  BY SMTT(60), <1>1, <1>2, <1>3 DEF Results, Head, Active, Inside
<1>10. Calls(queue, batch, pc)'
  BY Zenon, <1>1, <1>2 DEF Calls, Head
<1>11. VerdictExact'
  BY Zenon, <1>1, <1>2, <1>3 DEF VerdictExact, Head
<1>. QED
  BY Zenon, <1>4, <1>5, <1>6, <1>7, <1>8, <1>9, <1>10, <1>11 DEF Inv

\* The master returns: nothing is pending, so fAllOk is the verdict on its checks.
LEMMA ReturnInv ==
  ASSUME NEW t \in Threads, NEW b, NEW p, NEW idle, NEW total, NEW ok, NEW todo,
         Head(t, b, p, idle, total, ok, todo),
         Return(t, p, idle, total, ok, todo), UNCHANGED <<stop, history, pool>>
  PROVE  Inv'
<1>1. /\ t \in Masters /\ queue = {} /\ todo = 0
      /\ pc' = [p EXCEPT ![t] = "returned"] /\ batch' = b
      /\ queue' = queue /\ fOk' = fOk /\ verdict' = [verdict EXCEPT ![t] = ok]
      /\ nIdle' = idle /\ nTotal' = total - 1 /\ fAllOk' = TRUE /\ nTodo' = todo
      /\ stop' = stop /\ mine' = mine /\ used' = used /\ called' = called /\ pool' = pool
      /\ stop = FALSE
  BY Zenon, HeadBatch DEF Return, history, Head, TypeOK
<1>2. Threads = Masters \cup Workers /\ Masters \cap Workers = {}
  BY Zenon, CheckQueueAssumption DEF Threads
<1>3. Moved(t, p, "returned", pc')
  BY Zenon, <1>1, <1>2, MoveOn
<1>4. Pending(queue, b) = {}
  <2>1. Pending(queue, b) \in SUBSET Checks
    BY DEF Pending, Head, TypeOK
  <2>. QED
    BY Zenon, <1>1, <2>1, FiniteParts, FS_EmptySet DEF Head
<1>m. /\ \A u \in Threads : pc'[u] = IF u = t THEN "returned" ELSE p[u]
      /\ \A m \in Masters : p[m] = "outside" <=> pc[m] = "outside"
      /\ \A w \in Workers : p[w] = "off" <=> pc[w] = "off"
  BY Zenon, <1>3 DEF Moved
<1>h. /\ Places(queue, b, p) /\ Busy(b, p, Threads \ {t}) /\ b[t] = {}
      /\ Owner(queue, b, p, ok) /\ Results(queue, b, p, ok) /\ Calls(queue, b, p)
      /\ TypeOK /\ Stopping /\ VerdictExact
  BY Zenon, HeadParts
<1>5. \A m \in Masters : m # t => p[m] = "outside" /\ pc'[m] = "outside"
  <2>1. p[t] # "outside"
    BY Zenon DEF Head, Inside
  <2>2. \A m \in Masters : m # t => p[m] = "outside"
    BY Zenon, <1>1, <1>h, <2>1 DEF Owner
  <2>. QED
    BY Zenon, <1>2, <1>m, <2>2
<1>6. pc'[t] = "returned"
  BY Zenon, <1>m
<1>7. TypeOK' /\ Counts'
  <2>1. /\ Idlers(pc') = Idlers(p) \ {t}
        /\ Joined(pc') = (Joined(p) \cup {t}) \ {t}
    BY Zenon, <1>3 DEF Moved
  <2>2. Joined(p) \cup {t} \in SUBSET Threads
    BY Zenon DEF Joined
  <2>3. /\ Cardinality(Joined(pc')) = Cardinality(Joined(p) \cup {t}) - 1
        /\ Cardinality(Joined(p) \cup {t}) \in Nat
    BY Zenon, <2>1, <2>2, FiniteParts, CountOne
  <2>4. Cardinality(Joined(pc')) \in Nat
    BY Zenon, FiniteParts DEF Joined
  <2>7. Cardinality(Idlers(pc')) = idle
    BY Zenon, <2>1 DEF Head
  <2>5. Counts' /\ nTotal' \in Nat
    BY SMTT(60), <1>1, <2>3, <2>4, <2>7 DEF Counts, Head
  <2>6. TypeOK'
    <3>1. /\ pc' \in [Threads -> MasterStates \cup WorkerStates]
          /\ \A m \in Masters : pc'[m] \in MasterStates
          /\ \A w \in Workers : pc'[w] \in WorkerStates
      BY Zenon, <1>3 DEF Moved
    <3>2. b \in [Threads -> SUBSET Checks] /\ idle \in Nat /\ ok \in BOOLEAN /\ todo \in Nat
      BY Zenon DEF Head
    <3>. QED
      BY Zenon, <1>1, <1>h, <2>5, <3>1, <3>2 DEF TypeOK
  <2>. QED
    BY Zenon, <2>5, <2>6
<1>8. Stopping'
  BY Zenon, <1>1, <1>2, <1>m, <1>h DEF Stopping
<1>9. Places(queue, batch, pc)' /\ Busy(batch, pc, Threads)'
  BY <1>1, <1>m, <1>h DEF Places, Busy
<1>10. \A m \in Masters : pc'[m] \notin Active
  BY Zenon, <1>5, <1>6 DEF Active, Inside
<1>11. Owner(queue, batch, pc, fAllOk)'
  <2>1. \A m \in Masters : pc'[m] = "outside" => mine[m] = {}
    BY Zenon, <1>5, <1>6, <1>h DEF Owner
  <2>2. \A m, n \in Masters : pc'[m] # "outside" /\ pc'[n] # "outside" => m = n
    BY Zenon, <1>5
  <2>. QED
    BY Zenon, <1>1, <1>4, <1>10, <2>1, <2>2 DEF Owner
<1>12. Results(queue, batch, pc, fAllOk)'
  BY <1>1, <1>m, <1>h, <1>10 DEF Results
<1>13. Calls(queue, batch, pc)'
  BY <1>1, <1>m, <1>h DEF Calls
<1>14. VerdictExact'
  <2>1. /\ ok = TRUE => mine[t] \subseteq called \ Bad
        /\ ok = FALSE => mine[t] \cap Bad # {}
    <3>1. p[t] \in Active
      BY Zenon DEF Head, Active
    <3>. QED
      BY Zenon, <1>1, <1>4, <1>h, <3>1 DEF Results
  <2>2. verdict'[t] = ok /\ ok \in BOOLEAN
    <3>1. ok \in BOOLEAN
      BY Zenon DEF Head
    <3>. QED
      BY Zenon, <1>1, <1>h, <3>1 DEF TypeOK
  <2>3. CASE ok = TRUE
    <3>1. (mine[t] \cap Bad = {}) = TRUE /\ mine[t] \subseteq called
      BY Zenon, <2>1, <2>3
    <3>. QED
      BY ZenonT(60), <1>1, <1>5, <2>2, <2>3, <3>1 DEF VerdictExact
  <2>4. CASE ok = FALSE
    <3>1. (mine[t] \cap Bad = {}) = FALSE
      BY Zenon, <2>1, <2>4
    <3>. QED
      BY Zenon, <1>1, <1>5, <2>2, <2>4, <3>1 DEF VerdictExact
  <2>. QED
    BY Zenon, <2>2, <2>3, <2>4
<1>. QED
  BY Zenon, <1>7, <1>8, <1>9, <1>11, <1>12, <1>13, <1>14 DEF Inv

\* A stopped worker returns; no master is inside Loop then.
LEMMA ReturnStoppedInv ==
  ASSUME NEW t \in Threads, NEW b, NEW p, NEW idle, NEW total, NEW ok, NEW todo,
         Head(t, b, p, idle, total, ok, todo),
         ReturnStopped(t, p, idle, total, ok, todo), UNCHANGED <<stop, history, pool>>
  PROVE  Inv'
<1>1. Threads = Masters \cup Workers /\ Masters \cap Workers = {}
  BY Zenon, CheckQueueAssumption DEF Threads
<1>2. stop = TRUE /\ t \in Workers /\ t \notin Masters
  <2>1. stop = TRUE
    BY Zenon DEF ReturnStopped, Head, TypeOK
  <2>2. pc[t] # "outside"
    BY Zenon DEF Head, Inside
  <2>. QED
    BY Zenon, <1>1, <2>1, <2>2 DEF Head, Stopping
<1>3. /\ pc' = [p EXCEPT ![t] = "off"] /\ batch' = b
      /\ queue' = queue /\ fOk' = fOk /\ verdict' = verdict
      /\ nIdle' = idle /\ nTotal' = total /\ fAllOk' = ok /\ nTodo' = todo
      /\ stop' = stop /\ mine' = mine /\ used' = used /\ called' = called /\ pool' = pool
  BY Zenon, <1>2, HeadBatch DEF ReturnStopped, history
<1>4. Moved(t, p, "off", pc')
  BY ZenonT(60), <1>2, <1>3, MoveOn
<1>m. /\ pc' \in [Threads -> MasterStates \cup WorkerStates]
      /\ \A u \in Threads : pc'[u] = IF u = t THEN "off" ELSE p[u]
      /\ \A m \in Masters : pc'[m] \in MasterStates
      /\ \A w \in Workers : pc'[w] \in WorkerStates
  BY Zenon, <1>4 DEF Moved
<1>n. /\ \A m \in Masters : pc'[m] = p[m]
      /\ \A m \in Masters : p[m] = "outside" <=> pc[m] = "outside"
      /\ \A m \in Masters : p[m] = "returned" <=> pc[m] = "returned"
      /\ \A w \in Workers : p[w] = "off" <=> pc[w] = "off"
  <2>1. \A m \in Masters : pc'[m] = p[m]
    BY Zenon, <1>1, <1>2, <1>m
  <2>. QED
    BY Zenon, <1>4, <2>1 DEF Moved
<1>h. /\ Places(queue, b, p) /\ Busy(b, p, Threads \ {t}) /\ b[t] = {}
      /\ Owner(queue, b, p, ok) /\ Results(queue, b, p, ok) /\ Calls(queue, b, p)
      /\ TypeOK /\ Stopping /\ VerdictExact
  BY Zenon, HeadParts
<1>5. TypeOK'
  <2>1. /\ b \in [Threads -> SUBSET Checks] /\ idle \in Nat /\ total \in Nat
        /\ ok \in BOOLEAN /\ todo \in Nat
    BY Zenon DEF Head
  <2>. QED
    BY Zenon, <1>3, <1>m, <1>h, <2>1 DEF TypeOK
<1>6. Counts'
  <2>1. /\ Idlers(pc') = Idlers(p) \ {t}
        /\ Joined(pc') \subseteq Joined(p) \cup {t}
    BY Zenon, <1>4 DEF Moved
  <2>2. Joined(p) \cup {t} \in SUBSET Threads
    BY Zenon DEF Joined
  <2>3. /\ Cardinality(Joined(pc')) <= Cardinality(Joined(p) \cup {t})
        /\ Cardinality(Joined(pc')) \in Nat /\ Cardinality(Joined(p) \cup {t}) \in Nat
    BY Zenon, <2>1, <2>2, FiniteParts, FS_Subset
  <2>4. Cardinality(Idlers(pc')) = idle
    BY Zenon, <2>1 DEF Head
  <2>. QED
    BY <1>3, <2>3, <2>4 DEF Counts, Head
<1>7. Stopping'
  BY Zenon, <1>1, <1>2, <1>3, <1>m, <1>n, <1>h DEF Stopping
<1>8. Places(queue, batch, pc)' /\ Busy(batch, pc, Threads)'
  BY Zenon, <1>3, <1>m, <1>h DEF Places, Busy
<1>9. Owner(queue, batch, pc, fAllOk)'
  BY Zenon, <1>3, <1>n, <1>h DEF Owner
<1>10. Results(queue, batch, pc, fAllOk)'
  BY <1>3, <1>m, <1>n, <1>h DEF Results
<1>11. Calls(queue, batch, pc)'
  BY Zenon, <1>3, <1>m, <1>h DEF Calls
<1>12. VerdictExact'
  BY <1>3, <1>n, <1>h DEF VerdictExact
<1>. QED
  BY Zenon, <1>5, <1>6, <1>7, <1>8, <1>9, <1>10, <1>11, <1>12 DEF Inv

\* A batch is taken: its checks move from the queue to the thread.
LEMMA TakeInv ==
  ASSUME NEW t \in Threads, NEW b, NEW p, NEW idle, NEW total, NEW ok, NEW todo,
         Head(t, b, p, idle, total, ok, todo),
         Take(t, p, idle, total, ok, todo), UNCHANGED <<stop, history, pool>>
  PROVE  Inv'
<1>1. Threads = Masters \cup Workers /\ Masters \cap Workers = {}
  BY Zenon, CheckQueueAssumption DEF Threads
<1>2. PICK S \in SUBSET queue : /\ Cardinality(S) = NNow(idle, total)
                                /\ batch' = [batch EXCEPT ![t] = S] /\ queue' = queue \ S
  BY Zenon DEF Take
<1>3. /\ pc' = [p EXCEPT ![t] = "working"] /\ batch' = [b EXCEPT ![t] = S]
      /\ fOk' = [fOk EXCEPT ![t] = ok] /\ verdict' = verdict
      /\ nIdle' = idle /\ nTotal' = total /\ fAllOk' = ok /\ nTodo' = todo
      /\ stop' = stop /\ mine' = mine /\ used' = used /\ called' = called /\ pool' = pool
      /\ stop = FALSE
  BY Zenon, <1>2 DEF Take, history, Head, TypeOK
<1>4. Moved(t, p, "working", pc')
  <2>1. "working" \in Inside
    BY Zenon DEF Inside
  <2>. QED
    BY Zenon, <1>3, <2>1, MoveOn
<1>h. /\ Places(queue, b, p) /\ Busy(b, p, Threads \ {t}) /\ b[t] = {}
      /\ Owner(queue, b, p, ok) /\ Results(queue, b, p, ok) /\ Calls(queue, b, p)
      /\ TypeOK /\ Stopping /\ VerdictExact
  BY Zenon, HeadParts
<1>5. /\ \A u \in Threads : batch'[u] = IF u = t THEN S ELSE b[u]
      /\ batch' \in [Threads -> SUBSET Checks]
      /\ \A u \in Threads : fOk'[u] = IF u = t THEN ok ELSE fOk[u]
      /\ fOk' \in [Threads -> BOOLEAN]
  <2>1. /\ b \in [Threads -> SUBSET Checks] /\ fOk \in [Threads -> BOOLEAN]
        /\ ok \in BOOLEAN /\ queue \in SUBSET Checks
    BY Zenon, <1>h DEF Head, TypeOK
  <2>. QED
    BY Zenon, <1>3, <2>1
<1>m. /\ \A u \in Threads : pc'[u] = IF u = t THEN "working" ELSE p[u]
      /\ \A m \in Masters : p[m] = "outside" <=> pc[m] = "outside"
      /\ \A m \in Masters : p[m] = "returned" <=> pc[m] = "returned"
      /\ \A w \in Workers : p[w] = "off" <=> pc[w] = "off"
  BY Zenon, <1>4 DEF Moved
<1>6. Pending(queue', batch') = Pending(queue, b)
  <2>1. b \in [Threads -> SUBSET Checks] /\ b[t] = {}
    BY Zenon DEF Head
  <2>2. \A c : c = [b EXCEPT ![t] = S] => Pending(queue \ S, c) = Pending(queue, b)
    BY ZenonT(60), <2>1, PendingTake
  <2>. QED
    BY Zenon, <1>2, <1>3, <2>2
<1>7. TypeOK'
  BY Zenon, <1>2, <1>3, <1>4, <1>5 DEF TypeOK, Head, Moved
<1>8. Counts'
  <2>1. /\ Idlers(pc') = Idlers(p) \ {t}
        /\ Joined(pc') \subseteq Joined(p) \cup {t}
    BY Zenon, <1>4 DEF Moved
  <2>2. Joined(p) \cup {t} \in SUBSET Threads
    BY Zenon DEF Joined
  <2>3. /\ Cardinality(Joined(pc')) <= Cardinality(Joined(p) \cup {t})
        /\ Cardinality(Joined(pc')) \in Nat /\ Cardinality(Joined(p) \cup {t}) \in Nat
    BY Zenon, <2>1, <2>2, FiniteParts, FS_Subset
  <2>4. Cardinality(Idlers(pc')) = idle
    BY Zenon, <2>1 DEF Head
  <2>. QED
    <3>1. /\ total \in Nat /\ total >= Cardinality(Joined(p) \cup {t})
          /\ todo = Cardinality(Pending(queue, b))
      BY Zenon DEF Head
    <3>. QED
      BY <1>3, <1>6, <2>3, <2>4, <3>1 DEF Counts
<1>9. Stopping'
  <2>1. p[t] # "outside" /\ p[t] # "off"
    BY Zenon DEF Head, Inside
  <2>2. /\ \A m \in Masters : pc'[m] = "outside" <=> pc[m] = "outside"
        /\ \A w \in Workers : pc'[w] = "off" <=> pc[w] = "off"
    BY <1>1, <1>m, <2>1
  <2>. QED
    BY Zenon, <1>3, <1>h, <2>2 DEF Stopping
<1>10. Places(queue, batch, pc)' /\ Busy(batch, pc, Threads)'
  <2>1. S # {}
    <3>1. Cardinality(queue) \in Nat /\ total + idle + 1 \in Nat \ {0}
      <4>1. queue \in SUBSET Checks /\ total \in Nat /\ idle \in Nat
        BY Zenon, <1>h DEF Head, TypeOK
      <4>. QED
        BY <4>1, FiniteParts
    <3>2. NNow(idle, total) # 0
      BY SMTT(60), <3>1, CheckQueueAssumption DEF NNow, Max2, Min2
    <3>. QED
      BY Zenon, <1>2, <3>2, FS_EmptySet
  <2>. QED
    BY <1>2, <1>m, <1>5, <1>h, <2>1 DEF Places, Busy
<1>11. \A m \in Masters : /\ pc'[m] \in Active <=> p[m] \in Active
                          /\ pc'[m] = "outside" <=> p[m] = "outside"
  <2>1. p[t] \in Inside
    BY Zenon DEF Head
  <2>. QED
    BY Zenon, <1>1, <1>m, <2>1 DEF Active, Inside
<1>12. Owner(queue, batch, pc, fAllOk)'
  BY Zenon, <1>3, <1>6, <1>h, <1>11 DEF Owner
<1>13. Results(queue, batch, pc, fAllOk)'
  <2>1. ASSUME NEW m \in Masters, pc'[m] \in Active
        PROVE  /\ ok = TRUE => mine[m] \ Pending(queue, b) \subseteq called \ Bad
               /\ ok = FALSE => mine[m] \cap Bad # {}
               /\ \A u \in Threads : p[u] \in {"working", "finish"} /\ fOk[u] = FALSE =>
                    mine[m] \cap Bad # {}
    BY Zenon, <1>h, <1>11, <2>1 DEF Results
  <2>2. ASSUME NEW m \in Masters, pc'[m] \in Active, NEW u \in Threads,
               pc'[u] \in {"working", "finish"}, fOk'[u] = FALSE
        PROVE  mine[m] \cap Bad # {}
    <3>1. CASE u = t
      <4>1. ok = FALSE
        BY Zenon, <1>5, <2>2, <3>1
      <4>. QED
        BY Zenon, <2>1, <2>2, <4>1
    <3>2. CASE u # t
      <4>1. p[u] \in {"working", "finish"} /\ fOk[u] = FALSE
        BY Zenon, <1>m, <1>5, <2>2, <3>2
      <4>. QED
        BY Zenon, <2>1, <2>2, <4>1
    <3>. QED
      BY Zenon, <3>1, <3>2
  <2>3. \A u \in Threads : pc'[u] = "finish" /\ fOk'[u] = TRUE => batch'[u] \subseteq called \ Bad
    <3>1. \A u \in Threads : pc'[u] = "finish" => u # t /\ p[u] = "finish"
      BY Zenon, <1>m
    <3>2. \A u \in Threads : p[u] = "finish" /\ fOk[u] = TRUE => b[u] \subseteq called \ Bad
      BY Zenon, <1>h DEF Results
    <3>. QED
      BY Zenon, <1>5, <3>1, <3>2
  <2>. QED
    BY ZenonT(60), <1>3, <1>6, <2>1, <2>2, <2>3 DEF Results
<1>14. Calls(queue, batch, pc)'
  <2>1. Calls(queue, b, p) /\ called' = called /\ used' = used
    BY Zenon, <1>3, <1>h
  <2>2. queue' \subseteq queue /\ \A u \in Threads : batch'[u] \subseteq queue \/ batch'[u] = b[u]
    BY Zenon, <1>2, <1>5
  <2>3. \A u \in Threads : u # t => batch'[u] = b[u] /\ pc'[u] = p[u]
    BY Zenon, <1>m, <1>5
  <2>4. /\ called \subseteq used /\ queue \cap called = {} /\ queue \subseteq used
        /\ \A u \in Threads : p[u] = "working" => b[u] \cap called = {}
        /\ \A u \in Threads : b[u] \subseteq used
    BY Zenon, <2>1 DEF Calls
  <2>5. batch'[t] \subseteq queue
    BY Zenon, <1>5
  <2>6. \A u \in Threads : pc'[u] = "working" => batch'[u] \cap called = {}
    <3>1. batch'[t] \cap called = {}
      BY Zenon, <2>4, <2>5
    <3>. QED
      BY Zenon, <2>3, <2>4, <3>1
  <2>7. \A u \in Threads : batch'[u] \subseteq used
    BY Zenon, <2>2, <2>4
  <2>8. queue' \cap called = {} /\ queue' \subseteq used
    BY Zenon, <2>2, <2>4
  <2>. QED
    BY Zenon, <2>1, <2>4, <2>6, <2>7, <2>8 DEF Calls
<1>15. VerdictExact'
  <2>1. t \in Masters => p[t] # "returned"
    BY Zenon DEF Head, Inside
  <2>2. \A m \in Masters : pc'[m] = "returned" <=> pc[m] = "returned"
    BY Zenon, <1>1, <1>m, <2>1
  <2>. QED
    BY Zenon, <1>3, <1>h, <2>2 DEF VerdictExact
<1>. QED
  BY Zenon, <1>7, <1>8, <1>9, <1>10, <1>12, <1>13, <1>14, <1>15 DEF Inv

\* Every way out of the inner while restores the invariant.
LEMMA ScanInv ==
  ASSUME NEW t \in Threads, NEW b, NEW p, NEW idle, NEW total, NEW ok, NEW todo,
         Head(t, b, p, idle, total, ok, todo),
         Scan(t, p, idle, total, ok, todo)
  PROVE  Inv'
  BY Zenon, CondWaitInv, ReturnInv, ReturnStoppedInv, TakeInv DEF Scan

(***************************************************************************)
(* The three ways to the head of the inner while.                          *)
(***************************************************************************)

\* A thread that holds no batch reaches the head with the counters it adjusts.
LEMMA HeadIdle ==
  ASSUME Inv, NEW t \in Threads, pc[t] \in {"enter", "woken"},
         NEW b, b = batch, NEW p, p = pc, NEW ok, ok = fAllOk, NEW todo, todo = nTodo,
         NEW idle, idle = IF pc[t] = "woken" THEN nIdle - 1 ELSE nIdle,
         NEW total, total = IF pc[t] = "enter" THEN nTotal + 1 ELSE nTotal
  PROVE  Head(t, b, p, idle, total, ok, todo)
<1>1. /\ p[t] \in Inside /\ p \in [Threads -> MasterStates \cup WorkerStates]
      /\ b \in [Threads -> SUBSET Checks] /\ ok \in BOOLEAN /\ todo \in Nat
  BY Zenon DEF Inv, TypeOK, Inside
<1>2. b[t] = {}
  BY Zenon DEF Inv, Places
<1>3. Idlers(pc) \in SUBSET Threads /\ Joined(pc) \in SUBSET Threads
  BY Zenon DEF Idlers, Joined
<1>4. idle \in Nat /\ idle = Cardinality(Idlers(p) \ {t})
  <2>1. CASE pc[t] = "woken"
    <3>1. t \in Idlers(pc)
      BY Zenon, <2>1 DEF Idlers
    <3>2. Cardinality(Idlers(pc) \ {t}) = Cardinality(Idlers(pc)) - 1
      BY Zenon, <1>3, <3>1, FiniteParts, CountOne
    <3>3. Cardinality(Idlers(pc) \ {t}) \in Nat
      BY Zenon, <1>3, FiniteParts
    <3>. QED
      BY Zenon, <2>1, <3>2, <3>3 DEF Inv, Counts
  <2>2. CASE pc[t] = "enter"
    <3>1. Idlers(pc) \ {t} = Idlers(pc)
      BY Zenon, <2>2 DEF Idlers
    <3>. QED
      BY Zenon, <2>2, <3>1 DEF Inv, Counts, TypeOK
  <2>. QED
    BY Zenon, <2>1, <2>2
<1>5. total \in Nat /\ total >= Cardinality(Joined(p) \cup {t})
  <2>1. CASE pc[t] = "woken"
    <3>1. Joined(pc) \cup {t} = Joined(pc)
      BY Zenon, <2>1 DEF Joined
    <3>. QED
      BY Zenon, <2>1, <3>1 DEF Inv, Counts, TypeOK
  <2>2. CASE pc[t] = "enter"
    <3>1. t \notin Joined(pc)
      BY Zenon, <2>2 DEF Joined
    <3>2. Cardinality(Joined(pc) \cup {t}) = Cardinality(Joined(pc)) + 1
      BY Zenon, <1>3, <3>1, FiniteParts, CountOne
    <3>3. Cardinality(Joined(pc)) \in Nat
      BY Zenon, <1>3, FiniteParts
    <3>. QED
      BY <2>2, <3>2, <3>3 DEF Inv, Counts, TypeOK
  <2>. QED
    BY Zenon, <2>1, <2>2
<1>6. Busy(b, p, Threads \ {t})
  BY Zenon DEF Inv, Busy
<1>. QED
  BY Zenon, <1>1, <1>2, <1>4, <1>5, <1>6 DEF Head, Inv, Counts

LEMMA EnterInv == ASSUME Inv, NEW t \in Threads, Enter(t) PROVE Inv'
<1>1. PICK b, p, ok, todo, idle, total :
        /\ b = batch /\ p = pc /\ ok = fAllOk /\ todo = nTodo
        /\ idle = nIdle /\ total = nTotal + 1
  BY Zenon
<1>2. pc[t] = "enter" /\ Scan(t, p, idle, total, ok, todo)
  BY Zenon, <1>1 DEF Enter
<1>3. Head(t, b, p, idle, total, ok, todo)
  BY Zenon, <1>1, <1>2, HeadIdle
<1>. QED
  BY Zenon, <1>2, <1>3, ScanInv

LEMMA WokenInv == ASSUME Inv, NEW t \in Threads, Woken(t) PROVE Inv'
<1>1. PICK b, p, ok, todo, idle, total :
        /\ b = batch /\ p = pc /\ ok = fAllOk /\ todo = nTodo
        /\ idle = nIdle - 1 /\ total = nTotal
  BY Zenon
<1>2. pc[t] = "woken" /\ Scan(t, p, idle, total, ok, todo)
  BY Zenon, <1>1 DEF Woken
<1>3. Head(t, b, p, idle, total, ok, todo)
  BY Zenon, <1>1, <1>2, HeadIdle
<1>. QED
  BY Zenon, <1>2, <1>3, ScanInv

==============================================================================
