--------------------------- MODULE ChainSelection ---------------------------
(***************************************************************************)
(* Which chain of blocks the node follows: the block index and its status  *)
(* flags, the set of candidate tips, activation of the best chain in steps *)
(* that give cs_main up between them, automatic parking and unparking of   *)
(* deep forks, finalization, and the operator's commands preciousblock,    *)
(* finalizeblock, invalidateblock, parkblock, reconsiderblock and          *)
(* unparkblock (src/src/validation.cpp, chain.cpp, blockstatus.h,          *)
(* blockindexworkcomparator.h, rpc/blockchain.cpp).                        *)
(*                                                                         *)
(* A thread is the message handler or an RPC worker.  A critical section   *)
(* of cs_main is one action, or several that keep `lock`.  The tree of     *)
(* mined blocks is a constant; headers and blocks arrive in any order that *)
(* has a parent's header first.  Block files are never pruned and disk     *)
(* errors, which abort the node, do not happen here.                       *)
(***************************************************************************)
EXTENDS Integers, FiniteSetsExt, FiniteSets

CONSTANTS
    Blocks, Genesis,  \* every block ever mined
    pprev,            \* the parent of each block; pprev[Genesis] = None
    Proof,            \* GetBlockProof of each block
    Addr,             \* the address of each CBlockIndex, the last tie breaker
    MayFail,          \* the blocks that may turn out to break a rule
    Threads, None,
    maxreorgdepth, finalizeheaders, parkdeepreorg, automaticunparking,
    Commands,         \* the commands the operator uses
    MaxCommands       \* how many of them

VARIABLES
    verdict,    \* what validation finds in each block (never changes)
    mapBlockIndex, data, linked, scripts, mapBlocksUnlinked,
    nSequenceId, nBlockSequenceId, nBlockReverseSequenceId,
    nLastPreciousChainwork,
    marks,      \* the failed and parked flags, the candidates, m_failed_blocks
    tip, pindexFinalized,
    lock, chainLock,      \* the holders of cs_main and of m_cs_chainstate
    thread,               \* the locals of each thread
    commands,             \* commands given so far
    halted                \* the assertion that ended the process, if one did

index == << mapBlockIndex, data, linked, scripts, mapBlocksUnlinked >>
order == << nSequenceId, nBlockSequenceId, nBlockReverseSequenceId,
            nLastPreciousChainwork >>
vars == << verdict, index, order, marks, tip, pindexFinalized, lock,
           chainLock, thread, commands, halted >>

-----------------------------------------------------------------------------
(* The tree.                                                               *)

Ancestors ==
    LET up[b \in Blocks] == {b} \cup (IF b = Genesis THEN {} ELSE up[pprev[b]])
    IN  [b \in Blocks |-> up[b]]

nHeight == [b \in Blocks |-> Cardinality(Ancestors[b]) - 1]

nChainWork == [b \in Blocks |-> MapThenSumSet(LAMBDA a : Proof[a], Ancestors[b])]

Highest(S) == CHOOSE b \in S : \A a \in S : nHeight[a] <= nHeight[b]

Lowest(S) == CHOOSE b \in S : \A a \in S : nHeight[b] <= nHeight[a]

LastCommonAncestor(a, b) == Highest(Ancestors[a] \cap Ancestors[b])

AreOnTheSameFork(a, b) == a \in Ancestors[b] \/ b \in Ancestors[a]

Descendants(b) == { d \in mapBlockIndex : b \in Ancestors[d] }

FindFork(b) == LastCommonAncestor(tip, b)

NextTowards(a, b) == CHOOSE n \in Ancestors[b] : pprev[n] = a

(* CBlockIndexWorkComparator under the sequence numbers id: less work, a   *)
(* later arrival, a higher address.                                        *)
Worse(id, a, b) ==
    \/ nChainWork[a] < nChainWork[b]
    \/ nChainWork[a] = nChainWork[b] /\ id[a] > id[b]
    \/ nChainWork[a] = nChainWork[b] /\ id[a] = id[b] /\ Addr[a] > Addr[b]

-----------------------------------------------------------------------------
(* Status flags.  A block's nStatus is spread over the sets of m.          *)

Invalid(m) == m.failed \cup m.failedParent

OnParkedChain(m) == m.parked \cup m.parkedParent

IsValid(m) == data \ Invalid(m)    \* valid up to TRANSACTIONS

(* UpdateFlags ends: n has the new flags, m the old ones.  Blocks whose    *)
(* flags changed leave m_failed_blocks when valid, and become candidates   *)
(* when they beat the tip.                                                 *)
Flagged(m, b) == << b \in m.failed, b \in m.failedParent,
                    b \in m.parked, b \in m.parkedParent >>

UpdateFlags(m, n, id) ==
    LET changed == { b \in IsValid(n) : Flagged(m, b) # Flagged(n, b) }
    IN  [n EXCEPT !.candidates = @ \cup { b \in changed \cap linked :
                                            Worse(id, tip, b) },
                  !.failedBlocks = @ \ changed]

(* The deepest ancestor of b that carries one of the flags, b if none.     *)
DeepestChanged(b, S) ==
    IF Ancestors[b] \cap S = {} THEN b ELSE Lowest(Ancestors[b] \cap S)

UnparkBlockImpl(m, b, fClearChildren, id) ==
    LET below == Descendants(DeepestChanged(b, OnParkedChain(m)))
    IN  UpdateFlags(m,
          [m EXCEPT
             !.parked = @ \ (Ancestors[b] \cup
                             (IF fClearChildren THEN Descendants(b) ELSE {})),
             !.parkedParent = @ \ (Ancestors[b] \cup below)], id)

(* Mutant: the descendants stay marked as children of a failed block.      *)
ClearedOnlyAbove(m, b) ==
    UpdateFlags(m,
      [m EXCEPT !.failed = @ \ (Ancestors[b] \cup Descendants(b)),
                !.failedParent = @ \ Ancestors[b]],
      nSequenceId)

(* reconsiderblock: the failures of b, its ancestors and its descendants   *)
(* are forgotten.                                                          *)
ClearedFailureFlags(m, b) ==
    LET below == Descendants(DeepestChanged(b, Invalid(m)))
    IN  UpdateFlags(m,
          [m EXCEPT !.failed = @ \ (Ancestors[b] \cup Descendants(b)),
                    !.failedParent = @ \ (Ancestors[b] \cup below)],
          nSequenceId)

(* Mutant: nothing is pruned.                                              *)
PruneNothing(m, b, id) == m

(* PruneBlockIndexCandidates once the tip is b.                            *)
Prune(m, b, id) ==
    [m EXCEPT !.candidates = { c \in @ : ~Worse(id, c, b) }]

(* The assertion that ends PruneBlockIndexCandidates.                      *)
PruneAsserts(m) == IF m.candidates = {} THEN "prune" ELSE halted

(* The finalization point after InvalidChainFound(b).                      *)
InvalidChainFound(final, b) ==
    IF final # None /\ b \in Ancestors[final] THEN pprev[b] ELSE final

-----------------------------------------------------------------------------
(* Threads and locks.                                                      *)

Idle == [pc |-> "idle", mostWork |-> None, newTip |-> None,
         startTip |-> None, oldTip |-> None, connected |-> FALSE,
         target |-> None, toMark |-> None, invalidate |-> FALSE]

CanLock(t) == lock \in {None, t} /\ halted = "no"

At(t, where) == thread[t].pc = where /\ CanLock(t)

(* The thread goes on to ActivateBestChain.                                *)
ThenActivate(t) == thread' = [thread EXCEPT ![t] = [Idle EXCEPT !.pc = "activate"]]

-----------------------------------------------------------------------------
(* Headers and blocks arrive.                                              *)

(* ContextualCheckBlockHeader: new headers must build on the finalized     *)
(* block.                                                                  *)
BelowFinalized(b) ==
    /\ finalizeheaders
    /\ pindexFinalized # None
    /\ pindexFinalized \notin Ancestors[pprev[b]]

(* The members of m_failed_blocks AcceptBlockHeader looks for below a new  *)
(* header: none when the parent is fully validated.                        *)
FailedBelow(b) ==
    IF pprev[b] \in scripts \ Invalid(marks) THEN {}
    ELSE marks.failedBlocks \cap Ancestors[pprev[b]]

HeaderRefused(b) ==
    IF b \in mapBlockIndex THEN b \in Invalid(marks)
    ELSE \/ pprev[b] \in Invalid(marks)
         \/ BelowFinalized(b)
         \/ FailedBelow(b) # {}

(* AcceptBlockHeader meets a member of m_failed_blocks below the new       *)
(* header b: it asserts that the member is marked failed, marks the blocks *)
(* above it and refuses b.  The other refusals change nothing.             *)
RefuseHeader(b) ==
    /\ pprev[b] \notin Invalid(marks)
    /\ ~BelowFinalized(b)
    /\ \E f \in FailedBelow(b) :
         IF f \in marks.failed
         THEN /\ marks' = [marks EXCEPT !.failedParent =
                             @ \cup (Ancestors[pprev[b]] \ Ancestors[f])]
              /\ UNCHANGED halted
         ELSE halted' = "failed_blocks" /\ UNCHANGED marks
    /\ UNCHANGED << verdict, index, order, tip, pindexFinalized, lock,
                    chainLock, thread, commands >>

(* ProcessNewBlockHeaders with one header.                                 *)
NewHeader(t, b) ==
    /\ At(t, "idle")
    /\ b \notin mapBlockIndex
    /\ pprev[b] \in mapBlockIndex
    /\ \/ RefuseHeader(b)
       \/ /\ ~HeaderRefused(b)
          /\ mapBlockIndex' = mapBlockIndex \cup {b}
          /\ UNCHANGED << verdict, data, linked, scripts, mapBlocksUnlinked,
                          order, marks, tip, pindexFinalized, lock,
                          chainLock, thread, commands, halted >>

(* The blocks ReceivedBlockTransactions links once b has its data.         *)
NowLinked(b) ==
    { d \in mapBlocksUnlinked \cup {b} :
        /\ b \in Ancestors[d]
        /\ Ancestors[d] \ Ancestors[b] \subseteq mapBlocksUnlinked }

(* The ways to number the blocks of S from n, parents first.               *)
Numberings(S, n) ==
    { f \in [S -> n .. n + Cardinality(S) - 1] :
        \A a, b \in S : /\ a # b => f[a] # f[b]
                        /\ nHeight[a] < nHeight[b] => f[a] < f[b] }

(* Mutant: a block is a candidate before its ancestors have their data.    *)
ReceivedEarly(b, m) ==
    /\ data' = data \cup {b}
    /\ linked' = IF pprev[b] \in linked THEN linked \cup {b} ELSE linked
    /\ nSequenceId' = [nSequenceId EXCEPT ![b] = nBlockSequenceId]
    /\ nBlockSequenceId' = nBlockSequenceId + 1
    /\ marks' = [m EXCEPT !.candidates = @ \cup {b}]
    /\ UNCHANGED mapBlocksUnlinked

(* ReceivedBlockTransactions, m the flags AcceptBlock has just set.        *)
ReceivedBlockTransactions(b, m) ==
    /\ data' = data \cup {b}
    /\ IF pprev[b] \in linked
       THEN LET new == NowLinked(b)
                unnumbered == { d \in new : nSequenceId[d] = 0 }
            IN  /\ linked' = linked \cup new
                /\ mapBlocksUnlinked' = mapBlocksUnlinked \ new
                /\ \E f \in Numberings(unnumbered, nBlockSequenceId) :
                     nSequenceId' = [d \in Blocks |->
                       IF d \in unnumbered THEN f[d] ELSE nSequenceId[d]]
                /\ nBlockSequenceId' = nBlockSequenceId + Cardinality(unnumbered)
                /\ marks' = [m EXCEPT !.candidates = @ \cup
                     { d \in new : ~Worse(nSequenceId', d, tip) }]
       ELSE /\ mapBlocksUnlinked' = mapBlocksUnlinked \cup
                 (IF pprev[b] \in Invalid(m) THEN {} ELSE {b})
            /\ marks' = m
            /\ UNCHANGED << linked, nSequenceId, nBlockSequenceId >>

(* AcceptBlock parks a block whose activation would disconnect more than   *)
(* one block.                                                              *)
ParkDeepReorg(b) ==
    IF parkdeepreorg /\ nHeight[FindFork(b)] + 1 < nHeight[tip]
    THEN [marks EXCEPT !.parked = @ \cup {b}] ELSE marks

(* ProcessNewBlock: the block is refused, ignored (already here, or not    *)
(* requested and worse than the tip), breaks a rule that needs no coins,   *)
(* or is stored; then the best chain is activated.                         *)
NewBlock(t, b, fRequested) ==
    /\ At(t, "idle")
    /\ pprev[b] \in mapBlockIndex
    /\ ~HeaderRefused(b)
    /\ mapBlockIndex' = mapBlockIndex \cup {b}
    /\ IF b \in data \/ (~fRequested /\ nChainWork[b] < nChainWork[tip])
       THEN /\ ThenActivate(t)
            /\ UNCHANGED << data, linked, mapBlocksUnlinked, nSequenceId,
                            nBlockSequenceId, marks >>
       ELSE IF verdict[b] = "contextual"
       THEN /\ marks' = [marks EXCEPT !.failed = @ \cup {b}]
            /\ UNCHANGED << data, linked, mapBlocksUnlinked, nSequenceId,
                            nBlockSequenceId, thread >>
       ELSE ReceivedBlockTransactions(b, ParkDeepReorg(b)) /\ ThenActivate(t)
    /\ UNCHANGED << verdict, scripts, nBlockReverseSequenceId,
                    nLastPreciousChainwork, tip, pindexFinalized, lock,
                    chainLock, commands, halted >>

-----------------------------------------------------------------------------
(* ActivateBestChain.                                                      *)

(* It runs under m_cs_chainstate and takes cs_main for each step.          *)
Enter(t) ==
    /\ At(t, "activate")
    /\ chainLock = None
    /\ chainLock' = t
    /\ lock' = t
    /\ thread' = [thread EXCEPT ![t].pc = "find", ![t].startTip = tip]
    /\ UNCHANGED << verdict, index, order, marks, tip, pindexFinalized,
                    commands, halted >>

Again(t) ==
    /\ At(t, "top")
    /\ lock' = t
    /\ thread' = [thread EXCEPT ![t].pc = "find", ![t].startTip = tip,
                                ![t].connected = FALSE]
    /\ UNCHANGED << verdict, index, order, marks, tip, pindexFinalized,
                    chainLock, commands, halted >>

(* The work beyond which a parked chain that forks at `fork` is unparked.  *)
RequiredWork(fork) ==
    LET depth == nHeight[tip] - nHeight[fork]
        extra == IF depth \in {2, 3} THEN pprev[tip] ELSE tip
        delta == nChainWork[extra] - nChainWork[fork]
    IN  nChainWork[tip] + (IF depth \in 1 .. 3 THEN delta \div 2 ELSE delta)

BestCandidate(c) == \A d \in marks.candidates : ~Worse(nSequenceId, c, d)

(* FindMostWorkChain looks at the best candidate c: its blocks that are    *)
(* not active, from c down to the first invalid one.                       *)
Visited(m, c) ==
    LET path == Ancestors[c] \ Ancestors[tip]
    IN  { b \in path : (path \ Ancestors[b]) \cap Invalid(m) = {} }

VisitedParked(m, c) == Visited(m, c) \cap OnParkedChain(m)

(* Mutant: only the flags of the candidate itself are looked at.           *)
UnusableItself(m, c) == {c} \cap (Invalid(m) \cup OnParkedChain(m))

(* Mutant: parked blocks are usable.                                       *)
UnusableInvalid(m, c) == Visited(m, c) \cap Invalid(m)

Unusable(m, c) == Visited(m, c) \cap (Invalid(m) \cup OnParkedChain(m))

(* Mutant: a candidate is compared with the tip, not the finalized block.  *)
AgainstTip(c) == pindexFinalized # None /\ nHeight[c] < nHeight[tip]

AgainstFinalized(c) ==
    /\ pindexFinalized # None
    /\ ~AreOnTheSameFork(c, pindexFinalized)

EnoughWork(c) ==
    /\ automaticunparking
    /\ VisitedParked(marks, c) # {}
    /\ nChainWork[c] > RequiredWork(FindFork(c))

Looking(t) == /\ At(t, "find")
              /\ thread[t].mostWork = None
              /\ UNCHANGED << verdict, index, order, tip, pindexFinalized, lock,
                              chainLock, commands, halted >>

(* A candidate that conflicts with the finalized block is marked failed.   *)
RejectCandidate(t, c) ==
    /\ Looking(t)
    /\ AgainstFinalized(c)
    /\ c \notin marks.failed
    /\ marks' = [marks EXCEPT !.failed = @ \cup {c}]
    /\ UNCHANGED thread

(* ActivateBestChainStep starts towards b, or there is nothing to do.      *)
Start(t, b) ==
    thread' = [thread EXCEPT ![t].mostWork = b, ![t].oldTip = tip,
                 ![t].pc = IF b \in {None, tip} THEN "leave" ELSE "step"]

(* The first invalid or parked block met, and the blocks above it, are no  *)
(* candidates; the blocks above it are marked as children of such a block. *)
Dropped(m, c) ==
    LET test == Highest(Unusable(m, c))
        above == Ancestors[c] \ Ancestors[test]
    IN  [m EXCEPT
           !.candidates = @ \ (above \cup {test}),
           !.failedParent = IF test \in Invalid(m) THEN @ \cup above ELSE @ \ above,
           !.parkedParent = IF test \in OnParkedChain(m)
                            THEN @ \cup above ELSE @ \ above]

(* A usable candidate is the new target; another is dropped, and the best  *)
(* of the rest is looked at next.                                          *)
Decide(t, c, m) ==
    IF Unusable(m, c) = {}
    THEN Start(t, c) /\ marks' = m
    ELSE UNCHANGED thread /\ marks' = Dropped(m, c)

(* A parked chain with the work for it is unparked on the way.             *)
UnparkCandidate(t, c) ==
    /\ Looking(t)
    /\ AgainstFinalized(c) => c \in marks.failed
    /\ EnoughWork(c)
    /\ \E b \in {Highest(VisitedParked(marks, c))} :
         \E m \in {UnparkBlockImpl(marks, b, FALSE, nSequenceId)} : Decide(t, c, m)

TakeCandidate(t, c) ==
    /\ Looking(t)
    /\ AgainstFinalized(c) => c \in marks.failed
    /\ ~EnoughWork(c)
    /\ Decide(t, c, marks)

(* No candidate, or ActivateBestChain still has a target.                  *)
KeepTarget(t) ==
    /\ At(t, "find")
    /\ thread[t].mostWork # None \/ marks.candidates = {}
    /\ Start(t, thread[t].mostWork)
    /\ UNCHANGED << verdict, index, order, marks, tip, pindexFinalized, lock,
                    chainLock, commands, halted >>

FindMostWorkChain(t) ==
    \/ \E c \in marks.candidates :
         /\ BestCandidate(c)
         /\ \/ RejectCandidate(t, c) \/ UnparkCandidate(t, c)
            \/ TakeCandidate(t, c)
    \/ KeepTarget(t)

(* DisconnectTip: a finalized tip is no longer finalized.                  *)
DisconnectTip ==
    /\ tip' = pprev[tip]
    /\ pindexFinalized' = IF pindexFinalized = tip THEN pprev[tip] ELSE pindexFinalized

Disconnect(t) ==
    /\ At(t, "step")
    /\ tip \notin Ancestors[thread[t].mostWork]
    /\ DisconnectTip
    /\ UNCHANGED << verdict, index, order, marks, lock, chainLock, thread,
                    commands, halted >>

(* The end of ActivateBestChainStep, with the tip at b: another round      *)
(* unless the tip is at least as good as at the start.                     *)
EndStep(t, b, mostWork) ==
    thread' = [thread EXCEPT ![t].mostWork = mostWork, ![t].newTip = b,
                 ![t].connected = TRUE,
                 ![t].pc = IF Worse(nSequenceId, b, thread[t].startTip)
                           THEN "find" ELSE "leave"]

(* What FindBlockToFinalize may return for the new tip b: which ancestors  *)
(* were known for long enough depends on the clock.                        *)
FindBlockToFinalize(b) ==
    LET deep == { a \in Ancestors[b] : nHeight[a] <= nHeight[b] - maxreorgdepth }
    IN  {None} \cup { a \in deep : pindexFinalized \in deep =>
                                    pindexFinalized \in Ancestors[a] \ {a} }

(* FinalizeBlockInternal refuses the block.                                *)
CannotFinalize(b) ==
    \/ b \in Invalid(marks)
    \/ pindexFinalized # None /\ ~AreOnTheSameFork(b, pindexFinalized)

Finalized(b) ==
    IF pindexFinalized # None /\ b \in Ancestors[pindexFinalized]
    THEN pindexFinalized ELSE b

(* Mutant: the target that has just failed is kept.                        *)
ConnectFailsKept(t, b) ==
    /\ verdict[b] = "connect"
    /\ marks' = [marks EXCEPT !.failed = @ \cup {b}, !.failedBlocks = @ \cup {b}]
    /\ EndStep(t, tip, thread[t].mostWork)
    /\ UNCHANGED << pindexFinalized, tip, scripts, halted >>

(* ConnectTip: the next block towards the target.                          *)
ConnectFails(t, b) ==
    LET first == NextTowards(LastCommonAncestor(thread[t].oldTip,
                               thread[t].mostWork), thread[t].mostWork)
    IN  /\ verdict[b] = "connect"
        /\ marks' = [marks EXCEPT !.failed = @ \cup {b}, !.failedBlocks = @ \cup {b}]
        /\ pindexFinalized' = InvalidChainFound(InvalidChainFound(pindexFinalized, b), first)
        /\ EndStep(t, tip, None)
        /\ UNCHANGED << tip, scripts, halted >>

(* A block that connects may finalize one below it.  When that one cannot  *)
(* be finalized the step ends as if a block had failed.                    *)
ConnectSucceeds(t, b) ==
    /\ verdict[b] # "connect"
    /\ scripts' = scripts \cup ({b} \ Invalid(marks))
    /\ \E a \in FindBlockToFinalize(b) :
         IF a # None /\ CannotFinalize(a)
         THEN /\ EndStep(t, tip, None)
              /\ UNCHANGED << marks, tip, pindexFinalized, halted >>
         ELSE /\ pindexFinalized' = IF a = None THEN pindexFinalized ELSE Finalized(a)
              /\ tip' = b
              /\ marks' = Prune(marks, b, nSequenceId)
              /\ halted' = PruneAsserts(marks')
              /\ IF \/ b = thread[t].mostWork
                    \/ nChainWork[b] > nChainWork[thread[t].oldTip]
                 THEN EndStep(t, b, thread[t].mostWork)
                 ELSE UNCHANGED thread

Connect(t) ==
    /\ At(t, "step")
    /\ tip \in Ancestors[thread[t].mostWork] \ {thread[t].mostWork}
    /\ LET b == NextTowards(tip, thread[t].mostWork)
       IN  ConnectFails(t, b) \/ ConnectSucceeds(t, b)
    /\ UNCHANGED << verdict, mapBlockIndex, data, linked, mapBlocksUnlinked,
                    order, lock, chainLock, commands >>

(* Mutant: ActivateBestChain returns after its first step.                 *)
LeaveAlways(t) ==
    /\ At(t, "leave")
    /\ lock' = None
    /\ thread' = [thread EXCEPT ![t] = Idle] /\ chainLock' = None
    /\ UNCHANGED << verdict, index, order, marks, tip, pindexFinalized,
                    commands, halted >>

(* cs_main is given up.  ActivateBestChain returns when it did nothing or  *)
(* has reached its target.                                                 *)
Leave(t) ==
    /\ At(t, "leave")
    /\ lock' = None
    /\ IF thread[t].connected /\ thread[t].newTip # thread[t].mostWork
       THEN thread' = [thread EXCEPT ![t].pc = "top"] /\ UNCHANGED chainLock
       ELSE thread' = [thread EXCEPT ![t] = Idle] /\ chainLock' = None
    /\ UNCHANGED << verdict, index, order, marks, tip, pindexFinalized,
                    commands, halted >>

-----------------------------------------------------------------------------
(* The operator's commands (rpc/blockchain.cpp).  Each ends in             *)
(* ActivateBestChain.                                                      *)

Command(t, name, b) ==
    /\ At(t, "idle")
    /\ name \in Commands
    /\ commands < MaxCommands
    /\ commands' = commands + 1
    /\ b \in mapBlockIndex \ {Genesis}

(* preciousblock: b counts as received before the blocks of equal work.    *)
PreciousBlock(t, b) ==
    /\ Command(t, "preciousblock", b)
    /\ nChainWork[b] >= nChainWork[tip]
    /\ LET id == IF nChainWork[tip] > nLastPreciousChainwork
                 THEN -1 ELSE nBlockReverseSequenceId
           m == UnparkBlockImpl([marks EXCEPT !.candidates = @ \ {b}], b, FALSE,
                                nSequenceId')
       IN  /\ nSequenceId' = [nSequenceId EXCEPT ![b] = id]
           /\ nBlockReverseSequenceId' = id - 1
           /\ nLastPreciousChainwork' = nChainWork[tip]
           /\ IF b \in IsValid(m) \cap linked
              THEN /\ marks' = Prune([m EXCEPT !.candidates = @ \cup {b}], tip,
                                     nSequenceId')
                   /\ halted' = PruneAsserts(marks')
              ELSE marks' = m /\ UNCHANGED halted
    /\ ThenActivate(t)
    /\ UNCHANGED << verdict, index, nBlockSequenceId, tip, pindexFinalized,
                    lock, chainLock >>

(* reconsiderblock: ResetBlockFailureFlags.                                *)
ReconsiderBlock(t, b) ==
    /\ Command(t, "reconsiderblock", b)
    /\ marks' = ClearedFailureFlags(marks, b)
    /\ pindexFinalized' = IF pindexFinalized = None THEN None
                          ELSE LastCommonAncestor(b, pindexFinalized)
    /\ ThenActivate(t)
    /\ UNCHANGED << verdict, index, order, tip, lock, chainLock, halted >>

(* unparkblock: UnparkBlockAndChildren.                                    *)
UnparkBlock(t, b) ==
    /\ Command(t, "unparkblock", b)
    /\ marks' = UnparkBlockImpl(marks, b, TRUE, nSequenceId)
    /\ ThenActivate(t)
    /\ UNCHANGED << verdict, index, order, tip, pindexFinalized, lock,
                    chainLock, halted >>

(* UnwindBlock starts: InvalidateBlock or ParkBlock.                       *)
ThenUnwind(t, b, invalidate) ==
    thread' = [thread EXCEPT ![t] = [Idle EXCEPT !.pc = "unwind", !.target = b,
                                       !.toMark = b, !.invalidate = invalidate]]

InvalidateBlock(t, b) ==
    /\ Command(t, "invalidateblock", b)
    /\ ThenUnwind(t, b, TRUE)
    /\ UNCHANGED << verdict, index, order, marks, tip, pindexFinalized, lock,
                    chainLock, halted >>

ParkBlock(t, b) ==
    /\ Command(t, "parkblock", b)
    /\ ThenUnwind(t, b, FALSE)
    /\ UNCHANGED << verdict, index, order, marks, tip, pindexFinalized, lock,
                    chainLock, halted >>

(* finalizeblock: FinalizeBlockAndInvalidate, all under cs_main.           *)
FinalizeBlock(t, b) ==
    /\ Command(t, "finalizeblock", b)
    /\ ~CannotFinalize(b)
    /\ pindexFinalized' = Finalized(b)
    /\ marks' = IF b \in OnParkedChain(marks)
                THEN UnparkBlockImpl(marks, b, FALSE, nSequenceId) ELSE marks
    /\ IF AreOnTheSameFork(b, tip)
       THEN ThenActivate(t) /\ UNCHANGED lock
       ELSE ThenUnwind(t, NextTowards(FindFork(b), tip), TRUE) /\ lock' = t
    /\ UNCHANGED << verdict, index, order, tip, chainLock, halted >>

(* One round of UnwindBlock: the tip is disconnected and marked; the block *)
(* above it, if marked in the previous round, becomes its child.  cs_main  *)
(* is free between rounds unless finalizeblock holds it.                   *)
Unwind(t) ==
    /\ At(t, "unwind")
    /\ thread[t].target \in Ancestors[tip]
    /\ DisconnectTip
    /\ LET child == {thread[t].toMark} \cap { b \in Blocks : pprev[b] = tip }
       IN  marks' = IF thread[t].invalidate
             THEN [marks EXCEPT !.failed = (@ \cup {tip}) \ child,
                                !.failedParent = @ \cup (child \cap marks.failed),
                                !.candidates = @ \cup {pprev[tip]}]
             ELSE [marks EXCEPT !.parked = (@ \cup {tip}) \ child,
                                !.parkedParent = @ \cup (child \cap marks.parked),
                                !.candidates = @ \cup {pprev[tip]}]
    /\ thread' = [thread EXCEPT ![t].toMark = tip]
    /\ UNCHANGED << verdict, index, order, lock, chainLock, commands, halted >>

(* The loop of UnwindBlock ends: the block is not active.                  *)
Mark(t) ==
    /\ At(t, "unwind")
    /\ thread[t].target \notin Ancestors[tip]
    /\ thread' = [thread EXCEPT ![t].pc = "mark"]
    /\ UNCHANGED << verdict, index, order, marks, tip, pindexFinalized, lock,
                    chainLock, commands, halted >>

(* Mutant: the candidates are not collected again.                         *)
UnwindEndNoCandidates(t) ==
    /\ At(t, "mark")
    /\ marks' = IF thread[t].invalidate
               THEN [marks EXCEPT !.failed = @ \cup {thread[t].toMark},
                                  !.failedBlocks = @ \cup {thread[t].toMark}]
               ELSE [marks EXCEPT !.parked = @ \cup {thread[t].toMark}]
    /\ pindexFinalized' = IF thread[t].invalidate
         THEN InvalidChainFound(pindexFinalized, thread[t].toMark) ELSE pindexFinalized
    /\ lock' = None
    /\ ThenActivate(t)
    /\ UNCHANGED << verdict, index, order, tip, chainLock, commands, halted >>

(* The end of UnwindBlock: the last disconnected block, or the one named,  *)
(* is marked, and every block that may be the best tip is a candidate      *)
(* again.                                                                  *)
UnwindEnd(t) ==
    /\ At(t, "mark")
    /\ LET b == thread[t].toMark
           m == IF thread[t].invalidate
                THEN [marks EXCEPT !.failed = @ \cup {b},
                                   !.failedBlocks = @ \cup {b}]
                ELSE [marks EXCEPT !.parked = @ \cup {b}]
       IN  IF b \in Ancestors[tip]
           THEN UNCHANGED << marks, pindexFinalized >>
           ELSE /\ marks' = [m EXCEPT !.candidates = @ \cup
                     { c \in IsValid(m) \cap linked : ~Worse(nSequenceId, c, tip) }]
                /\ pindexFinalized' = IF thread[t].invalidate
                     THEN InvalidChainFound(pindexFinalized, b) ELSE pindexFinalized
    /\ lock' = None
    /\ ThenActivate(t)
    /\ UNCHANGED << verdict, index, order, tip, chainLock, commands, halted >>

-----------------------------------------------------------------------------
Init ==
    /\ verdict \in { v \in [Blocks -> {"good", "contextual", "connect"}] :
                       \A b \in Blocks \ MayFail : v[b] = "good" }
    /\ mapBlockIndex = {Genesis} /\ data = {Genesis} /\ linked = {Genesis}
    /\ scripts = {Genesis} /\ mapBlocksUnlinked = {}
    /\ nSequenceId = [b \in Blocks |-> IF b = Genesis THEN 1 ELSE 0]
    /\ nBlockSequenceId = 2 /\ nBlockReverseSequenceId = -1
    /\ nLastPreciousChainwork = 0
    /\ marks = [failed |-> {}, failedParent |-> {}, parked |-> {},
                parkedParent |-> {}, candidates |-> {Genesis},
                failedBlocks |-> {}]
    /\ tip = Genesis /\ pindexFinalized = None
    /\ lock = None /\ chainLock = None
    /\ thread = [t \in Threads |-> Idle]
    /\ commands = 0 /\ halted = "no"

Activation(t) ==
    \/ Enter(t) \/ Again(t) \/ FindMostWorkChain(t)
    \/ Disconnect(t) \/ Connect(t) \/ Leave(t)

Unwinding(t) == Unwind(t) \/ Mark(t) \/ UnwindEnd(t)

Receive(t) ==
    \E b \in Blocks \ {Genesis} :
        \/ NewHeader(t, b)
        \/ \E fRequested \in BOOLEAN : NewBlock(t, b, fRequested)

Operate(t) ==
    \E b \in Blocks :
        \/ PreciousBlock(t, b) \/ ReconsiderBlock(t, b) \/ UnparkBlock(t, b)
        \/ InvalidateBlock(t, b) \/ ParkBlock(t, b) \/ FinalizeBlock(t, b)

Next == \E t \in Threads :
            Activation(t) \/ Unwinding(t) \/ Receive(t) \/ Operate(t)

Spec == Init /\ [][Next]_vars

(* A running thread goes on.                                               *)
FairSpec == Spec /\ \A t \in Threads : WF_vars(Activation(t) \/ Unwinding(t))

-----------------------------------------------------------------------------
(* The block index grows with headers, data and links; candidates and the  *)
(* tip are blocks whose whole chain has its data (what FindMostWorkChain   *)
(* asserts of every block on its way).                                     *)
TypeOK ==
    /\ data \subseteq mapBlockIndex /\ linked \subseteq data
    /\ scripts \subseteq linked /\ mapBlocksUnlinked \subseteq data \ linked
    /\ \A S \in {marks.failed, marks.failedParent, marks.parked,
                  marks.parkedParent, marks.failedBlocks} : S \subseteq mapBlockIndex
    /\ marks.candidates \subseteq linked
    /\ tip \in linked
    /\ pindexFinalized \in mapBlockIndex \cup {None}
    /\ lock \in Threads \cup {None} /\ chainLock \in Threads \cup {None}
    /\ nSequenceId \in [Blocks -> Int]
    /\ \A t \in Threads : thread[t].pc \in
         {"idle", "activate", "top", "find", "step", "leave", "unwind", "mark"}

(* cs_main is free and no command is half way through UnwindBlock.         *)
AtRest == /\ halted = "no" /\ lock = None
          /\ \A t \in Threads : thread[t].pc \notin {"unwind", "mark"}

(* Whenever cs_main is free, no block of the active chain is marked failed *)
(* or parked: FindMostWorkChain checks only blocks off the active chain    *)
(* because "we know all blocks in it are valid already".                   *)
ActiveChainClean ==
    AtRest => Ancestors[tip] \cap (Invalid(marks) \cup OnParkedChain(marks)) = {}

(* setBlockIndexCandidates is never empty when PruneBlockIndexCandidates   *)
(* asserts so; and at rest it has the tip, nothing with less work than the *)
(* tip, and every block with more work whose chain has its data and        *)
(* neither failed nor is parked: no better chain is ever forgotten,        *)
(* whatever flags were set and cleared.                                    *)
CandidatesComplete ==
    /\ halted # "prune"
    /\ AtRest => \A b \in linked :
         /\ nChainWork[b] < nChainWork[tip] => b \notin marks.candidates
         /\ nChainWork[b] > nChainWork[tip] /\ Ancestors[b] \cap marks.failed = {} =>
              b \in marks.candidates \cup OnParkedChain(marks)
         /\ b = tip => b \in marks.candidates

(* A block marked as the child of a failed or parked block has such an     *)
(* ancestor: no sequence of commands leaves a chain blocked by a mark      *)
(* whose cause is gone (UpdateFlags, UnwindBlock, FindMostWorkChain).      *)
FlagsHaveCause ==
    AtRest => /\ \A b \in marks.failedParent : Ancestors[b] \cap marks.failed # {}
              /\ \A b \in marks.parkedParent : Ancestors[b] \cap marks.parked # {}

(* After reconsiderblock a block no longer stands in the way of headers    *)
(* built on it: no member of m_failed_blocks that AcceptBlockHeader meets  *)
(* lacks the failed mark it asserts.                                       *)
NoAssertFails == halted = "no"

(* Whenever cs_main is free the finalized block and the tip are on one     *)
(* fork, although finalization, invalidation and reorganization move them  *)
(* separately.                                                             *)
FinalizedOnChain ==
    AtRest /\ pindexFinalized # None => AreOnTheSameFork(tip, pindexFinalized)

AllIdle == halted = "no" /\ \A t \in Threads : thread[t].pc = "idle"

(* Why the node may stay away from a better chain.                         *)
Excused(b) ==
    \/ Ancestors[b] \cap marks.failed # {}
    \/ pindexFinalized # None /\ ~AreOnTheSameFork(b, pindexFinalized)
    \/ /\ (Ancestors[b] \ Ancestors[tip]) \cap OnParkedChain(marks) # {}
       /\ automaticunparking => nChainWork[b] <= RequiredWork(FindFork(b))

(* When every call has returned, the active chain is the one with the most *)
(* work among those that are complete, not failed, not against the         *)
(* finalized block and not parked for lack of work, whatever order the     *)
(* headers, blocks, failures and commands came in.                         *)
BestChainActive ==
    AllIdle => \A b \in linked : nChainWork[b] > nChainWork[tip] => Excused(b)

(* Activation never takes finality back: a step of ActivateBestChain moves *)
(* the finalized block only to a descendant, unless a block at or below it *)
(* has just been found invalid (InvalidChainFound).                        *)
FinalizedStays ==
    [][ pindexFinalized # None /\ (\E t \in Threads : Activation(t)) =>
          \/ pindexFinalized \in Ancestors[pindexFinalized']
          \/ Ancestors[pindexFinalized] \cap (marks'.failed \ marks.failed) # {} ]_vars

(* A thread that runs ActivateBestChain leaves it, whatever fails, is      *)
(* unparked or dropped on the way and whatever the other threads deliver   *)
(* between its steps: m_cs_chainstate is not held for ever.                *)
Returns ==
    \A t \in Threads : chainLock = t ~> (chainLock # t \/ halted # "no")
=============================================================================
