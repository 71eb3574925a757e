--------------------------- MODULE ParallelCheck -----------------------------
(***************************************************************************)
(* What CCheckQueueControl (checkqueue.h) promises ConnectBlock: one       *)
(* controller at a time adds checks, waits, and is told whether all of     *)
(* them passed.  No worker, batch, counter or condition variable appears   *)
(* here; CheckQueue implements this module.                                *)
(***************************************************************************)
EXTENDS FiniteSets

CONSTANTS
  Masters,   \* threads that construct a CCheckQueueControl
  Checks,    \* the checks of all blocks, each added once
  Bad        \* the checks whose operator() returns false

VARIABLES
  control,   \* for each master: "outside", "adding", "waiting" or "returned"
  mine,      \* for each master: the checks added under its controller
  used,      \* the checks ever added
  verdict    \* for each master: what its last Wait returned

vars == <<control, mine, used, verdict>>

Init ==
  /\ control = [m \in Masters |-> "outside"]
  /\ mine = [m \in Masters |-> {}]
  /\ used = {}
  /\ verdict = [m \in Masters |-> TRUE]

\* The constructor: m_control_mutex admits one controller.
Begin(m) ==
  /\ \A n \in Masters : control[n] = "outside"
  /\ control' = [control EXCEPT ![m] = "adding"]
  /\ UNCHANGED <<mine, used, verdict>>

Add(m, S) ==
  /\ control[m] = "adding"
  /\ mine' = [mine EXCEPT ![m] = @ \cup S]
  /\ used' = used \cup S
  /\ UNCHANGED <<control, verdict>>

Wait(m) ==
  /\ control[m] = "adding"
  /\ control' = [control EXCEPT ![m] = "waiting"]
  /\ UNCHANGED <<mine, used, verdict>>

\* Wait returns the conjunction of the checks added under this controller.
Return(m) ==
  /\ control[m] = "waiting"
  /\ control' = [control EXCEPT ![m] = "returned"]
  /\ verdict' = [verdict EXCEPT ![m] = (mine[m] \cap Bad = {})]
  /\ UNCHANGED <<mine, used>>

\* The destructor releases m_control_mutex.
End(m) ==
  /\ control[m] = "returned"
  /\ control' = [control EXCEPT ![m] = "outside"]
  /\ mine' = [mine EXCEPT ![m] = {}]
  /\ UNCHANGED <<used, verdict>>

Next ==
  \E m \in Masters :
    \/ Begin(m) \/ Wait(m) \/ Return(m) \/ End(m)
    \/ \E S \in SUBSET (Checks \ used) : Add(m, S)

SafeSpec == Init /\ [][Next]_vars

Spec == SafeSpec /\ \A m \in Masters : WF_vars(Return(m))

=============================================================================
