---------------------------- MODULE MCCheckQueue -----------------------------
(***************************************************************************)
(* Values for CheckQueue's constants, for TLC: three checks that pass, one *)
(* that fails, two workers and the thread that connects blocks.  With four *)
(* checks a batch of two happens.                                          *)
(***************************************************************************)
EXTENDS CheckQueue

CONSTANTS g1, g2, g3, b1, w1, w2, m1

MCMasters == {m1}
MCWorkers == {w1, w2}
MCChecks == {g1, g2, g3, b1}
MCBad == {b1}

=============================================================================
