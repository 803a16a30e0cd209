----------------------------- MODULE MCSendLoop ------------------------------
(***************************************************************************)
(* Four messages at 2 a second, a second being 3 units of the clock: the   *)
(* schedule does not divide evenly, and MaxTime lets the loop be preempted *)
(* until all of it is due.                                                 *)
(***************************************************************************)
EXTENDS SendLoop

\* The model's bound leaves room for the whole schedule, so that only the
\* loop itself can keep it from ending.
ASSUME MCTimeSuffices == Due(MaxTime) > num_sends
=============================================================================
