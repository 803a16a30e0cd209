------------------------------ MODULE MCRecorder -----------------------------
(***************************************************************************)
(* A small instance of Recorder: 3 buckets of 2 ns, an int of 5 bits and a *)
(* word of 7.  The round-trip times cover both ends of a bucket, the first *)
(* overflow, the largest int, the first time the cast turns negative and   *)
(* the first it folds back into bucket 0; 20 is above MinSentinel's 12.    *)
(***************************************************************************)
EXTENDS Recorder

MCRtts == {0, 1, 5, 6, 15, 16, 32}

MCPercentiles == {50, 75, 90, 99}
=============================================================================
