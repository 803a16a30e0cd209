------------------------------ MODULE Recorder -------------------------------
(***************************************************************************)
(* The life of one histogram: hist_create, then any number of measured     *)
(* round trips (the LBM_MSG_DATA branch of my_rcv_cb) and re-              *)
(* initialisations (hist_init, as main calls it before the measured loop). *)
(* rtts is a history variable, the true round-trip times since the last    *)
(* initialisation; the properties compare the record with it.              *)
(***************************************************************************)
EXTENDS Histogram, Sequences

CONSTANTS
    Rtts,         \* the round-trip times that may be measured, in ns
    MaxSamples,   \* bound of the model: round trips between two resets
    Percentiles,  \* the percentiles hist_print asks for
    NarrowSample  \* TRUE: the C programs, which cast the time to int; FALSE:
                  \* the Java one, up to 2^31 bucket widths

ASSUME RecorderAssumption ==
    /\ Rtts \subseteq Word
    /\ MaxSamples \in Nat
    /\ Percentiles \subseteq 0 .. PercentScale
    /\ NarrowSample \in BOOLEAN

VARIABLES hist, rtts

vars == <<hist, rtts>>

\* The argument a program hands to hist_input.
SampleOf(ns_rtt) == IF NarrowSample THEN CastSample(ns_rtt) ELSE ns_rtt

Init ==
    /\ hist = hist_init
    /\ rtts = << >>

\* CPRT_DIFF_TS(ns_rtt, rcv_ts, send_ts); hist_input((int)ns_rtt)
Measure(ns_rtt) ==
    /\ Len(rtts) < MaxSamples
    /\ hist' = hist_input(hist, SampleOf(ns_rtt))
    /\ rtts' = Append(rtts, ns_rtt)

\* Mutant: a reset that forgets the overflow counter.
PartialReset ==
    /\ hist' = [hist_init EXCEPT !.overflows = hist.overflows]
    /\ rtts' = << >>

Reset ==
    /\ hist' = hist_init
    /\ rtts' = << >>

Next == Reset \/ \E ns_rtt \in Rtts : Measure(ns_rtt)

Spec == Init /\ [][Next]_vars

-----------------------------------------------------------------------------

TypeOK ==
    /\ hist \in Hist
    /\ rtts \in Seq(Rtts)

\* Positions in the history of the samples that belong to one bucket, and
\* of those that lie above the last one.
SamplesIn(b) == {i \in DOMAIN rtts : BucketOf(SampleOf(rtts[i])) = b}

SamplesAbove == {i \in DOMAIN rtts : BucketOf(SampleOf(rtts[i])) >= hist_num_buckets}

(***************************************************************************)
(* Nothing measured is lost, counted twice or left over from before a      *)
(* reset: each counter of the record is exactly the number of samples that *)
(* belong to it (hist_input and hist_init, um_lat_ping.c:243-287).         *)
(***************************************************************************)
HistogramExact ==
    /\ hist.num = Len(rtts)
    /\ \A b \in Buckets : hist.buckets[b] = Cardinality(SamplesIn(b))
    /\ hist.overflows = Cardinality(SamplesAbove)

(***************************************************************************)
(* The reported extremes are samples, and no sample lies outside them.     *)
(* The minimum is only exact when some sample is at most the value         *)
(* hist_min_sample starts from (um_lat_ping.c:237, 273-278).               *)
(***************************************************************************)
ExtremesExact ==
    \A i \in DOMAIN rtts :
      LET s == SampleOf(rtts[i])
      IN  /\ s <= hist.max
          /\ \E j \in DOMAIN rtts : SampleOf(rtts[j]) = hist.max
          /\ s <= MinSentinel =>
               /\ hist.min <= s
               /\ \E j \in DOMAIN rtts : SampleOf(rtts[j]) = hist.min

Edges == {b * hist_ns_per_bucket : b \in 1 .. hist_num_buckets}

\* More than p of PercentScale of the samples are shorter than a time.
MoreThan(p, time) ==
    Cardinality({i \in DOMAIN rtts : SampleOf(rtts[i]) < time}) * PercentScale
      > p * Len(rtts)

(***************************************************************************)
(* "Get the latency (in ns) which "percentile" percent of samples are      *)
(* below.  Returns -1 if not calculable (i.e. too many overflows)."        *)
(* (um_lat_ping.c:289-305), on the samples themselves: the answer is the   *)
(* first edge of a bucket that more than that percentage of the samples    *)
(* are below, and -1 when no edge is.  Neither the buckets nor the         *)
(* rounding of needed_samples show.                                        *)
(*                                                                         *)
(* "More than" is what the code does.  Its comment, and README.md:365-369  *)
(* with "anything over five overflows" of 500000 samples, would have an    *)
(* edge that exactly that percentage is below; there the code goes on to a *)
(* later edge, and with five overflows to -1.                              *)
(***************************************************************************)
PercentileExact ==
    hist_num_buckets * hist_ns_per_bucket <= IntMax =>
      \A p \in Percentiles :
        LET answer == hist_percentile(hist, p)
            enough == {edge \in Edges : MoreThan(p, edge)}
        IN  IF enough = {}
              THEN answer = -1
              ELSE answer \in enough /\ \A edge \in enough : answer <= edge

(***************************************************************************)
(* "Number of values above the last bucket" (um_lat_ping.c:239): the       *)
(* overflow counter counts the round trips that took longer than the       *)
(* buckets cover, as long as each of them fits an int.  The cast at 553    *)
(* folds a time of 2^32 ns or a little more back into a low bucket.        *)
(***************************************************************************)
OverflowsAreLongRtts ==
    (\A i \in DOMAIN rtts : rtts[i] <= IntMax) =>
      hist.overflows =
        Cardinality({i \in DOMAIN rtts : BucketOf(rtts[i]) >= hist_num_buckets})
=============================================================================
