------------------------------ MODULE Histogram ------------------------------
(***************************************************************************)
(* The latency histogram that um_lat_ping.c, UmLatPing.java and            *)
(* um_lat_jitter.c each carry a copy of, as operators on one value.  The   *)
(* program's six globals are the six fields of a record:                   *)
(*   buckets    hist_buckets, an array of hist_num_buckets counters        *)
(*   min, max   hist_min_sample, hist_max_sample                           *)
(*   overflows  hist_overflows                                             *)
(*   num, sum   hist_num_samples, hist_sample_sum                          *)
(* Widths matter in two places: the C callers pass the round-trip time     *)
(* through a cast to int (CastSample), and a percentile is an int          *)
(* (UpperEdge).  The Java copy casts the number of the bucket instead of   *)
(* the time (UmLatPing.java:269), which makes a difference from 2^31       *)
(* bucket widths on, and is not modelled.                                  *)
(***************************************************************************)
EXTENDS CInteger, FiniteSets

CONSTANTS
    hist_num_buckets,    \* first number of -H
    hist_ns_per_bucket,  \* second number of -H
    MinSentinel,         \* where hist_min_sample starts: 999999999
    PercentScale         \* the number that stands for 100 percent

ASSUME HistogramAssumption ==
    /\ hist_num_buckets \in Nat \ {0}
    /\ hist_ns_per_bucket \in Nat \ {0}
    /\ MinSentinel \in Nat
    /\ PercentScale \in Nat \ {0}

Buckets == 0 .. hist_num_buckets - 1

Hist == [buckets : [Buckets -> Nat], min : Word \cup {MinSentinel}, max : Word,
         overflows : Nat, num : Nat, sum : Word]

\* hist_input((int)ns_rtt): what the parameter of hist_input holds.
CastSample(ns_rtt) == AsWord(AsInt(ns_rtt))

-----------------------------------------------------------------------------
(* Recording.                                                              *)

hist_init ==
    [buckets |-> [b \in Buckets |-> 0], min |-> MinSentinel, max |-> 0,
     overflows |-> 0, num |-> 0, sum |-> 0]

BucketOf(in_sample) == in_sample \div hist_ns_per_bucket

\* Mutant: the last bucket is taken to be one later.
OverflowsLate(in_sample) == BucketOf(in_sample) > hist_num_buckets

Overflows(in_sample) == BucketOf(in_sample) >= hist_num_buckets

\* Mutant: the minimum only moves once there is a first sample.
StickyMin(h, in_sample) == IF h.num > 0 /\ in_sample < h.min THEN in_sample ELSE h.min

NewMin(h, in_sample) == IF in_sample < h.min THEN in_sample ELSE h.min

hist_input(h, in_sample) ==
    [num |-> h.num + 1,
     sum |-> (h.sum + in_sample) % WordMod,
     max |-> IF in_sample > h.max THEN in_sample ELSE h.max,
     min |-> NewMin(h, in_sample),
     overflows |-> IF Overflows(in_sample) THEN h.overflows + 1 ELSE h.overflows,
     buckets |-> IF Overflows(in_sample)
                   THEN h.buckets
                   ELSE [h.buckets EXCEPT ![BucketOf(in_sample)] = @ + 1]]

-----------------------------------------------------------------------------
(* Reporting.                                                              *)

\* Mutant: dividing comes first, as it would with ints.
NeededRoundedFirst(h, percentile) == (h.num \div PercentScale) * percentile

\* needed_samples: the percentile's share of the samples, rounded down.
\* percentile counts in units of 1 / PercentScale of the samples.
NeededSamples(h, percentile) == (h.num * percentile) \div PercentScale

\* found_samples after the loop has added buckets 0 .. b.
FoundSamples(h) ==
    LET found[b \in Buckets] ==
            (IF b = 0 THEN 0 ELSE found[b - 1]) + h.buckets[b]
    IN  found

\* The time at which a bucket ends, a product of two ints that is an int.
\* Too large a product wraps in Java; in C it is undefined and does the same
\* on the machines this is built for.
UpperEdge(b) == AsInt((b + 1) * hist_ns_per_bucket)

\* The upper edge of the first bucket at which more than needed_samples
\* samples have been seen, -1 when the buckets never hold that many.
hist_percentile(h, percentile) ==
    LET reached == {b \in Buckets :
                      FoundSamples(h)[b] > NeededSamples(h, percentile)}
    IN  IF reached = {} THEN -1
        ELSE UpperEdge(CHOOSE b \in reached : \A c \in reached : b <= c)

\* average_sample.  hist_print divides by hist_num_samples, so it is only
\* defined for a histogram that holds a sample.
average_sample(h) == h.sum \div h.num
=============================================================================
