--------------------------- MODULE RecorderProofs ----------------------------
(***************************************************************************)
(* The histogram's counters, extremes and percentiles are those of the     *)
(* samples, for any sizes of its buckets and any history of round trips    *)
(* and resets.                                                             *)
(***************************************************************************)
EXTENDS Recorder, IntegerLemmas, FiniteSetTheorems

\* A set of positions up to n, and the same set with the next position.
LEMMA NextPosition ==
    ASSUME NEW n \in Nat, NEW S \in SUBSET (1 .. n)
    PROVE  /\ Cardinality(S) \in Nat
           /\ Cardinality(S \cup {n + 1}) = Cardinality(S) + 1
<1>1. IsFiniteSet(1 .. n)
  BY FS_Interval
<1>2. IsFiniteSet(S)
  BY <1>1, FS_Subset
<1>3. n + 1 \notin S
  OBVIOUS
<1>4. QED
  BY <1>2, <1>3, FS_AddElement, FS_CardinalityType

\* What reaches hist_input is a uint64_t, whatever the cast made of it.
LEMMA SampleType ==
    ASSUME NEW ns_rtt \in Word
    PROVE  SampleOf(ns_rtt) \in Word
<1>1. ns_rtt \in Nat /\ 2 * (IntMax + 1) \in Nat \ {0}
  BY CIntegerAssumption DEF Word
<1>2. ns_rtt % (2 * (IntMax + 1)) \in 0 .. 2 * (IntMax + 1) - 1
  BY <1>1, DivMod
<1>3. AsInt(ns_rtt) \in Int32
  BY <1>2, CIntegerAssumption DEF AsInt, Int32
<1>4. CastSample(ns_rtt) \in Word
  BY <1>3, CIntegerAssumption DEF CastSample, AsWord, Int32, Word
<1>5. QED
  BY <1>4 DEF SampleOf

LEMMA BucketType ==
    ASSUME NEW s \in Word
    PROVE  BucketOf(s) \in Nat
BY HistogramAssumption, CIntegerAssumption, DivMod DEF BucketOf, Word

-----------------------------------------------------------------------------

LEMMA InitType == Init => TypeOK
<1>1. hist_init \in Hist
  BY HistogramAssumption, CIntegerAssumption DEF hist_init, Hist, Word
<1>2. QED
  BY <1>1 DEF Init, TypeOK

LEMMA StepType == TypeOK /\ [Next]_vars => TypeOK'
<1> SUFFICES ASSUME TypeOK, [Next]_vars PROVE TypeOK'
  OBVIOUS
<1>1. CASE Reset
  <2>1. hist_init \in Hist
    BY HistogramAssumption, CIntegerAssumption DEF hist_init, Hist, Word
  <2>2. QED
    BY <1>1, <2>1 DEF Reset, TypeOK
<1>2. ASSUME NEW ns_rtt \in Rtts, Measure(ns_rtt) PROVE TypeOK'
  <2> DEFINE s == SampleOf(ns_rtt)
  <2>1. s \in Word
    BY SampleType, RecorderAssumption
  <2>2. BucketOf(s) \in Nat
    BY <2>1, BucketType
  <2>3. ~Overflows(s) => BucketOf(s) \in Buckets
    BY <2>2, HistogramAssumption DEF Overflows, Buckets
  <2>4. hist.sum + s \in Nat
    BY <2>1, CIntegerAssumption DEF TypeOK, Hist, Word
  <2>5. (hist.sum + s) % WordMod \in Word
    BY <2>4, CIntegerAssumption, DivMod DEF Word
  <2>6. /\ NewMin(hist, s) \in Word \cup {MinSentinel}
        /\ (IF s > hist.max THEN s ELSE hist.max) \in Word
    BY <2>1 DEF NewMin, TypeOK, Hist
  <2> HIDE DEF s
  <2>7. (IF Overflows(s) THEN hist.buckets
           ELSE [hist.buckets EXCEPT ![BucketOf(s)] = @ + 1]) \in [Buckets -> Nat]
    BY <2>3 DEF TypeOK, Hist
  <2>8. hist_input(hist, s) \in Hist
    BY <2>5, <2>6, <2>7 DEF hist_input, TypeOK, Hist
  <2>9. QED
    BY <1>2, <2>8 DEF Measure, TypeOK, s
<1>3. CASE UNCHANGED vars
  BY <1>3 DEF vars, TypeOK
<1>4. QED
  BY <1>1, <1>2, <1>3 DEF Next

\* The record keeps its type: the sum wraps, nothing else leaves its range.
THEOREM TypeCorrect == Spec => []TypeOK
BY InitType, StepType, PTL DEF Spec

-----------------------------------------------------------------------------

LEMMA EmptyExact ==
    ASSUME hist = hist_init, rtts = << >>
    PROVE  HistogramExact
<1>1. DOMAIN rtts = {}
  OBVIOUS
<1>2. SamplesAbove = {} /\ \A b \in Buckets : SamplesIn(b) = {}
  BY <1>1 DEF SamplesAbove, SamplesIn
<1>3. QED
  BY <1>2, FS_EmptySet DEF HistogramExact, hist_init

LEMMA MeasureExact ==
    ASSUME TypeOK, HistogramExact, NEW ns_rtt \in Rtts, Measure(ns_rtt)
    PROVE  HistogramExact'
<1> DEFINE n == Len(rtts)
           s == SampleOf(ns_rtt)
<1>1. /\ n \in Nat
      /\ DOMAIN rtts = 1 .. n
      /\ DOMAIN rtts' = 1 .. n + 1
      /\ rtts'[n + 1] = ns_rtt
      /\ \A i \in 1 .. n : rtts'[i] = rtts[i]
  BY DEF Measure, TypeOK
<1>2. s \in Word /\ BucketOf(s) \in Nat
  BY SampleType, BucketType, RecorderAssumption
<1>3. hist' = hist_input(hist, s)
  BY DEF Measure
<1>4. ASSUME NEW b \in Buckets
      PROVE  hist'.buckets[b] = Cardinality(SamplesIn(b)')
  <2>1. SamplesIn(b)' = IF BucketOf(s) = b THEN SamplesIn(b) \cup {n + 1}
                                           ELSE SamplesIn(b)
    BY <1>1 DEF SamplesIn
  <2>2. SamplesIn(b) \in SUBSET (1 .. n)
    BY <1>1 DEF SamplesIn
  <2>3. hist.buckets \in [Buckets -> Nat] /\ hist.buckets[b] = Cardinality(SamplesIn(b))
    BY DEF TypeOK, Hist, HistogramExact
  <2>4. hist'.buckets[b] = IF BucketOf(s) = b THEN hist.buckets[b] + 1
                                              ELSE hist.buckets[b]
    <3>1. Overflows(s) => BucketOf(s) # b
      BY <1>2, HistogramAssumption DEF Overflows, Buckets
    <3>2. hist'.buckets = IF Overflows(s) THEN hist.buckets
                          ELSE [hist.buckets EXCEPT ![BucketOf(s)] = @ + 1]
      BY <1>3 DEF hist_input
    <3> HIDE DEF s
    <3>3. QED
      BY <2>3, <3>1, <3>2
  <2>5. QED
    BY <1>1, <2>1, <2>2, <2>3, <2>4, NextPosition
<1>5. hist'.overflows = Cardinality(SamplesAbove')
  <2>1. SamplesAbove' = IF Overflows(s) THEN SamplesAbove \cup {n + 1}
                                        ELSE SamplesAbove
    BY <1>1 DEF SamplesAbove, Overflows
  <2>2. SamplesAbove \in SUBSET (1 .. n)
    BY <1>1 DEF SamplesAbove
  <2>3. hist.overflows = Cardinality(SamplesAbove)
    BY DEF HistogramExact
  <2>4. hist'.overflows = IF Overflows(s) THEN hist.overflows + 1 ELSE hist.overflows
    BY <1>3 DEF hist_input
  <2>5. QED
    BY <1>1, <2>1, <2>2, <2>3, <2>4, NextPosition
<1>6. hist'.num = Len(rtts')
  BY <1>3 DEF Measure, TypeOK, HistogramExact, hist_input
<1>7. QED
  BY <1>4, <1>5, <1>6 DEF HistogramExact

\* Nothing measured is lost, counted twice or left over from before a reset
\* (um_lat_ping.c:243-287).
THEOREM Exact == Spec => []HistogramExact
<1>1. Init => HistogramExact
  BY EmptyExact DEF Init
<1>2. TypeOK /\ HistogramExact /\ [Next]_vars => HistogramExact'
  <2> SUFFICES ASSUME TypeOK, HistogramExact, [Next]_vars PROVE HistogramExact'
    OBVIOUS
  <2>1. CASE Reset
    <3>1. DOMAIN rtts' = {}
      BY <2>1 DEF Reset
    <3>2. SamplesAbove' = {} /\ \A b \in Buckets : SamplesIn(b)' = {}
      BY <3>1 DEF SamplesAbove, SamplesIn
    <3>3. QED
      BY <2>1, <3>2, FS_EmptySet DEF Reset, HistogramExact, hist_init
  <2>2. CASE \E ns_rtt \in Rtts : Measure(ns_rtt)
    BY <2>2, MeasureExact
  <2>3. CASE UNCHANGED vars
    BY <2>3 DEF vars, HistogramExact, SamplesIn, SamplesAbove
  <2>4. QED
    BY <2>1, <2>2, <2>3 DEF Next
<1>3. QED
  BY <1>1, <1>2, TypeCorrect, PTL DEF Spec

-----------------------------------------------------------------------------
(* The extremes.                                                           *)

Sampled(s) == \E i \in DOMAIN rtts : SampleOf(rtts[i]) = s

\* Each extreme encloses the samples, and is one of them unless it still has
\* the value hist_init gave it.
Extremes ==
    /\ hist.min <= MinSentinel
    /\ \A i \in DOMAIN rtts :
         hist.min <= SampleOf(rtts[i]) /\ SampleOf(rtts[i]) <= hist.max
    /\ hist.min # MinSentinel => Sampled(hist.min)
    /\ hist.max # 0 => Sampled(hist.max)

LEMMA EmptyExtremes ==
    ASSUME hist = hist_init, rtts = << >>
    PROVE  Extremes
<1>1. DOMAIN rtts = {}
  OBVIOUS
<1>2. QED
  BY <1>1, HistogramAssumption DEF Extremes, hist_init

LEMMA MeasureExtremes ==
    ASSUME TypeOK, Extremes, NEW ns_rtt \in Rtts, Measure(ns_rtt)
    PROVE  Extremes'
<1> DEFINE n == Len(rtts)
           s == SampleOf(ns_rtt)
<1>1. /\ n \in Nat
      /\ DOMAIN rtts = 1 .. n
      /\ DOMAIN rtts' = 1 .. n + 1
      /\ rtts'[n + 1] = ns_rtt
      /\ \A i \in 1 .. n : rtts'[i] = rtts[i]
  BY DEF Measure, TypeOK
<1>2. s \in Nat
  BY SampleType, RecorderAssumption, CIntegerAssumption DEF Word
<1>3. \A i \in 1 .. n : SampleOf(rtts[i]) \in Nat
  <2>1. \A i \in 1 .. n : rtts[i] \in Word
    BY <1>1, RecorderAssumption DEF TypeOK
  <2>2. QED
    BY <2>1, SampleType, CIntegerAssumption DEF Word
<1>4. hist.min \in Nat /\ hist.max \in Nat /\ MinSentinel \in Nat
  BY HistogramAssumption, CIntegerAssumption DEF TypeOK, Hist, Word
<1>5. /\ hist'.min = IF s < hist.min THEN s ELSE hist.min
      /\ hist'.max = IF s > hist.max THEN s ELSE hist.max
  BY DEF Measure, hist_input, NewMin
<1>6. \A i \in DOMAIN rtts' :
        SampleOf(rtts[i])' = IF i = n + 1 THEN s ELSE SampleOf(rtts[i])
  <2>1. \A i \in DOMAIN rtts' : rtts'[i] = IF i = n + 1 THEN ns_rtt ELSE rtts[i]
    BY <1>1
  <2>2. QED
    BY <2>1 DEF SampleOf
<1>7. \A v : Sampled(v)' <=> v = s \/ Sampled(v)
  BY <1>1, <1>6 DEF Sampled
<1> HIDE DEF s, n
<1>8. hist'.min <= MinSentinel
  BY <1>2, <1>4, <1>5 DEF Extremes
<1>9. ASSUME NEW i \in DOMAIN rtts'
      PROVE  hist'.min <= SampleOf(rtts[i])' /\ SampleOf(rtts[i])' <= hist'.max
  <2>1. CASE i = n + 1
    BY <2>1, <1>2, <1>4, <1>5, <1>6
  <2>2. CASE i # n + 1
    <3>1. i \in 1 .. n
      BY <1>1, <2>2
    <3>2. SampleOf(rtts[i]) \in Nat /\ hist.min <= SampleOf(rtts[i]) /\ SampleOf(rtts[i]) <= hist.max
      BY <1>1, <1>3, <3>1 DEF Extremes
    <3> DEFINE v == SampleOf(rtts[i])
    <3>3. SampleOf(rtts[i])' = v
      BY <1>6, <2>2
    <3> HIDE DEF v
    <3>4. hist'.min <= v /\ v <= hist'.max
      BY <1>2, <1>4, <1>5, <3>2 DEF v
    <3>5. QED
      BY <3>3, <3>4
  <2>3. QED
    BY <2>1, <2>2
<1>10. hist'.min # MinSentinel => Sampled(hist.min)'
  BY <1>5, <1>7 DEF Extremes
<1>11. hist'.max # 0 => Sampled(hist.max)'
  BY <1>5, <1>7 DEF Extremes
<1>12. QED
  BY <1>8, <1>9, <1>10, <1>11 DEF Extremes

LEMMA StepExtremes == TypeOK /\ Extremes /\ [Next]_vars => Extremes'
<1> SUFFICES ASSUME TypeOK, Extremes, [Next]_vars PROVE Extremes'
  OBVIOUS
<1>1. CASE Reset
  <2>1. DOMAIN rtts' = {}
    BY <1>1 DEF Reset
  <2>2. QED
    BY <1>1, <2>1, HistogramAssumption DEF Reset, Extremes, hist_init
<1>2. CASE \E ns_rtt \in Rtts : Measure(ns_rtt)
  BY <1>2, MeasureExtremes
<1>3. CASE UNCHANGED vars
  BY <1>3 DEF vars, Extremes, Sampled
<1>4. QED
  BY <1>1, <1>2, <1>3 DEF Next

\* The extremes hist_print reports are samples, and no sample lies outside
\* them, the minimum with the exception of times above the value it starts
\* from (um_lat_ping.c:237, 273-278).
THEOREM ExtremesRight == Spec => []ExtremesExact
<1>1. Init => Extremes
  BY EmptyExtremes DEF Init
<1>2. TypeOK /\ Extremes => ExtremesExact
  <2> SUFFICES ASSUME TypeOK, Extremes, NEW i \in DOMAIN rtts
               PROVE  LET s == SampleOf(rtts[i])
                      IN  /\ s <= hist.max
                          /\ Sampled(hist.max)
                          /\ s <= MinSentinel => hist.min <= s /\ Sampled(hist.min)
    BY DEF ExtremesExact, Sampled
  <2> DEFINE s == SampleOf(rtts[i])
  <2>1. s \in Nat /\ hist.min \in Nat /\ hist.max \in Nat /\ MinSentinel \in Nat
    <3>1. rtts[i] \in Word
      BY RecorderAssumption DEF TypeOK
    <3>2. s \in Word
      BY <3>1, SampleType
    <3> HIDE DEF s
    <3>3. QED
      BY <3>2, HistogramAssumption, CIntegerAssumption DEF TypeOK, Hist, Word
  <2>2. Sampled(s) /\ hist.min <= s /\ s <= hist.max
    BY DEF Extremes, Sampled
  <2> HIDE DEF s
  <2>3. Sampled(hist.max)
    <3>1. CASE hist.max = 0
      <4>1. s = hist.max
        BY <2>1, <2>2, <3>1
      <4>2. QED
        BY <2>2, <4>1
    <3>2. CASE hist.max # 0
      BY <3>2 DEF Extremes
    <3>3. QED
      BY <3>1, <3>2
  <2>4. s <= MinSentinel => Sampled(hist.min)
    <3>1. CASE hist.min = MinSentinel
      <4>1. s <= MinSentinel => s = hist.min
        BY <2>1, <2>2, <3>1
      <4>2. QED
        BY <2>2, <4>1
    <3>2. CASE hist.min # MinSentinel
      BY <3>2 DEF Extremes
    <3>3. QED
      BY <3>1, <3>2
  <2>5. QED
    BY <2>2, <2>3, <2>4 DEF s
<1>3. QED
  BY <1>1, <1>2, StepExtremes, TypeCorrect, PTL DEF Spec

-----------------------------------------------------------------------------
(* Overflows and percentiles: consequences of the counters being exact.    *)

\* A round trip that fits an int is recorded as it is, with or without the
\* cast.
LEMMA ShortRtt ==
    ASSUME NEW ns_rtt \in Word, ns_rtt <= IntMax
    PROVE  SampleOf(ns_rtt) = ns_rtt
<1>1. ns_rtt \in 0 .. IntMax
  BY DEF Word
<1>2. QED
  BY <1>1, AsIntSmall, AsWordSmall DEF SampleOf, CastSample

\* As long as every round trip fits an int, the overflow counter counts those
\* the buckets do not cover (um_lat_ping.c:239, 553).
THEOREM OverflowsRight == Spec => []OverflowsAreLongRtts
<1>1. TypeOK /\ HistogramExact => OverflowsAreLongRtts
  <2> SUFFICES ASSUME TypeOK, HistogramExact, \A i \in DOMAIN rtts : rtts[i] <= IntMax
               PROVE  hist.overflows = Cardinality({i \in DOMAIN rtts :
                                          BucketOf(rtts[i]) >= hist_num_buckets})
    BY DEF OverflowsAreLongRtts
  <2>1. \A i \in DOMAIN rtts : SampleOf(rtts[i]) = rtts[i]
    BY ShortRtt, RecorderAssumption DEF TypeOK
  <2>2. SamplesAbove = {i \in DOMAIN rtts : BucketOf(rtts[i]) >= hist_num_buckets}
    BY <2>1 DEF SamplesAbove
  <2>3. QED
    BY <2>2 DEF HistogramExact
<1>2. QED
  BY <1>1, TypeCorrect, Exact, PTL

Sample(i) == SampleOf(rtts[i])

\* The measured samples of buckets 0 .. b, and those below a time.
UpTo(b) == {i \in DOMAIN rtts : BucketOf(Sample(i)) <= b}

Below(time) == {i \in DOMAIN rtts : Sample(i) < time}

LEMMA SampleTypes ==
    ASSUME TypeOK
    PROVE  /\ IsFiniteSet(DOMAIN rtts)
           /\ \A i \in DOMAIN rtts : Sample(i) \in Word /\ BucketOf(Sample(i)) \in Nat
<1>1. DOMAIN rtts = 1 .. Len(rtts) /\ Len(rtts) \in Nat
  BY DEF TypeOK
<1>2. IsFiniteSet(DOMAIN rtts)
  BY <1>1, FS_Interval
<1>3. \A i \in DOMAIN rtts : rtts[i] \in Word
  BY RecorderAssumption DEF TypeOK
<1>4. QED
  BY <1>2, <1>3, SampleType, BucketType DEF Sample

\* A part of the positions counts at most as many as a larger part.
LEMMA PartCounts ==
    ASSUME TypeOK, NEW T \in SUBSET DOMAIN rtts, NEW S \in SUBSET T
    PROVE  /\ Cardinality(S) \in Nat
           /\ Cardinality(T) \in Nat
           /\ Cardinality(S) <= Cardinality(T)
<1>1. IsFiniteSet(T)
  BY SampleTypes, FS_Subset
<1>2. IsFiniteSet(S)
  BY <1>1, FS_Subset
<1>3. QED
  BY <1>1, <1>2, FS_Subset, FS_CardinalityType

\* Adding one more bucket to found_samples adds its samples.
LEMMA NextBucket ==
    ASSUME TypeOK, HistogramExact, NEW b \in Buckets
    PROVE  Cardinality(UpTo(b)) =
             (IF b = 0 THEN 0 ELSE Cardinality(UpTo(b - 1))) + hist.buckets[b]
<1>1. b \in Nat
  BY HistogramAssumption DEF Buckets
<1>2. hist.buckets[b] = Cardinality(SamplesIn(b))
  BY DEF HistogramExact
<1>3. SamplesIn(b) = {i \in DOMAIN rtts : BucketOf(Sample(i)) = b}
  BY DEF SamplesIn, Sample
<1>4. IsFiniteSet(SamplesIn(b)) /\ Cardinality(SamplesIn(b)) \in Nat
  BY <1>3, SampleTypes, FS_Subset, FS_CardinalityType
<1>5. CASE b = 0
  <2>1. UpTo(b) = SamplesIn(b)
    BY <1>3, <1>5, SampleTypes DEF UpTo
  <2>2. QED
    BY <1>2, <1>4, <1>5, <2>1
<1>6. CASE b # 0
  <2>1. UpTo(b) = UpTo(b - 1) \cup SamplesIn(b)
    BY <1>1, <1>3, <1>6, SampleTypes DEF UpTo
  <2>2. UpTo(b - 1) \cap SamplesIn(b) = {}
    BY <1>1, <1>3, SampleTypes DEF UpTo
  <2>3. IsFiniteSet(UpTo(b - 1)) /\ Cardinality(UpTo(b - 1)) \in Nat
    BY SampleTypes, FS_Subset, FS_CardinalityType DEF UpTo
  <2>4. Cardinality(UpTo(b)) = Cardinality(UpTo(b - 1)) + Cardinality(SamplesIn(b)) - 0
    BY <1>4, <2>1, <2>2, <2>3, FS_Union, FS_EmptySet
  <2>5. QED
    BY <1>2, <1>4, <1>6, <2>3, <2>4
<1>7. QED
  BY <1>5, <1>6

\* found_samples counts the samples of the buckets passed.  The recursive
\* function exists, because counting those samples is one that satisfies its
\* equation; and it is the only one, because two that satisfy it would differ
\* at a least bucket first.
LEMMA FoundExact ==
    ASSUME TypeOK, HistogramExact
    PROVE  \A b \in Buckets : FoundSamples(hist)[b] = Cardinality(UpTo(b))
<1> DEFINE count == [b \in Buckets |-> Cardinality(UpTo(b))]
           found == FoundSamples(hist)
           Equation(f) ==
             f = [b \in Buckets |-> (IF b = 0 THEN 0 ELSE f[b - 1]) + hist.buckets[b]]
<1>1. \A b \in Buckets : b = 0 \/ b - 1 \in Buckets
  BY HistogramAssumption DEF Buckets
<1>2. Equation(count)
  <2>1. \A b \in Buckets : b # 0 => count[b - 1] = Cardinality(UpTo(b - 1))
    BY <1>1
  <2>2. \A b \in Buckets :
          Cardinality(UpTo(b)) = (IF b = 0 THEN 0 ELSE count[b - 1]) + hist.buckets[b]
    BY <2>1, NextBucket
  <2>3. QED
    BY <2>2
<1>3. Equation(found)
  <2> HIDE DEF count
  <2>1. QED
    BY <1>2 DEF FoundSamples
<1> HIDE DEF count, found
<1>4. ASSUME \E b \in Buckets : found[b] # count[b] PROVE FALSE
  <2> DEFINE Differ == {b \in Buckets : found[b] # count[b]}
  <2>1. Differ \in SUBSET Nat /\ Differ # {}
    BY <1>4, HistogramAssumption DEF Buckets
  <2>2. PICK b \in Differ : \A c \in Differ : b <= c
    <3> HIDE DEF Differ
    <3>1. QED
      BY <2>1, LeastNumber
  <2>3. b # 0 => found[b - 1] = count[b - 1]
    <3>1. b # 0 => b - 1 \in Buckets /\ ~ (b <= b - 1)
      BY <1>1, <2>1
    <3>2. QED
      BY <2>2, <3>1
  <2>4. found[b] = count[b]
    BY <1>2, <1>3, <2>3
  <2>5. QED
    BY <2>4
<1>5. QED
  BY <1>4 DEF found, count

LEMMA NeededType ==
    ASSUME TypeOK, NEW p \in Percentiles
    PROVE  NeededSamples(hist, p) \in Nat
<1>1. hist.num \in Nat /\ p \in Nat
  BY RecorderAssumption, HistogramAssumption DEF TypeOK, Hist
<1>2. hist.num * p \in Nat
  BY <1>1, ProductMonotone
<1>3. QED
  BY <1>2, HistogramAssumption, DivMod DEF NeededSamples

EdgeOf(b) == (b + 1) * hist_ns_per_bucket

\* A bucket number in the model is one of the first hist_num_buckets naturals,
\* and every edge fits an int when the last one does.
LEMMA EdgeTypes ==
    ASSUME hist_num_buckets * hist_ns_per_bucket <= IntMax, NEW b \in Buckets
    PROVE  /\ b \in Nat
           /\ EdgeOf(b) \in Nat
           /\ EdgeOf(b) \in Edges
           /\ UpperEdge(b) = EdgeOf(b)
<1>1. b \in Nat /\ b + 1 \in 1 .. hist_num_buckets
  BY HistogramAssumption DEF Buckets
<1>2. /\ hist_num_buckets * hist_ns_per_bucket \in Nat
      /\ EdgeOf(b) \in Nat
      /\ EdgeOf(b) <= hist_num_buckets * hist_ns_per_bucket
  BY <1>1, HistogramAssumption, ProductMonotone DEF EdgeOf
<1>3. EdgeOf(b) \in 0 .. IntMax
  BY <1>2, CIntegerAssumption
<1>4. UpperEdge(b) = EdgeOf(b)
  BY <1>3, AsIntSmall DEF UpperEdge, EdgeOf
<1>5. EdgeOf(b) \in Edges
  BY <1>1 DEF EdgeOf, Edges
<1>6. QED
  BY <1>1, <1>2, <1>4, <1>5

LEMMA EveryEdge ==
    ASSUME NEW edge \in Edges
    PROVE  \E b \in Buckets : edge = EdgeOf(b)
<1>1. PICK n \in 1 .. hist_num_buckets : edge = n * hist_ns_per_bucket
  BY DEF Edges
<1>2. n - 1 \in Buckets /\ (n - 1) + 1 = n
  BY HistogramAssumption DEF Buckets
<1>3. QED
  BY <1>1, <1>2 DEF EdgeOf

\* The samples of buckets 0 .. b are those below the edge of bucket b.
LEMMA BucketsAreEdges ==
    ASSUME TypeOK, NEW b \in Nat
    PROVE  UpTo(b) = Below(EdgeOf(b))
<1>1. SUFFICES ASSUME NEW i \in DOMAIN rtts
               PROVE  BucketOf(Sample(i)) <= b <=> Sample(i) < EdgeOf(b)
  BY DEF UpTo, Below
<1>2. Sample(i) \in Nat
  BY SampleTypes, CIntegerAssumption DEF Word
<1>3. BucketOf(Sample(i)) \in Nat
  BY SampleTypes
<1>4. BucketOf(Sample(i)) <= b <=> BucketOf(Sample(i)) < b + 1
  BY <1>3
<1>5. BucketOf(Sample(i)) < b + 1 <=> Sample(i) < EdgeOf(b)
  BY <1>2, HistogramAssumption, DivBelow DEF BucketOf, EdgeOf
<1>6. QED
  BY <1>4, <1>5

\* More than needed_samples samples, a number that is rounded down, are more
\* than the percentage of all samples.
LEMMA ReachedIsMore ==
    ASSUME TypeOK, HistogramExact, NEW p \in Percentiles, NEW b \in Buckets
    PROVE  FoundSamples(hist)[b] > NeededSamples(hist, p) <=> MoreThan(p, EdgeOf(b))
<1>1. b \in Nat
  BY HistogramAssumption DEF Buckets
<1>2. FoundSamples(hist)[b] = Cardinality(Below(EdgeOf(b)))
  BY <1>1, FoundExact, BucketsAreEdges
<1>3. Cardinality(Below(EdgeOf(b))) \in Nat
  BY SampleTypes, FS_Subset, FS_CardinalityType DEF Below
<1>4. hist.num = Len(rtts) /\ hist.num \in Nat /\ p \in Nat
  BY RecorderAssumption, HistogramAssumption DEF TypeOK, Hist, HistogramExact
<1>5. hist.num * p \in Nat /\ hist.num * p = p * Len(rtts)
  BY <1>4, ProductMonotone
<1> DEFINE found == Cardinality(Below(EdgeOf(b)))
           share == hist.num * p
<1>6. found \in Nat /\ share \in Nat
  BY <1>3, <1>5
<1>7. MoreThan(p, EdgeOf(b)) <=> found * PercentScale > share
  BY <1>5 DEF MoreThan, Below, Sample
<1>8. FoundSamples(hist)[b] > NeededSamples(hist, p) <=> found > share \div PercentScale
  BY <1>2 DEF NeededSamples
<1> HIDE DEF found, share
<1>9. share \div PercentScale < found <=> share < found * PercentScale
  BY <1>6, HistogramAssumption, DivBelow
<1>10. found * PercentScale \in Nat /\ share \div PercentScale \in Nat
  BY <1>6, HistogramAssumption, DivMod, ProductMonotone
<1>11. QED
  BY <1>6, <1>7, <1>8, <1>9, <1>10

\* hist_percentile on the samples: the buckets that are reached are those
\* whose edge has more than the percentage below it, and later buckets have
\* later edges.
LEMMA OnePercentile ==
    ASSUME TypeOK, HistogramExact, NEW p \in Percentiles,
           hist_num_buckets * hist_ns_per_bucket <= IntMax
    PROVE  LET answer == hist_percentile(hist, p)
               enough == {edge \in Edges : MoreThan(p, edge)}
           IN  IF enough = {}
                 THEN answer = -1
                 ELSE answer \in enough /\ \A edge \in enough : answer <= edge
<1> DEFINE enough == {edge \in Edges : MoreThan(p, edge)}
           reached == {b \in Buckets : FoundSamples(hist)[b] > NeededSamples(hist, p)}
           first == CHOOSE b \in reached : \A c \in reached : b <= c
           answer == hist_percentile(hist, p)
<1>1. answer = IF reached = {} THEN -1 ELSE UpperEdge(first)
  BY DEF hist_percentile
<1>2. \A b \in Buckets : b \in reached <=> EdgeOf(b) \in enough
  BY EdgeTypes, ReachedIsMore
<1>3. \A edge \in enough : \E b \in reached : edge = EdgeOf(b)
  BY <1>2, EveryEdge
<1>4. reached \subseteq Buckets /\ reached \in SUBSET Nat
  BY EdgeTypes
<1> HIDE DEF enough, reached, answer, first
<1>5. CASE enough = {}
  <2>1. reached = {}
    BY <1>2, <1>4, <1>5
  <2>2. QED
    BY <1>1, <1>5, <2>1 DEF answer, enough
<1>6. CASE enough # {}
  <2>1. reached # {}
    BY <1>3, <1>6
  <2>2. \E b \in reached : \A c \in reached : b <= c
    BY <1>4, <2>1, LeastNumber
  <2>3. first \in reached /\ \A c \in reached : first <= c
    BY <2>2 DEF first
  <2>4. answer = EdgeOf(first)
    BY <1>1, <1>4, <2>1, <2>3, EdgeTypes
  <2>5. answer \in enough
    BY <1>2, <1>4, <2>3, <2>4
  <2>6. ASSUME NEW edge \in enough PROVE answer <= edge
    <3>1. PICK c \in reached : edge = EdgeOf(c)
      BY <1>3
    <3>2. first + 1 \in Nat /\ c + 1 \in Nat /\ first + 1 <= c + 1
      BY <1>4, <2>3
    <3>3. (first + 1) * hist_ns_per_bucket <= (c + 1) * hist_ns_per_bucket
      BY <3>2, HistogramAssumption, ProductMonotone
    <3>4. QED
      BY <2>4, <3>1, <3>3 DEF EdgeOf
  <2>7. QED
    BY <1>6, <2>5, <2>6 DEF answer, enough
<1>7. QED
  BY <1>5, <1>6

\* Each percentile is the first edge of a bucket that more than that
\* percentage of the samples are below, and -1 when no edge is
\* (um_lat_ping.c:289-305).
THEOREM PercentilesRight == Spec => []PercentileExact
<1>1. TypeOK /\ HistogramExact => PercentileExact
  BY OnePercentile DEF PercentileExact
<1>2. QED
  BY <1>1, TypeCorrect, Exact, PTL
=============================================================================
