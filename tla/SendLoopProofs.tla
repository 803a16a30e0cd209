--------------------------- MODULE SendLoopProofs ----------------------------
(***************************************************************************)
(* Theorems about send_loop, for every rate, number of messages and width  *)
(* of the integers, as long as the clock stays in range (ClockFits).       *)
(***************************************************************************)
EXTENDS SendLoop, IntegerLemmas

\* Where the loop stands with respect to its schedule.
OnSchedule ==
    /\ cur_ts <= now
    /\ num_sent <= num_sends
    /\ num_sent <= Due(cur_ts)
    /\ pc = "schedule" => num_sent < num_sends
    /\ pc = "catch_up" => /\ should_have_sent = Capped(Due(cur_ts))
                          /\ num_sent <= should_have_sent
    /\ pc = "done" => num_sent = num_sends

\* Where max_tight_sends stands with respect to the bursts sent so far: in
\* the catch-up it already counts what the burst will be.
BurstInv ==
    /\ burst <= longest
    /\ pc = "schedule" => burst = 0 /\ max_tight_sends = longest
    /\ pc = "catch_up" =>
         LET whole == burst + should_have_sent - num_sent
         IN  /\ whole <= max_tight_sends
             /\ longest <= max_tight_sends
             /\ max_tight_sends \in {longest, whole}
    /\ pc = "done" => global_max_tight_sends = longest

IInv == TypeOK /\ OnSchedule /\ BurstInv

-----------------------------------------------------------------------------

\* The schedule grows with time and stays within an int.
LEMMA DueRange ==
    ASSUME ClockFits, NEW ns \in 0 .. MaxTime
    PROVE  /\ Due(ns) \in 1 .. IntMax
           /\ \A later \in ns .. MaxTime : Due(ns) <= Due(later)
<1> USE SendLoopAssumption, CIntegerAssumption
<1>1. ASSUME NEW a \in Nat, NEW b \in Nat, a <= b
      PROVE  Due(a) \in Nat /\ Due(a) >= 1 /\ Due(a) <= Due(b)
  <2>1. a * sends_per_sec \in Nat /\ b * sends_per_sec \in Nat
        /\ a * sends_per_sec <= b * sends_per_sec
    BY <1>1, ProductMonotone
  <2>2. (a * sends_per_sec) \div NsPerSec <= (b * sends_per_sec) \div NsPerSec
    BY <2>1, DivMonotone
  <2>3. /\ (a * sends_per_sec) \div NsPerSec \in Nat
        /\ (b * sends_per_sec) \div NsPerSec \in Nat
    BY <2>1, DivMod
  <2>4. QED
    BY <2>2, <2>3 DEF Due
<1>2. Due(ns) <= Due(MaxTime)
  BY <1>1
<1>3. Due(MaxTime) <= IntMax
  BY DEF ClockFits
<1>4. Due(ns) \in Nat /\ Due(MaxTime) \in Nat /\ Due(ns) >= 1
  BY <1>1
<1>5. \A later \in ns .. MaxTime : Due(ns) <= Due(later)
  BY <1>1
<1>6. QED
  BY <1>2, <1>3, <1>4, <1>5

\* While the clock is in range, the program's arithmetic is exact.
LEMMA ScheduledExact ==
    ASSUME ClockFits, NEW ns \in 0 .. MaxTime
    PROVE  Scheduled(ns) = Due(ns)
<1> USE SendLoopAssumption, CIntegerAssumption
<1>1. ns * sends_per_sec \in Nat /\ MaxTime * sends_per_sec \in Nat
      /\ ns * sends_per_sec <= MaxTime * sends_per_sec
  BY ProductMonotone
<1>2. (ns * sends_per_sec) % WordMod = ns * sends_per_sec
  BY <1>1, SmallMod DEF ClockFits
<1>3. Due(ns) \in 1 .. IntMax
  BY DueRange
<1>4. Due(ns) % WordMod = Due(ns)
  BY <1>3, SmallMod
<1>5. AsInt(Due(ns)) = Due(ns)
  BY <1>3, AsIntSmall
<1>6. QED
  BY <1>2, <1>4, <1>5 DEF Scheduled, Due

-----------------------------------------------------------------------------

LEMMA InitInv == ASSUME ClockFits PROVE Init => IInv
<1> USE SendLoopAssumption, CIntegerAssumption
<1>1. Due(0) \in 1 .. IntMax
  BY DueRange
<1>2. QED
  BY <1>1 DEF Init, IInv, TypeOK, OnSchedule, BurstInv, Word

LEMMA StepInv == ASSUME ClockFits, IInv, [Next]_vars PROVE IInv'
<1> USE SendLoopAssumption, CIntegerAssumption
<1> DEFINE due == Due(cur_ts)
<1>0. /\ cur_ts \in 0 .. MaxTime
      /\ due \in 1 .. IntMax
      /\ num_sent \in 0 .. IntMax
  BY DueRange DEF IInv, TypeOK, OnSchedule, Word
<1>1. CASE Tick
  BY <1>1 DEF Tick, counters, IInv, TypeOK, OnSchedule, BurstInv, Due, Capped
<1>2. CASE Schedule
  <2>1. should_have_sent' = Capped(due)
    BY <1>0, <1>2, ScheduledExact DEF Schedule
  <2>2. /\ should_have_sent' \in 0 .. num_sends
        /\ num_sent <= should_have_sent'
    BY <1>0, <1>2, <2>1 DEF Schedule, Capped, IInv, OnSchedule
  <2>3. PICK s \in num_sent .. num_sends : should_have_sent' = s
    BY <1>0, <2>2
  <2>4. Backlog = s - num_sent
    <3>1. AsWord(should_have_sent') = s
      BY <1>0, <2>3, AsWordSmall
    <3>2. s - num_sent \in Nat /\ s - num_sent < WordMod
      BY <1>0
    <3>3. QED
      BY <3>1, <3>2, SmallMod DEF Backlog
  <2>5. /\ AsWord(max_tight_sends) = max_tight_sends
        /\ AsInt(Backlog) = s - num_sent
    <3>1. max_tight_sends \in 0 .. IntMax
      BY DEF IInv, TypeOK
    <3>2. s - num_sent \in 0 .. IntMax
      BY <1>0
    <3>3. QED
      BY <2>4, <3>1, <3>2, AsWordSmall, AsIntSmall
  <2>6. max_tight_sends' = IF s - num_sent > max_tight_sends
                             THEN s - num_sent
                             ELSE max_tight_sends
    BY <1>2, <2>4, <2>5 DEF Schedule
  <2>7. TypeOK'
    BY <1>0, <1>2, <2>2, <2>3, <2>6 DEF Schedule, IInv, TypeOK
  <2>8. OnSchedule'
    BY <1>2, <2>1, <2>2 DEF Schedule, IInv, OnSchedule, Due, Capped
  <2>9. BurstInv'
    BY <1>0, <1>2, <2>3, <2>6 DEF Schedule, IInv, TypeOK, BurstInv
  <2>10. QED
    BY <2>7, <2>8, <2>9 DEF IInv
<1>3. CASE Send
  <2>1. should_have_sent \in 0 .. IntMax
    BY DEF IInv, TypeOK
  <2>2. num_sent < should_have_sent
    BY <1>3, <2>1, AsWordSmall DEF Send, Behind
  <2>3. num_sent' = num_sent + 1
    BY <1>0, <1>3, <2>1, <2>2, SmallMod DEF Send
  <2>4. should_have_sent <= due /\ should_have_sent <= num_sends
    BY <1>0, <1>3 DEF Send, IInv, OnSchedule, Capped
  <2>5. TypeOK'
    BY <1>0, <1>3, <2>1, <2>2, <2>3 DEF Send, IInv, TypeOK, Word
  <2>6. OnSchedule'
    BY <1>0, <1>3, <2>1, <2>2, <2>3, <2>4
       DEF Send, IInv, OnSchedule, Due, Capped
  <2>7. BurstInv'
    BY <1>0, <1>3, <2>1, <2>2, <2>3 DEF Send, IInv, TypeOK, BurstInv
  <2>8. QED
    BY <2>5, <2>6, <2>7 DEF IInv
<1>4. CASE SendFails
  BY <1>4 DEF SendFails, counters, IInv, TypeOK, OnSchedule, BurstInv, Due, Capped
<1>5. CASE ReadClock
  <2>1. should_have_sent \in 0 .. IntMax
    BY DEF IInv, TypeOK
  <2>2. /\ num_sent = should_have_sent
        /\ should_have_sent = Capped(due)
    BY <1>0, <1>5, <2>1, AsWordSmall DEF ReadClock, Behind, IInv, OnSchedule
  <2>3. due <= Due(cur_ts')
    BY <1>0, <1>5, DueRange DEF ReadClock, IInv, TypeOK, OnSchedule
  <2>4. Due(cur_ts') \in 1 .. IntMax
    BY <1>5, DueRange DEF ReadClock, IInv, TypeOK
  <2>5. num_sent <= Due(cur_ts') /\ num_sent <= num_sends
    BY <1>0, <2>2, <2>3, <2>4 DEF Capped
  <2>6. TypeOK'
    BY <1>5 DEF ReadClock, IInv, TypeOK
  <2>7. OnSchedule'
    <3>1. cur_ts' <= now'
      BY <1>5 DEF ReadClock, IInv, TypeOK
    <3>2. num_sent' <= Due(cur_ts)' /\ num_sent' <= num_sends
      BY <1>5, <2>5 DEF ReadClock, Due
    <3>3. /\ pc' # "catch_up"
          /\ pc' = "schedule" => num_sent' < num_sends
          /\ pc' = "done" => num_sent' = num_sends
      BY <1>0, <1>5, <2>5 DEF ReadClock
    <3>4. QED
      BY <3>1, <3>2, <3>3 DEF OnSchedule
  <2>8. BurstInv'
    <3>1. max_tight_sends = longest
      BY <1>0, <1>5, <2>1, <2>2 DEF ReadClock, IInv, TypeOK, BurstInv
    <3>2. QED
      BY <1>0, <1>5, <3>1 DEF ReadClock, IInv, TypeOK, BurstInv
  <2>9. QED
    BY <2>6, <2>7, <2>8 DEF IInv
<1>6. CASE UNCHANGED vars
  BY <1>6 DEF vars, counters, IInv, TypeOK, OnSchedule, BurstInv, Due, Capped
<1>7. QED
  BY <1>1, <1>2, <1>3, <1>4, <1>5, <1>6 DEF Next, Thread

\* The inductive invariant holds throughout.
THEOREM Invariance == ASSUME ClockFits PROVE Spec => []IInv
<1>1. Init => IInv
  BY InitInv
<1>2. IInv /\ [Next]_vars => IInv'
  BY StepInv
<1>3. QED
  BY <1>1, <1>2, PTL DEF Spec

\* The variables keep their types; should_have_sent and the two maxima
\* never leave 0 .. num_sends.
THEOREM TypeCorrect == ASSUME ClockFits PROVE Spec => []TypeOK
BY Invariance, PTL DEF IInv

\* send_loop sends no more messages than it was asked to
\* (um_lat_ping.c:600).
THEOREM NeverMore == ASSUME ClockFits PROVE Spec => []NeverMoreThanRequested
<1>1. IInv => NeverMoreThanRequested
  BY DEF IInv, OnSchedule, NeverMoreThanRequested
<1>2. QED
  BY <1>1, Invariance, PTL

\* global_max_tight_sends reports the longest burst (um_lat_ping.c:602-604).
THEOREM TightSends == ASSUME ClockFits PROVE Spec => []TightSendsExact
<1>1. IInv => TightSendsExact
  BY DEF IInv, BurstInv, TightSendsExact
<1>2. QED
  BY <1>1, Invariance, PTL

\* The loop only goes back to the clock when it has caught up
\* (um_lat_ping.c:606-655).
THEOREM CatchUp == ASSUME ClockFits PROVE Spec => CatchesUp
<1> USE SendLoopAssumption, CIntegerAssumption
<1> DEFINE A == pc = "catch_up" /\ pc' \in {"schedule", "done"} =>
                  num_sent = Capped(Due(cur_ts))
<1>1. ASSUME IInv, [Next]_vars PROVE [A]_vars
  <2>1. SUFFICES ASSUME pc = "catch_up", pc' \in {"schedule", "done"}
                 PROVE  num_sent = Capped(Due(cur_ts))
    OBVIOUS
  <2>2. ReadClock
    BY <1>1, <2>1 DEF Next, Thread, Tick, Schedule, Send, SendFails, vars
  <2>3. should_have_sent \in 0 .. IntMax /\ num_sent \in Nat
    BY <1>1 DEF IInv, TypeOK, Word
  <2>4. QED
    BY <1>1, <2>1, <2>2, <2>3, AsWordSmall
       DEF ReadClock, Behind, IInv, OnSchedule
<1>2. QED
  BY <1>1, Invariance, PTL DEF Spec, CatchesUp

\* send_loop implements the paced sender: every step of the loop is a step
\* of the abstract sender or leaves it unchanged.
THEOREM Refinement == ASSUME ClockFits PROVE Spec => IsPaced
<1> USE SendLoopAssumption, CIntegerAssumption
<1>1. Init => Paced!Init
  BY DEF Init, Paced!Init
<1>2. ASSUME IInv, [Next]_vars PROVE [Paced!Next]_(Paced!vars)
  <2>1. CASE Tick
    BY <2>1 DEF Tick, counters, Paced!Next, Paced!Tick
  <2>2. CASE Schedule
    BY <2>2 DEF Schedule, Paced!vars
  <2>3. CASE Send
    <3>1. should_have_sent \in 0 .. IntMax
      BY <1>2 DEF IInv, TypeOK
    <3>2. num_sent \in Nat /\ num_sent < should_have_sent
      BY <1>2, <2>3, <3>1, AsWordSmall DEF Send, Behind, IInv, TypeOK, Word
    <3>3. num_sent' = num_sent + 1
      BY <2>3, <3>1, <3>2, SmallMod DEF Send
    <3>4. /\ cur_ts \in 0 .. MaxTime
          /\ now \in cur_ts .. MaxTime
      BY <1>2 DEF IInv, TypeOK, OnSchedule
    <3>5. /\ Due(cur_ts) \in 1 .. IntMax
          /\ Due(now) \in 1 .. IntMax
          /\ Due(cur_ts) <= Due(now)
      BY <3>4, DueRange
    <3>6. num_sent < num_sends /\ num_sent < Due(now)
      BY <1>2, <2>3, <3>1, <3>2, <3>5 DEF Send, IInv, OnSchedule, Capped
    <3>7. QED
      BY <2>3, <3>3, <3>6 DEF Send, Due, Paced!Next, Paced!Send, Paced!Due
  <2>4. CASE SendFails
    BY <2>4 DEF SendFails, counters, Paced!Next, Paced!Fail
  <2>5. CASE ReadClock
    <3>1. CASE num_sent < num_sends
      BY <2>5, <3>1 DEF ReadClock, Paced!vars
    <3>2. CASE ~(num_sent < num_sends)
      <4>1. num_sent = num_sends
        BY <1>2, <3>2 DEF IInv, TypeOK, OnSchedule, Word
      <4>2. QED
        BY <2>5, <3>2, <4>1 DEF ReadClock, Paced!Next, Paced!Finish
    <3>3. QED
      BY <3>1, <3>2
  <2>6. CASE UNCHANGED vars
    BY <2>6 DEF vars, counters, Paced!vars
  <2>7. QED
    BY <1>2, <2>1, <2>2, <2>3, <2>4, <2>5, <2>6 DEF Next, Thread
<1>3. QED
  BY <1>1, <1>2, Invariance, PTL DEF Spec, IsPaced, Paced!Spec
=============================================================================
