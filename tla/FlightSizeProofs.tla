--------------------------- MODULE FlightSizeProofs ---------------------------
(***************************************************************************)
(* What FlightSize keeps for any number of messages and any limits: its    *)
(* types, that the counter and the reported maximum are right, and that    *)
(* the assertion on the counter never fails where the store is no faster   *)
(* than the count.                                                         *)
(***************************************************************************)
EXTENDS FlightSize, TLAPS

\* A message that has been sent and is not in the counter yet.
Pending == IF pc = "count" THEN 1 ELSE 0

\* What the counter holds at any moment.
Counted ==
    /\ program = "java_pong" => cur_flight_size + settled = 0 /\ pc # "count"
    /\ program = "c_ping" => cur_flight_size >= InFlight - Pending
    /\ program \notin {"java_pong", "c_ping"} => cur_flight_size = InFlight - Pending
    /\ cur_flight_size <= num_sent - Pending

\* The maximum as it will be once the comparison under way is done.
Maximum == IF pc = "max" /\ old > max_flight_size THEN old ELSE max_flight_size
Tracked == Maximum = IF peak = 0 \/ IsJava THEN peak ELSE peak - 1

Places ==
    /\ pc = "register" => num_sent = 0
    /\ pc = "send" => num_sent < NumSends
    /\ pc # "done" => num_checks <= 3

IInv == TypeOK /\ (Alive => Counted /\ Tracked /\ Places)

LEMMA InitInv == Init => IInv
<1> SUFFICES ASSUME Init PROVE IInv
  OBVIOUS
<1>1. pc \in {"register", "send"} /\ NumSends \in Nat /\ 0 < NumSends
  BY FlightSizeAssumption DEF Init, IsPing
<1>2. /\ program \in Programs /\ event_pc = "idle" /\ cur_flight_size = 0
      /\ max_flight_size = 0 /\ old = 0 /\ num_sent = 0 /\ settled = 0
      /\ registration_complete = 0 /\ num_checks = 0 /\ peak = 0
  BY DEF Init
<1>3. gave_up \in BOOLEAN
  BY Zenon DEF Init
<1>4. TypeOK
  BY <1>1, <1>2, <1>3 DEF TypeOK
<1>5. Pending = 0 /\ InFlight = 0 /\ Maximum = 0 /\ pc # "count"
  BY <1>1, <1>2 DEF Pending, InFlight, Maximum
<1>6. Counted
  BY <1>2, <1>5 DEF Counted
<1>7. Tracked /\ Places
  BY <1>1, <1>2, <1>5 DEF Tracked, IsJava, Places
<1>8. QED
  BY <1>4, <1>6, <1>7 DEF IInv

\* The sending thread, when it does not count.
LEMMA SenderInv ==
    IInv /\ (Registered \/ Send \/ SendRefused \/ NextMessage) => IInv'
<1> SUFFICES ASSUME IInv, Registered \/ Send \/ SendRefused \/ NextMessage
             PROVE IInv'
  OBVIOUS
<1> USE FlightSizeAssumption
<1>1. CASE Registered
  BY <1>1 DEF Registered, SenderOnly, IInv, Alive, TypeOK, Counted, Tracked, Places,
     Pending, InFlight, Maximum, IsJava
<1>2. CASE Send
  <2>1. /\ num_sent' = num_sent + 1 /\ num_sent < NumSends
        /\ pc = "send" /\ pc' = IF program = "java_pong" THEN "next" ELSE "count"
        /\ UNCHANGED <<program, event_pc, settled, registration_complete, cur_flight_size,
                       max_flight_size, old, num_checks, gave_up, peak>>
    BY <1>2 DEF Send, SenderOnly, IInv, Alive, Places, AfterSend
  <2>2. TypeOK'
    BY <2>1 DEF IInv, Alive, TypeOK
  <2>3. Counted'
    BY <2>1 DEF IInv, Alive, TypeOK, Counted, Pending, InFlight
  <2>4. Tracked' /\ Places'
    BY <2>1 DEF IInv, Alive, TypeOK, Tracked, Places, Maximum, IsJava
  <2>5. QED
    BY <2>2, <2>3, <2>4 DEF IInv, Alive
<1>3. CASE SendRefused
  BY <1>3 DEF SendRefused, SenderOnly, IInv, Alive, TypeOK, Counted, Tracked, Places,
     Pending, InFlight, Maximum, IsJava
<1>4. CASE NextMessage
  <2>1. /\ pc = "next" /\ pc' \in {"send", "check", "done"}
        /\ pc' = "send" => num_sent < NumSends
        /\ UNCHANGED <<program, event_pc, settled, registration_complete, cur_flight_size,
                       max_flight_size, old, num_sent, num_checks, gave_up, peak>>
    BY <1>4 DEF NextMessage, SenderOnly
  <2>2. TypeOK' /\ Counted'
    BY <2>1 DEF IInv, Alive, TypeOK, Counted, Pending, InFlight
  <2>3. Tracked'
    BY <2>1 DEF IInv, Alive, Tracked, Maximum, IsJava
  <2>4. Places'
    BY <2>1 DEF IInv, Alive, Places
  <2>5. QED
    BY <2>2, <2>3, <2>4 DEF IInv, Alive
<1>5. QED
  BY <1>1, <1>2, <1>3, <1>4

\* The sending thread at its counter and its maximum.
LEMMA CountInv == IInv /\ (Count \/ TrackMax) => IInv'
<1> SUFFICES ASSUME IInv, Count \/ TrackMax PROVE IInv'
  OBVIOUS
<1> USE FlightSizeAssumption
<1>1. CASE Count
  <2>1. /\ pc = "count" /\ pc' = "max" /\ program # "java_pong"
        /\ cur_flight_size' = cur_flight_size + 1
        /\ cur_flight_size \in Int /\ cur_flight_size >= -1
        /\ cur_flight_size + 1 <= num_sent
        /\ UNCHANGED <<program, event_pc, settled, registration_complete,
                       max_flight_size, num_sent, num_checks, gave_up>>
    BY <1>1 DEF Count, SenderOnly, IInv, Alive, TypeOK, Counted, Pending, InFlight
  <2>2. /\ old' = IF IsJava THEN cur_flight_size + 1 ELSE cur_flight_size
        /\ peak' = IF cur_flight_size + 1 > peak THEN cur_flight_size + 1 ELSE peak
    BY <1>1 DEF Count
  <2>3. TypeOK'
    BY <2>1, <2>2 DEF IInv, Alive, TypeOK
  <2>4. Counted'
    BY <2>1 DEF IInv, Alive, TypeOK, Counted, Pending, InFlight
  <2>5. Tracked'
    BY <2>1, <2>2 DEF IInv, Alive, TypeOK, Tracked, Maximum, IsJava
  <2>6. QED
    BY <2>1, <2>3, <2>4, <2>5 DEF IInv, Alive, Places
<1>2. CASE TrackMax
  <2>1. /\ pc = "max" /\ pc' = "next" /\ max_flight_size' = Maximum
        /\ UNCHANGED <<program, event_pc, settled, registration_complete,
                       cur_flight_size, old, num_sent, num_checks, gave_up, peak>>
    BY <1>2 DEF TrackMax, SenderOnly, Maximum
  <2>2. Tracked'
    BY <2>1 DEF IInv, Alive, Tracked, Maximum, IsJava
  <2>3. Maximum \in 0 .. NumSends
    BY <2>1 DEF IInv, Alive, TypeOK, Tracked
  <2>4. TypeOK' /\ Counted'
    BY <2>1, <2>3 DEF IInv, Alive, TypeOK, Counted, Pending, InFlight
  <2>5. QED
    BY <2>1, <2>2, <2>4 DEF IInv, Alive, Places
<1>3. QED
  BY <1>1, <1>2

\* Ping at the end, waiting for the store.
LEMMA WaitInv == IInv /\ (CaughtUp \/ CheckAgain \/ Slept) => IInv'
<1> SUFFICES ASSUME IInv, CaughtUp \/ CheckAgain \/ Slept PROVE IInv'
  OBVIOUS
<1>1. /\ pc \in {"check", "sleep"} /\ pc' \in {"check", "sleep", "done"}
      /\ num_checks' \in 0 .. 4 /\ gave_up' \in BOOLEAN
      /\ pc' # "done" => num_checks' <= 3
  <2>1. num_checks \in 0 .. 3 /\ gave_up \in BOOLEAN
    BY DEF IInv, Alive, TypeOK, Places, CaughtUp, CheckAgain, Slept
  <2>2. CASE CaughtUp
    BY <2>1, <2>2 DEF CaughtUp
  <2>3. CASE CheckAgain
    <3>1. gave_up' \in BOOLEAN
      BY <2>1, <2>3, Zenon DEF CheckAgain
    <3>2. /\ pc \in {"check", "sleep"} /\ pc' \in {"check", "sleep", "done"}
          /\ num_checks' \in 0 .. 4 /\ (pc' # "done" => num_checks' <= 3)
      BY <2>1, <2>3 DEF CheckAgain
    <3>3. QED
      BY <3>1, <3>2
  <2>4. CASE Slept
    BY <2>1, <2>4 DEF Slept
  <2>5. QED
    BY <2>2, <2>3, <2>4
<1>2. UNCHANGED <<program, event_pc, cur_flight_size, max_flight_size, old,
                  num_sent, settled, registration_complete, peak>>
  BY DEF CaughtUp, CheckAgain, Slept, CheckOnly
<1>3. TypeOK' /\ Counted'
  BY <1>1, <1>2 DEF IInv, Alive, TypeOK, Counted, Pending, InFlight
<1>4. Tracked' /\ Places'
  BY <1>1, <1>2 DEF IInv, Alive, Tracked, Places, Maximum, IsJava
<1>5. QED
  BY <1>3, <1>4 DEF IInv, Alive

\* The context's thread.  A program that the assertion ends does nothing more.
LEMMA EventInv == IInv /\ Events => IInv'
<1> SUFFICES ASSUME IInv, Events PROVE IInv'
  OBVIOUS
<1> USE FlightSizeAssumption
<1>1. /\ pc' \in {pc, "died"} /\ event_pc' \in {"idle", "assert"}
      /\ registration_complete' \in 0 .. 1 /\ Running
      /\ UNCHANGED <<program, max_flight_size, old, num_sent, num_checks, gave_up, peak>>
  BY DEF Events, RegistrationComplete, MessageStable, ForcedReclaim, Deliverable,
     AssertNotNegative, Decrement, EventOnly, IInv, Alive, TypeOK
<1>2. settled' \in 0 .. num_sent /\ settled' \in {settled, settled + 1}
  BY DEF Events, RegistrationComplete, MessageStable, ForcedReclaim, AssertNotNegative,
     Answerable, InFlight, EventOnly, IInv, Alive, TypeOK
<1>3. \/ settled' = settled /\ cur_flight_size' = cur_flight_size
      \/ settled' = settled + 1 /\ cur_flight_size' = cur_flight_size - 1
      \/ settled' = settled + 1 /\ cur_flight_size' = cur_flight_size /\ program = "c_ping"
  BY DEF Events, RegistrationComplete, MessageStable, ForcedReclaim, AssertNotNegative,
     Decrement
<1>4. cur_flight_size' \in Int /\ cur_flight_size' <= cur_flight_size
  BY <1>2, <1>3 DEF IInv, Alive, TypeOK
<1>5. TypeOK'
  BY <1>1, <1>2, <1>4 DEF IInv, Alive, TypeOK
<1>6. Pending' \in {0, 1} /\ Pending' <= Pending /\ Pending \in {0, 1}
  BY <1>1 DEF Pending
<1>7. CASE pc' = "died"
  BY <1>5, <1>7 DEF IInv, Alive
<1>8. CASE pc' = pc /\ pc # "died"
  <2>1. Pending' = Pending /\ Counted /\ Tracked /\ Places
    BY <1>8 DEF Pending, IInv, Alive
  <2>2. /\ InFlight = num_sent - settled /\ InFlight' = num_sent - settled'
        /\ num_sent \in Int /\ settled \in Int /\ cur_flight_size \in Int
        /\ Pending \in Int
    BY <1>1, <1>6 DEF IInv, TypeOK, InFlight
  <2>3. Counted'
    BY <1>1, <1>3, <1>8, <2>1, <2>2 DEF Counted
  <2>4. Tracked' /\ Places'
    BY <1>1, <1>8, <2>1 DEF Tracked, Places, Maximum, IsJava
  <2>5. QED
    BY <1>5, <2>3, <2>4 DEF IInv
<1>9. QED
  BY <1>1, <1>7, <1>8

THEOREM Invariance == Spec => []IInv
<1>1. IInv /\ [Next]_vars => IInv'
  <2>1. IInv /\ UNCHANGED vars => IInv'
    BY DEF vars, IInv, Alive, TypeOK, Counted, Tracked, Places, Pending, InFlight,
       Maximum, IsJava
  <2>2. IInv /\ Next => IInv'
    BY SenderInv, CountInv, WaitInv, EventInv DEF Next, Sender
  <2>3. QED
    BY <2>1, <2>2
<1>2. QED
  BY <1>1, InitInv, PTL DEF Spec

(* Every variable keeps its type, whatever the number of messages, the     *)
(* limits and the programs.                                                *)
THEOREM TypeCorrect == Spec => []TypeOK
<1>1. IInv => TypeOK
  BY DEF IInv
<1>2. QED
  BY <1>1, Invariance, PTL

(* The reported maximum is that of the counter, less one in C, in every    *)
(* program (um_lat_ping.c:646-649, UmLatPing.java:569-572).                *)
THEOREM MaximumIsPeak == Spec => []MaxIsPeak
<1>1. IInv => MaxIsPeak
  BY DEF IInv, Alive, TypeOK, Tracked, Maximum, MaxIsPeak
<1>2. QED
  BY <1>1, Invariance, PTL

(* Between two messages the counter is right, in all programs but the Java *)
(* pong, which does not count (UmLatPong.java:382).                        *)
THEOREM CountsInFlight ==
  ASSUME "java_pong" \notin Programs PROVE Spec => []CounterRight
<1>1. IInv => CounterRight
  BY DEF IInv, Alive, TypeOK, Counted, Pending, InFlight, CounterRight
<1>2. QED
  BY <1>1, Invariance, PTL

-----------------------------------------------------------------------------
(* The assertion on the counter.                                           *)

\* The store does not answer between a send and its count: it is slow, or
\* the context's thread is the one that counts.
Unhurried ==
    /\ "java_pong" \notin Programs
    /\ StoreIsSlow \/ Programs \subseteq {"c_pong_ctx"}

\* A message that is not counted yet is not settled yet.
Owed ==
    /\ pc # "died"
    /\ pc = "count" => InFlight >= 1
    /\ program = "c_pong_ctx" /\ event_pc = "assert" => pc \in {"send", "done"}

LEMMA NonNegative == IInv /\ Owed /\ Unhurried => cur_flight_size >= 0
<1> SUFFICES ASSUME IInv, Owed, Unhurried PROVE cur_flight_size >= 0
  OBVIOUS
<1>1. InFlight \in Nat /\ cur_flight_size \in Int /\ program # "java_pong"
  BY DEF IInv, TypeOK, InFlight, Unhurried
<1>2. Pending <= InFlight /\ Pending \in {0, 1}
  BY <1>1 DEF Owed, Pending
<1>3. cur_flight_size >= InFlight - Pending
  BY <1>1, <1>2 DEF IInv, Alive, Owed, Counted
<1>4. QED
  BY <1>1, <1>2, <1>3

LEMMA OwedSender == IInv /\ Owed /\ Sender => Owed'
<1> SUFFICES ASSUME IInv, Owed, Sender PROVE Owed'
  OBVIOUS
<1>1. UNCHANGED <<program, event_pc, settled>> /\ pc' # "died"
  BY DEF Sender, Registered, Send, SendRefused, Count, TrackMax, NextMessage, CaughtUp,
     CheckAgain, Slept, SenderOnly, CheckOnly, AfterSend
<1>2. pc' = "count" => num_sent' = num_sent + 1
  BY DEF Sender, Registered, Send, SendRefused, Count, TrackMax, NextMessage, CaughtUp,
     CheckAgain, Slept
<1>3. pc' = "count" => InFlight' >= 1
  BY <1>1, <1>2 DEF IInv, TypeOK, InFlight
<1>4. ASSUME program = "c_pong_ctx", event_pc = "assert" PROVE pc' \in {"send", "done"}
  <2>1. pc \in {"send", "done"}
    BY <1>4 DEF Owed
  <2>2. QED
    BY <1>4, <2>1 DEF Sender, Registered, Send, SendRefused, Count, TrackMax, NextMessage,
       CaughtUp, CheckAgain, Slept, MayRun
<1>5. QED
  BY <1>1, <1>3, <1>4 DEF Owed

LEMMA OwedEvents == IInv /\ Owed /\ Unhurried /\ Events => Owed'
<1> SUFFICES ASSUME IInv, Owed, Unhurried, Events PROVE Owed'
  OBVIOUS
<1> USE FlightSizeAssumption
<1>0. /\ num_sent \in Nat /\ settled \in Nat /\ cur_flight_size \in Int
      /\ program \in Programs /\ pc # "died"
      /\ UNCHANGED <<program, num_sent>>
  BY DEF IInv, TypeOK, Owed, Events, RegistrationComplete, MessageStable, ForcedReclaim,
     AssertNotNegative, EventOnly
\* An answer leaves the message that is not counted yet.
<1>1. ASSUME pc = "count" PROVE InFlight' >= 1
  <2>1. CASE MessageStable
    <3>1. StoreIsSlow
      BY <1>0, <1>1, <2>1 DEF MessageStable, Deliverable, Unhurried
    <3>2. InFlight > 1 /\ settled' = settled + 1
      BY <1>1, <2>1, <3>1 DEF MessageStable, Answerable
    <3>3. QED
      BY <1>0, <3>2 DEF InFlight
  <2>2. CASE ForcedReclaim
    BY <1>0, <2>2 DEF ForcedReclaim, InFlight
  <2>3. CASE RegistrationComplete \/ AssertNotNegative
    BY <1>0, <1>1, <2>3 DEF RegistrationComplete, AssertNotNegative, InFlight, Owed
  <2>4. QED
    BY <2>1, <2>2, <2>3 DEF Events
\* What is decremented was counted.
<1>2. pc' = pc
  <2>1. CASE MessageStable \/ ForcedReclaim
    <3>1. settled' \in Nat /\ (pc = "count" => InFlight' >= 1) /\ InFlight' >= 0
      BY <1>0, <1>1, <2>1 DEF MessageStable, ForcedReclaim, Answerable, InFlight
    <3>2. Decrement => cur_flight_size' >= 0
      <4>1. SUFFICES ASSUME Decrement PROVE cur_flight_size' >= 0
        OBVIOUS
      <4>2. cur_flight_size >= InFlight - Pending
        BY <1>0 DEF IInv, Alive, Counted, Unhurried, Owed
      <4>3. /\ InFlight \in Int /\ InFlight' = InFlight - 1
            /\ cur_flight_size' = cur_flight_size - 1
        BY <1>0, <2>1, <4>1 DEF Decrement, MessageStable, ForcedReclaim, InFlight
      <4>4. CASE pc = "count"
        BY <1>0, <3>1, <4>2, <4>3, <4>4 DEF Pending
      <4>5. CASE pc # "count"
        BY <1>0, <3>1, <4>2, <4>3, <4>5 DEF Pending
      <4>6. QED
        BY <4>4, <4>5
    <3>3. QED
      BY <2>1, <3>2 DEF MessageStable, ForcedReclaim, Decrement
  <2>2. CASE RegistrationComplete
    BY <2>2 DEF RegistrationComplete
  <2>3. CASE AssertNotNegative
    BY <2>3, NonNegative DEF AssertNotNegative
  <2>4. QED
    BY <2>1, <2>2, <2>3 DEF Events
<1>3. program = "c_pong_ctx" /\ event_pc' = "assert" => pc \in {"send", "done"}
  BY DEF Owed, Events, RegistrationComplete, MessageStable, ForcedReclaim,
     AssertNotNegative, Deliverable
<1>4. QED
  BY <1>0, <1>1, <1>2, <1>3 DEF Owed

(* "Die if negative." (um_lat_pong.c:185, um_lat_ping.c:356 and the assrt  *)
(* of UmLatPing.java:330): the assertion holds for good if no program      *)
(* forgets to count and the store does not answer between a send and its   *)
(* count; where one thread does both, it always holds.                     *)
THEOREM Survives == ASSUME Unhurried PROVE Spec => []NeverDies
<1>1. Init => Owed
  <2>1. Init => pc \in {"register", "send"} /\ event_pc = "idle"
    BY DEF Init, IsPing
  <2>2. QED
    BY <2>1 DEF Owed
<1>2. IInv /\ Owed /\ [Next]_vars => Owed'
  <2>1. UNCHANGED vars /\ Owed => Owed'
    BY DEF vars, Owed, InFlight
  <2>2. QED
    BY <2>1, Unhurried, OwedSender, OwedEvents DEF Next
<1>3. Owed => NeverDies
  BY DEF Owed, NeverDies
<1>4. QED
  BY <1>1, <1>2, <1>3, Invariance, PTL DEF Spec
=============================================================================
