------------------------------ MODULE SendLoop -------------------------------
(***************************************************************************)
(* send_loop of um_lat_ping.c (577-660), sendLoop of UmLatPing.java: the   *)
(* busy loop that spaces num_sends messages evenly at sends_per_sec.  Each *)
(* turn of the outer loop computes from the clock how many messages should *)
(* be out, the inner loop catches up, then the clock is read again.        *)
(*                                                                         *)
(* The clock moves on its own (Tick), one unit at a time, so the loop may  *)
(* be preempted for any time between any two of its steps.  It counts from *)
(* start_ts, the reading the loop begins with (only differences are used); *)
(* MaxTime bounds it.  Arithmetic is that of the C variables: num_sent and *)
(* ns_so_far are uint64_t, should_have_sent is an int.                     *)
(***************************************************************************)
EXTENDS CInteger

CONSTANTS
    num_sends,       \* messages to send, an int
    sends_per_sec,   \* -r, or the rate of -w
    NsPerSec,        \* 1000000000 in the program
    MaxTime          \* bound of the model: the last reading of the clock

ASSUME SendLoopAssumption ==
    /\ num_sends \in 1 .. IntMax
    /\ sends_per_sec \in Nat \ {0}
    /\ NsPerSec \in Nat \ {0}
    /\ MaxTime \in Nat

VARIABLES
    pc,                \* "schedule", "catch_up", "done" or "failed"
    now,               \* the monotonic clock, in ns since start_ts
    cur_ts,            \* its last reading, in ns since start_ts
    num_sent, should_have_sent, max_tight_sends, global_max_tight_sends,
    burst, longest     \* history: messages sent since the clock was last
                       \* read, and the longest such burst of the loop

counters == <<num_sent, should_have_sent, max_tight_sends, global_max_tight_sends>>

vars == <<pc, now, cur_ts, counters, burst, longest>>

\* Messages whose time has come ns nanoseconds into the loop.  "The +1 is
\* because we want to send, then pause."
Due(ns) == (ns * sends_per_sec) \div NsPerSec + 1

\* Mutant: one more than the schedule allows.
HastySchedule(ns_so_far) ==
    AsInt((((ns_so_far * sends_per_sec) % WordMod) \div NsPerSec + 2) % WordMod)

\* The same in the program's arithmetic: a uint64_t product, cast to int.
Scheduled(ns_so_far) ==
    AsInt((((ns_so_far * sends_per_sec) % WordMod) \div NsPerSec + 1) % WordMod)

\* Mutant: the schedule goes on after the last message.
Uncapped(n) == n

\* "Don't send more than requested."
Capped(n) == IF n > num_sends THEN num_sends ELSE n

\* Mutant: the message about to be sent is left out of the count.
BacklogAfterThis == (AsWord(should_have_sent') - num_sent - 1) % WordMod

\* should_have_sent - num_sent, computed as a uint64_t.
Backlog == (AsWord(should_have_sent') - num_sent) % WordMod

Init ==
    /\ pc = "schedule"
    /\ now = 0
    /\ cur_ts = 0
    /\ num_sent = 0
    /\ should_have_sent = 0
    /\ max_tight_sends = 0
    /\ global_max_tight_sends = 0
    /\ burst = 0
    /\ longest = 0

\* The clock moves on.
Tick ==
    /\ now < MaxTime
    /\ now' = now + 1
    /\ UNCHANGED <<pc, cur_ts, counters, burst, longest>>

\* Head of the outer loop: where should we be, and how far behind are we?
Schedule ==
    /\ pc = "schedule"
    /\ should_have_sent' = Capped(Scheduled(cur_ts))
    /\ max_tight_sends' = IF Backlog > AsWord(max_tight_sends)
                            THEN AsInt(Backlog) ELSE max_tight_sends
    /\ pc' = "catch_up"
    /\ UNCHANGED <<now, cur_ts, num_sent, global_max_tight_sends,
                   burst, longest>>

\* Mutant: one turn too many.
BehindOrLevel == num_sent <= AsWord(should_have_sent)

\* while (num_sent < should_have_sent), a comparison of uint64_t values.
Behind == num_sent < AsWord(should_have_sent)

Send ==
    /\ pc = "catch_up"
    /\ Behind
    /\ num_sent' = (num_sent + 1) % WordMod
    /\ burst' = burst + 1
    /\ longest' = IF burst' > longest THEN burst' ELSE longest
    /\ UNCHANGED <<pc, now, cur_ts, should_have_sent,
                   max_tight_sends, global_max_tight_sends>>

\* lbm_src_send or lbm_ssrc_send_ex returns an error: E exits the program.
SendFails ==
    /\ pc = "catch_up"
    /\ Behind
    /\ pc' = "failed"
    /\ UNCHANGED <<now, cur_ts, counters, burst, longest>>

\* Mutant: one send a turn, if where the code has while.
ReadClockEarly ==
    /\ pc = "catch_up"
    /\ cur_ts' = now
    /\ burst' = 0
    /\ pc' = IF num_sent < num_sends THEN "schedule" ELSE "done"
    /\ global_max_tight_sends' = max_tight_sends
    /\ UNCHANGED <<now, num_sent, should_have_sent, max_tight_sends,
                   longest>>

\* Mutant: the schedule is computed from one and the same reading.
StaleClock ==
    /\ pc = "catch_up"
    /\ ~Behind
    /\ burst' = 0
    /\ pc' = IF num_sent < num_sends THEN "schedule" ELSE "done"
    /\ UNCHANGED <<now, cur_ts, counters, longest>>

\* Caught up: read the clock, go round again unless everything is sent.
ReadClock ==
    /\ pc = "catch_up"
    /\ ~Behind
    /\ cur_ts' = now
    /\ burst' = 0
    /\ IF num_sent < num_sends
         THEN /\ pc' = "schedule"
              /\ UNCHANGED global_max_tight_sends
         ELSE /\ pc' = "done"
              /\ global_max_tight_sends' = max_tight_sends
    /\ UNCHANGED <<now, num_sent, should_have_sent, max_tight_sends,
                   longest>>

Thread == Schedule \/ Send \/ SendFails \/ ReadClock

Next == Tick \/ Thread

Spec == Init /\ [][Next]_vars

\* The loop never blocks, and time passes.
FairSpec == Spec /\ WF_vars(Thread) /\ WF_vars(Tick)

-----------------------------------------------------------------------------

TypeOK ==
    /\ pc \in {"schedule", "catch_up", "done", "failed"}
    /\ now \in 0 .. MaxTime
    /\ cur_ts \in 0 .. MaxTime
    /\ num_sent \in Word
    /\ should_have_sent \in 0 .. num_sends
    /\ max_tight_sends \in 0 .. num_sends
    /\ global_max_tight_sends \in 0 .. num_sends
    /\ burst \in Nat
    /\ longest \in Nat

\* The loop is never away from the clock long enough for its schedule to
\* leave the C types: less than 2^31 / sends_per_sec seconds, 12 hours at
\* 50000 a second and 27 minutes at 1300000.
ClockFits ==
    /\ MaxTime * sends_per_sec < WordMod
    /\ Due(MaxTime) <= IntMax

(***************************************************************************)
(* "Don't send more than requested." (um_lat_ping.c:600)                   *)
(***************************************************************************)
NeverMoreThanRequested == num_sent <= num_sends

(***************************************************************************)
(* global_max_tight_sends, which main prints, is the longest burst of      *)
(* messages that the loop sent without looking at the clock                *)
(* (um_lat_ping.c:602-604, 657).                                           *)
(***************************************************************************)
TightSendsExact == pc = "done" => global_max_tight_sends = longest

(***************************************************************************)
(* The loop never looks at the clock again before it has caught up with    *)
(* the schedule it last computed, and leaves with everything sent          *)
(* (um_lat_ping.c:606-655).                                                *)
(***************************************************************************)
CatchesUp ==
    [][pc = "catch_up" /\ pc' \in {"schedule", "done"} =>
         num_sent = Capped(Due(cur_ts))]_vars

(***************************************************************************)
(* The loop is a paced sender: it never sends ahead of the even schedule,  *)
(* however its clock readings are delayed.                                 *)
(***************************************************************************)
Paced ==
    INSTANCE PacedSender WITH
        sent <- num_sent,
        status <- IF pc \in {"done", "failed"} THEN pc ELSE "sending"

IsPaced == Paced!Spec

(***************************************************************************)
(* While the clock advances and sends do not block, the loop ends          *)
(* (um_lat_ping.c:655).                                                    *)
(***************************************************************************)
Terminates == <>(pc \in {"done", "failed"})
=============================================================================
