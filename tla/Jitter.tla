------------------------------- MODULE Jitter --------------------------------
(***************************************************************************)
(* um_lat_jitter from its command line to its report.  With -a it is bound *)
(* to one CPU; without, main tries one CPU after another, floods a socket  *)
(* on each and keeps the one that sent most.  On that CPU jitter_loop      *)
(* takes pairs of time stamps for two seconds and puts the time between    *)
(* the two of a pair into a histogram.                                     *)
(*                                                                         *)
(* Time is what passes in a turn of a loop, chosen freely from a set: the  *)
(* thread may be preempted anywhere.  The CPUs the process may use are the *)
(* environment's choice.  um_lat_ping and um_lat_pong are here up to the   *)
(* point where their main goes on (PingPong).                              *)
(***************************************************************************)
EXTENDS Options, FiniteSets

CONSTANTS
    MaskBits,       \* bits of a CPU mask: 64
    WarmupNs,       \* 100000000: flood before the test of a CPU
    TestNs,         \* 1000000000: the test itself
    LoopNs,         \* 2000000000: jitter_loop
    SockTimes,      \* bound of the model: what a turn of sock_loop may take
    StampTimes,     \* bound of the model: <<before, between>> the time stamps
    MinSentinel,    \* 999999999
    PercentScale    \* the number that stands for 100 percent

CpuNums == 0 .. MaskBits - 1

ASSUME JitterAssumption ==
    /\ MaskBits \in Nat \ {0}
    /\ WarmupNs \in Nat \ {0}
    /\ TestNs \in Nat \ {0}
    /\ 2 * TestNs <= IntMax        \* two sends in a turn of 1 ns fit an int
    /\ LoopNs \in 1 .. IntMax
    /\ SockTimes \subseteq Nat \ {0}
    /\ StampTimes \subseteq {t \in Nat \X Nat : t[1] + t[2] > 0}
    /\ MinSentinel \in Nat
    /\ PercentScale \in Nat \ {0}

VARIABLES
    pc,                   \* where main is
    allowed,              \* the CPUs the process may run on
    pinned,               \* those it runs on
    cpu, max_loops, max_cpu,
    elapsed,              \* ts_this_ns: since start_ts of the loop under way
    num_sends,
    tested,               \* history: [CPUs tested -> sends of the test]
    hist,                 \* the histogram
    ts_min_ns, ts_max_ns

scan_vars == <<cpu, max_loops, max_cpu, num_sends, tested>>
loop_vars == <<hist, ts_min_ns, ts_max_ns>>
jitter_vars == <<pc, allowed, pinned, elapsed, scan_vars, loop_vars>>

vars == <<option_vars, jitter_vars>>

\* um_lat_jitter.c's copy of the histogram, for the buckets of -H.
Record ==
    INSTANCE Histogram WITH hist_num_buckets <- o.hist_num_buckets,
                            hist_ns_per_bucket <- o.hist_ns_per_bucket

Init ==
    /\ OptionsInit
    /\ pc = "options"
    /\ allowed \in (SUBSET CpuNums) \ {{}}
    /\ program # "jitter" => allowed = CpuNums
    /\ pinned = allowed
    /\ cpu = 0
    /\ max_loops = 0
    /\ max_cpu = -1
    /\ elapsed = 0
    /\ num_sends = 0
    /\ tested = << >>
    /\ hist = << >>
    /\ ts_min_ns = MinSentinel
    /\ ts_max_ns = 0

ReadOption == NextOption /\ UNCHANGED jitter_vars

-----------------------------------------------------------------------------
(* Affinity.                                                               *)

\* CPRT_CPU_SET on an empty mask.  A shift by less than 0 or by the mask's
\* width is undefined: the processors reduce the count, a compiler may drop
\* the bit.
CpuMasks(n) == IF n \in CpuNums THEN {{n}} ELSE {{}, {n % MaskBits}}

\* cprt_set_affinity and cprt_try_affinity: every bit of the mask becomes a
\* CPU of the set, and the system refuses a set without a usable CPU.
CpuSetOf(mask) == {i \in CpuNums : i \in mask}
Refused(mask) == CpuSetOf(mask) \cap allowed = {}

-----------------------------------------------------------------------------
(* main.                                                                   *)

InMain == program = "jitter" /\ status = "main" /\ UNCHANGED <<option_vars, allowed>>

\* hist_create, socket and init_sock.
Begin ==
    /\ InMain
    /\ pc = "options"
    /\ hist' = Record!hist_init
    /\ pc' \in {IF o.affinity_cpu > -1 THEN "pin" ELSE "scan", "exit1"}
    /\ UNCHANGED <<pinned, elapsed, scan_vars, ts_min_ns, ts_max_ns>>

\* for (cpu = 0; cpu < 64; cpu++), until cprt_try_affinity fails.
TryCpu ==
    /\ InMain
    /\ pc = "scan"
    /\ \E mask \in CpuMasks(cpu) :
         IF cpu < MaskBits /\ ~Refused(mask)
           THEN pinned' = CpuSetOf(mask) \cap allowed /\ pc' = "warmup"
           ELSE pc' = "pin" /\ UNCHANGED pinned
    /\ elapsed' = 0
    /\ num_sends' = 0
    /\ UNCHANGED <<cpu, max_loops, max_cpu, tested, loop_vars>>

\* One turn of sock_loop, which main calls twice for each CPU.
SockTurn(time) ==
    /\ InMain
    /\ pc \in {"warmup", "test"}
    /\ LET duration_ns == IF pc = "warmup" THEN WarmupNs ELSE TestNs
       IN  IF elapsed + time < duration_ns
             THEN /\ elapsed' = elapsed + time
                  /\ num_sends' = num_sends + 2
                  /\ UNCHANGED pc
             ELSE /\ elapsed' = 0
                  /\ num_sends' = IF pc = "warmup" THEN 0 ELSE num_sends + 2
                  /\ pc' = IF pc = "warmup" THEN "test" ELSE "compare"
    /\ UNCHANGED <<pinned, cpu, max_loops, max_cpu, tested, loop_vars>>

\* CPRT_EM1(sendmsg(...))
SendFails ==
    /\ InMain
    /\ pc \in {"warmup", "test"}
    /\ pc' = "exit1"
    /\ UNCHANGED <<pinned, elapsed, scan_vars, loop_vars>>

\* Mutant: each CPU is compared with the one before it.
CompareWithLast ==
    /\ InMain
    /\ pc = "compare"
    /\ tested' = [c \in DOMAIN tested \cup {cpu} |->
                    IF c = cpu THEN num_sends ELSE tested[c]]
    /\ max_loops' = AsInt(num_sends)
    /\ max_cpu' = IF num_sends > AsWord(max_loops) THEN cpu ELSE max_cpu
    /\ cpu' = cpu + 1
    /\ pc' = "scan"
    /\ UNCHANGED <<pinned, elapsed, num_sends, loop_vars>>

\* num_sends is a uint64_t, max_loops an int.
Compare ==
    /\ InMain
    /\ pc = "compare"
    /\ tested' = [c \in DOMAIN tested \cup {cpu} |->
                    IF c = cpu THEN num_sends ELSE tested[c]]
    /\ IF num_sends > AsWord(max_loops)
         THEN max_loops' = AsInt(num_sends) /\ max_cpu' = cpu
         ELSE UNCHANGED <<max_loops, max_cpu>>
    /\ cpu' = cpu + 1
    /\ pc' = "scan"
    /\ UNCHANGED <<pinned, elapsed, num_sends, loop_vars>>

\* CPRT_CPU_SET and cprt_set_affinity before jitter_loop, in both branches.
Pin ==
    /\ InMain
    /\ pc = "pin"
    /\ \E mask \in CpuMasks(IF o.affinity_cpu > -1 THEN o.affinity_cpu ELSE max_cpu) :
         IF Refused(mask)
           THEN pc' = "exit1" /\ UNCHANGED pinned
           ELSE pc' = "loop" /\ pinned' = CpuSetOf(mask) \cap allowed
    /\ elapsed' = 0
    /\ UNCHANGED <<scan_vars, loop_vars>>

-----------------------------------------------------------------------------
(* jitter_loop.                                                            *)

\* Mutant: the first stamp of a pair is taken outside the loop.
SinceStart(before, between) == elapsed + before + between

\* CPRT_DIFF_TS(ts_this_ns, ts2, ts1)
Between(before, between) == between

\* One pair of time stamps; before is the time since the pair before it.
StampTurn(before, between) ==
    /\ InMain
    /\ pc = "loop"
    /\ LET ts_this_ns == Between(before, between)
       IN  /\ hist' = Record!hist_input(hist, Record!CastSample(ts_this_ns))
           /\ ts_min_ns' = IF ts_this_ns < ts_min_ns THEN ts_this_ns ELSE ts_min_ns
           /\ ts_max_ns' = IF ts_this_ns > ts_max_ns THEN ts_this_ns ELSE ts_max_ns
    /\ elapsed' = elapsed + before + between
    /\ pc' = IF elapsed' < LoopNs THEN "loop" ELSE "print"
    /\ UNCHANGED <<pinned, scan_vars>>

\* hist_print divides by the number of samples.
Report ==
    /\ InMain
    /\ pc = "print"
    /\ pc' = IF hist.num = 0 THEN "sigfpe" ELSE "exit0"
    /\ UNCHANGED <<pinned, elapsed, scan_vars, loop_vars>>

Next ==
    \/ ReadOption
    \/ Begin \/ TryCpu \/ (\E time \in SockTimes : SockTurn(time)) \/ SendFails
    \/ Compare \/ Pin
    \/ (\E t \in StampTimes : StampTurn(t[1], t[2]))
    \/ Report

Spec == Init /\ [][Next]_vars

\* Each program is one thread that keeps running; a turn of a loop takes
\* time.
FairSpec == Spec /\ WF_vars(Next)

-----------------------------------------------------------------------------

TypeOK ==
    /\ OptionsTypeOK
    /\ pc \in {"options", "scan", "warmup", "test", "compare", "pin", "loop",
               "print", "exit0", "exit1", "sigfpe"}
    /\ allowed \subseteq CpuNums
    /\ pinned \subseteq allowed
    /\ cpu \in 0 .. MaskBits
    /\ max_loops \in Int32
    /\ max_cpu \in CpuNums \cup {-1}
    /\ elapsed \in Nat
    /\ num_sends \in Nat
    /\ tested \in [DOMAIN tested -> Nat]
    /\ DOMAIN tested \subseteq CpuNums
    /\ pc # "options" => hist \in Record!Hist
    /\ ts_min_ns \in Nat
    /\ ts_max_ns \in Nat

Measuring == pc \in {"loop", "print", "exit0", "sigfpe"}

\* The CPU with the most sends, the first of them if there are several.
Best(c) ==
    /\ c \in DOMAIN tested
    /\ \A d \in DOMAIN tested : /\ tested[d] <= tested[c]
                                /\ d < c => tested[d] < tested[c]

(***************************************************************************)
(* jitter_loop runs on one CPU: the one of -a or, without it, the best of  *)
(* all that can be used from 0 on without a gap (um_lat_jitter.c:337-369). *)
(* Where CPU 0 cannot be used, or -a is 64 or more, CPRT_CPU_SET's shift   *)
(* is undefined and nothing is promised.                                   *)
(***************************************************************************)
MeasuresOnBest ==
    Measuring =>
      IF o.affinity_cpu > -1
        THEN o.affinity_cpu \in CpuNums => pinned = {o.affinity_cpu}
        ELSE 0 \in allowed =>
               /\ \E c \in CpuNums : Best(c) /\ pinned = {c}
               /\ DOMAIN tested = {c \in CpuNums : 0 .. c \subseteq allowed}

(***************************************************************************)
(* The report is of the loop that ran: the two records of the extremes     *)
(* agree, no sample is longer and all together take no longer than the     *)
(* loop did.  The cast to int could only spoil a time of 2^31 ns, longer   *)
(* than the loop: it is the last sample, if there is one, and until then   *)
(* everything is exact (um_lat_jitter.c:242-261).                          *)
(***************************************************************************)
ReportsTheLoop ==
    Measuring =>
      /\ ts_max_ns <= elapsed
      /\ pc = "loop" => ts_max_ns < LoopNs
      /\ pc # "loop" => hist.num > 0
      /\ ts_max_ns <= IntMax =>
           /\ hist.max = ts_max_ns
           /\ hist.min = ts_min_ns
           /\ hist.sum <= elapsed

(***************************************************************************)
(* Every command line ends or gets to main, and um_lat_jitter always ends: *)
(* cprt_getopt never stays at a word, and neither the search for a CPU nor *)
(* a loop on the clock goes on for ever.                                   *)
(***************************************************************************)
Ends ==
    <>(\/ status \in {"exit0", "exit1", "segv"}
       \/ status = "main" /\ program # "jitter"
       \/ pc \in {"exit0", "exit1", "sigfpe"})
=============================================================================
