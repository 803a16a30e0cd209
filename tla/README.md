# A TLA+ model of um_lat

`um_lat` measures the latency of the UM messaging product. `um_lat_ping` sends
messages at an even rate; `um_lat_pong` sends each one back; ping's receive
callback takes the round-trip time and puts it in a histogram. Both exist in C
and in Java. Lines are cited as `file:line` below.

The numbers such a tool prints are only worth something if the counters behind
them are right, and most of what could make them wrong is timing: two threads
share plain variables, three sleeps stand in for three protocols, and the
process exits with an assertion whenever its counters disagree. That is what
the modules here are about.

## 1. The system

### Components

| component | state | operations | what makes it correct |
|---|---|---|---|
| ping, main thread: `main`, `send_loop` (um_lat_ping.c:577-811; UmLatPing.java:521-715) | where it is; `actual_sends` | send one message to be found, sleep 1 s, warm up, linger, reset, measure, linger, assert, report, assert, clean up | it reports what was measured, passes only when all was answered, fails only for a reason, ends |
| ping, receive callback: `my_rcv_cb` (501-568) | `num_rcv_msgs`, `num_unrec_loss`, `num_rx_msgs`, all shared with main | BOS resets the counters, DATA counts and records, LOSS counts | a warm-up message is never recorded, a measured one once |
| `send_loop` (577-660) | schedule, clock reading, `num_sent`, tight-send maximum | busy loop that catches up with an even schedule | never ahead of schedule, never too many, catches up, ends, reports its longest burst |
| histogram (235-322; copies in UmLatPing.java:232-309 and um_lat_jitter.c:124-211) | buckets, minimum, maximum, overflows, number, sum | create, reset, input, percentile, print | exactly the samples since the reset |
| pong (um_lat_pong.c:328-412; UmLatPong.java:335-410) | counters; flight size | BOS, DATA (send back), LOSS, EOS (exit with `-E`) | an echo: each message once, in order; with `-E` it ends when ping does |
| persistence (um_lat_ping.c:325-371, 646-649, 718-731, 781-793; um_lat_pong.c:165-212, 398-402; the Java `onSourceEvent`) | `cur_flight_size`, `max_flight_size`, `registration_complete` | count a send, count down on a stable or reclaimed message, wait for registration, wait for the store | the counter is what the store owes, is never negative, and a ping that its store has registered comes to an end |
| sequential mode `-S`: `LBMXspThread` (UmLatPing.java:720-761) | `_continueThread`, `_running` | run, terminate | no thread works on a closed object; terminate returns |
| options of the C tools: `get_my_opts` (um_lat_ping.c:104-232, um_lat_pong.c:83-161, um_lat_jitter.c:72-121), on `cprt_getopt` and `CPRT_ATOI` | `cprt_optind`, `o_*` and what is parsed from them | read one option, stop, check what was read | what the author of a command line meant is what the program runs with; what it accepts it can run; it refuses nothing that the help text offers (two exceptions are known, section 4) |
| um_lat_jitter (214-374) | CPU under test, best CPU, histogram, extremes | flood a socket on each CPU, pin to the best, time pairs of time stamps, report | it measures on the CPU of `-a` or on the best one; the report is of that loop |
| lbmpong.java: an older ping-pong of one message (277-547, 703-812) | `_msg_count`, `rtt_ignore`, the measured times, retry counters | start, send with retry, receive and reply, time out, print | one message at a time; what is counted is what is measured; a retry of ping's own is not measured; stops after its last message |
| cprt.c, cprt.h | option index, event ring | command line, numbers, affinity, clock; sleeps, semaphores, threads | the first four are modelled where the tools use them, the rest is not |
| automation/, bld.sh | remote processes | start pong, sleep, start ping, wait for both | *not modelled yet*; `PongEnds` states what the second wait needs |
| um.xml, store_*.xml | none | configuration of UM | two facts are used: NAKs are off, and `ume_flight_size` bounds what is in flight |

### How they interact

* main and the callback of ping share the counters and the histogram **without
  a lock**. The callback runs on the context's thread or, with `-R x`, on the
  XSP's.
* ping and pong exchange messages on two UM transport sessions (`topic1`,
  `topic2`). UM delivers a session in order, from the moment the receiver has
  joined; it reports the beginning (BOS), the end (EOS) and each lost message
  (UNRECOVERABLE_LOSS) to the same callback.
* UM reports what the store does to `handle_src_event`, on the context's
  thread, while the sending thread counts what it sends.
* in Java with `-S` a thread per UM object calls `processEvents`, and main
  stops the threads through two volatile flags.

### What is hard

Interleavings of main and the callback at the two resets (752-755) and at the
report (764-795); replies later than a sleep; a pong that is late, fails or
misses messages; losses in either direction; a store that answers before the
send has been counted, or never; the schedule's arithmetic in `uint64_t` and
`int`; a thread that is stopped before it has begun; command lines in any
order and spelling; a set of usable CPUs with gaps. `PROJECT.json` lists each
at its line under "hazards", with the properties that watch it.

## 2. The modules

| module | models | state and actions |
|---|---|---|
| `CInteger` | `int` and `uint64_t` | `AsInt` is the cast to `int`, `AsWord` the conversion to `uint64_t` |
| `Histogram` | the six globals as one record | `hist_init`, `hist_input`, `hist_percentile` as operators |
| `Recorder` | the life of a histogram | `Measure`, `Reset`; the history `rtts` is the list of true times |
| `PacedSender` | *abstract*: an even schedule | `Send` is allowed once a message's time has come |
| `SendLoop` | `send_loop` | `Schedule` (595-604), `Send`, `SendFails` (606-652), `ReadClock` (654-657); `Tick` moves the clock between any two of them |
| `Echo` | *abstract*: replies in order, each once | `Send`, `Reply` |
| `LatencyTest` | *abstract*: verdict of a run | `Pass` needs every measured message answered |
| `PingPong` | ping's two threads, pong, two sessions | one action per statement of `main` that another thread can see, one per step of a callback |
| `FlightSize` | the flight counter of five program variants | `Send`, `Count`, `TrackMax` apart from each other; events on the context's thread; C's decrement and assert apart |
| `XspShutdown` | terminate and close against the threads | one action per statement of `terminate` and `run` |
| `Lbmpong` | two lbmpong processes, two sessions | the steps of the constructor and of `onReceive`, of each process; `SleepAndRetry` is one round of `send_with_retry` |
| `Getopt` | cprt_getopt, CPRT_ATOI, strtok_r | operators on a word as the code looks at it: the letter after "-", and the rest |
| `Options` | get_my_opts of the three C tools | `NextOption` reads one option: a case of the switch, or the checks after the last |
| `Jitter` | um_lat_jitter, on top of `Options` | `ReadOption`, `Begin`, `TryCpu`, `SockTurn`, `SendFails`, `Compare`, `Pin`, `StampTurn`, `Report`; `Record` is an instance of `Histogram` with the buckets of `-H` |
| `MCRecorder`, `MCSendLoop`, `MCJitter` | the sets and assumptions of three instances | |
| `*Proofs`, `IntegerLemmas` | theorems, see section 5 | |

`SendLoop` implements `PacedSender`, and `PingPong` implements `Echo` and (when
the sleeps suffice) `LatencyTest`. `PingPong` uses
`send_loop` and the histogram at the level its own properties need: any time
may pass between two messages, so pacing is left to `SendLoop`; a histogram is
the set of messages recorded and the number counted, so buckets are left to
`Recorder`.

Granularity. `num_rcv_msgs++` is two actions (`RcvLoad`, `RcvStoreData`), as is
`hist_input` (the count, then the bucket), because main writes and reads the
same variables. The callback's `num_unrec_loss++` likewise. Pong has one active
thread, so its callback is one action per event. Main's resets are one action
each. Decrements of the flight size are atomic, as `__sync_fetch_and_sub` and
`AtomicInteger` are; what C does after the decrement is a second action.

Environment. UM is not in the repository. Its sessions are two sequences: what
is sent before the receiver has joined is missed, `Drop` turns a message into a
loss event in its place (um.xml turns NAKs off), a session ends when its source
is gone and all it sent has arrived. The store confirms what it likes when it
likes; it may drop the oldest message by force when UM holds more than
`RetainLimit`. `-g` is assumed in `FlightSize`: a Java smart source delivers no
events at all (UmLatPing.java:423), so `-p` without `-g` waits at 620 for ever.

`Lbmpong` chooses the options of both processes in its initial state: event
queue, kind of source, `-E`, and ping's `-M`, `-i` and `-C`. With an event
queue the callback is a part of main's `evq.run`, without one it interleaves
with main. A message is the age of its time stamp, counted in the seconds slept
for retries, so the model shows which retries a measured time contains. What UM
does with an exception that leaves a callback is its own business:
`FinishThrows` allows it to be dropped or to end `evq.run`. UM may call the
receiver from the moment its super constructor has created it, before its own
has set `_src` and `_end_on_eos` (lbmpong.java:681-695). That is the place
"fields" of main: a message that comes then is not answered
(`ReplyWithoutSource`), an end of session is not heeded (`EndUnheard`). In
sequential mode main ends the context's thread before it prints (528-531);
the model lets callbacks go on, which is more than the program can do. `-M 0`
and a negative `-i`, which the program accepts and never finishes with, are
excluded.

In `Options` a text is a string of a small set: `Numbers` says which are
numbers, `Tokens` how those with commas fall apart. A command line is written
twice, as `argv` and as the options its author meant (`given`, option k from
the word `at[k]` on); the programs see the first, the properties compare with
the second. `WellFormed` says when the two belong together: an option is a
letter alone, a letter with its value, or a letter and its value in the next
word, and what follows the last is none. It describes how options are written,
not how `cprt_getopt` finds them. Everything the three tools parse is in one
record `o`. `AcceptedRuns` is what `HistogramAssumption`
and `SendLoopAssumption` ask of the numbers, so it is what ties the parsers to
the modules that use them.

`Jitter` carries um_lat_jitter from there to its report. Time is what passes in
a turn of a loop, any value of a set, because the thread may be preempted; the
CPUs the process may use are any non-empty set. A shift in `CPRT_CPU_SET` by a
negative number or by the mask's width and more is undefined: the model lets
it give an empty mask (the bit is lost) or the bit of the remainder (what x86
does).

Left out of the modelled code: the affinity of ping's and pong's threads, the
printing, the retransmit counter `num_rx_msgs` (nothing depends on it), the
result rate.

## 3. The runs

A mutant of the code is kept beside each definition that a property watches
(operators commented "Mutant"); each breaks its property under the run's
configuration.

| run | instance | shows |
|---|---|---|
| `recorder` | 3 buckets of 2 ns, 5-bit int, up to 4 of 7 times between resets | the record is exactly the samples; extremes agree with reference definitions over the samples; a percentile is the first edge of a bucket that *more than* that percentage of the samples are below, -1 when no edge is (`PercentileExact`); while times fit an int, overflows are the long times |
| `sendloop` | 4 messages at 2 per 3 clock units, clock to 8 | `NeverMoreThanRequested`, `TightSendsExact`, `CatchesUp`, refinement of `PacedSender`, `Terminates` |
| `pp_timely` | 3 warm-up and 3 measured messages, 2 faults, sleeps suffice | the measured part starts with no reply, loss or sample (`StartsFresh`); the verdict is right both ways (`IsLatencyTest`, `NoFalseAlarm`, which also excludes the division by zero), the report hangs together |
| `pp_late` | 2 and 3, 2 faults, sleeps may be too short, pong may start late | what holds regardless: only measured messages are recorded, the reset is undisturbed, a pass means something was measured, replies are an echo, both end |
| `pp_startsover` | 2 and 2, no fault, sleeps may be too short | **violated**: a late warm-up reply is counted as a measured one |
| `flight` | 4 programs, 5 messages, flight size 4, retention 3, a store that never answers between a send and its count | the counter is right, never negative, its maximum is the peak (less one in C), and a ping that is registered ends |
| `flight_java_pong` | the Java pong | **violated**: it counts down what it never counted up |
| `flight_race` | the Java ping, a store that answers at any time | **violated**: the confirmation overtakes the count |
| `lbmpong` | every combination of event queue, transport and `-E`; 2 or 3 measured messages after 1 ignored, 2 failures | one message at a time (`OneInFlight`), counted as it is measured (`MeasuredExactly`), lengthened by pong's retries only (`OnlyPongSkews`); with an event queue the report hangs together (`PrintedTogether`); without a failure ping stops after its last message (`StopsAfterMsgs`) |
| `lbmpong_median` | 3 measured messages after 1 ignored, 1 failure | **violated**: the median of three times is the longest of them (`MedianIsMiddle`) |
| `shutdown` | 2 objects, the XSP and the context | nothing works on a closed object, the process ends |
| `jitter` | about 5000 command lines of the three C tools; for um_lat_jitter masks of 3 bits, every set of usable CPUs, an 11-bit int, turns of 1 to 3 of 4 time units, a preemption longer than an int | values arrive where they were meant (`AsGiven`), the XML file is read for the mode in force (`XmlReadForItsMode`), what starts can run (`AcceptedRuns`), nothing offered is refused, with the two exceptions that it names (`RefusedForCause`), the best CPU is measured (`MeasuresOnBest`), the two records of the extremes agree (`ReportsTheLoop`), parsing and the loops end (`Ends`) |

Bounds. Two objects, two or three messages of each kind and one or two faults
are enough for every pair of events to occur in both orders: a late reply of
each kind at each step of main, a loss on each session, a loss that a late
warm-up reply makes up for, a pong that dies after its first reply. The
recorder's times sit on both edges of a bucket, at the first overflow, at the
largest int, at the first negative one and at the first that folds back. The
integers are narrow so that the wrap-around is a few steps away; the proofs are
for any width. `MaxFaults`, `MaxTime`, `MaxSamples` and `NumSends` only bound
the instances. `FlightSize` with limits 4 and 3 and five messages reaches a
forced reclaim and a refused send. The command lines of `jitter` put up to two
more options around those a program needs, each attached to its letter or as a
word of its own, so that every pair of options occurs in both orders and every
option is once the last; `-a` is none, a CPU of the mask, or one beyond it; the
usable CPUs include sets with a gap and sets without CPU 0.

`CHECK_DEADLOCK FALSE` is set wherever a program ends. `recorder` has no end
and is checked for deadlock.

### Fairness

* `SendLoop`: weak fairness of the thread and of the clock. It never blocks.
* `PingPong`: weak fairness of main (it only waits for sleeps), of each
  callback, of topic resolution (`PingBOS`, `PongBOS`) and of delivery. None of
  faults, and none of pong's start: `PingEnds` does not need it. In timely
  runs main's sleep lasts until the network is quiet, which delivery brings
  about; in the others main can always go on.
* `FlightSize`: weak fairness of the two threads only. None of the store,
  neither of its registration nor of its confirmations: a silent store, or one
  that answers REGISTRATION_ERROR (335), leaves ping waiting at 720 for ever.
  `PingEnds` therefore begins where a registration has come.
* `Lbmpong`: weak fairness of main up to its long sleep and of each callback.
  None of `TimeOut`: were it fair, every run would end whatever the messages
  do, and `StopsAfterMsgs` would show nothing. None of failures or of joining.
* `Jitter`: weak fairness of the one thread. Every turn of a loop takes at
  least one unit of time, as reading a clock does.
* `XspShutdown`: weak fairness of main and of each thread; `processEvents`
  returns, after its timeout at the latest.

### Assumptions that the code does not enforce

* `TimelyResolution`, `TimelySleeps`: the sleeps at 742, 748 and 762 outlast
  topic resolution and what is in flight. `pp_timely` needs both; `pp_late`
  does without, and the difference between the two is what the sleeps buy.
* `ClockFits`: `send_loop` runs for less than 2^31 / rate seconds.
* `StoreIsSlow`: no confirmation between a send and its count. `flight` needs
  it, `flight_race` shows what happens without.

## 4. What the code does and its documents do not say

Each of these has a run and an entry under "findings":

* **Late warm-up replies are measured replies** to the counters
  (um_lat_ping.c:753). They cannot reach the histogram, because warm-up
  messages carry no time.
* **The Java pong dies** at its first stable message (UmLatPong.java:210).
* **Confirmation before the count** (UmLatPing.java:559-569, and in the same
  way um_lat_pong.c:383-399 with `-R x`): the assertion fails on a sound run.
* **lbmpong's median is not the middle** (lbmpong.java:856, 859): `calc_med`
  sorts, and takes the entry after the middle one, or the two after, because
  the entries are counted from 0. With `-M 3` it prints the longest time. For
  one or two messages there is no such entry, and the exception keeps ping from
  stopping, so that `-C -M 2` only ends with run_secs.

Exceptions that a property names:

* um_lat_pong has no persistent mode (um_lat_pong.c:120): the case of `-p`
  falls through into the one of `-R`, so `-p r` and `-p s`, which the help
  offers (73), end the program, and an empty `-p` after `-R x` turns the XSP
  off again. `RefusedForCause` and `AsGiven` leave pong's `-p` out.
* The usage of um_lat_jitter has `-g`, `-H` and `-i` in brackets, as optional
  (um_lat_jitter.c:50), and the program ends without any of them (107-118):
  the second exception of `RefusedForCause`.
* A percentile is "the latency which percent of samples are below"
  (um_lat_ping.c:289), but the test at 299 is a strict one. Where exactly that
  percentage is below an edge the code goes on to a later edge, or to -1:
  of 500000 samples 99.999% are 499995, and README.md:365-369 says that
  "anything over five overflows" makes it incalculable, yet with exactly five
  the code prints -1 already. `PercentileExact` says "more than".

Seen while reading, without a run:

* `send_loop` sends past the request (um_lat_ping.c:598) once its schedule
  reaches 2^31, which is negative as an `int`, passes the cap, and is huge in
  the `uint64_t` comparison at 607: 27 minutes without finishing at 1300000 per
  second, so a very long run or a very long stall. With MaxTime = 30 in
  MCSendLoop.cfg TLC refutes `NeverMoreThanRequested` in this way.
* A round trip of 2^32 ns or more is cast into a low bucket (um_lat_ping.c:553);
  `OverflowsAreLongRtts` holds for times that fit an `int`.
* The C ping never counts down (um_lat_ping.c:344): persistent runs wait six
  seconds for a store that is caught up, and `max_flight_size` is the number of
  messages sent.
* `um_lat_ping -H N` with one number ends in a null pointer: 139 tests the
  wrong variable. `-m -1` passes the check of the message length (224). `-L` is
  in the option string (117) and has no case.
* The help of um_lat_jitter calls the CPU number of `-a` a bitmap (62).
* The Java ping casts the number of a bucket to int (UmLatPing.java:269): from
  2^31 bucket widths on it is negative, passes the test at 270, and the access
  to the array throws. The models have the C code's bucket, which is not cast.
* The CPU scan of um_lat_jitter stops at the first CPU that cannot be used
  (351), and with none before it measures wherever a shift by -1 leads (365).
* A Java smart source in persistent mode never registers.
* In C the printed maximum flight size is one less than the peak (646).
* With an empty histogram the Java ping's `histPrint` throws, and with `-S` the
  other threads keep the process alive.
* lbmpong prints an average and a median of 0 when run_secs end the run: both
  are only computed with the last message.
* lbmpong with `-I` ends in a NullPointerException (690).
* A retry of lbmpong's ping does not skew the latency, although 260 says so; a
  retry of pong's does, and ping's report does not tell.

## 5. What is proved

With TLAPS, for every value of the constants that satisfies the modules'
assumptions (`PingPongAssumption` and so on):

* `PingPongProofs`. `IInv` is `TypeOK` and four parts: *Stage* says how many
  messages have been sent in each phase of main; *Channels* says that the ids
  the callback has seen, those on their way to ping, those on their way to pong
  and those sent form one increasing sequence; *Recording* says that a stamped
  message is a measured one, and ties `hist_num` to `recorded` at each step of
  the callback; *Verdict* says what a printed report and an exit status imply.
  None of the properties is inductive alone: that only measured messages are
  recorded needs the stamps of everything in flight, and that none is recorded
  twice needs the order of both sessions. From it follow `OnlyMeasuredRecorded`,
  `ResetUndisturbed`, `PassMeansMeasured`, `TypeOK`, and the step simulation
  `Spec => IsEcho`. These hold whatever the timing and assume nothing of the
  sleeps.

  With `TimelySleeps`, `SleepsInv` adds what the sleeps buy. *Slept*: at the
  resets and after the last sleep nothing that was sent can still reach ping.
  *InStep*: from the resets on, the count of replies, the count of samples and
  the histogram differ only by the step the callback is in. *OnlyMeasuredLeft*:
  in the measured part only measured messages are on their way, *AllRecorded*:
  each that has been answered is in the histogram or about to be, and *Judged*:
  what main has found out on its way to a verdict stays true. From it
  `ReportConsistent`, the refinement `Spec => IsLatencyTest`, and
  `StartsFresh` with `StartsOver`: nothing of the warm-up is left when the
  measured part begins, and nothing of it is counted later.
  `pp_startsover` shows `StartsOver` to be false without timely sleeps. `NoFalseAlarm`
  needs two hypotheses more, `TimelyResolution` and a warm-up: its invariant
  says that both sides have joined before the first measured message
  (*Found*), and that without a fault every measured message is answered or on
  its way and no loss has been counted (*Faultless*). The warm-up cannot be
  left out. Resolution is only waited for before a warm-up, so without one a
  sound run may send measured messages that nobody hears.
* `SendLoopProofs`, under `ClockFits`. The invariant says that the program's
  arithmetic agrees with the integers (`should_have_sent` is the capped true
  schedule of the last reading, which is not ahead of the clock) and relates the
  running maximum to the longest burst. From it: never more than requested, the
  exact tight-send maximum, catching up, and the refinement of `PacedSender`.
  `IntegerLemmas` holds the facts about division and the casts.
* `RecorderProofs`: the type of the record for any widths, and
  `HistogramExact`, by the effect of one sample on the cardinalities.
  `ExtremesExact` needs that the extremes are samples and not only bounds, and
  what they are while there is none; `OverflowsAreLongRtts` follows from
  `HistogramExact`. `PercentileExact` speaks of samples below a time and of
  no bucket, so it takes three steps: the samples in the buckets up to b are
  those below b's edge (`BucketsAreEdges`); more than a number rounded
  down is more than the number (`ReachedIsMore`); and of the buckets that reach
  it there is a first (`OnePercentile`). For the first of them the recursive
  function `FoundSamples` has to be given a meaning: the number of samples in the buckets up to b.
  Induction is out of the prover's reach, so `FoundExact` takes another way: the
  meaning satisfies the function's equation, and two functions that satisfy it
  would differ at a least bucket first, which the equation excludes.
  `IntegerLemmas` proves that a set of naturals has a least element and a
  bounded one a greatest, from the library's theorem on finite sets.
* `LbmpongProofs`: `OneInFlight` and `OnlyPongSkews` for any numbers of messages
  and failures. `OneInFlight` is inductive: the message is with main, on a
  session or in a callback, and each action hands it on or loses it. That only
  pong's retries are measured needs the age of every stamp in flight: 0 on the
  way to pong, at most pong's retries on the way back. `CInv` adds the counts:
  `rtt_ignore` counts down while `msg_count` and the samples count up (*Counted*),
  ping goes on until there are enough samples (*Enough*), a report is printed in
  one go or is still being printed (*Printing*). From it the type,
  `MeasuredExactly` and `PrintedTogether`.
* `FlightSizeProofs`, for any program, number of messages and limits. `IInv` is
  the type of the variables with how far the counter may be from what is in
  flight at each step of the sender, and `MaxIsPeak` with the value that the
  atomic addition has returned. `CounterRight` is for the programs that count
  what they send; `NeverDies` needs `StoreIsSlow` as well, or a pong whose one
  thread both sends and hears of the store, because the C decrement and its
  assertion are two steps.
* `JitterProofs`, for any command lines, widths, sets of CPUs and times.
  `ReadInv` says that while a tool parses, `optind` is where some option k + 1
  begins (or where the options end) and `o` is what the first k options mean
  (`Reads`). That takes three steps: `cprt_getopt` finds an option as it is
  written (`GetoptReads`) and stops where there is none (`GetoptEnds`); one case
  of a switch changes its own fields only (`PingTakes`, `PongTakes`,
  `JitterTakes`); and with one option more, the last value and the list of all
  values change accordingly (`LastAppend`, `AllAppend`, `ReadsMore`). From it
  `AsGiven` and `XmlReadForItsMode`. A documented value never stops a tool
  (`PingAccepts` and its like), and with all that the help texts ask for (and,
  for um_lat_jitter, what only its checks ask for) the checks are met
  (`PingStarts` and its like), so that `RefusedForCause` follows.
  `OptInv` follows the record `o` through every case of the three switches; that
  a warm-up always comes with a rate has to be kept from option to option, the
  other parts of `AcceptedRuns` are tested at the end. `LoopInv`: inside the
  loop no sample has been longer than the time that has passed, which is an
  int, so the cast has changed nothing yet and the histogram's extremes are the
  true ones; the one sample that can be longer ends the loop. `ScanInv`: the
  best of the CPUs before `cpu` is known, all of those are usable, and a test
  sends at most twice per nanosecond, so that the count fits `max_loops`
  (2 * TestNs <= IntMax). From them `AcceptedRuns`, `ReportsTheLoop`,
  `MeasuresOnBest`, and with the type of the histogram `TypeOK`.
* `XspShutdownProofs`: `NoEventsOnClosed` for any number of objects. The
  invariant is the handshake: a thread inside its loop has announced itself in
  `_running`, and main waits for that flag only after taking back the other.

The types of `PingPong`, `FlightSize`, `Jitter` and `XspShutdown` are theorems and
not part of a run. Each strengthened invariant was checked by TLC on the
instances of section 3 before it was proved.

Every invariant and action property of a passing run is a theorem, some under
the hypotheses named above. Checked by TLC only: all liveness (`Ends` and its
like), because fairness and ENABLED are out of the prover's reach.

## 6. Not modelled, and what could follow

* The options of the Java tools and of lbmpong: the same switches in Java, with
  exceptions in place of `exit`. `Options` could take them as further programs.
* automation/: shell. `PongEnds` states what tst.sh's second wait relies on; a
  module for tst.sh with remote_run and remote_kill, composed with the outcomes
  of `PingPong`, would show when the script hangs.
* UM's objects and attributes (`create_context` and the like): calls into the
  library that set attributes. What they decide, the thread of a callback, is
  in `PingPong`, `FlightSize` and `XspShutdown`.
* cprt's event ring, semaphores, mutexes and Windows branches: no tool uses
  them. Sleeps are modelled where they matter, by what may have happened when
  they are over.
* um.xml and store_*.xml: configuration of an external product.
* Floating point: the percentile's `needed_samples` is taken exactly.

Worth proving next: the parts of the liveness arguments that need no fairness,
such as a bound on the steps that are left in `send_loop`, in the CPU scan of
um_lat_jitter and in lbmpong's close of its windows; and that the numbers of
any accepted command line (`AcceptedRuns`) satisfy `HistogramAssumption` and
`SendLoopAssumption`, so that the theorems of those modules apply to it.
