------------------------------- MODULE Lbmpong -------------------------------
(***************************************************************************)
(* lbmpong.java: two processes that bounce one message until ping has      *)
(* seen enough of it.                                                      *)
(*                                                                         *)
(* Each process has a main thread (the constructor, 277-547) and a         *)
(* receive callback (onReceive, 703-812).  With an event queue the         *)
(* callback runs on the main thread, inside evq.run; without one it runs   *)
(* on the context's thread, at the same time as main.  A send that does    *)
(* not go through is retried every second, or gives the message up.        *)
(*                                                                         *)
(* A message is the age of the time stamp in its first 8 bytes, counted in *)
(* seconds slept for retries since it was written; a measured round trip   *)
(* is 1, the ordinary time, and that age.  UM is the environment, as in    *)
(* PingPong.                                                               *)
(***************************************************************************)
EXTENDS Integers, Sequences, FiniteSets

CONSTANTS
    Msgs,       \* numbers of measured messages, -M
    Ignores,    \* numbers of ignored ones, -i
    MaxFaults   \* bound of the model: sends and messages that fail

ASSUME LbmpongAssumption ==
    /\ Msgs \subseteq Nat \ {0}
    /\ Ignores \subseteq Nat
    /\ MaxFaults \in Nat

VARIABLES
    options,      \* what process_cmdline leaves
    main,         \* where a process's main is
    cb,           \* where its onReceive is
    held,         \* age of the stamp in the message it is about to send
    retries,      \* enoregcount + ewouldblockcount
    rtt_ignore,   \* of ping, like the next three
    msg_count,    \* _msg_count
    samples,      \* the times that calc_latency was given
    report,       \* what print_latency shows
    replies,      \* history: the messages ping has received
    joined,       \* this receiver has joined the other's source
    to,           \* to[r]: the transport session that r receives
    faults        \* what has failed so far

ping_vars == <<rtt_ignore, msg_count, samples, report, replies>>
net_vars == <<joined, to, faults>>
vars == <<options, main, cb, held, retries, ping_vars, net_vars>>

Role == {"ping", "pong"}
Other(r) == IF r = "ping" THEN "pong" ELSE "ping"

\* "uncaught": main was left by an exception that nothing catches.
\* "quit": pong's main has returned, and the virtual machine may live on.
Ended == {"exit0", "exit1", "uncaught"}
\* "fields": UM has the receiver, whose constructor has not set its fields.
BeforeSend == {"construct", "fields", "pause", "send"}
MainPlaces == BeforeSend \cup {"run", "print", "print_count", "quit"} \cup Ended

\* -I and -P force the event queue.
Forced(o, r) == o.via[r] = "mim" => o.eventq[r]

Options ==
    {o \in [eventq : [Role -> BOOLEAN],
            via : [Role -> {"source", "smx", "mim"}],
            end_on_eos : [Role -> BOOLEAN],
            msgs : Msgs, rtt_ignore : Ignores, rtt_collect : BOOLEAN] :
       \A r \in Role : Forced(o, r)}

Init ==
    /\ options \in Options
    /\ main = [r \in Role |-> "construct"]
    /\ cb = [r \in Role |-> "idle"]
    /\ held = [r \in Role |-> 0]
    /\ retries = [r \in Role |-> 0]
    /\ rtt_ignore = options.rtt_ignore
    /\ msg_count = 0
    /\ samples = << >>
    /\ report = [samples |-> << >>, count |-> 0, median |-> 0]
    /\ replies = 0
    /\ joined = [r \in Role |-> FALSE]
    /\ to = [r \in Role |-> << >>]
    /\ faults = 0

-----------------------------------------------------------------------------
(* Main.                                                                   *)

MainOnly(r) == UNCHANGED <<options, cb, held, retries, samples, msg_count,
                           rtt_ignore, replies, net_vars>>

Goto(r, here, there) == main[r] = here /\ main' = [main EXCEPT ![r] = there]

\* Up to super() in PongLBMReceiver's constructor, from which on UM may call.
Construct(r) ==
    /\ Goto(r, "construct", "fields")
    /\ MainOnly(r) /\ UNCHANGED report

\* The rest of that constructor.  With -I there is no source, and it asks the
\* source for an attribute.
SetFields(r) ==
    /\ Goto(r, "fields", IF options.via[r] = "mim" THEN "uncaught" ELSE "pause")
    /\ MainOnly(r) /\ UNCHANGED report

\* UM refuses to create an object, or to give the attribute.
ConstructFails(r) ==
    /\ main[r] \in {"construct", "fields"}
    /\ main' = [main EXCEPT ![r] = "exit1"]
    /\ faults < MaxFaults
    /\ faults' = faults + 1
    /\ UNCHANGED <<options, cb, held, retries, ping_vars, joined, to>>

\* Thread.sleep(msecstartpause)
Pause(r) ==
    /\ Goto(r, "pause", IF r = "ping" THEN "send" ELSE "run")
    /\ MainOnly(r) /\ UNCHANGED report

\* What follows evq.run or the sleep.  In sequential mode main ends the
\* context's thread first (528-531), where here callbacks may still run.
AfterRun(r) == IF r = "ping" THEN "print" ELSE "quit"

\* Mutant: the receiver is created without the event queue.
Unqueued(r) == FALSE

\* Callbacks run on main, inside evq.run.
OnMain(r) == options.eventq[r]

\* run_secs are over: evq.run returns between two callbacks.
TimeOut(r) ==
    /\ OnMain(r) => cb[r] = "idle"
    /\ Goto(r, "run", AfterRun(r))
    /\ MainOnly(r) /\ UNCHANGED report

\* print_latency shows curr_nsec first and _msg_count second.
PrintSamples ==
    /\ Goto("ping", "print", "print_count")
    /\ report' = [report EXCEPT !.samples = samples]
    /\ MainOnly("ping")

PrintCount ==
    /\ Goto("ping", "print_count", "exit0")
    /\ report' = [report EXCEPT !.count = msg_count]
    /\ MainOnly("ping")

-----------------------------------------------------------------------------
(* Sending.                                                                *)

\* Mutant: the stamp is written before the loop only.
StampOnce(r) == held[r]

\* The age of the stamp when the message leaves: ping writes a new one in
\* every round of the loop, pong keeps what it was sent.
Stamp(r) == IF r = "ping" THEN 0 ELSE held[r]

Transmit(r) ==
    to' = [to EXCEPT ![Other(r)] =
             IF joined[Other(r)]
               THEN Append(@, [type |-> "DATA", age |-> Stamp(r)]) ELSE @]

\* UMENoRegException and LBMEWouldBlockException are retried with -q; the
\* SMX branch does not go through send_with_retry.
MayRetry(r) == options.eventq[r] /\ options.via[r] = "source"

Fault == faults < MaxFaults /\ faults' = faults + 1

SleepAndRetry(r) ==
    /\ MayRetry(r)
    /\ Fault
    /\ retries' = [retries EXCEPT ![r] = @ + 1]
    /\ held' = [held EXCEPT ![r] = @ + 1]

FirstSend ==
    /\ Goto("ping", "send", "run")
    /\ Transmit("ping")
    /\ UNCHANGED <<options, cb, held, retries, ping_vars, joined, faults>>

FirstSendRetry ==
    /\ main["ping"] = "send"
    /\ SleepAndRetry("ping")
    /\ UNCHANGED <<options, main, cb, ping_vars, joined, to>>

\* Any other failure, or one that may not be retried: exit(1).
FirstSendFails ==
    /\ Goto("ping", "send", "exit1")
    /\ Fault
    /\ UNCHANGED <<options, cb, held, retries, ping_vars, joined, to>>

-----------------------------------------------------------------------------
(* onReceive.                                                              *)

CallbackRuns(r) ==
    IF OnMain(r) THEN main[r] = "run"
                 ELSE main[r] \notin {"construct"} \cup Ended

At(r, place) == CallbackRuns(r) /\ cb[r] = place

\* MSG_DATA, up to the reading of the stamp: _msg_count counts what is not
\* ignored.
Receive(r) ==
    /\ At(r, "idle")
    /\ to[r] # << >>
    /\ Head(to[r]).type = "DATA"
    /\ to' = [to EXCEPT ![r] = Tail(@)]
    /\ held' = [held EXCEPT ![r] = Head(to[r]).age]
    /\ cb' = [cb EXCEPT ![r] = IF r = "ping" THEN "measure" ELSE "send"]
    /\ IF r = "ping"
         THEN /\ replies' = replies + 1
              /\ msg_count' = IF rtt_ignore = 0 THEN msg_count + 1 ELSE msg_count
         ELSE UNCHANGED <<replies, msg_count>>
    /\ UNCHANGED <<options, main, retries, rtt_ignore, samples, report, joined, faults>>

\* The time that calc_latency computes.
diff == 1 + held["ping"]

\* calc_latency; then the new stamp of the next message.
Measure ==
    /\ At("ping", "measure")
    /\ samples' = IF rtt_ignore = 0 THEN Append(samples, diff) ELSE samples
    /\ cb' = [cb EXCEPT !["ping"] =
                IF rtt_ignore = 0 /\ msg_count = options.msgs THEN "finish" ELSE "send"]
    /\ held' = [held EXCEPT !["ping"] = 0]
    /\ UNCHANGED <<options, main, retries, rtt_ignore, msg_count, report, replies, net_vars>>

\* The entry of rtt_data at a place counted from 0, once it is sorted.
Sorted(place) ==
    CHOOSE s \in {samples[i] : i \in DOMAIN samples} :
      /\ Cardinality({i \in DOMAIN samples : samples[i] < s}) <= place
      /\ Cardinality({i \in DOMAIN samples : samples[i] <= s}) > place

calc_med ==
    IF msg_count % 2 = 1 THEN Sorted(msg_count \div 2 + 1)
    ELSE (Sorted(msg_count \div 2) + Sorted(msg_count \div 2 + 1)) \div 2

\* calc_med reads rtt_data[msgs / 2 + 1], which is not there for 1 or 2.
MedianThrows == options.rtt_collect /\ msg_count \div 2 + 1 >= options.msgs

\* print_rtt_data, print_latency, print_stats and exit(0), from the callback.
FinishAndExit ==
    /\ At("ping", "finish")
    /\ ~MedianThrows
    /\ main' = [main EXCEPT !["ping"] = "exit0"]
    /\ report' = [samples |-> samples, count |-> msg_count,
                  median |-> IF options.rtt_collect THEN calc_med ELSE 0]
    /\ UNCHANGED <<options, cb, held, retries, rtt_ignore, msg_count, samples,
                   replies, net_vars>>

\* The exception leaves onReceive; UM drops it or hands it to evq.run.
FinishThrows ==
    /\ At("ping", "finish")
    /\ MedianThrows
    /\ cb' = [cb EXCEPT !["ping"] = "idle"]
    /\ \/ UNCHANGED main
       \/ OnMain("ping") /\ main' = [main EXCEPT !["ping"] = "uncaught"]
    /\ UNCHANGED <<options, held, retries, ping_vars, net_vars>>

\* Mutants: the test of the decrement is gone; the decrement is gone.
OneLessAlways(r) == IF r = "ping" THEN rtt_ignore - 1 ELSE rtt_ignore
NeverLess(r) == rtt_ignore

\* "if(rtt_ignore > 0) rtt_ignore--", at the end of MSG_DATA
OneLess(r) == IF r = "ping" /\ rtt_ignore > 0 THEN rtt_ignore - 1 ELSE rtt_ignore

Return(r) ==
    /\ cb' = [cb EXCEPT ![r] = "idle"]
    /\ rtt_ignore' = OneLess(r)
    /\ UNCHANGED <<options, main, retries, msg_count, samples, report, replies, joined>>

\* The callback may run before _src is set.
Sending(r) == At(r, "send") /\ main[r] # "fields"

\* Mutant: done is not set, so the loop sends once more.
ReplyAgain(r) ==
    /\ Sending(r)
    /\ Transmit(r)
    /\ UNCHANGED <<options, main, cb, held, retries, ping_vars, joined, faults>>

\* Mutant: the SMX branch does not complete its buffer.
ReplyNotOverSmx(r) ==
    /\ Sending(r)
    /\ IF options.via[r] = "smx" THEN UNCHANGED to ELSE Transmit(r)
    /\ Return(r) /\ UNCHANGED <<held, faults>>

Reply(r) ==
    /\ Sending(r)
    /\ Transmit(r)
    /\ Return(r) /\ UNCHANGED <<held, faults>>

ReplyRetry(r) ==
    /\ Sending(r)
    /\ SleepAndRetry(r)
    /\ UNCHANGED <<options, main, cb, ping_vars, joined, to>>

\* The exception is caught and printed; nothing is sent.
ReplyFails(r) ==
    /\ Sending(r)
    /\ Fault
    /\ Return(r) /\ UNCHANGED <<held, to>>

\* _src is still null: the exception leaves onReceive, and nothing is sent.
ReplyWithoutSource(r) ==
    /\ At(r, "send")
    /\ main[r] = "fields"
    /\ cb' = [cb EXCEPT ![r] = "idle"]
    /\ UNCHANGED <<options, main, held, retries, ping_vars, net_vars>>

\* MSG_UNRECOVERABLE_LOSS
Loss(r) ==
    /\ At(r, "idle")
    /\ to[r] # << >>
    /\ Head(to[r]).type = "LOSS"
    /\ main' = [main EXCEPT ![r] = "exit1"]
    /\ to' = [to EXCEPT ![r] = Tail(@)]
    /\ UNCHANGED <<options, cb, held, retries, ping_vars, joined, faults>>

SourceEnded(r) ==
    /\ At(r, "idle")
    /\ joined[r]
    /\ to[r] = << >>
    /\ main[Other(r)] \in Ended \ {"uncaught"}

\* MSG_EOS with -E: end() stops the event queue or the process.
EndOfSource(r) ==
    /\ SourceEnded(r)
    /\ options.end_on_eos[r]
    /\ main[r] # "fields"
    /\ main' = [main EXCEPT ![r] = IF options.eventq[r] THEN AfterRun(r) ELSE "exit0"]
    /\ UNCHANGED <<options, cb, held, retries, ping_vars, net_vars>>

\* MSG_EOS while _end_on_eos is not set: there will be no other.
EndUnheard(r) ==
    /\ SourceEnded(r)
    /\ main[r] = "fields"
    /\ joined' = [joined EXCEPT ![r] = FALSE]
    /\ UNCHANGED <<options, main, cb, held, retries, ping_vars, to, faults>>

-----------------------------------------------------------------------------
(* The environment.                                                        *)

HasReceiver(r) == main[r] \notin {"construct"} \cup Ended
HasSource(r) == HasReceiver(r) /\ options.via[r] # "mim"

Join(r) ==
    /\ ~joined[r]
    /\ HasReceiver(r) /\ HasSource(Other(r))
    /\ joined' = [joined EXCEPT ![r] = TRUE]
    /\ UNCHANGED <<options, main, cb, held, retries, ping_vars, to, faults>>

Drop(r) ==
    /\ Fault
    /\ \E i \in DOMAIN to[r] : to' = [to EXCEPT ![r][i].type = "LOSS"]
    /\ UNCHANGED <<options, main, cb, held, retries, ping_vars, joined>>

\* The virtual machine of a pong whose main has returned may end.
Leave ==
    /\ Goto("pong", "quit", "exit0")
    /\ MainOnly("pong") /\ UNCHANGED report

MainStep(r) ==
    \/ Construct(r) \/ SetFields(r) \/ Pause(r) \/ TimeOut(r)
    \/ r = "ping" /\ (FirstSend \/ PrintSamples \/ PrintCount)

Callback(r) ==
    \/ Receive(r) \/ Reply(r) \/ ReplyWithoutSource(r)
    \/ Loss(r) \/ EndOfSource(r) \/ EndUnheard(r)
    \/ r = "ping" /\ (Measure \/ FinishAndExit \/ FinishThrows)

Next ==
    \/ \E r \in Role : MainStep(r) \/ Callback(r) \/ Join(r) \/ Drop(r)
    \/ \E r \in Role : ConstructFails(r) \/ ReplyRetry(r) \/ ReplyFails(r)
    \/ FirstSendRetry \/ FirstSendFails
    \/ Leave

Spec == Init /\ [][Next]_vars

\* Both threads of a process take their next step.  Nothing has to fail, no
\* receiver has to join, and run_secs may be as long as they like.
Fairness ==
    /\ \A r \in Role :
         WF_vars(Construct(r) \/ SetFields(r) \/ Pause(r)) /\ WF_vars(Callback(r))
    /\ WF_vars(FirstSend \/ PrintSamples \/ PrintCount)

FairSpec == Spec /\ Fairness

-----------------------------------------------------------------------------

Message == [type : {"DATA", "LOSS"}, age : Nat]

TypeOK ==
    /\ options \in Options
    /\ main \in [Role -> MainPlaces]
    /\ cb \in [Role -> {"idle", "measure", "finish", "send"}]
    /\ held \in [Role -> Nat]
    /\ retries \in [Role -> Nat]
    /\ rtt_ignore \in Nat
    /\ msg_count \in Nat
    /\ samples \in Seq(Nat)
    /\ report \in [samples : Seq(Nat), count : Nat, median : Nat]
    /\ replies \in Nat
    /\ joined \in [Role -> BOOLEAN]
    /\ to \in [Role -> Seq(Message)]
    /\ faults \in 0 .. MaxFaults

\* A process has the message in its callback; ping's main has it at first.
Holding(r) == IF cb[r] \in {"measure", "send"} THEN 1 ELSE 0
InCallback == Holding("ping") + Holding("pong")
InSession == Len(to["ping"]) + Len(to["pong"])
Starting == IF main["ping"] \in BeforeSend THEN 1 ELSE 0

(***************************************************************************)
(* The window is one message: whatever is retried, lost or sent while the  *)
(* other side is not there, at most one message is on its way, being       *)
(* received, or about to be sent (241-275, 703-780).                       *)
(***************************************************************************)
OneInFlight ==
    Starting + InSession + InCallback <= 1

(***************************************************************************)
(* The replies after the first rtt_ignore, and only they, are counted and  *)
(* measured, and they fit in the msgs entries of rtt_data (689, 710, 824). *)
(***************************************************************************)
MeasuredExactly ==
    /\ cb["ping"] # "measure" => msg_count = Len(samples)
    /\ cb["ping"] = "idle" /\ main["ping"] \notin Ended =>
         msg_count = IF replies > options.rtt_ignore THEN replies - options.rtt_ignore ELSE 0
    /\ Len(samples) <= options.msgs

(***************************************************************************)
(* A retry of ping's own does not lengthen what it measures, although      *)
(* send_with_retry warns that "the latency for this session of lbmpong     *)
(* will be skewed" (260): only a retry of pong's does, by a second each.   *)
(***************************************************************************)
OnlyPongSkews ==
    \A i \in DOMAIN samples : samples[i] <= 1 + retries["pong"]

(***************************************************************************)
(* With an event queue what ping prints hangs together, when run_secs end  *)
(* the run just as when the last message does: as many messages as         *)
(* measured times (884-918).                                               *)
(***************************************************************************)
PrintedTogether ==
    main["ping"] = "exit0" /\ options.eventq["ping"] =>
      report.count = Len(report.samples)

(***************************************************************************)
(* "Odd number of data elements - take middle" and "Even number of data    *)
(* element avg the two middle ones" (855, 858), of the median that -C      *)
(* prints: at most half of the times are shorter, at most half longer.     *)
(* The entries are counted from 0, and calc_med takes the next one.        *)
(***************************************************************************)
MedianIsMiddle ==
    LET Shorter == {i \in DOMAIN report.samples : report.samples[i] < report.median}
        Longer == {i \in DOMAIN report.samples : report.samples[i] > report.median}
    IN  report.median > 0 =>
          /\ 2 * Cardinality(Shorter) <= report.count
          /\ 2 * Cardinality(Longer) <= report.count

(***************************************************************************)
(* "-M msgs = stop after receiving msgs messages" (74): while nothing      *)
(* fails, a message that is on its way between two processes that hear     *)
(* each other brings ping to print msgs times and exit, unless run_secs    *)
(* are over first.  Not so with -C and fewer than three messages, where    *)
(* calc_med throws.                                                        *)
(***************************************************************************)
Bouncing == /\ \A r \in Role : joined[r] /\ main[r] = "run"
            /\ \E r \in Role : to[r] # << >>
Complete == main["ping"] = "exit0" /\ report.count = options.msgs
OutOfTime == main["ping"] = "print" \/ main["pong"] = "quit"
MedianInReach == options.rtt_collect => options.msgs > 2
StopsAfterMsgs ==
    Bouncing /\ MedianInReach ~> Complete \/ OutOfTime \/ faults > 0
=============================================================================
