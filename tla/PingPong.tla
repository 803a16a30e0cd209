------------------------------ MODULE PingPong -------------------------------
(***************************************************************************)
(* One run of um_lat_ping against one um_lat_pong in streaming mode.       *)
(*                                                                         *)
(* Ping has two threads that share counters without a lock: main (main and *)
(* send_loop, um_lat_ping.c:577-811) and the thread that UM calls          *)
(* my_rcv_cb on (501-568), the context's or the XSP's.  Pong's callback    *)
(* sends every message it receives back (um_lat_pong.c:328-412).           *)
(*                                                                         *)
(* UM is the environment: a source reaches a receiver in order, from the   *)
(* moment the receiver has joined the source's transport session.  What    *)
(* was sent before is missed (head loss); what the network drops later is  *)
(* not sent again (um.xml turns NAKs off) and reaches the callback as      *)
(* LBM_MSG_UNRECOVERABLE_LOSS in its place.                                *)
(*                                                                         *)
(* A message is its number and whether it carries a send time.  The        *)
(* histogram is the samples it has been given, in the two steps of         *)
(* hist_input that another thread can see between.                         *)
(***************************************************************************)
EXTENDS Integers, Sequences, FiniteSets

CONSTANTS
    warmup_loops,      \* first number of -w
    num_msgs,          \* -n
    exit_on_eos,       \* pong's -E
    MaxFaults,         \* bound of the model: drops and failed sends
    TimelyResolution,  \* TRUE: a sleep outlasts topic resolution
    TimelySleeps       \* TRUE: a sleep outlasts what is in flight

ASSUME PingPongAssumption ==
    /\ warmup_loops \in Nat
    /\ num_msgs \in Nat \ {0}
    /\ exit_on_eos \in BOOLEAN
    /\ MaxFaults \in Nat
    /\ TimelyResolution \in BOOLEAN
    /\ TimelySleeps \in BOOLEAN

VARIABLES
    pc,               \* what ping's main does next
    sent,             \* messages ping has sent
    num_rcv_msgs,     \* ping's counters, shared by its two threads
    num_unrec_loss,
    hist_num,         \* hist_num_samples
    recorded,         \* the messages whose samples are in a bucket
    report,           \* what main printed: samples, recorded and num_rcv_msgs
    rcv_pc,           \* where my_rcv_cb is, "idle" between two calls
    rcv_msg,          \* its argument
    rcv_reg,          \* the value it read and is about to write back
    got, answers,     \* history: the messages the callback saw answered, and
                      \* how many answers it saw
    pong,             \* "off", "up", "exit0" or "exit1"
    pong_num_sent, pong_unrec_loss,
    pong_joined,      \* pong's receiver has joined ping's source
    ping_joined,      \* ping's receiver has joined pong's source
    to_pong, to_ping, \* the two transport sessions
    faults            \* drops and failed sends so far

main_vars == <<pc, sent, report>>
counters == <<num_rcv_msgs, num_unrec_loss, hist_num, recorded>>
rcv_vars == <<rcv_pc, rcv_msg, rcv_reg, got, answers>>
pong_vars == <<pong, pong_num_sent, pong_unrec_loss>>
net_vars == <<pong_joined, ping_joined, to_pong, to_ping, faults>>

vars == <<main_vars, counters, rcv_vars, pong_vars, net_vars>>

Total == warmup_loops + num_msgs
MsgId == 1 .. Total
Measured == warmup_loops + 1 .. Total

\* What a receive callback is handed; a lost message keeps its number for
\* the history only.
Msg == [type : {"DATA", "UNRECOVERABLE_LOSS"}, id : MsgId, stamped : BOOLEAN]
NoMsg == [type |-> "DATA", id |-> 1, stamped |-> FALSE]

Phases == {"head", "resolve", "warmup", "warmup_linger", "reset_hist",
           "reset_rcv", "reset_loss", "measure", "linger", "assert_rcv",
           "print", "print_counters", "assert_loss", "assert_count",
           "delete_source", "delete_rcv"}
Ended == {"exit0", "exit1", "sigfpe"}

Running == pc \notin Ended

Init ==
    /\ pc = "head"
    /\ sent = 0
    /\ num_rcv_msgs = 0
    /\ num_unrec_loss = 0
    /\ hist_num = 0
    /\ recorded = {}
    /\ report = [num |-> 0, recorded |-> {}, num_rcv_msgs |-> 0]
    /\ rcv_pc = "idle"
    /\ rcv_msg = NoMsg
    /\ rcv_reg = 0
    /\ got = {}
    /\ answers = 0
    /\ pong \in IF TimelyResolution THEN {"up"} ELSE {"off", "up"}
    /\ pong_num_sent = 0
    /\ pong_unrec_loss = 0
    /\ pong_joined = FALSE
    /\ ping_joined = FALSE
    /\ to_pong = << >>
    /\ to_ping = << >>
    /\ faults = 0

-----------------------------------------------------------------------------
(* Ping's main thread.                                                     *)

Goto(here, there) == pc = here /\ pc' = there

\* One message of send_loop.  Pacing is SendLoop's subject: here any time
\* may pass between two messages.
SendOne(send_timestamp) ==
    /\ sent' = sent + 1
    /\ to_pong' = IF pong_joined
                    THEN Append(to_pong, [type |-> "DATA", id |-> sent + 1,
                                          stamped |-> send_timestamp])
                    ELSE to_pong
    /\ UNCHANGED <<report, counters, rcv_vars, pong_vars, pong_joined,
                   ping_joined, to_ping, faults>>

MainOnly == UNCHANGED <<sent, rcv_vars, pong_vars, net_vars>>

\* send_loop(1, 999999999, 0), the message that makes the source known, if
\* there is a warm-up.
HeadSend ==
    /\ Goto("head", "resolve")
    /\ IF warmup_loops > 0 THEN SendOne(FALSE)
                           ELSE MainOnly /\ UNCHANGED <<counters, report>>

\* How long CPRT_SLEEP_SEC(1) and CPRT_SLEEP_MS(o_linger_ms) may take is the
\* environment's: with the Timely constants, long enough.  To be found for
\* sure a source must have sent: "need to initiate data on src" (735).
Resolved == pong = "up" /\ sent > 0 => pong_joined /\ ping_joined
Quiet == /\ pong = "up" => to_pong = << >>
         /\ to_ping = << >>
         /\ rcv_pc = "idle"
SleptEnough == (TimelyResolution => Resolved) /\ (TimelySleeps => Quiet)

ResolveSleep ==
    /\ SleptEnough
    /\ Goto("resolve", IF warmup_loops > 1 THEN "warmup" ELSE "reset_hist")
    /\ MainOnly /\ UNCHANGED <<counters, report>>

\* Mutant: warmup messages are stamped like measured ones.
StampedWarmup ==
    /\ Goto("warmup", IF sent + 1 = warmup_loops THEN "warmup_linger" ELSE "warmup")
    /\ SendOne(TRUE)

WarmupSend ==
    /\ Goto("warmup", IF sent + 1 = warmup_loops THEN "warmup_linger" ELSE "warmup")
    /\ SendOne(FALSE)

WarmupLinger ==
    /\ SleptEnough
    /\ Goto("warmup_linger", "reset_hist")
    /\ MainOnly /\ UNCHANGED <<counters, report>>

\* "Zero out data from warmup period", one store after another.
ResetHist ==
    /\ Goto("reset_hist", "reset_rcv")
    /\ hist_num' = 0
    /\ recorded' = {}
    /\ MainOnly /\ UNCHANGED <<num_rcv_msgs, num_unrec_loss, report>>

\* Mutant: the received messages are not counted anew.
KeepRcv ==
    /\ Goto("reset_rcv", "reset_loss")
    /\ MainOnly /\ UNCHANGED <<counters, report>>

ResetRcv ==
    /\ Goto("reset_rcv", "reset_loss")
    /\ num_rcv_msgs' = 0
    /\ MainOnly /\ UNCHANGED <<num_unrec_loss, hist_num, recorded, report>>

\* Mutant: the losses are not counted anew.
KeepLoss ==
    /\ Goto("reset_loss", "measure")
    /\ MainOnly /\ UNCHANGED <<counters, report>>

ResetLoss ==
    /\ Goto("reset_loss", "measure")
    /\ num_unrec_loss' = 0
    /\ MainOnly /\ UNCHANGED <<num_rcv_msgs, hist_num, recorded, report>>

MeasuredSend ==
    /\ Goto("measure", IF sent + 1 = Total THEN "linger" ELSE "measure")
    /\ SendOne(TRUE)

\* lbm_src_send or lbm_ssrc_send_ex fails: E ends the program.
SendFails ==
    /\ pc \in IF warmup_loops > 0 THEN {"head", "warmup", "measure"} ELSE {"measure"}
    /\ faults < MaxFaults
    /\ faults' = faults + 1
    /\ pc' = "exit1"
    /\ UNCHANGED <<sent, report, counters, rcv_vars, pong_vars, pong_joined,
                   ping_joined, to_pong, to_ping>>

\* Mutant: the asserts look at the counters before the replies are in.
NoLinger ==
    /\ Goto("linger", "assert_rcv")
    /\ MainOnly /\ UNCHANGED <<counters, report>>

Linger ==
    /\ SleptEnough
    /\ Goto("linger", "assert_rcv")
    /\ MainOnly /\ UNCHANGED <<counters, report>>

\* ASSRT(num_rcv_msgs > 0)
AssertRcv ==
    /\ Goto("assert_rcv", IF num_rcv_msgs > 0 THEN "print" ELSE "exit1")
    /\ MainOnly /\ UNCHANGED <<counters, report>>

\* Mutant: an empty histogram is printed.
PrintEmpty ==
    /\ Goto("print", "print_counters")
    /\ report' = [report EXCEPT !.num = hist_num, !.recorded = recorded]
    /\ MainOnly /\ UNCHANGED counters

\* hist_print divides by hist_num_samples.
HistPrint ==
    /\ Goto("print", IF hist_num = 0 THEN "sigfpe" ELSE "print_counters")
    /\ report' = IF hist_num = 0 THEN report
                 ELSE [report EXCEPT !.num = hist_num, !.recorded = recorded]
    /\ MainOnly /\ UNCHANGED counters

PrintCounters ==
    /\ Goto("print_counters", "assert_loss")
    /\ report' = [report EXCEPT !.num_rcv_msgs = num_rcv_msgs]
    /\ MainOnly /\ UNCHANGED counters

\* ASSRT(num_unrec_loss == 0)
AssertLoss ==
    /\ Goto("assert_loss", IF num_unrec_loss = 0 THEN "assert_count" ELSE "exit1")
    /\ MainOnly /\ UNCHANGED <<counters, report>>

\* Mutant: the final count is not compared.
NoAssertCount ==
    /\ Goto("assert_count", "delete_source")
    /\ MainOnly /\ UNCHANGED <<counters, report>>

\* Mutant: main waits for the missing replies.
WaitForCount ==
    /\ num_rcv_msgs = num_msgs
    /\ Goto("assert_count", "delete_source")
    /\ MainOnly /\ UNCHANGED <<counters, report>>

\* ASSRT(num_rcv_msgs == actual_sends)
AssertCount ==
    /\ Goto("assert_count", IF num_rcv_msgs = num_msgs THEN "delete_source" ELSE "exit1")
    /\ MainOnly /\ UNCHANGED <<counters, report>>

DeleteSource ==
    /\ Goto("delete_source", "delete_rcv")
    /\ MainOnly /\ UNCHANGED <<counters, report>>

\* lbm_rcv_delete returns when no callback is running; the rest of the
\* clean-up meets no other thread.
DeleteRcv ==
    /\ rcv_pc = "idle"
    /\ Goto("delete_rcv", "exit0")
    /\ MainOnly /\ UNCHANGED <<counters, report>>

Main ==
    \/ HeadSend \/ ResolveSleep \/ WarmupSend \/ WarmupLinger
    \/ ResetHist \/ ResetRcv \/ ResetLoss \/ MeasuredSend \/ Linger
    \/ AssertRcv \/ HistPrint \/ PrintCounters \/ AssertLoss \/ AssertCount
    \/ DeleteSource \/ DeleteRcv

-----------------------------------------------------------------------------
(* Ping's receive callback, while the process lives.                       *)

CallbackOnly == UNCHANGED <<main_vars, pong_vars, pong_joined, ping_joined,
                            to_pong, faults>>

\* LBM_MSG_BOS: ping's receiver has joined pong's source.
PingBOS ==
    /\ Running
    /\ pong = "up"
    /\ ~ping_joined
    /\ rcv_pc = "idle"
    /\ ping_joined' = TRUE
    /\ num_rcv_msgs' = 0
    /\ num_unrec_loss' = 0
    /\ UNCHANGED <<main_vars, hist_num, recorded, rcv_vars, pong_vars,
                   pong_joined, to_pong, to_ping, faults>>

\* num_rcv_msgs++ (or num_unrec_loss++) is a load and a store.
RcvLoad ==
    /\ Running
    /\ rcv_pc = "idle"
    /\ to_ping # << >>
    /\ rcv_msg' = Head(to_ping)
    /\ to_ping' = Tail(to_ping)
    /\ rcv_pc' = "store"
    /\ IF rcv_msg'.type = "DATA"
         THEN /\ rcv_reg' = num_rcv_msgs
              /\ got' = got \cup {rcv_msg'.id}
              /\ answers' = answers + 1
         ELSE /\ rcv_reg' = num_unrec_loss
              /\ UNCHANGED <<got, answers>>
    /\ CallbackOnly /\ UNCHANGED counters

\* Mutant: the unstamped replies of the warmup are measured as well.
StoreAndMeasure ==
    /\ Running
    /\ rcv_pc = "store"
    /\ rcv_msg.type = "DATA"
    /\ num_rcv_msgs' = rcv_reg + 1
    /\ rcv_pc' = "hist_num"
    /\ CallbackOnly
    /\ UNCHANGED <<num_unrec_loss, hist_num, recorded, rcv_msg, rcv_reg, got, answers, to_ping>>

RcvStoreData ==
    /\ Running
    /\ rcv_pc = "store"
    /\ rcv_msg.type = "DATA"
    /\ num_rcv_msgs' = rcv_reg + 1
    /\ rcv_pc' = IF rcv_msg.stamped THEN "hist_num" ELSE "idle"
    /\ CallbackOnly
    /\ UNCHANGED <<num_unrec_loss, hist_num, recorded, rcv_msg, rcv_reg, got, answers, to_ping>>

RcvStoreLoss ==
    /\ Running
    /\ rcv_pc = "store"
    /\ rcv_msg.type = "UNRECOVERABLE_LOSS"
    /\ num_unrec_loss' = rcv_reg + 1
    /\ rcv_pc' = "idle"
    /\ CallbackOnly
    /\ UNCHANGED <<num_rcv_msgs, hist_num, recorded, rcv_msg, rcv_reg, got, answers, to_ping>>

\* hist_input: the sample is counted, then put in its bucket.
RcvHistNum ==
    /\ Running
    /\ rcv_pc = "hist_num"
    /\ hist_num' = hist_num + 1
    /\ rcv_pc' = "hist_bucket"
    /\ CallbackOnly
    /\ UNCHANGED <<num_rcv_msgs, num_unrec_loss, recorded, rcv_msg, rcv_reg, got, answers, to_ping>>

RcvHistBucket ==
    /\ Running
    /\ rcv_pc = "hist_bucket"
    /\ recorded' = recorded \cup {rcv_msg.id}
    /\ rcv_pc' = "idle"
    /\ CallbackOnly
    /\ UNCHANGED <<num_rcv_msgs, num_unrec_loss, hist_num, rcv_msg, rcv_reg, got, answers, to_ping>>

Callback == RcvLoad \/ RcvStoreData \/ RcvStoreLoss \/ RcvHistNum \/ RcvHistBucket

-----------------------------------------------------------------------------
(* Pong.  Its main thread only sleeps; its callback runs to completion.    *)

PongOnly == UNCHANGED <<main_vars, counters, rcv_vars, ping_joined>>

PongStart ==
    /\ pong = "off"
    /\ pong' = "up"
    /\ PongOnly
    /\ UNCHANGED <<pong_num_sent, pong_unrec_loss, pong_joined, to_pong, to_ping, faults>>

\* The source can still be heard of until main deletes it or dies.
SourceUp == Running /\ pc # "delete_rcv"

\* LBM_MSG_BOS
PongBOS ==
    /\ pong = "up"
    /\ ~pong_joined
    /\ SourceUp
    /\ pong_joined' = TRUE
    /\ pong_num_sent' = 0
    /\ pong_unrec_loss' = 0
    /\ PongOnly /\ UNCHANGED <<pong, to_pong, to_ping, faults>>

\* Mutant: the reflected message is sent twice.
ReflectTwice ==
    /\ pong = "up"
    /\ to_pong # << >>
    /\ Head(to_pong).type = "DATA"
    /\ to_pong' = Tail(to_pong)
    /\ to_ping' = IF ping_joined THEN to_ping \o <<Head(to_pong), Head(to_pong)>>
                                 ELSE to_ping
    /\ pong_num_sent' = pong_num_sent + 1
    /\ PongOnly /\ UNCHANGED <<pong, pong_unrec_loss, pong_joined, faults>>

\* LBM_MSG_DATA: the message goes back as it came.
PongData ==
    /\ pong = "up"
    /\ to_pong # << >>
    /\ Head(to_pong).type = "DATA"
    /\ to_pong' = Tail(to_pong)
    /\ to_ping' = IF ping_joined THEN Append(to_ping, Head(to_pong)) ELSE to_ping
    /\ pong_num_sent' = pong_num_sent + 1
    /\ PongOnly /\ UNCHANGED <<pong, pong_unrec_loss, pong_joined, faults>>

\* LBM_MSG_DATA when the send fails (LBM_SRC_NONBLOCK): E ends the program.
PongSendFails ==
    /\ pong = "up"
    /\ to_pong # << >>
    /\ Head(to_pong).type = "DATA"
    /\ faults < MaxFaults
    /\ faults' = faults + 1
    /\ pong' = "exit1"
    /\ to_pong' = Tail(to_pong)
    /\ PongOnly /\ UNCHANGED <<pong_num_sent, pong_unrec_loss, pong_joined, to_ping>>

\* LBM_MSG_UNRECOVERABLE_LOSS
PongLoss ==
    /\ pong = "up"
    /\ to_pong # << >>
    /\ Head(to_pong).type = "UNRECOVERABLE_LOSS"
    /\ to_pong' = Tail(to_pong)
    /\ pong_unrec_loss' = pong_unrec_loss + 1
    /\ PongOnly /\ UNCHANGED <<pong, pong_num_sent, pong_joined, to_ping, faults>>

\* Mutant: -E is forgotten.
IgnoreEOS == FALSE /\ UNCHANGED vars

\* LBM_MSG_EOS, when ping's source is gone and everything it sent has been
\* delivered: with -E pong exits.
PongEOS ==
    /\ pong = "up"
    /\ exit_on_eos
    /\ pong_joined
    /\ ~SourceUp
    /\ to_pong = << >>
    /\ pong' = "exit0"
    /\ PongOnly
    /\ UNCHANGED <<pong_num_sent, pong_unrec_loss, pong_joined, to_pong, to_ping, faults>>

Pong == PongData \/ PongLoss \/ PongEOS

-----------------------------------------------------------------------------
(* The network.                                                            *)

Dropped(session) ==
    {[session EXCEPT ![i].type = "UNRECOVERABLE_LOSS"] :
        i \in {j \in DOMAIN session : session[j].type = "DATA"}}

Drop ==
    /\ faults < MaxFaults
    /\ faults' = faults + 1
    /\ \/ to_pong' \in Dropped(to_pong) /\ UNCHANGED to_ping
       \/ to_ping' \in Dropped(to_ping) /\ UNCHANGED to_pong
    /\ UNCHANGED <<main_vars, counters, rcv_vars, pong_vars, pong_joined, ping_joined>>

Next ==
    \/ Main \/ SendFails
    \/ PingBOS \/ Callback
    \/ PongStart \/ PongBOS \/ Pong \/ PongSendFails
    \/ Drop

Spec == Init /\ [][Next]_vars

\* Each thread takes its next step, messages and topic resolution arrive.
\* Nothing makes a fault happen, or pong start.
Fairness ==
    /\ WF_vars(Main)
    /\ WF_vars(PingBOS)
    /\ WF_vars(Callback)
    /\ WF_vars(PongBOS)
    /\ WF_vars(Pong)

FairSpec == Spec /\ Fairness

-----------------------------------------------------------------------------

TypeOK ==
    /\ pc \in Phases \cup Ended
    /\ sent \in 0 .. Total
    /\ num_rcv_msgs \in Nat
    /\ num_unrec_loss \in Nat
    /\ hist_num \in Nat
    /\ recorded \subseteq MsgId
    /\ report \in [num : Nat, recorded : SUBSET MsgId, num_rcv_msgs : Nat]
    /\ rcv_pc \in {"idle", "store", "hist_num", "hist_bucket"}
    /\ rcv_msg \in Msg
    /\ rcv_reg \in Nat
    /\ got \subseteq MsgId
    /\ answers \in Nat
    /\ pong \in {"off", "up", "exit0", "exit1"}
    /\ pong_num_sent \in Nat
    /\ pong_unrec_loss \in Nat
    /\ pong_joined \in BOOLEAN
    /\ ping_joined \in BOOLEAN
    /\ to_pong \in Seq(Msg)
    /\ to_ping \in Seq(Msg)
    /\ faults \in 0 .. MaxFaults

(***************************************************************************)
(* "warmup messages which should not be accumulated in the histogram"      *)
(* (um_lat_ping.c:714-716): however late their replies are, only measured  *)
(* messages reach the histogram, and none is counted twice or half         *)
(* counted once the callback has returned.                                 *)
(***************************************************************************)
OnlyMeasuredRecorded ==
    /\ recorded \subseteq Measured
    /\ rcv_pc # "hist_bucket" => hist_num = Cardinality(recorded)
    /\ rcv_pc = "hist_bucket" => hist_num = Cardinality(recorded) + 1
                                 /\ rcv_msg.id \notin recorded

(***************************************************************************)
(* Main re-initialises the histogram (um_lat_ping.c:752) while the         *)
(* callback may be running; the two never work on it at the same time.     *)
(***************************************************************************)
ResetUndisturbed ==
    pc = "reset_hist" => rcv_pc \notin {"hist_num", "hist_bucket"}

(***************************************************************************)
(* "num_rcv_msgs = 0;  /* Starting over. */" (um_lat_ping.c:753): in the   *)
(* measured part of the run, the counter that the final assertions use     *)
(* counts replies to measured messages only.                               *)
(***************************************************************************)
StartsOver ==
    pc \in {"measure", "linger", "assert_rcv", "print", "print_counters",
            "assert_loss", "assert_count"}
      => num_rcv_msgs <= Cardinality(got \cap Measured)

(***************************************************************************)
(* "Zero out data from warmup period" (um_lat_ping.c:751-755): before the  *)
(* first measured message is sent no reply, loss or sample is left over    *)
(* from the warm-up, and none can come any more.                           *)
(***************************************************************************)
StartsFresh ==
    pc = "measure" /\ sent = warmup_loops =>
      /\ num_rcv_msgs = 0
      /\ num_unrec_loss = 0
      /\ hist_num = 0 /\ recorded = {}
      /\ Quiet

(***************************************************************************)
(* What main prints hangs together: as many samples as replies, and each   *)
(* of them in a bucket (um_lat_ping.c:771-779).                            *)
(***************************************************************************)
ReportConsistent ==
    pc \in {"assert_loss", "assert_count", "delete_source", "delete_rcv", "exit0"} =>
      /\ report.num = Cardinality(report.recorded)
      /\ report.num = report.num_rcv_msgs

(***************************************************************************)
(* Ping fails only for a reason: without a drop or a failed send on either *)
(* side its assertions hold (um_lat_ping.c:764, 794-795), and with or      *)
(* without one hist_print does not divide by zero (315), although the      *)
(* assertion before it only knows that something was received, not that it *)
(* was measured.                                                           *)
(***************************************************************************)
NoFalseAlarm == pc # "sigfpe" /\ (pc = "exit1" => faults > 0)

(***************************************************************************)
(* Status 0 is not reached without measuring: whatever was late or lost,   *)
(* at least one measured message was answered and recorded.                *)
(***************************************************************************)
PassMeansMeasured == pc = "exit0" => report.num > 0 /\ recorded # {}

\* The replies are an in-order, duplicate-free echo of the messages.
Replies == INSTANCE Echo
IsEcho == Replies!Spec

(***************************************************************************)
(* The run keeps the contract of a latency test: it passes only when every *)
(* measured message has been answered.                                     *)
(***************************************************************************)
Test ==
    INSTANCE LatencyTest WITH
        Warmup <- warmup_loops,
        verdict <- CASE pc = "exit0" -> "pass"
                     [] pc \in {"exit1", "sigfpe"} -> "fail"
                     [] OTHER -> "running"
IsLatencyTest == Test!TestSpec

(***************************************************************************)
(* The run comes to an end, whatever pong and the network do.              *)
(***************************************************************************)
PingEnds == <>(pc \in Ended)

(***************************************************************************)
(* With -E, a pong that has heard ping exits once ping is gone: what       *)
(* automation/tst.sh waits for.                                            *)
(***************************************************************************)
PongEnds == pong_joined /\ pc \in Ended ~> pong # "up"
=============================================================================
