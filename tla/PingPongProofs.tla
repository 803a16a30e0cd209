--------------------------- MODULE PingPongProofs ----------------------------
(***************************************************************************)
(* Safety of the latency test for any number of warmup and measured        *)
(* messages and any faults.  First for any timing: what the histogram      *)
(* holds is exactly measured round trips, and the replies are an echo of   *)
(* the sends.  Then for sleeps that suffice: the measured part starts from *)
(* nothing, the report hangs together, the verdict is the one LatencyTest  *)
(* asks for, and a run fails for a cause.                                  *)
(***************************************************************************)
EXTENDS PingPong, FiniteSetTheorems, TLAPS

\* The phases in which no measured message has been sent.
Early == {"head", "resolve", "warmup", "warmup_linger", "reset_hist",
          "reset_rcv", "reset_loss"}

\* How far the sends have come in each phase.
Stage ==
    /\ pc = "head" => sent = 0
    /\ pc = "resolve" => sent = IF warmup_loops > 0 THEN 1 ELSE 0
    /\ pc = "warmup" => sent < warmup_loops
    /\ pc \in {"warmup_linger", "reset_hist", "reset_rcv", "reset_loss"} =>
         sent = warmup_loops
    /\ pc = "measure" => warmup_loops <= sent /\ sent < Total

\* A message is stamped when it is measured, and one of the first n.
Honest(m, n) == m.id <= n /\ (m.stamped <=> m.id > warmup_loops)

\* Messages travel in the order of their numbers.
Ascending(q) == \A i, j \in DOMAIN q : i < j => q[i].id < q[j].id

Behind(p, q) == \A i \in DOMAIN p, j \in DOMAIN q : p[i].id < q[j].id

AllAfter(S, q) == \A n \in S : \A i \in DOMAIN q : n < q[i].id

\* Of n messages, those in S have been answered, p is on the way back to
\* ping and q on the way to pong.
InOrder(p, q, S, n) ==
    /\ \A i \in DOMAIN p : Honest(p[i], n)
    /\ \A i \in DOMAIN q : Honest(q[i], n)
    /\ Ascending(p) /\ Ascending(q) /\ Behind(p, q)
    /\ AllAfter(S, p) /\ AllAfter(S, q)
    /\ S \subseteq 1 .. n

Channels == InOrder(to_ping, to_pong, got, sent)

\* What the callback works on, and what the histogram holds.
Recording ==
    /\ recorded \subseteq got \cap Measured
    /\ IsFiniteSet(recorded)
    /\ hist_num = Cardinality(recorded) + (IF rcv_pc = "hist_bucket" THEN 1 ELSE 0)
    /\ rcv_pc # "idle" => Honest(rcv_msg, sent)
    /\ rcv_pc # "idle" /\ rcv_msg.type = "DATA" => rcv_msg.id \in got \ recorded
    /\ rcv_pc \in {"hist_num", "hist_bucket"} =>
         rcv_msg.type = "DATA" /\ rcv_msg.stamped

\* Once main has printed, something was measured, and it stays measured.
Verdict ==
    /\ pc \in {"print_counters", "assert_loss", "assert_count", "delete_source",
               "delete_rcv"} =>
         report.num > 0 /\ hist_num > 0
    /\ pc = "exit0" => report.num > 0 /\ recorded # {}

IInv == TypeOK /\ Stage /\ Channels /\ Recording /\ Verdict

-----------------------------------------------------------------------------
(* Sequences of messages.                                                  *)

LEMMA AppendChannel ==
    ASSUME NEW q \in Seq(Msg), NEW m \in Msg
    PROVE  /\ Append(q, m) \in Seq(Msg)
           /\ DOMAIN Append(q, m) = DOMAIN q \cup {Len(q) + 1}
           /\ Append(q, m)[Len(q) + 1] = m
           /\ Len(q) + 1 \in Nat
           /\ \A i \in DOMAIN q : /\ i \in Nat
                                  /\ i < Len(q) + 1
                                  /\ q[i] \in Msg
                                  /\ Append(q, m)[i] = q[i]
OBVIOUS

LEMMA TailChannel ==
    ASSUME NEW q \in Seq(Msg), q # << >>
    PROVE  /\ Head(q) \in Msg
           /\ Head(q) = q[1]
           /\ 1 \in DOMAIN q
           /\ Tail(q) \in Seq(Msg)
           /\ \A i \in DOMAIN Tail(q) : /\ i \in Nat
                                        /\ i + 1 \in DOMAIN q
                                        /\ 1 < i + 1
                                        /\ Tail(q)[i] = q[i + 1]
OBVIOUS

LEMMA DropChannel ==
    ASSUME NEW q \in Seq(Msg), NEW r \in Dropped(q)
    PROVE  /\ r \in Seq(Msg)
           /\ DOMAIN r = DOMAIN q
           /\ \A i \in DOMAIN q : r[i].id = q[i].id /\ r[i].stamped = q[i].stamped
<1>1. PICK k \in DOMAIN q :
        r = [q EXCEPT ![k] = [q[k] EXCEPT !.type = "UNRECOVERABLE_LOSS"]]
  BY DEF Dropped
<1>2. \A i \in DOMAIN q : q[i] \in Msg
  OBVIOUS
<1>3. [q[k] EXCEPT !.type = "UNRECOVERABLE_LOSS"] \in Msg
  BY <1>2 DEF Msg
<1>4. r \in Seq(Msg) /\ DOMAIN r = DOMAIN q
  BY <1>1, <1>3
<1>5. ASSUME NEW i \in DOMAIN q
      PROVE  r[i].id = q[i].id /\ r[i].stamped = q[i].stamped
  BY <1>1, <1>2 DEF Msg
<1>6. QED
  BY <1>4, <1>5

-----------------------------------------------------------------------------
(* What becomes of InOrder when a message is sent, sent back, received or  *)
(* dropped.                                                                *)

LEMMA Numbered == \A m \in Msg : m.id \in Nat /\ m.stamped \in BOOLEAN
BY PingPongAssumption DEF Msg, MsgId, Total

\* The newest message has the largest number of all.
LEMMA SentInOrder ==
    ASSUME NEW p \in Seq(Msg), NEW q \in Seq(Msg), NEW S, NEW n \in Nat,
           NEW m \in Msg, m.id = n + 1, Honest(m, n + 1), InOrder(p, q, S, n)
    PROVE  InOrder(p, q, S, n + 1) /\ InOrder(p, Append(q, m), S, n + 1)
<1>1. /\ \A i \in DOMAIN p : p[i] \in Msg /\ p[i].id \in Nat
      /\ \A i \in DOMAIN q : q[i] \in Msg /\ q[i].id \in Nat
  BY Numbered
<1>2. /\ \A i \in DOMAIN p : Honest(p[i], n + 1) /\ p[i].id < n + 1
      /\ \A i \in DOMAIN q : Honest(q[i], n + 1) /\ q[i].id < n + 1
      /\ \A k \in S : k < n + 1
      /\ S \subseteq 1 .. n + 1
  BY <1>1 DEF InOrder, Honest
<1>3. InOrder(p, q, S, n + 1)
  BY <1>2 DEF InOrder
<1> DEFINE r == Append(q, m)
<1>4. /\ DOMAIN r = DOMAIN q \cup {Len(q) + 1}
      /\ r[Len(q) + 1] = m
      /\ Len(q) + 1 \in Nat
      /\ \A i \in DOMAIN q : i \in Nat /\ i < Len(q) + 1 /\ r[i] = q[i]
  BY AppendChannel
<1> HIDE DEF r
<1>5. \A i \in DOMAIN r : Honest(r[i], n + 1)
  BY <1>2, <1>4
<1>6. Ascending(r)
  BY <1>2, <1>4 DEF InOrder, Ascending
<1>7. Behind(p, r) /\ AllAfter(S, r)
  BY <1>2, <1>4 DEF InOrder, Behind, AllAfter
<1>8. InOrder(p, r, S, n + 1)
  BY <1>2, <1>5, <1>6, <1>7 DEF InOrder
<1>9. QED
  BY <1>3, <1>8 DEF r

\* The oldest message on the way to pong is newer than all on the way back.
LEMMA ReflectedInOrder ==
    ASSUME NEW p \in Seq(Msg), NEW q \in Seq(Msg), NEW S, NEW n \in Nat,
           q # << >>, InOrder(p, q, S, n)
    PROVE  /\ InOrder(p, Tail(q), S, n)
           /\ InOrder(Append(p, Head(q)), Tail(q), S, n)
<1> DEFINE t == Tail(q)
           r == Append(p, Head(q))
<1>1. /\ Head(q) \in Msg
      /\ Head(q) = q[1]
      /\ 1 \in DOMAIN q
      /\ \A i \in DOMAIN t : /\ i \in Nat
                             /\ i + 1 \in DOMAIN q
                             /\ 1 < i + 1
                             /\ t[i] = q[i + 1]
  BY TailChannel
<1>2. /\ DOMAIN r = DOMAIN p \cup {Len(p) + 1}
      /\ r[Len(p) + 1] = q[1]
      /\ Len(p) + 1 \in Nat
      /\ \A i \in DOMAIN p : i \in Nat /\ i < Len(p) + 1 /\ r[i] = p[i]
  BY <1>1, AppendChannel
<1> HIDE DEF t, r
<1>3. InOrder(p, t, S, n)
  <2>1. \A i \in DOMAIN t : Honest(t[i], n)
    BY <1>1 DEF InOrder
  <2>2. Ascending(t)
    BY <1>1 DEF InOrder, Ascending
  <2>3. Behind(p, t) /\ AllAfter(S, t)
    BY <1>1 DEF InOrder, Behind, AllAfter
  <2>4. QED
    BY <2>1, <2>2, <2>3 DEF InOrder
<1>4. InOrder(r, t, S, n)
  <2>1. \A i \in DOMAIN r : Honest(r[i], n)
    BY <1>1, <1>2 DEF InOrder
  <2>2. Ascending(r)
    BY <1>1, <1>2 DEF InOrder, Ascending, Behind
  <2>3. Behind(r, t)
    <3>1. Behind(p, t)
      BY <1>3 DEF InOrder
    <3>2. \A j \in DOMAIN t : q[1].id < t[j].id
      BY <1>1 DEF InOrder, Ascending
    <3>3. QED
      BY <1>2, <3>1, <3>2 DEF Behind
  <2>4. AllAfter(S, r)
    BY <1>1, <1>2 DEF InOrder, AllAfter
  <2>5. QED
    BY <1>3, <2>1, <2>2, <2>3, <2>4 DEF InOrder
<1>5. QED
  BY <1>3, <1>4 DEF r, t

\* The oldest reply is newer than every one received, and older than the rest.
LEMMA ReceivedInOrder ==
    ASSUME NEW p \in Seq(Msg), NEW q \in Seq(Msg), NEW S, NEW n \in Nat,
           p # << >>, InOrder(p, q, S, n)
    PROVE  /\ InOrder(Tail(p), q, S, n)
           /\ InOrder(Tail(p), q, S \cup {Head(p).id}, n)
           /\ Honest(Head(p), n)
           /\ Head(p).id \in 1 .. n
           /\ \A k \in S : k < Head(p).id
<1> DEFINE t == Tail(p)
           T == S \cup {Head(p).id}
<1>1. /\ Head(p) \in Msg
      /\ Head(p) = p[1]
      /\ 1 \in DOMAIN p
      /\ \A i \in DOMAIN t : /\ i \in Nat
                             /\ i + 1 \in DOMAIN p
                             /\ 1 < i + 1
                             /\ t[i] = p[i + 1]
  BY TailChannel
<1>2. p[1].id \in Nat /\ p[1].id >= 1
  BY <1>1, PingPongAssumption DEF Msg, MsgId, Total
<1>3. Honest(p[1], n) /\ p[1].id \in 1 .. n /\ (\A k \in S : k < p[1].id)
  BY <1>1, <1>2 DEF InOrder, Honest, AllAfter
<1>4. T = S \cup {p[1].id}
  BY <1>1
<1> HIDE DEF t, T
<1>5. InOrder(t, q, S, n)
  <2>1. \A i \in DOMAIN t : Honest(t[i], n)
    BY <1>1 DEF InOrder
  <2>2. Ascending(t)
    BY <1>1 DEF InOrder, Ascending
  <2>3. Behind(t, q) /\ AllAfter(S, t)
    BY <1>1 DEF InOrder, Behind, AllAfter
  <2>4. QED
    BY <2>1, <2>2, <2>3 DEF InOrder
<1>6. InOrder(t, q, T, n)
  <2>1. \A i \in DOMAIN t : p[1].id < t[i].id
    BY <1>1 DEF InOrder, Ascending
  <2>2. \A i \in DOMAIN q : p[1].id < q[i].id
    BY <1>1 DEF InOrder, Behind
  <2>3. AllAfter(T, t) /\ AllAfter(T, q)
    BY <1>4, <1>5, <2>1, <2>2 DEF InOrder, AllAfter
  <2>4. QED
    BY <1>3, <1>4, <1>5, <2>3 DEF InOrder
<1>7. QED
  BY <1>1, <1>3, <1>5, <1>6 DEF t, T

\* A drop leaves numbers and order alone.
LEMMA DroppedInOrder ==
    ASSUME NEW p \in Seq(Msg), NEW q \in Seq(Msg), NEW S, NEW n \in Nat,
           InOrder(p, q, S, n)
    PROVE  /\ \A r \in Dropped(p) : r \in Seq(Msg) /\ InOrder(r, q, S, n)
           /\ \A r \in Dropped(q) : r \in Seq(Msg) /\ InOrder(p, r, S, n)
<1>1. ASSUME NEW r \in Dropped(p)
      PROVE  r \in Seq(Msg) /\ InOrder(r, q, S, n)
  <2>1. /\ r \in Seq(Msg)
        /\ DOMAIN r = DOMAIN p
        /\ \A i \in DOMAIN p : r[i].id = p[i].id /\ r[i].stamped = p[i].stamped
    BY DropChannel
  <2>2. QED
    BY <2>1 DEF InOrder, Honest, Ascending, Behind, AllAfter
<1>2. ASSUME NEW r \in Dropped(q)
      PROVE  r \in Seq(Msg) /\ InOrder(p, r, S, n)
  <2>1. /\ r \in Seq(Msg)
        /\ DOMAIN r = DOMAIN q
        /\ \A i \in DOMAIN q : r[i].id = q[i].id /\ r[i].stamped = q[i].stamped
    BY DropChannel
  <2>2. QED
    BY <2>1 DEF InOrder, Honest, Ascending, Behind, AllAfter
<1>3. QED
  BY <1>1, <1>2

-----------------------------------------------------------------------------

LEMMA InitInv == Init => IInv
<1> SUFFICES ASSUME Init PROVE IInv
  OBVIOUS
<1> USE PingPongAssumption
<1>1. TypeOK
  <2>1. 1 \in MsgId /\ NoMsg \in Msg
    BY DEF NoMsg, Msg, MsgId, Total
  <2>2. pong \in {"off", "up", "exit0", "exit1"}
    BY DEF Init
  <2>3. to_pong \in Seq(Msg) /\ to_ping \in Seq(Msg)
    BY DEF Init
  <2>4. report \in [num : Nat, recorded : SUBSET MsgId, num_rcv_msgs : Nat]
    BY DEF Init
  <2>5. sent \in 0 .. Total /\ faults \in 0 .. MaxFaults
    BY DEF Init, Total
  <2>6. pc \in Phases \cup Ended
    BY DEF Init, Phases
  <2>7. rcv_pc \in {"idle", "store", "hist_num", "hist_bucket"}
    BY DEF Init
  <2>8. /\ num_rcv_msgs \in Nat /\ num_unrec_loss \in Nat
        /\ hist_num \in Nat /\ rcv_reg \in Nat
        /\ pong_num_sent \in Nat /\ pong_unrec_loss \in Nat
        /\ recorded \subseteq MsgId /\ got \subseteq MsgId /\ answers \in Nat
        /\ pong_joined \in BOOLEAN /\ ping_joined \in BOOLEAN
        /\ rcv_msg \in Msg
    BY <2>1 DEF Init
  <2>9. QED
    BY <2>2, <2>3, <2>4, <2>5, <2>6, <2>7, <2>8 DEF TypeOK
<1>2. Stage
  BY DEF Init, Stage, Total
<1>3. DOMAIN to_pong = {} /\ DOMAIN to_ping = {}
  BY DEF Init
<1>4. Channels
  BY <1>3 DEF Init, Channels, InOrder, Ascending, Behind, AllAfter
<1>5. Recording
  BY FS_EmptySet DEF Init, Recording
<1>6. Verdict
  BY DEF Init, Verdict
<1>7. QED
  BY <1>1, <1>2, <1>4, <1>5, <1>6 DEF IInv

\* A message goes out: it is the newest of all.
LEMMA SendInv ==
    ASSUME IInv, NEW stamp \in BOOLEAN, SendOne(stamp),
           sent < Total, stamp <=> sent + 1 > warmup_loops,
           pc' \in {"resolve", "warmup", "warmup_linger", "measure", "linger"}, Stage'
    PROVE  IInv'
<1> USE PingPongAssumption
<1> DEFINE m == [type |-> "DATA", id |-> sent + 1, stamped |-> stamp]
<1>1. sent \in Nat /\ sent + 1 \in MsgId /\ m \in Msg
  BY DEF IInv, TypeOK, MsgId, Msg, Total
<1>2. /\ sent' = sent + 1
      /\ to_pong' = IF pong_joined THEN Append(to_pong, m) ELSE to_pong
      /\ UNCHANGED <<report, counters, rcv_vars, pong_vars, pong_joined,
                     ping_joined, to_ping, faults>>
  BY DEF SendOne
<1>3. to_pong \in Seq(Msg) /\ to_ping \in Seq(Msg)
  BY DEF IInv, TypeOK
<1>4. m.id = sent + 1 /\ Honest(m, sent + 1)
  BY <1>1 DEF Honest
<1> HIDE DEF m
<1>5. TypeOK'
  BY <1>1, <1>2, <1>3, AppendChannel
     DEF IInv, TypeOK, Phases, counters, rcv_vars, pong_vars, Total
<1>6. Channels'
  BY <1>1, <1>2, <1>3, <1>4, SentInOrder DEF IInv, Channels, rcv_vars
<1>7. Recording'
  <2>1. rcv_msg.id \in Nat
    BY Numbered DEF IInv, TypeOK
  <2>2. Honest(rcv_msg, sent) => Honest(rcv_msg, sent + 1)
    BY <1>1, <2>1 DEF Honest
  <2>3. QED
    BY <1>2, <2>2 DEF IInv, Recording, counters, rcv_vars
<1>8. Verdict'
  BY <1>2 DEF Verdict
<1>9. QED
  BY <1>5, <1>6, <1>7, <1>8 DEF IInv

\* Main takes a step that sends nothing and leaves the histogram alone.
LEMMA QuietInv ==
    ASSUME IInv, MainOnly, UNCHANGED <<hist_num, recorded>>,
           pc' \in Phases \cup Ended,
           num_rcv_msgs' \in Nat, num_unrec_loss' \in Nat,
           report' \in [num : Nat, recorded : SUBSET MsgId, num_rcv_msgs : Nat],
           Stage', Verdict'
    PROVE  IInv'
<1>1. TypeOK'
  BY DEF IInv, TypeOK, MainOnly, rcv_vars, pong_vars, net_vars
<1>2. Channels'
  BY DEF IInv, Channels, MainOnly, rcv_vars, net_vars
<1>3. Recording'
  BY DEF IInv, Recording, MainOnly, rcv_vars
<1>4. QED
  BY <1>1, <1>2, <1>3 DEF IInv

\* Before the first measured message is sent the callback has nothing to
\* put in the histogram.
LEMMA NothingMeasuredYet ==
    ASSUME IInv, pc = "reset_hist"
    PROVE  rcv_pc \notin {"hist_num", "hist_bucket"}
<1>1. rcv_msg.id \in Nat /\ sent = warmup_loops /\ warmup_loops \in Nat
  BY Numbered, PingPongAssumption DEF IInv, TypeOK, Stage
<1>2. QED
  BY <1>1 DEF IInv, Recording, Honest

LEMMA MainInv == IInv /\ Main => IInv'
<1> SUFFICES ASSUME IInv, Main PROVE IInv'
  OBVIOUS
<1> USE PingPongAssumption
<1>1. sent \in Nat /\ sent <= Total /\ Total \in Nat
  BY DEF IInv, TypeOK, Total
<1>2. CASE HeadSend /\ warmup_loops > 0
  <2>1. sent = 0 /\ pc' = "resolve" /\ SendOne(FALSE) /\ warmup_loops > 0
    BY <1>2 DEF HeadSend, Goto, IInv, Stage
  <2>2. sent' = 1
    BY <2>1 DEF SendOne
  <2>3. Stage'
    BY <2>1, <2>2 DEF Stage
  <2>4. sent < Total /\ (FALSE <=> sent + 1 > warmup_loops)
    BY <2>1 DEF Total
  <2>5. pc' \in {"resolve", "warmup", "warmup_linger", "measure", "linger"}
    BY <2>1
  <2>6. QED
    BY <2>1, <2>3, <2>4, <2>5, SendInv
<1>3. CASE HeadSend /\ ~(warmup_loops > 0)
  <2>0. MainOnly /\ UNCHANGED <<counters, report>> /\ pc = "head" /\ pc' = "resolve"
    BY <1>3 DEF HeadSend, Goto
  <2>1. Stage' /\ Verdict' /\ pc' \in Phases
    BY <1>3, <2>0 DEF MainOnly, IInv, Stage, Verdict, Phases
  <2>2. QED
    BY <2>0, <2>1, QuietInv DEF counters, IInv, TypeOK
<1>4. CASE ResolveSleep
  <2>1. Stage' /\ Verdict' /\ pc' \in Phases
    BY <1>4 DEF ResolveSleep, Goto, MainOnly, IInv, Stage, Verdict, Phases
  <2>2. QED
    BY <1>4, <2>1, QuietInv DEF ResolveSleep, counters, IInv, TypeOK
<1>5. CASE WarmupSend
  <2>1. /\ sent < warmup_loops /\ SendOne(FALSE)
        /\ pc' = IF sent + 1 = warmup_loops THEN "warmup_linger" ELSE "warmup"
    BY <1>5 DEF WarmupSend, Goto, IInv, Stage
  <2>2. sent' = sent + 1
    BY <2>1 DEF SendOne
  <2>3. Stage'
    BY <1>1, <2>1, <2>2 DEF Stage
  <2>4. sent < Total /\ (FALSE <=> sent + 1 > warmup_loops)
    BY <1>1, <2>1 DEF Total
  <2>5. pc' \in {"resolve", "warmup", "warmup_linger", "measure", "linger"}
    BY <2>1
  <2>6. QED
    BY <2>1, <2>3, <2>4, <2>5, SendInv
<1>6. CASE WarmupLinger
  <2>1. Stage' /\ Verdict' /\ pc' \in Phases
    BY <1>6 DEF WarmupLinger, Goto, MainOnly, IInv, Stage, Verdict, Phases
  <2>2. QED
    BY <1>6, <2>1, QuietInv DEF WarmupLinger, counters, IInv, TypeOK
<1>7. CASE ResetHist
  <2>1. /\ pc = "reset_hist" /\ pc' = "reset_rcv"
        /\ hist_num' = 0 /\ recorded' = {}
        /\ MainOnly /\ UNCHANGED <<num_rcv_msgs, num_unrec_loss, report>>
    BY <1>7 DEF ResetHist, Goto
  <2>2. rcv_pc \notin {"hist_num", "hist_bucket"}
    BY <2>1, NothingMeasuredYet
  <2>3. TypeOK'
    BY <2>1 DEF IInv, TypeOK, Phases, MainOnly, rcv_vars, pong_vars, net_vars
  <2>4. Channels' /\ Stage' /\ Verdict'
    BY <2>1 DEF IInv, Channels, Stage, Verdict, MainOnly, rcv_vars, net_vars
  <2>5. Recording'
    BY <2>1, <2>2, FS_EmptySet DEF IInv, Recording, MainOnly, rcv_vars
  <2>6. QED
    BY <2>3, <2>4, <2>5 DEF IInv
<1>8. CASE ResetRcv
  <2>1. Stage' /\ Verdict' /\ pc' \in Phases
    BY <1>8 DEF ResetRcv, Goto, MainOnly, IInv, Stage, Verdict, Phases
  <2>2. QED
    BY <1>8, <2>1, QuietInv DEF ResetRcv, IInv, TypeOK
<1>9. CASE ResetLoss
  <2>1. Stage' /\ Verdict' /\ pc' \in Phases
    BY <1>1, <1>9 DEF ResetLoss, Goto, MainOnly, IInv, Stage, Verdict, Phases, Total
  <2>2. QED
    BY <1>9, <2>1, QuietInv DEF ResetLoss, IInv, TypeOK
<1>10. CASE MeasuredSend
  <2>1. /\ warmup_loops <= sent /\ sent < Total /\ SendOne(TRUE)
        /\ pc' = IF sent + 1 = Total THEN "linger" ELSE "measure"
    BY <1>10 DEF MeasuredSend, Goto, IInv, Stage
  <2>2. sent' = sent + 1
    BY <2>1 DEF SendOne
  <2>3. Stage'
    BY <1>1, <2>1, <2>2 DEF Stage
  <2>4. TRUE <=> sent + 1 > warmup_loops
    BY <1>1, <2>1
  <2>5. pc' \in {"resolve", "warmup", "warmup_linger", "measure", "linger"}
    BY <2>1
  <2>6. QED
    BY <2>1, <2>3, <2>4, <2>5, SendInv
<1>11. CASE Linger
  <2>1. Stage' /\ Verdict' /\ pc' \in Phases
    BY <1>11 DEF Linger, Goto, MainOnly, IInv, Stage, Verdict, Phases
  <2>2. QED
    BY <1>11, <2>1, QuietInv DEF Linger, counters, IInv, TypeOK
<1>12. CASE AssertRcv
  <2>1. Stage' /\ Verdict' /\ pc' \in Phases \cup Ended
    BY <1>12 DEF AssertRcv, Goto, MainOnly, IInv, Stage, Verdict, Phases, Ended
  <2>2. QED
    BY <1>12, <2>1, QuietInv DEF AssertRcv, counters, IInv, TypeOK
<1>13. CASE HistPrint
  <2>1. hist_num \in Nat /\ recorded \in SUBSET MsgId
    BY DEF IInv, TypeOK
  <2>2. /\ report' \in [num : Nat, recorded : SUBSET MsgId, num_rcv_msgs : Nat]
        /\ hist_num # 0 => report'.num = hist_num
    BY <1>13, <2>1 DEF HistPrint, IInv, TypeOK
  <2>3. Stage' /\ pc' \in Phases \cup Ended
    BY <1>13 DEF HistPrint, Goto, MainOnly, IInv, Stage, Phases, Ended
  <2>4. Verdict'
    BY <1>13, <2>1, <2>2 DEF HistPrint, Goto, counters, Verdict
  <2>5. QED
    BY <1>13, <2>1, <2>2, <2>3, <2>4, QuietInv DEF HistPrint, counters, IInv, TypeOK
<1>14. CASE PrintCounters
  <2>1. /\ report' \in [num : Nat, recorded : SUBSET MsgId, num_rcv_msgs : Nat]
        /\ report'.num = report.num
    BY <1>14 DEF PrintCounters, IInv, TypeOK
  <2>2. Stage' /\ Verdict' /\ pc' \in Phases \cup Ended
    BY <1>14, <2>1 DEF PrintCounters, Goto, MainOnly, counters, IInv, Stage, Verdict, Phases, Ended
  <2>3. QED
    BY <1>14, <2>1, <2>2, QuietInv DEF PrintCounters, counters, IInv, TypeOK
<1>15. CASE AssertLoss
  <2>1. Stage' /\ Verdict' /\ pc' \in Phases \cup Ended
    BY <1>15 DEF AssertLoss, Goto, MainOnly, counters, IInv, Stage, Verdict, Phases, Ended
  <2>2. QED
    BY <1>15, <2>1, QuietInv DEF AssertLoss, counters, IInv, TypeOK
<1>16. CASE AssertCount
  <2>1. Stage' /\ Verdict' /\ pc' \in Phases \cup Ended
    BY <1>16 DEF AssertCount, Goto, MainOnly, counters, IInv, Stage, Verdict, Phases, Ended
  <2>2. QED
    BY <1>16, <2>1, QuietInv DEF AssertCount, counters, IInv, TypeOK
<1>17. CASE DeleteSource
  <2>1. Stage' /\ Verdict' /\ pc' \in Phases \cup Ended
    BY <1>17 DEF DeleteSource, Goto, MainOnly, counters, IInv, Stage, Verdict, Phases, Ended
  <2>2. QED
    BY <1>17, <2>1, QuietInv DEF DeleteSource, counters, IInv, TypeOK
<1>18. CASE DeleteRcv
  <2>1. recorded # {}
    BY <1>18, FS_EmptySet DEF DeleteRcv, Goto, IInv, Recording, Verdict
  <2>2. Stage' /\ Verdict' /\ pc' \in Phases \cup Ended
    BY <1>18, <2>1 DEF DeleteRcv, Goto, MainOnly, counters, IInv, Stage, Verdict, Phases, Ended
  <2>3. QED
    BY <1>18, <2>2, QuietInv DEF DeleteRcv, counters, IInv, TypeOK
<1>19. QED
  BY <1>2, <1>3, <1>4, <1>5, <1>6, <1>7, <1>8, <1>9, <1>10, <1>11, <1>12,
     <1>13, <1>14, <1>15, <1>16, <1>17, <1>18 DEF Main

-----------------------------------------------------------------------------

\* Lemma for the steps that touch neither messages in order nor the histogram.
LEMMA AsideInv ==
    ASSUME IInv,
           UNCHANGED <<pc, sent, report, hist_num, recorded, rcv_pc, rcv_msg, got>>,
           TypeOK', Channels'
    PROVE  IInv'
<1>1. Stage' /\ Verdict'
  BY DEF IInv, Stage, Verdict
<1>2. Recording'
  BY DEF IInv, Recording
<1>3. QED
  BY <1>1, <1>2 DEF IInv

LEMMA CallbackInv == IInv /\ Callback => IInv'
<1> SUFFICES ASSUME IInv, Callback PROVE IInv'
  OBVIOUS
<1>1. /\ sent \in Nat /\ hist_num \in Nat
      /\ to_ping \in Seq(Msg) /\ to_pong \in Seq(Msg)
  BY PingPongAssumption DEF IInv, TypeOK, Total
<1>2. CASE RcvLoad
  <2>1. /\ Running /\ rcv_pc = "idle" /\ to_ping # << >>
        /\ to_ping' = Tail(to_ping) /\ rcv_msg' = Head(to_ping)
        /\ rcv_pc' = "store"
        /\ CallbackOnly /\ UNCHANGED counters
        /\ got' = IF Head(to_ping).type = "DATA" THEN got \cup {Head(to_ping).id}
                                                 ELSE got
        /\ answers' \in {answers, answers + 1}
        /\ rcv_reg' \in {num_rcv_msgs, num_unrec_loss}
    BY <1>2 DEF RcvLoad
  <2>2. /\ Head(to_ping) \in Msg
        /\ Tail(to_ping) \in Seq(Msg)
    BY <1>1, <2>1, TailChannel
  <2>3. /\ InOrder(Tail(to_ping), to_pong, got, sent)
        /\ InOrder(Tail(to_ping), to_pong, got \cup {Head(to_ping).id}, sent)
        /\ Honest(Head(to_ping), sent)
        /\ \A k \in got : k < Head(to_ping).id
        /\ Head(to_ping).id \in Nat
    BY <1>1, <2>1, <2>2, ReceivedInOrder, Numbered DEF IInv, Channels
  <2>4. TypeOK'
    BY <2>1, <2>2 DEF IInv, TypeOK, Msg, CallbackOnly, main_vars, pong_vars, counters
  <2>5. Channels'
    BY <2>1, <2>3 DEF Channels, CallbackOnly, main_vars
  <2>6. Stage' /\ Verdict'
    BY <2>1 DEF IInv, Stage, Verdict, CallbackOnly, main_vars, counters
  <2>7. Head(to_ping).id \notin recorded
    BY <2>3 DEF IInv, Recording
  <2>8. Recording'
    <3>1. Honest(rcv_msg', sent')
      BY <2>1, <2>3 DEF CallbackOnly, main_vars
    <3>2. rcv_msg'.type = "DATA" => rcv_msg'.id \in got' \ recorded'
      BY <2>1, <2>7 DEF counters
    <3>3. recorded' \subseteq got' \cap Measured /\ IsFiniteSet(recorded')
      BY <2>1 DEF IInv, Recording, counters
    <3>4. hist_num' = Cardinality(recorded') + (IF rcv_pc' = "hist_bucket" THEN 1 ELSE 0)
      BY <2>1 DEF IInv, Recording, counters
    <3>5. QED
      BY <2>1, <3>1, <3>2, <3>3, <3>4 DEF Recording
  <2>9. QED
    BY <2>4, <2>5, <2>6, <2>8 DEF IInv
<1>3. CASE RcvStoreData
  <2>1. TypeOK' /\ Channels'
    BY <1>3 DEF RcvStoreData, IInv, TypeOK, Channels, CallbackOnly, main_vars, pong_vars
  <2>2. Stage' /\ Verdict'
    BY <1>3 DEF RcvStoreData, IInv, Stage, Verdict, CallbackOnly, main_vars
  <2>3. Recording'
    BY <1>3 DEF RcvStoreData, IInv, Recording, CallbackOnly, main_vars
  <2>4. QED
    BY <2>1, <2>2, <2>3 DEF IInv
<1>4. CASE RcvStoreLoss
  <2>1. TypeOK' /\ Channels'
    BY <1>4 DEF RcvStoreLoss, IInv, TypeOK, Channels, CallbackOnly, main_vars, pong_vars
  <2>2. Stage' /\ Verdict'
    BY <1>4 DEF RcvStoreLoss, IInv, Stage, Verdict, CallbackOnly, main_vars
  <2>3. Recording'
    BY <1>4 DEF RcvStoreLoss, IInv, Recording, CallbackOnly, main_vars
  <2>4. QED
    BY <2>1, <2>2, <2>3 DEF IInv
<1>5. CASE RcvHistNum
  <2>1. TypeOK' /\ Channels'
    BY <1>1, <1>5 DEF RcvHistNum, IInv, TypeOK, Channels, CallbackOnly, main_vars, pong_vars
  <2>2. Stage' /\ Verdict'
    BY <1>1, <1>5 DEF RcvHistNum, Running, Ended, IInv, Stage, Verdict, CallbackOnly, main_vars
  <2>3. Cardinality(recorded) \in Nat
    BY FS_CardinalityType DEF IInv, Recording
  <2>4. Recording'
    BY <1>5, <2>3 DEF RcvHistNum, IInv, Recording, CallbackOnly, main_vars
  <2>5. QED
    BY <2>1, <2>2, <2>4 DEF IInv
<1>6. CASE RcvHistBucket
  <2>1. /\ recorded' = recorded \cup {rcv_msg.id}
        /\ rcv_pc = "hist_bucket" /\ rcv_pc' = "idle"
        /\ CallbackOnly /\ Running
        /\ UNCHANGED <<num_rcv_msgs, num_unrec_loss, hist_num, rcv_msg, rcv_reg, got, answers, to_ping>>
    BY <1>6 DEF RcvHistBucket
  <2>2. /\ rcv_msg \in Msg /\ rcv_msg.id \in got /\ rcv_msg.id \notin recorded
        /\ rcv_msg.id > warmup_loops
        /\ IsFiniteSet(recorded)
        /\ hist_num = Cardinality(recorded) + 1
    BY <2>1 DEF IInv, TypeOK, Recording, Honest
  <2>3. rcv_msg.id \in MsgId /\ rcv_msg.id \in Measured
    BY <2>2, PingPongAssumption DEF Msg, MsgId, Measured, Total
  <2>4. TypeOK' /\ Channels'
    BY <2>1, <2>3 DEF IInv, TypeOK, Channels, CallbackOnly, main_vars, pong_vars
  <2>5. Stage' /\ Verdict'
    BY <2>1 DEF Running, Ended, IInv, Stage, Verdict, CallbackOnly, main_vars
  <2>6. IsFiniteSet(recorded') /\ Cardinality(recorded') = Cardinality(recorded) + 1
    BY <2>1, <2>2, FS_AddElement
  <2>7. Recording'
    <3>1. recorded' \subseteq got' \cap Measured
      BY <2>1, <2>2, <2>3 DEF IInv, Recording
    <3>2. hist_num' = Cardinality(recorded')
      BY <2>1, <2>2, <2>6
    <3>3. hist_num \in Nat
      BY <1>1
    <3>4. hist_num' = Cardinality(recorded') + 0
      BY <2>1, <3>2, <3>3
    <3>5. QED
      BY <2>1, <2>6, <3>1, <3>4 DEF Recording
  <2>8. QED
    BY <2>4, <2>5, <2>7 DEF IInv
<1>7. QED
  BY <1>2, <1>3, <1>4, <1>5, <1>6 DEF Callback

LEMMA PongInv == IInv /\ (PongStart \/ PongBOS \/ Pong \/ PongSendFails) => IInv'
<1> SUFFICES ASSUME IInv, PongStart \/ PongBOS \/ Pong \/ PongSendFails
             PROVE  IInv'
  OBVIOUS
<1>1. /\ sent \in Nat
      /\ to_ping \in Seq(Msg) /\ to_pong \in Seq(Msg)
      /\ InOrder(to_ping, to_pong, got, sent)
  BY PingPongAssumption DEF IInv, TypeOK, Total, Channels
<1>2. CASE PongStart
  <2>1. TypeOK' /\ Channels'
    BY <1>2 DEF PongStart, PongOnly, main_vars, counters, rcv_vars, IInv, TypeOK, Channels
  <2>2. QED
    BY <1>2, <2>1, AsideInv DEF PongStart, PongOnly, main_vars, counters, rcv_vars
<1>3. CASE PongBOS
  <2>1. TypeOK' /\ Channels'
    BY <1>3 DEF PongBOS, PongOnly, main_vars, counters, rcv_vars, IInv, TypeOK, Channels
  <2>2. QED
    BY <1>3, <2>1, AsideInv DEF PongBOS, PongOnly, main_vars, counters, rcv_vars
<1>4. ASSUME to_pong # << >>
      PROVE  /\ Head(to_pong) \in Msg
             /\ Tail(to_pong) \in Seq(Msg)
             /\ Append(to_ping, Head(to_pong)) \in Seq(Msg)
             /\ InOrder(to_ping, Tail(to_pong), got, sent)
             /\ InOrder(Append(to_ping, Head(to_pong)), Tail(to_pong), got, sent)
  BY <1>1, <1>4, TailChannel, AppendChannel, ReflectedInOrder
<1>5. CASE PongData
  <2>1. /\ to_pong # << >> /\ to_pong' = Tail(to_pong)
        /\ to_ping' = IF ping_joined THEN Append(to_ping, Head(to_pong)) ELSE to_ping
        /\ pong_num_sent' = pong_num_sent + 1
        /\ PongOnly /\ UNCHANGED <<pong, pong_unrec_loss, pong_joined, faults>>
    BY <1>5 DEF PongData
  <2>2. TypeOK'
    BY <1>4, <2>1 DEF PongOnly, main_vars, counters, rcv_vars, IInv, TypeOK
  <2>3. Channels'
    BY <1>4, <2>1 DEF PongOnly, main_vars, rcv_vars, IInv, Channels
  <2>4. QED
    BY <2>1, <2>2, <2>3, AsideInv DEF PongOnly, main_vars, counters, rcv_vars
<1>6. CASE PongLoss
  <2>1. /\ to_pong # << >> /\ to_pong' = Tail(to_pong)
        /\ pong_unrec_loss' = pong_unrec_loss + 1
        /\ PongOnly /\ UNCHANGED <<pong, pong_num_sent, pong_joined, to_ping, faults>>
    BY <1>6 DEF PongLoss
  <2>2. TypeOK'
    BY <1>4, <2>1 DEF PongOnly, main_vars, counters, rcv_vars, IInv, TypeOK
  <2>3. Channels'
    BY <1>4, <2>1 DEF PongOnly, main_vars, rcv_vars, IInv, Channels
  <2>4. QED
    BY <2>1, <2>2, <2>3, AsideInv DEF PongOnly, main_vars, counters, rcv_vars
<1>7. CASE PongEOS
  <2>1. TypeOK' /\ Channels'
    BY <1>7 DEF PongEOS, PongOnly, main_vars, counters, rcv_vars, IInv, TypeOK, Channels
  <2>2. QED
    BY <1>7, <2>1, AsideInv DEF PongEOS, PongOnly, main_vars, counters, rcv_vars
<1>8. CASE PongSendFails
  <2>1. /\ to_pong # << >> /\ to_pong' = Tail(to_pong)
        /\ faults < MaxFaults /\ faults' = faults + 1 /\ pong' = "exit1"
        /\ PongOnly /\ UNCHANGED <<pong_num_sent, pong_unrec_loss, pong_joined, to_ping>>
    BY <1>8 DEF PongSendFails
  <2>2. faults' \in 0 .. MaxFaults
    BY <2>1, PingPongAssumption DEF IInv, TypeOK
  <2>3. TypeOK'
    BY <1>4, <2>1, <2>2 DEF PongOnly, main_vars, counters, rcv_vars, IInv, TypeOK
  <2>4. Channels'
    BY <1>4, <2>1 DEF PongOnly, main_vars, rcv_vars, IInv, Channels
  <2>5. QED
    BY <2>1, <2>3, <2>4, AsideInv DEF PongOnly, main_vars, counters, rcv_vars
<1>9. QED
  BY <1>2, <1>3, <1>5, <1>6, <1>7, <1>8 DEF Pong

LEMMA NetInv == IInv /\ (SendFails \/ PingBOS \/ Drop) => IInv'
<1> SUFFICES ASSUME IInv, SendFails \/ PingBOS \/ Drop PROVE IInv'
  OBVIOUS
<1>1. /\ sent \in Nat
      /\ to_ping \in Seq(Msg) /\ to_pong \in Seq(Msg)
      /\ InOrder(to_ping, to_pong, got, sent)
  BY PingPongAssumption DEF IInv, TypeOK, Total, Channels
<1>2. ASSUME faults < MaxFaults, faults' = faults + 1
      PROVE  faults' \in 0 .. MaxFaults
  BY <1>2, PingPongAssumption DEF IInv, TypeOK
<1>3. CASE SendFails
  <2>1. TypeOK' /\ Channels'
    BY <1>2, <1>3
       DEF SendFails, counters, rcv_vars, pong_vars, IInv, TypeOK, Channels, Ended
  <2>2. Stage' /\ Verdict' /\ Recording'
    BY <1>3 DEF SendFails, counters, rcv_vars, IInv, Stage, Verdict, Recording
  <2>3. QED
    BY <2>1, <2>2 DEF IInv
<1>4. CASE PingBOS
  <2>1. TypeOK' /\ Channels'
    BY <1>4 DEF PingBOS, main_vars, rcv_vars, pong_vars, IInv, TypeOK, Channels
  <2>2. QED
    BY <1>4, <2>1, AsideInv DEF PingBOS, main_vars, rcv_vars
<1>5. CASE Drop
  <2>1. /\ faults < MaxFaults /\ faults' = faults + 1
        /\ \/ to_pong' \in Dropped(to_pong) /\ UNCHANGED to_ping
           \/ to_ping' \in Dropped(to_ping) /\ UNCHANGED to_pong
        /\ UNCHANGED <<main_vars, counters, rcv_vars, pong_vars, pong_joined, ping_joined>>
    BY <1>5 DEF Drop
  <2>2. /\ to_ping' \in Seq(Msg) /\ to_pong' \in Seq(Msg)
        /\ InOrder(to_ping', to_pong', got, sent)
    BY <1>1, <2>1, DroppedInOrder
  <2>3. TypeOK'
    BY <1>2, <2>1, <2>2 DEF main_vars, counters, rcv_vars, pong_vars, IInv, TypeOK
  <2>4. Channels'
    BY <2>1, <2>2 DEF main_vars, rcv_vars, Channels
  <2>5. QED
    BY <2>1, <2>3, <2>4, AsideInv DEF main_vars, counters, rcv_vars
<1>6. QED
  BY <1>3, <1>4, <1>5

-----------------------------------------------------------------------------

LEMMA StepInv == IInv /\ [Next]_vars => IInv'
<1> SUFFICES ASSUME IInv, [Next]_vars PROVE IInv'
  OBVIOUS
<1>1. CASE UNCHANGED vars
  <2>1. TypeOK' /\ Channels'
    BY <1>1 DEF vars, main_vars, counters, rcv_vars, pong_vars, net_vars, IInv, TypeOK, Channels
  <2>2. QED
    BY <1>1, <2>1, AsideInv DEF vars, main_vars, counters, rcv_vars
<1>2. QED
  BY <1>1, MainInv, CallbackInv, PongInv, NetInv DEF Next

(***************************************************************************)
(* The inductive invariant, for every workload, fault and timing.          *)
(***************************************************************************)
THEOREM Invariance == Spec => []IInv
<1>1. Init => IInv
  BY InitInv
<1>2. IInv /\ [Next]_vars => IInv'
  BY StepInv
<1>3. QED
  BY <1>1, <1>2, PTL DEF Spec

(***************************************************************************)
(* Both processes' counters, the transport sessions and the report keep    *)
(* their types; main never sends more messages than were asked for.        *)
(***************************************************************************)
THEOREM TypeCorrect == Spec => []TypeOK
<1>1. IInv => TypeOK
  BY DEF IInv
<1>2. QED
  BY <1>1, Invariance, PTL

(***************************************************************************)
(* Only measured messages reach the histogram, each once, however late the *)
(* warmup's replies come in (um_lat_ping.c:544-561, 714-716).              *)
(***************************************************************************)
THEOREM RecordsMeasured == Spec => []OnlyMeasuredRecorded
<1>1. IInv => OnlyMeasuredRecorded
  <2> SUFFICES ASSUME IInv PROVE OnlyMeasuredRecorded
    OBVIOUS
  <2>1. Cardinality(recorded) \in Nat
    BY FS_CardinalityType DEF IInv, Recording
  <2>2. QED
    BY <2>1 DEF IInv, Recording, OnlyMeasuredRecorded
<1>2. QED
  BY <1>1, Invariance, PTL

(***************************************************************************)
(* When main re-initialises the histogram (um_lat_ping.c:752) no callback  *)
(* is in the middle of hist_input: no lock is needed for that.             *)
(***************************************************************************)
THEOREM ResetAlone == Spec => []ResetUndisturbed
<1>1. IInv => ResetUndisturbed
  BY NothingMeasuredYet DEF ResetUndisturbed
<1>2. QED
  BY <1>1, Invariance, PTL

(***************************************************************************)
(* Ping does not end with status 0 without having measured something.      *)
(***************************************************************************)
THEOREM PassMeasured == Spec => []PassMeansMeasured
<1>1. IInv => PassMeansMeasured
  BY DEF IInv, Verdict, PassMeansMeasured
<1>2. QED
  BY <1>1, Invariance, PTL

\* Every step is a send, a reply or none of the two.
LEMMA EchoStep ==
    ASSUME IInv, IInv', [Next]_vars
    PROVE  [Replies!Next]_Replies!vars
<1> SUFFICES Replies!Send \/ Replies!Reply \/ UNCHANGED <<sent, got, answers>>
  BY DEF Replies!Next, Replies!vars
<1>1. /\ sent \in 0 .. Total /\ sent' \in 0 .. Total /\ Total \in Nat /\ sent \in Nat
      /\ to_ping \in Seq(Msg) /\ to_pong \in Seq(Msg)
      /\ InOrder(to_ping, to_pong, got, sent)
  BY PingPongAssumption DEF IInv, TypeOK, Channels, Total
<1>2. CASE RcvLoad /\ Head(to_ping).type = "DATA"
  <2>1. /\ to_ping # << >> /\ UNCHANGED sent
        /\ got' = got \cup {Head(to_ping).id}
        /\ answers' = answers + 1
    BY <1>2 DEF RcvLoad, CallbackOnly, main_vars
  <2>2. Head(to_ping).id \in 1 .. sent /\ \A k \in got : k < Head(to_ping).id
    BY <1>1, <2>1, ReceivedInOrder
  <2>3. QED
    BY <2>1, <2>2 DEF Replies!Reply
<1>3. CASE (HeadSend /\ warmup_loops > 0) \/ WarmupSend \/ MeasuredSend
  <2>1. sent' = sent + 1 /\ UNCHANGED <<got, answers>>
    BY <1>3 DEF HeadSend, WarmupSend, MeasuredSend, SendOne, rcv_vars
  <2>2. QED
    BY <1>1, <2>1 DEF Replies!Send
<1>4. CASE ~RcvLoad /\ ~((HeadSend /\ warmup_loops > 0) \/ WarmupSend \/ MeasuredSend)
  <2>1. CASE UNCHANGED vars
    BY <2>1 DEF vars, main_vars, rcv_vars
  <2>2. CASE Main
    BY <1>4, <2>2 DEF Main, HeadSend, ResolveSleep, WarmupLinger, ResetHist,
       ResetRcv, ResetLoss, Linger, AssertRcv, HistPrint, PrintCounters, AssertLoss, AssertCount,
       DeleteSource, DeleteRcv, MainOnly, rcv_vars
  <2>3. CASE Callback
    BY <1>4, <2>3 DEF Callback, RcvStoreData, RcvStoreLoss, RcvHistNum,
       RcvHistBucket, CallbackOnly, main_vars
  <2>4. CASE PongStart \/ PongBOS \/ Pong \/ PongSendFails
    BY <2>4 DEF PongStart, PongBOS, Pong, PongData, PongLoss, PongEOS,
       PongSendFails, PongOnly, main_vars, rcv_vars
  <2>5. CASE SendFails
    BY <2>5 DEF SendFails, rcv_vars
  <2>6. CASE PingBOS
    BY <2>6 DEF PingBOS, main_vars, rcv_vars
  <2>7. CASE Drop
    BY <2>7 DEF Drop, main_vars, rcv_vars
  <2>8. QED
    BY <2>1, <2>2, <2>3, <2>4, <2>5, <2>6, <2>7 DEF Next
<1>5. CASE RcvLoad /\ Head(to_ping).type # "DATA"
  BY <1>5 DEF RcvLoad, CallbackOnly, main_vars
<1>6. QED
  BY <1>2, <1>3, <1>4, <1>5

(***************************************************************************)
(* The two programs and the network implement Echo: the replies ping's     *)
(* callback sees answer messages it sent, each once, in the order sent.    *)
(***************************************************************************)
THEOREM Refinement == Spec => IsEcho
<1>1. Init => Replies!Init
  BY DEF Init, Replies!Init
<1>2. IInv /\ IInv' /\ [Next]_vars => [Replies!Next]_Replies!vars
  BY EchoStep
<1>3. QED
  BY <1>1, <1>2, Invariance, PTL DEF Spec, IsEcho, Replies!Spec

-----------------------------------------------------------------------------
(* The invariant for sleeps that suffice.                                  *)

\* Main between the sleep after the warm-up and the measured loop, and main
\* after the sleep that ends it.
Resetting == {"reset_hist", "reset_rcv", "reset_loss"}
Over == {"assert_rcv", "print", "print_counters", "assert_loss", "assert_count",
         "delete_source", "delete_rcv"}

\* The measured part of the run, and the part of it after the last sleep.
Counting == {"measure", "linger"} \cup Over

\* The ids of the messages in a session.
Ids(q) == {q[i].id : i \in DOMAIN q}

\* Nothing that was sent can reach ping any more.
Settled ==
    /\ pong \in {"off", "up"} => to_pong = << >>
    /\ to_ping = << >>
    /\ rcv_pc = "idle"

\* A receiver that has not joined has heard nothing.
Unheard ==
    /\ pong = "off" => ~pong_joined
    /\ ~pong_joined => to_pong = << >>
    /\ ~ping_joined => /\ to_ping = << >>
                       /\ rcv_pc = "idle"
                       /\ num_rcv_msgs = 0
                       /\ hist_num = 0

\* The warm-up is over before the resets, the replies before the assertions.
Slept == pc \in Resetting \cup Over => Settled

\* The resets, and the counters in step with the histogram since then.
InStep ==
    /\ pc \in {"reset_rcv", "reset_loss"} => hist_num = 0
    /\ pc = "reset_loss" => num_rcv_msgs = 0
    /\ pc \in Counting =>
         /\ num_rcv_msgs = hist_num + (IF rcv_pc = "hist_num" THEN 1 ELSE 0)
         /\ rcv_pc = "store" /\ rcv_msg.type = "DATA" => rcv_reg = num_rcv_msgs

\* What is on its way in the measured part is measured.
OnlyMeasuredLeft ==
    pc \in Counting =>
      /\ pong = "up" => Ids(to_pong) \subseteq Measured
      /\ Ids(to_ping) \subseteq Measured
      /\ rcv_pc # "idle" => rcv_msg.id \in Measured

\* The answer that the callback is still working on.
Pending == IF rcv_pc # "idle" /\ rcv_msg.type = "DATA" THEN {rcv_msg.id} ELSE {}

\* Every measured answer is in the histogram, or about to be.
AllRecorded == pc \in Counting => got \cap Measured \subseteq recorded \cup Pending

\* What main has found out on its way to a verdict.
Judged ==
    /\ pc \in Counting \ {"measure"} => sent = Total
    /\ pc \in Over \ {"assert_rcv"} => num_rcv_msgs > 0
    /\ pc \in Over \ {"assert_rcv", "print"} => report.num = hist_num
    /\ pc \in (Over \ {"assert_rcv", "print"}) \cup {"exit0"} =>
         report.num = Cardinality(report.recorded)
    /\ pc \in {"assert_loss", "assert_count", "delete_source", "delete_rcv", "exit0"} =>
         report.num = report.num_rcv_msgs
    /\ pc \in {"delete_source", "delete_rcv"} => Measured \subseteq got
    /\ pc # "sigfpe"

SleepsInv ==
    Unheard /\ Slept /\ InStep /\ OnlyMeasuredLeft /\ AllRecorded /\ Judged

\* Both sides have found each other before the warm-up.
Found ==
    /\ pong # "off"
    /\ pc \notin {"head", "resolve"} \cup Ended =>
         (pong = "up" => pong_joined /\ ping_joined)

\* Without a fault nothing is lost: pong is there, nothing is a loss, and
\* every measured message is answered or on its way.
Faultless ==
    faults = 0 =>
      /\ pong = "up" \/ pc \in {"delete_rcv"} \cup Ended
      /\ \A i \in DOMAIN to_pong : to_pong[i].type = "DATA"
      /\ \A i \in DOMAIN to_ping : to_ping[i].type = "DATA"
      /\ rcv_msg.type = "DATA"
      /\ num_unrec_loss = 0
      /\ pc # "exit1"
      /\ pc \in Counting =>
           warmup_loops + 1 .. sent \subseteq got \cup Ids(to_ping) \cup Ids(to_pong)

-----------------------------------------------------------------------------
(* What may happen when the sleeps suffice.                                *)

LEMMA SessionIds ==
    ASSUME NEW q \in Seq(Msg)
    PROVE  /\ \A m \in Msg : Ids(Append(q, m)) = Ids(q) \cup {m.id}
           /\ q # << >> => Ids(q) = Ids(Tail(q)) \cup {Head(q).id}
           /\ \A r \in Dropped(q) : Ids(r) = Ids(q) /\ q # << >>
           /\ Ids(q) \subseteq MsgId
           /\ Ids(q) = {} <=> q = << >>
<1>1. ASSUME NEW m \in Msg PROVE Ids(Append(q, m)) = Ids(q) \cup {m.id}
  <2> DEFINE r == Append(q, m)
  <2>1. /\ DOMAIN r = DOMAIN q \cup {Len(q) + 1}
        /\ r[Len(q) + 1] = m
        /\ \A i \in DOMAIN q : r[i] = q[i]
    BY AppendChannel
  <2> HIDE DEF r
  <2>2. QED
    BY <2>1 DEF Ids, r
<1>2. ASSUME q # << >> PROVE Ids(q) = Ids(Tail(q)) \cup {Head(q).id}
  <2> DEFINE t == Tail(q)
  <2>1. /\ Head(q) = q[1] /\ 1 \in DOMAIN q
        /\ \A i \in DOMAIN t : i + 1 \in DOMAIN q /\ t[i] = q[i + 1]
    BY <1>2, TailChannel
  <2>2. ASSUME NEW i \in DOMAIN q, i # 1
        PROVE  i - 1 \in DOMAIN t /\ t[i - 1] = q[i]
    BY <1>2, <2>2
  <2> HIDE DEF t
  <2>3. Ids(t) \cup {q[1].id} \subseteq Ids(q)
    BY <2>1 DEF Ids
  <2>4. Ids(q) \subseteq Ids(t) \cup {q[1].id}
    BY <2>2 DEF Ids
  <2>5. QED
    BY <2>1, <2>3, <2>4 DEF t
<1>3. ASSUME NEW r \in Dropped(q) PROVE Ids(r) = Ids(q) /\ q # << >>
  <2>1. DOMAIN r = DOMAIN q /\ \A i \in DOMAIN q : r[i].id = q[i].id
    BY DropChannel
  <2>2. q # << >>
    BY DEF Dropped
  <2>3. QED
    BY <2>1, <2>2 DEF Ids
<1>4. Ids(q) \subseteq MsgId
  <2>1. \A i \in DOMAIN q : q[i] \in Msg
    OBVIOUS
  <2>2. QED
    BY <2>1 DEF Ids, Msg
<1>5. Ids(q) = {} <=> DOMAIN q = {}
  BY DEF Ids
<1>6. DOMAIN q = {} <=> q = << >>
  OBVIOUS
<1>7. QED
  BY <1>1, <1>2, <1>3, <1>4, <1>5, <1>6

LEMMA MeasuredFinite ==
    /\ IsFiniteSet(Measured)
    /\ Cardinality(Measured) = num_msgs
BY PingPongAssumption, FS_Interval DEF Measured, Total

LEMMA SleepsInit == Init => SleepsInv
<1> SUFFICES ASSUME Init PROVE SleepsInv
  OBVIOUS
<1>1. pc = "head" /\ pong \in {"off", "up"}
  BY DEF Init
<1>2. Unheard
  BY DEF Init, Unheard
<1>3. Slept /\ InStep /\ OnlyMeasuredLeft /\ AllRecorded /\ Judged
  BY <1>1 DEF Slept, InStep, OnlyMeasuredLeft, AllRecorded, Judged, Resetting, Over, Counting
<1>4. QED
  BY <1>2, <1>3 DEF SleepsInv

LEMMA SleepsMain ==
    ASSUME TimelySleeps, IInv, SleepsInv, Main
    PROVE  SleepsInv'
<1> USE DEF SleepsInv, Unheard, Slept, InStep, OnlyMeasuredLeft, AllRecorded,
            Judged, Settled, Pending, Resetting, Over, Counting,
            Goto, MainOnly, counters, rcv_vars, pong_vars, net_vars
<1>0. to_pong \in Seq(Msg) /\ to_ping \in Seq(Msg)
  BY DEF IInv, TypeOK
<1>1. CASE HeadSend
  BY <1>1 DEF HeadSend, SendOne
<1>2. CASE ResolveSleep
  BY <1>2 DEF ResolveSleep, SleptEnough, Quiet
<1>3. CASE WarmupSend
  BY <1>3 DEF WarmupSend, SendOne
<1>4. CASE WarmupLinger
  BY <1>4 DEF WarmupLinger, SleptEnough, Quiet
<1>5. CASE ResetHist
  BY <1>5 DEF ResetHist
<1>6. CASE ResetRcv
  BY <1>6 DEF ResetRcv
<1>7. CASE ResetLoss
  <2>1. pc = "reset_loss" /\ pc' = "measure" /\ UNCHANGED <<got, to_pong, to_ping>>
    BY <1>7 DEF ResetLoss
  <2>2. sent \in Nat /\ got \subseteq 1 .. sent /\ sent = warmup_loops
    BY <2>1, PingPongAssumption DEF IInv, Stage, Channels, InOrder
  <2>3. got \cap Measured = {}
    BY <2>2, PingPongAssumption DEF Measured, Total
  <2>4. to_ping = << >> /\ (pong = "up" => to_pong = << >>)
    BY <2>1
  <2>5. Ids(to_ping) = {} /\ (pong = "up" => Ids(to_pong) = {})
    BY <2>4, <1>0, SessionIds
  <2>6. Ids(to_ping') = {} /\ (pong = "up" => Ids(to_pong') = {})
    BY <2>1, <2>5
  <2>7. OnlyMeasuredLeft'
    BY <1>7, <2>6 DEF ResetLoss
  <2>8. AllRecorded'
    BY <2>1, <2>3, <1>7 DEF ResetLoss, Measured
  <2>9. QED
    BY <1>7, <2>7, <2>8 DEF ResetLoss
<1>8. CASE MeasuredSend
  <2> DEFINE m == [type |-> "DATA", id |-> sent + 1, stamped |-> TRUE]
  <2>1. /\ warmup_loops <= sent /\ sent < Total /\ sent \in Nat
        /\ warmup_loops \in Nat /\ Total \in Nat
    BY <1>8, PingPongAssumption DEF MeasuredSend, IInv, Stage, TypeOK, Total
  <2>2. m \in Msg /\ m.id \in Measured
    BY <2>1 DEF Msg, MsgId, Measured
  <2>3. Ids(Append(to_pong, m)) = Ids(to_pong) \cup {m.id}
    BY <1>0, <2>2, SessionIds
  <2> HIDE DEF m
  <2>4. Ids(to_pong') \subseteq Ids(to_pong) \cup {m.id}
    BY <1>8, <2>3 DEF MeasuredSend, SendOne, m
  <2>5. OnlyMeasuredLeft'
    BY <1>8, <2>2, <2>4 DEF MeasuredSend, SendOne, Ids
  <2>6. AllRecorded'
    BY <1>8 DEF MeasuredSend, SendOne
  <2>7. QED
    BY <1>8, <2>5, <2>6 DEF MeasuredSend, SendOne
<1>9. CASE Linger
  BY <1>9 DEF Linger, SleptEnough, Quiet
<1>10. CASE AssertRcv
  BY <1>10 DEF AssertRcv
<1>11. CASE HistPrint
  <2>1. hist_num = Cardinality(recorded)
    BY <1>11, FS_CardinalityType DEF HistPrint, IInv, Recording
  <2>2. hist_num # 0 => report' = [report EXCEPT !.num = hist_num, !.recorded = recorded]
    BY <1>11 DEF HistPrint
  <2>3. hist_num # 0 => report'.num = hist_num /\ report'.recorded = recorded
    BY <2>2 DEF IInv, TypeOK
  <2>4. hist_num # 0 /\ num_rcv_msgs > 0
    BY <1>11 DEF HistPrint
  <2>5. QED
    BY <1>11, <2>1, <2>3, <2>4 DEF HistPrint
<1>12. CASE PrintCounters
  <2>1. /\ report'.num = report.num
        /\ report'.recorded = report.recorded
        /\ report'.num_rcv_msgs = num_rcv_msgs
    BY <1>12 DEF PrintCounters, IInv, TypeOK
  <2>2. num_rcv_msgs = hist_num /\ hist_num \in Nat
    BY <1>12 DEF PrintCounters, IInv, TypeOK
  <2>3. QED
    BY <1>12, <2>1, <2>2 DEF PrintCounters
<1>13. CASE AssertLoss
  BY <1>13 DEF AssertLoss
<1>14. CASE AssertCount
  <2>1. ASSUME num_rcv_msgs = num_msgs PROVE Measured \subseteq got
    <3>1. Cardinality(recorded) = num_msgs
      BY <1>14, <2>1, FS_CardinalityType, PingPongAssumption
         DEF AssertCount, IInv, Recording, TypeOK
    <3>2. recorded \subseteq Measured /\ recorded \subseteq got
      BY DEF IInv, Recording
    <3>3. QED
      BY <3>1, <3>2, MeasuredFinite, FS_Subset
  <2>2. QED
    BY <1>14, <2>1 DEF AssertCount, Measured
<1>15. CASE DeleteSource
  BY <1>15 DEF DeleteSource
<1>16. CASE DeleteRcv
  BY <1>16 DEF DeleteRcv
<1>17. QED
  BY <1>1, <1>2, <1>3, <1>4, <1>5, <1>6, <1>7, <1>8, <1>9, <1>10, <1>11, <1>12,
     <1>13, <1>14, <1>15, <1>16 DEF Main

LEMMA SleepsCallback ==
    ASSUME IInv, SleepsInv, Callback
    PROVE  SleepsInv'
<1> USE DEF SleepsInv, Unheard, Slept, InStep, OnlyMeasuredLeft, AllRecorded,
            Judged, Settled, Pending, Resetting, Over, Counting,
            CallbackOnly, main_vars, pong_vars, counters
<1>1. /\ to_ping \in Seq(Msg) /\ hist_num \in Nat /\ num_rcv_msgs \in Nat
      /\ rcv_pc \in {"idle", "store", "hist_num", "hist_bucket"}
  BY DEF IInv, TypeOK
<1>2. CASE RcvLoad
  <2>1. Ids(to_ping) = Ids(Tail(to_ping)) \cup {Head(to_ping).id}
    BY <1>1, <1>2, SessionIds DEF RcvLoad
  <2>2. pc \notin Resetting \cup Over
    BY <1>2 DEF RcvLoad
  <2>3. OnlyMeasuredLeft' /\ AllRecorded'
    BY <1>2, <2>1 DEF RcvLoad, Measured
  <2>4. QED
    BY <1>2, <2>2, <2>3 DEF RcvLoad
<1>3. CASE RcvStoreData
  <2>1. pc \in Counting => rcv_msg.stamped
    BY <1>3, PingPongAssumption DEF RcvStoreData, IInv, Recording, Honest, Measured, Total
  <2>2. pc \in Counting => num_rcv_msgs' = hist_num + 1 /\ rcv_pc' = "hist_num"
    BY <1>1, <1>3, <2>1 DEF RcvStoreData
  <2>3. pc \notin Resetting \cup Over
    BY <1>3 DEF RcvStoreData
  <2>4. QED
    BY <1>3, <2>2, <2>3 DEF RcvStoreData, Measured
<1>4. CASE RcvStoreLoss
  BY <1>4 DEF RcvStoreLoss, Measured
<1>5. CASE RcvHistNum
  <2>1. rcv_msg.type = "DATA"
    BY <1>5 DEF RcvHistNum, IInv, Recording
  <2>2. QED
    BY <1>1, <1>5, <2>1 DEF RcvHistNum, Measured
<1>6. CASE RcvHistBucket
  BY <1>6 DEF RcvHistBucket, Measured
<1>7. QED
  BY <1>2, <1>3, <1>4, <1>5, <1>6 DEF Callback

LEMMA SleepsPong ==
    ASSUME IInv, SleepsInv, PongStart \/ PongBOS \/ Pong \/ PongSendFails
    PROVE  SleepsInv'
<1> USE DEF SleepsInv, Unheard, Slept, InStep, OnlyMeasuredLeft, AllRecorded,
            Judged, Settled, Pending, Resetting, Over, Counting, Measured,
            PongOnly, main_vars, counters, rcv_vars
<1>1. to_ping \in Seq(Msg) /\ to_pong \in Seq(Msg)
  BY DEF IInv, TypeOK
<1>2. CASE PongStart
  <2>1. to_pong' = << >>
    BY <1>2 DEF PongStart
  <2>2. Ids(to_pong') = {}
    BY <2>1, <1>1, <1>2, SessionIds DEF PongStart
  <2>3. QED
    BY <1>2, <2>1, <2>2 DEF PongStart
<1>3. CASE PongBOS
  BY <1>3 DEF PongBOS
<1>4. ASSUME to_pong # << >>
      PROVE  Ids(to_pong) = Ids(Tail(to_pong)) \cup {Head(to_pong).id}
  BY <1>1, <1>4, SessionIds
<1>5. CASE PongData
  <2>1. /\ to_pong # << >> /\ Head(to_pong) \in Msg /\ pong = "up"
        /\ to_pong' = Tail(to_pong)
        /\ to_ping' = IF ping_joined THEN Append(to_ping, Head(to_pong)) ELSE to_ping
    BY <1>1, <1>5, TailChannel DEF PongData
  <2>2. Ids(to_ping') \subseteq Ids(to_ping) \cup {Head(to_pong).id}
    BY <1>1, <2>1, SessionIds
  <2>3. pc \notin Resetting \cup Over
    BY <2>1
  <2>4. OnlyMeasuredLeft'
    BY <1>4, <1>5, <2>1, <2>2 DEF PongData
  <2>5. QED
    BY <1>5, <2>3, <2>4 DEF PongData
<1>6. CASE PongLoss
  <2>1. OnlyMeasuredLeft'
    BY <1>4, <1>6 DEF PongLoss
  <2>2. QED
    BY <1>6, <2>1 DEF PongLoss
<1>7. CASE PongEOS
  BY <1>7 DEF PongEOS
<1>8. CASE PongSendFails
  BY <1>8 DEF PongSendFails
<1>9. QED
  BY <1>2, <1>3, <1>5, <1>6, <1>7, <1>8 DEF Pong

LEMMA SleepsNet ==
    ASSUME IInv, SleepsInv, SendFails \/ PingBOS \/ Drop \/ UNCHANGED vars
    PROVE  SleepsInv'
<1> USE DEF SleepsInv, Unheard, Slept, InStep, OnlyMeasuredLeft, AllRecorded,
            Judged, Settled, Pending, Resetting, Over, Counting, Measured,
            main_vars, counters, rcv_vars, pong_vars
<1>1. to_ping \in Seq(Msg) /\ to_pong \in Seq(Msg)
  BY DEF IInv, TypeOK
<1>2. CASE SendFails
  BY <1>2 DEF SendFails
<1>3. CASE PingBOS
  BY <1>3 DEF PingBOS
<1>4. CASE Drop
  <2>1. /\ Ids(to_pong') = Ids(to_pong) /\ Ids(to_ping') = Ids(to_ping)
        /\ to_pong = << >> => to_pong' = << >>
        /\ to_ping = << >> => to_ping' = << >>
    BY <1>1, <1>4, SessionIds DEF Drop
  <2>2. QED
    BY <1>4, <2>1 DEF Drop
<1>5. CASE UNCHANGED vars
  BY <1>5 DEF vars, net_vars, Ids
<1>6. QED
  BY <1>2, <1>3, <1>4, <1>5

LEMMA SleepsStep ==
    ASSUME TimelySleeps, IInv, SleepsInv, [Next]_vars
    PROVE  SleepsInv'
BY SleepsMain, SleepsCallback, SleepsPong, SleepsNet DEF Next

(***************************************************************************)
(* The extended invariant of runs whose sleeps outlast what is in flight.  *)
(***************************************************************************)
THEOREM SleepsInvariance ==
    ASSUME TimelySleeps
    PROVE  Spec => []SleepsInv
<1>1. Init => SleepsInv
  BY SleepsInit
<1>2. IInv /\ SleepsInv /\ [Next]_vars => SleepsInv'
  BY SleepsStep
<1>3. QED
  BY <1>1, <1>2, Invariance, PTL DEF Spec

\* The resets leave nothing behind, and nothing comes until main sends.
LEMMA FreshStep ==
    ASSUME IInv, SleepsInv, StartsFresh, [Next]_vars
    PROVE  StartsFresh'
<1> SUFFICES ASSUME pc' = "measure", sent' = warmup_loops
             PROVE  /\ num_rcv_msgs' = 0
                    /\ num_unrec_loss' = 0
                    /\ hist_num' = 0 /\ recorded' = {}
                    /\ Quiet'
  BY DEF StartsFresh
<1>0. /\ to_pong \in Seq(Msg) /\ to_ping \in Seq(Msg)
      /\ sent \in Nat /\ warmup_loops \in Nat
  BY PingPongAssumption DEF IInv, TypeOK
<1>1. CASE ResetLoss
  <2>1. pc = "reset_loss" /\ num_unrec_loss' = 0
        /\ UNCHANGED <<num_rcv_msgs, hist_num, recorded, rcv_pc, pong, to_pong, to_ping>>
    BY <1>1 DEF ResetLoss, Goto, MainOnly, rcv_vars, pong_vars, net_vars
  <2>2. Quiet /\ hist_num = 0 /\ num_rcv_msgs = 0
    BY <2>1 DEF SleepsInv, Slept, Settled, InStep, Resetting, Quiet
  <2>3. recorded = {}
    <3>1. IsFiniteSet(recorded) /\ Cardinality(recorded) = 0
      BY <2>2, FS_CardinalityType DEF Quiet, IInv, Recording
    <3>2. QED
      BY <3>1, FS_EmptySet
  <2>4. QED
    BY <2>1, <2>2, <2>3 DEF Quiet
<1>2. CASE pc = "measure" /\ sent = warmup_loops
  <2>1. /\ num_rcv_msgs = 0 /\ num_unrec_loss = 0
        /\ hist_num = 0 /\ recorded = {} /\ Quiet
    BY <1>2 DEF StartsFresh
  <2>2. ~ Main
    BY <1>0, <1>2 DEF Main, HeadSend, ResolveSleep, WarmupSend, WarmupLinger, ResetHist, ResetRcv,
       ResetLoss, MeasuredSend, SendOne, Linger, AssertRcv, HistPrint, PrintCounters,
       AssertLoss, AssertCount, DeleteSource, DeleteRcv, Goto
  <2>3. ~ SendFails /\ ~ Callback
    BY <2>1 DEF SendFails, Callback, RcvLoad, RcvStoreData, RcvStoreLoss, RcvHistNum,
       RcvHistBucket, Quiet
  <2>4. CASE PingBOS
    BY <2>1, <2>4 DEF PingBOS, rcv_vars, pong_vars, Quiet
  <2>5. CASE PongStart
    <3>1. to_pong = << >>
      BY <2>5 DEF PongStart, SleepsInv, Unheard
    <3>2. QED
      BY <2>1, <2>5, <3>1 DEF PongStart, PongOnly, counters, rcv_vars, Quiet
  <2>6. CASE PongBOS \/ Pong \/ PongSendFails
    BY <2>1, <2>6 DEF PongBOS, Pong, PongData, PongLoss, PongEOS, PongSendFails, PongOnly,
       counters, rcv_vars, Quiet
  <2>7. CASE Drop
    <3>1. \/ to_pong # << >> /\ UNCHANGED to_ping
          \/ to_ping # << >>
      BY <1>0, <2>7, SessionIds DEF Drop
    <3>2. pong # "up"
      BY <2>1, <3>1 DEF Quiet
    <3>3. QED
      BY <2>1, <2>7, <3>1, <3>2 DEF Drop, counters, rcv_vars, pong_vars, Quiet
  <2>8. CASE UNCHANGED vars
    BY <2>1, <2>8 DEF vars, counters, rcv_vars, pong_vars, net_vars, Quiet
  <2>9. QED
    BY <2>2, <2>3, <2>4, <2>5, <2>6, <2>7, <2>8 DEF Next
<1>3. CASE ~ ResetLoss /\ ~ (pc = "measure" /\ sent = warmup_loops)
  <2>1. ~ Main
    BY <1>0, <1>3 DEF Main, HeadSend, ResolveSleep, WarmupSend, WarmupLinger, ResetHist, ResetRcv,
       MeasuredSend, SendOne, Linger, AssertRcv, HistPrint, PrintCounters,
       AssertLoss, AssertCount, DeleteSource, DeleteRcv, Goto, IInv, Stage
  <2>2. ~ SendFails
    BY DEF SendFails
  <2>3. UNCHANGED <<pc, sent>>
    BY <2>1, <2>2 DEF Next, PingBOS, Callback, RcvLoad, RcvStoreData, RcvStoreLoss, RcvHistNum,
       RcvHistBucket, CallbackOnly, PongStart, PongBOS, Pong, PongData, PongLoss, PongEOS,
       PongSendFails, PongOnly, Drop, vars, main_vars
  <2>4. QED
    BY <1>3, <2>3
<1>4. QED
  BY <1>1, <1>2, <1>3

(***************************************************************************)
(* "Zero out data from warmup period" and "num_rcv_msgs = 0;  /* Starting  *)
(* over. */" (um_lat_ping.c:751-755) do what they say once the sleep       *)
(* before them outlasts the warm-up's replies: the measured part starts    *)
(* with no reply, no loss and no sample, and counts replies to measured    *)
(* messages only.  That topic resolution was in time is not needed.        *)
(***************************************************************************)
THEOREM StartsOverAfterSleep ==
    ASSUME TimelySleeps
    PROVE  Spec => [](StartsFresh /\ StartsOver)
<1>0. Init => StartsFresh
  BY DEF Init, StartsFresh
<1>1. IInv /\ SleepsInv => StartsOver
  <2> SUFFICES ASSUME IInv, SleepsInv, pc \in Counting
               PROVE  num_rcv_msgs <= Cardinality(got \cap Measured)
    BY DEF StartsOver, Counting, Over
  <2>1. IsFiniteSet(got \cap Measured) /\ Cardinality(got \cap Measured) \in Nat
    BY MeasuredFinite, FS_Intersection, FS_CardinalityType
  <2>2. /\ IsFiniteSet(recorded) /\ Cardinality(recorded) \in Nat
        /\ recorded \subseteq got \cap Measured
    BY FS_CardinalityType DEF IInv, Recording
  <2>3. CASE rcv_pc \in {"hist_num", "hist_bucket"}
    <3>1. /\ rcv_msg.id \in (got \cap Measured) \ recorded
          /\ num_rcv_msgs = Cardinality(recorded) + 1
      BY <2>2, <2>3 DEF IInv, Recording, SleepsInv, InStep, OnlyMeasuredLeft
    <3>2. Cardinality(recorded \cup {rcv_msg.id}) = Cardinality(recorded) + 1
      BY <2>2, <3>1, FS_AddElement
    <3>3. Cardinality(recorded \cup {rcv_msg.id}) <= Cardinality(got \cap Measured)
      BY <2>1, <2>2, <3>1, FS_Subset
    <3>4. QED
      BY <3>1, <3>2, <3>3
  <2>4. CASE rcv_pc \notin {"hist_num", "hist_bucket"}
    <3>1. num_rcv_msgs = Cardinality(recorded)
      BY <2>2, <2>4 DEF IInv, Recording, SleepsInv, InStep
    <3>2. QED
      BY <2>1, <2>2, <3>1, FS_Subset
  <2>5. QED
    BY <2>3, <2>4
<1>2. IInv /\ SleepsInv /\ StartsFresh /\ [Next]_vars => StartsFresh'
  BY FreshStep
<1>3. QED
  BY <1>0, <1>1, <1>2, Invariance, SleepsInvariance, PTL DEF Spec

(***************************************************************************)
(* What main prints hangs together (um_lat_ping.c:771-779): as many        *)
(* samples as replies, all of them in a bucket.                            *)
(***************************************************************************)
THEOREM ReportHangsTogether ==
    ASSUME TimelySleeps
    PROVE  Spec => []ReportConsistent
<1>1. SleepsInv => ReportConsistent
  BY DEF SleepsInv, Judged, Over, ReportConsistent
<1>2. QED
  BY <1>1, SleepsInvariance, PTL

\* The step that ends with status 0 finds every measured message answered.
LEMMA VerdictStep ==
    ASSUME IInv, SleepsInv, [Next]_vars
    PROVE  \/ pc \notin Ended /\ pc' \notin Ended
           \/ UNCHANGED pc
           \/ pc \notin Ended /\ pc' \in {"exit1", "sigfpe"} /\ UNCHANGED <<sent, got, answers>>
           \/ pc \notin Ended /\ pc' = "exit0" /\ UNCHANGED <<sent, got, answers>>
                /\ Measured \subseteq got
<1> USE DEF Ended, Goto, MainOnly, rcv_vars
<1>1. CASE Main
  <2>1. CASE AssertRcv \/ HistPrint \/ AssertLoss \/ AssertCount
    BY <2>1 DEF AssertRcv, HistPrint, AssertLoss, AssertCount
  <2>2. CASE DeleteRcv
    BY <2>2 DEF DeleteRcv, SleepsInv, Judged
  <2>3. CASE HeadSend \/ ResolveSleep \/ WarmupSend \/ WarmupLinger \/ ResetHist
             \/ ResetRcv \/ ResetLoss \/ MeasuredSend \/ Linger
             \/ PrintCounters \/ DeleteSource
    BY <2>3 DEF HeadSend, ResolveSleep, WarmupSend, WarmupLinger, ResetHist,
                ResetRcv, ResetLoss, MeasuredSend, Linger, PrintCounters, DeleteSource
  <2>4. QED
    BY <1>1, <2>1, <2>2, <2>3 DEF Main
<1>2. CASE SendFails
  BY <1>2 DEF SendFails
<1>3. CASE UNCHANGED vars \/ PingBOS \/ Callback \/ PongStart \/ PongBOS \/ Pong
           \/ PongSendFails \/ Drop
  BY <1>3 DEF vars, main_vars, PingBOS, Callback, RcvLoad, RcvStoreData, RcvStoreLoss,
     RcvHistNum, RcvHistBucket, CallbackOnly, PongStart, PongBOS, Pong, PongData,
     PongLoss, PongEOS, PongSendFails, PongOnly, Drop
<1>4. QED
  BY <1>1, <1>2, <1>3 DEF Next

(***************************************************************************)
(* With sleeps that suffice a run keeps the contract of a latency test: it *)
(* ends with status 0 only when every measured message has been answered   *)
(* (um_lat_ping.c:794-795).                                                *)
(***************************************************************************)
THEOREM LatencyTestRefinement ==
    ASSUME TimelySleeps
    PROVE  Spec => IsLatencyTest
<1>1. Init => Test!TestInit
  BY DEF Init, Test!TestInit, Test!Init
<1>2. IInv /\ IInv' /\ SleepsInv /\ [Next]_vars
        => [Test!TestNext]_<<Test!vars, CASE pc = "exit0" -> "pass"
                                          [] pc \in {"exit1", "sigfpe"} -> "fail"
                                          [] OTHER -> "running">>
  <2> SUFFICES ASSUME IInv, IInv', SleepsInv, [Next]_vars
               PROVE  [Test!TestNext]_<<Test!vars, CASE pc = "exit0" -> "pass"
                                          [] pc \in {"exit1", "sigfpe"} -> "fail"
                                          [] OTHER -> "running">>
    OBVIOUS
  <2>1. [Replies!Next]_Replies!vars
    BY EchoStep
  <2>2. [Test!Next]_Test!vars
    BY <2>1 DEF Replies!Next, Replies!vars, Replies!Send, Replies!Reply,
                Test!Next, Test!vars, Test!Send, Test!Reply
  <2>3. QED
    BY <2>2, VerdictStep DEF Test!TestNext, Test!Exchange, Test!Pass, Test!Fail,
       Test!vars, Test!Measured, Measured, Ended
<1>3. QED
  BY <1>1, <1>2, Invariance, SleepsInvariance, PTL DEF Spec, IsLatencyTest, Test!TestSpec

-----------------------------------------------------------------------------
(* Without a fault nothing is lost, when topic resolution is in time too.  *)

LEMMA FaultlessInit ==
    ASSUME TimelyResolution, Init
    PROVE  Found /\ Faultless
<1>1. DOMAIN to_pong = {} /\ DOMAIN to_ping = {}
  BY DEF Init
<1>2. QED
  BY <1>1 DEF Init, Found, Faultless, NoMsg, Ended, Counting, Over

LEMMA FoundStep ==
    ASSUME TimelyResolution, warmup_loops > 0, IInv, Found, [Next]_vars
    PROVE  Found'
<1> USE DEF Found, Ended, Goto
<1>1. CASE Main
  <2>1. CASE ResolveSleep
    <3>1. sent > 0
      BY <2>1 DEF ResolveSleep, IInv, Stage
    <3>2. QED
      BY <2>1, <3>1 DEF ResolveSleep, SleptEnough, Resolved, MainOnly, pong_vars, net_vars
  <2>2. CASE HeadSend \/ WarmupSend \/ MeasuredSend
    BY <2>2 DEF HeadSend, WarmupSend, MeasuredSend, SendOne, pong_vars
  <2>3. CASE WarmupLinger \/ ResetHist \/ ResetRcv \/ ResetLoss \/ Linger
             \/ AssertRcv \/ HistPrint \/ PrintCounters \/ AssertLoss \/ AssertCount
             \/ DeleteSource \/ DeleteRcv
    BY <2>3 DEF WarmupLinger, ResetHist, ResetRcv, ResetLoss, Linger, AssertRcv,
       HistPrint, PrintCounters, AssertLoss, AssertCount, DeleteSource, DeleteRcv,
       MainOnly, pong_vars, net_vars
  <2>4. QED
    BY <1>1, <2>1, <2>2, <2>3 DEF Main
<1>2. CASE SendFails \/ PingBOS \/ Drop \/ UNCHANGED vars
  BY <1>2 DEF SendFails, PingBOS, Drop, vars, main_vars, pong_vars, net_vars
<1>3. CASE Callback
  BY <1>3 DEF Callback, RcvLoad, RcvStoreData, RcvStoreLoss, RcvHistNum,
     RcvHistBucket, CallbackOnly, main_vars, pong_vars
<1>4. CASE PongStart \/ PongBOS \/ Pong \/ PongSendFails
  BY <1>4 DEF PongStart, PongBOS, Pong, PongData, PongLoss, PongEOS, PongSendFails,
     PongOnly, main_vars
<1>5. QED
  BY <1>1, <1>2, <1>3, <1>4 DEF Next

\* A fault is never taken back.
LEMMA FaultsGrow ==
    ASSUME IInv, [Next]_vars
    PROVE  /\ faults' = 0 => faults = 0
           /\ SendFails \/ PongSendFails \/ Drop => faults' # 0
<1>1. faults \in Nat
  BY PingPongAssumption DEF IInv, TypeOK
<1>2. CASE SendFails \/ PongSendFails \/ Drop
  BY <1>1, <1>2 DEF SendFails, PongSendFails, Drop
<1>3. CASE Main
  BY <1>3 DEF Main, HeadSend, ResolveSleep, WarmupSend, MeasuredSend, SendOne,
     WarmupLinger, ResetHist, ResetRcv, ResetLoss, Linger, AssertRcv, HistPrint,
     PrintCounters, AssertLoss, AssertCount, DeleteSource, DeleteRcv, MainOnly, net_vars,
     SendFails, PongSendFails, Drop
<1>4. CASE UNCHANGED vars \/ PingBOS \/ Callback \/ PongStart \/ PongBOS \/ Pong
  <2>1. UNCHANGED faults
    BY <1>4 DEF vars, net_vars, PingBOS, Callback, RcvLoad, RcvStoreData, RcvStoreLoss,
       RcvHistNum, RcvHistBucket, CallbackOnly, PongStart, PongBOS, Pong, PongData,
       PongLoss, PongEOS
  <2>2. QED
    BY <1>1, <2>1 DEF SendFails, PongSendFails, Drop
<1>5. QED
  BY <1>2, <1>3, <1>4 DEF Next

\* After the last sleep every measured message has been counted.
LEMMA AllCounted ==
    ASSUME IInv, SleepsInv, Faultless, faults = 0,
           pc \in Over \ {"delete_rcv"} \/ (pc = "linger" /\ Settled)
    PROVE  num_rcv_msgs = num_msgs
<1>1. pong = "up" /\ to_pong = << >> /\ to_ping = << >> /\ rcv_pc = "idle"
  BY DEF Faultless, SleepsInv, Slept, Settled, Over, Ended
<1>2. Ids(to_pong) = {} /\ Ids(to_ping) = {}
  BY <1>1 DEF Ids
<1>3. Measured \subseteq got
  BY <1>2 DEF Faultless, SleepsInv, Judged, Counting, Over, Measured
<1>4. recorded = Measured
  BY <1>1, <1>3 DEF SleepsInv, AllRecorded, Pending, Counting, IInv, Recording
<1>5. hist_num = num_msgs + 0
  BY <1>1, <1>4, MeasuredFinite DEF IInv, Recording
<1>6. QED
  BY <1>1, <1>5, PingPongAssumption DEF SleepsInv, InStep, Counting

LEMMA FaultlessMain ==
    ASSUME TimelySleeps, IInv, SleepsInv, Found, Faultless, faults = 0, Main
    PROVE  Faultless'
<1> USE DEF Faultless, Goto, MainOnly, rcv_vars, counters, pong_vars, net_vars, Ended,
  Counting, Over
<1>1. to_pong \in Seq(Msg) /\ to_ping \in Seq(Msg)
      /\ sent \in Nat /\ warmup_loops \in Nat /\ num_msgs > 0
  BY PingPongAssumption DEF IInv, TypeOK, Total
<1>2. ASSUME NEW stamp \in BOOLEAN, SendOne(stamp), sent + 1 \in MsgId
      PROVE  /\ \A i \in DOMAIN to_pong' : to_pong'[i].type = "DATA"
             /\ pong_joined => Ids(to_pong') = Ids(to_pong) \cup {sent + 1}
  <2> DEFINE m == [type |-> "DATA", id |-> sent + 1, stamped |-> stamp]
  <2>1. m \in Msg
    BY <1>2 DEF Msg
  <2>2. /\ DOMAIN Append(to_pong, m) = DOMAIN to_pong \cup {Len(to_pong) + 1}
        /\ Append(to_pong, m)[Len(to_pong) + 1] = m
        /\ \A i \in DOMAIN to_pong : Append(to_pong, m)[i] = to_pong[i]
    BY <1>1, <2>1, AppendChannel
  <2>3. Ids(Append(to_pong, m)) = Ids(to_pong) \cup {m.id}
    BY <1>1, <2>1, SessionIds
  <2>4. \A i \in DOMAIN Append(to_pong, m) : Append(to_pong, m)[i].type = "DATA"
    BY <2>2
  <2>5. to_pong' = IF pong_joined THEN Append(to_pong, m) ELSE to_pong
    BY <1>2 DEF SendOne
  <2>6. m.id = sent + 1
    OBVIOUS
  <2> HIDE DEF m
  <2>7. QED
    BY <2>3, <2>4, <2>5, <2>6
<1>3. CASE HeadSend
  <2>1. CASE warmup_loops > 0
    <3>1. SendOne(FALSE) /\ sent = 0
      BY <1>3, <2>1 DEF HeadSend, IInv, Stage
    <3>2. sent + 1 \in MsgId
      BY <3>1, PingPongAssumption DEF MsgId, Total
    <3>3. QED
      BY <1>2, <1>3, <3>1, <3>2 DEF HeadSend, SendOne
  <2>2. CASE ~(warmup_loops > 0)
    BY <1>3, <2>2 DEF HeadSend
  <2>3. QED
    BY <2>1, <2>2
<1>4. CASE WarmupSend
  <2>1. SendOne(FALSE) /\ sent < warmup_loops
    BY <1>4 DEF WarmupSend, IInv, Stage
  <2>2. sent + 1 \in MsgId
    BY <1>1, <2>1, PingPongAssumption DEF MsgId, Total
  <2>3. QED
    BY <1>2, <1>4, <2>1, <2>2 DEF WarmupSend, SendOne
<1>5. CASE MeasuredSend
  <2>1. SendOne(TRUE) /\ sent + 1 \in MsgId /\ sent' = sent + 1 /\ pong_joined
    BY <1>1, <1>5, PingPongAssumption
       DEF MeasuredSend, SendOne, IInv, Stage, MsgId, Total, Found
  <2>2. warmup_loops + 1 .. sent' \subseteq (warmup_loops + 1 .. sent) \cup {sent + 1}
    BY <1>1, <2>1
  <2>3. Ids(to_pong') = Ids(to_pong) \cup {sent + 1} /\ Ids(to_ping') = Ids(to_ping)
    BY <1>2, <2>1 DEF SendOne, Ids
  <2>4. warmup_loops + 1 .. sent' \subseteq got' \cup Ids(to_ping') \cup Ids(to_pong')
    BY <1>5, <2>2, <2>3 DEF MeasuredSend, SendOne
  <2>5. QED
    BY <1>2, <1>5, <2>1, <2>4 DEF MeasuredSend, SendOne
<1>6. CASE ResetLoss
  <2>1. warmup_loops + 1 .. sent' = {}
    BY <1>1, <1>6 DEF ResetLoss, IInv, Stage
  <2>2. QED
    BY <1>6, <2>1 DEF ResetLoss
<1>7. CASE ResolveSleep \/ WarmupLinger \/ ResetHist \/ ResetRcv
  BY <1>7 DEF ResolveSleep, WarmupLinger, ResetHist, ResetRcv
<1>8. CASE Linger \/ PrintCounters \/ DeleteSource \/ DeleteRcv \/ HistPrint
  BY <1>8 DEF Linger, PrintCounters, DeleteSource, DeleteRcv, HistPrint, Ids
<1>9. CASE AssertRcv \/ AssertCount
  <2>1. num_rcv_msgs = num_msgs
    BY <1>9, AllCounted DEF AssertRcv, AssertCount
  <2>2. QED
    BY <1>1, <1>9, <2>1 DEF AssertRcv, AssertCount, Ids
<1>10. CASE AssertLoss
  BY <1>10 DEF AssertLoss, Ids
<1>11. QED
  BY <1>3, <1>4, <1>5, <1>6, <1>7, <1>8, <1>9, <1>10 DEF Main

LEMMA FaultlessStep ==
    ASSUME TimelySleeps, TimelyResolution, warmup_loops > 0,
           IInv, SleepsInv, Found, Faultless, [Next]_vars
    PROVE  Faultless'
<1> SUFFICES ASSUME faults' = 0 PROVE Faultless'
  BY DEF Faultless
<1>1. faults = 0 /\ ~SendFails /\ ~PongSendFails /\ ~Drop
  BY FaultsGrow
<1>2. to_pong \in Seq(Msg) /\ to_ping \in Seq(Msg)
  BY DEF IInv, TypeOK
<1>3. CASE Main
  BY <1>1, <1>3, FaultlessMain
<1>4. CASE PingBOS \/ UNCHANGED vars
  BY <1>1, <1>4 DEF PingBOS, vars, main_vars, counters, rcv_vars, pong_vars, net_vars,
    Faultless, Ids
<1>5. CASE Callback
  <2>1. CASE RcvLoad
    <3>1. /\ Head(to_ping) = to_ping[1] /\ 1 \in DOMAIN to_ping
          /\ \A i \in DOMAIN Tail(to_ping) :
               i + 1 \in DOMAIN to_ping /\ Tail(to_ping)[i] = to_ping[i + 1]
      BY <1>2, <2>1, TailChannel DEF RcvLoad
    <3>2. Ids(to_ping) = Ids(Tail(to_ping)) \cup {Head(to_ping).id}
      BY <1>2, <2>1, SessionIds DEF RcvLoad
    <3>3. Head(to_ping).type = "DATA" /\ \A i \in DOMAIN Tail(to_ping) : Tail(to_ping)[i].type = "DATA"
      BY <1>1, <3>1 DEF Faultless
    <3>4. /\ to_ping' = Tail(to_ping) /\ got' = got \cup {Head(to_ping).id}
          /\ rcv_msg' = Head(to_ping) /\ CallbackOnly /\ UNCHANGED counters
      BY <2>1, <3>3 DEF RcvLoad
    <3>5. pc \in Counting =>
            warmup_loops + 1 .. sent \subseteq got' \cup Ids(to_ping') \cup Ids(to_pong)
      BY <1>1, <3>2, <3>4 DEF Faultless
    <3>6. QED
      BY <1>1, <3>3, <3>4, <3>5 DEF Faultless, CallbackOnly, main_vars, pong_vars, counters, Ids
  <2>2. CASE RcvStoreData \/ RcvHistNum \/ RcvHistBucket
    BY <1>1, <2>2 DEF RcvStoreData, RcvHistNum, RcvHistBucket, CallbackOnly,
       main_vars, pong_vars, Faultless, Ids
  <2>3. CASE RcvStoreLoss
    BY <1>1, <2>3 DEF RcvStoreLoss, Faultless
  <2>4. QED
    BY <1>5, <2>1, <2>2, <2>3 DEF Callback
<1>6. CASE PongData
  <2>1. /\ to_pong # << >> /\ Head(to_pong) \in Msg /\ Head(to_pong).type = "DATA"
        /\ to_pong' = Tail(to_pong) /\ pong = "up"
        /\ to_ping' = IF ping_joined THEN Append(to_ping, Head(to_pong)) ELSE to_ping
        /\ PongOnly /\ UNCHANGED pong
    BY <1>2, <1>6, TailChannel DEF PongData
  <2>2. /\ \A i \in DOMAIN Tail(to_pong) :
             i + 1 \in DOMAIN to_pong /\ Tail(to_pong)[i] = to_pong[i + 1]
        /\ DOMAIN Append(to_ping, Head(to_pong)) = DOMAIN to_ping \cup {Len(to_ping) + 1}
        /\ Append(to_ping, Head(to_pong))[Len(to_ping) + 1] = Head(to_pong)
        /\ \A i \in DOMAIN to_ping : Append(to_ping, Head(to_pong))[i] = to_ping[i]
    BY <1>2, <2>1, TailChannel, AppendChannel
  <2>3. /\ \A i \in DOMAIN to_pong' : to_pong'[i].type = "DATA"
        /\ \A i \in DOMAIN to_ping' : to_ping'[i].type = "DATA"
    BY <1>1, <2>1, <2>2 DEF Faultless
  <2>4. /\ Ids(to_pong) = Ids(Tail(to_pong)) \cup {Head(to_pong).id}
        /\ Ids(Append(to_ping, Head(to_pong))) = Ids(to_ping) \cup {Head(to_pong).id}
    BY <1>2, <2>1, SessionIds
  <2>5. pc \in Counting => ping_joined
    BY <2>1 DEF Found, Counting, Over, Ended
  <2>6. pc \in Counting =>
          warmup_loops + 1 .. sent \subseteq got \cup Ids(to_ping') \cup Ids(to_pong')
    BY <1>1, <2>1, <2>4, <2>5 DEF Faultless
  <2>7. QED
    BY <1>1, <2>1, <2>3, <2>6 DEF Faultless, PongOnly, main_vars, counters, rcv_vars
<1>7. CASE PongLoss
  <2>1. Head(to_pong) = to_pong[1] /\ 1 \in DOMAIN to_pong
    BY <1>2, <1>7, TailChannel DEF PongLoss
  <2>2. QED
    BY <1>1, <1>7, <2>1 DEF PongLoss, Faultless
<1>8. CASE PongStart \/ PongBOS
  BY <1>1, <1>8 DEF PongStart, PongBOS, PongOnly, main_vars, counters, rcv_vars, Faultless, Ids
<1>9. CASE PongEOS
  BY <1>1, <1>9 DEF PongEOS, SourceUp, Running, PongOnly, main_vars, counters,
    rcv_vars, Faultless, Ids
<1>10. QED
  BY <1>1, <1>3, <1>4, <1>5, <1>6, <1>7, <1>8, <1>9 DEF Next, Pong

(***************************************************************************)
(* Ping fails only for a reason (um_lat_ping.c:315, 764, 794-795): with a  *)
(* warm-up, whose first message makes the sources known, and sleeps that   *)
(* suffice, no assertion fails without a drop or a failed send, and the    *)
(* histogram that is printed is never empty.                               *)
(***************************************************************************)
THEOREM FailsForCause ==
    ASSUME TimelySleeps, TimelyResolution, warmup_loops > 0
    PROVE  Spec => []NoFalseAlarm
<1>1. Init => Found /\ Faultless
  BY FaultlessInit
<1>2. IInv /\ SleepsInv /\ Found /\ Faultless /\ [Next]_vars => Found' /\ Faultless'
  BY FoundStep, FaultlessStep
<1>3. IInv /\ SleepsInv /\ Faultless => NoFalseAlarm
  BY PingPongAssumption DEF IInv, TypeOK, SleepsInv, Judged, Faultless, NoFalseAlarm
<1>4. QED
  BY <1>1, <1>2, <1>3, Invariance, SleepsInvariance, PTL DEF Spec
=============================================================================
