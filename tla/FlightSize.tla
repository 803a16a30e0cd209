----------------------------- MODULE FlightSize ------------------------------
(***************************************************************************)
(* Persistent mode: how each program counts the messages that the store    *)
(* has not confirmed (cur_flight_size, curFlightSize).  One thread sends   *)
(* and counts, main's in ping and the receive callback's in pong; UM       *)
(* delivers source events on the context's thread.                         *)
(*                                                                         *)
(* The programs differ in ways that matter here, so the model runs any of  *)
(* them:                                                                   *)
(*   c_ping      um_lat_ping.c, which has no case for stable messages      *)
(*   c_pong_ctx  um_lat_pong.c, receiving on the context's own thread      *)
(*   c_pong_xsp  um_lat_pong.c -R x, receiving on a thread of its own      *)
(*   java_ping   UmLatPing.java -g                                         *)
(*   java_pong   UmLatPong.java -g                                         *)
(*                                                                         *)
(* All of them use generic sources, -g, as Java must to hear of source     *)
(* events at all.  A smart source takes no LBM_SRC_NONBLOCK                *)
(* (um_lat_ping.c:582-585); what it does at the flight size is not in this *)
(* repository.                                                             *)
(***************************************************************************)
EXTENDS Integers

CONSTANTS
    Programs,     \* the programs of this instance
    NumSends,     \* messages sent (ping) or reflected (pong)
    FlightLimit,  \* ume_flight_size: sends block or fail at this many
    RetainLimit,  \* UM keeps no more messages than this: it reclaims by force
    StoreIsSlow   \* TRUE: the store never answers between a send and its count

AllPrograms == {"c_ping", "c_pong_ctx", "c_pong_xsp", "java_ping", "java_pong"}

ASSUME FlightSizeAssumption ==
    /\ Programs \subseteq AllPrograms
    /\ NumSends \in Nat \ {0}
    /\ FlightLimit \in Nat \ {0}
    /\ RetainLimit \in Nat \ {0}
    /\ StoreIsSlow \in BOOLEAN

VARIABLES
    program,
    pc,                \* the sending thread
    event_pc,          \* the context's thread, in a source event callback
    cur_flight_size, max_flight_size,
    old,               \* what the atomic addition returned
    num_sent,
    settled,           \* messages stable or reclaimed: UM's knowledge
    registration_complete,
    num_checks, gave_up,
    peak               \* history: the largest cur_flight_size so far

vars == <<program, pc, event_pc, cur_flight_size, max_flight_size, old, num_sent,
          settled, registration_complete, num_checks, gave_up, peak>>

IsPing == program \in {"c_ping", "java_ping"}
IsJava == program \in {"java_ping", "java_pong"}

InFlight == num_sent - settled

Init ==
    /\ program \in Programs
    /\ pc = IF IsPing THEN "register" ELSE "send"
    /\ event_pc = "idle"
    /\ cur_flight_size = 0
    /\ max_flight_size = 0
    /\ old = 0
    /\ num_sent = 0
    /\ settled = 0
    /\ registration_complete = 0
    /\ num_checks = 0
    /\ gave_up = FALSE
    /\ peak = 0

Alive == pc # "died"

-----------------------------------------------------------------------------
(* The sending thread.                                                     *)

SenderOnly == UNCHANGED <<program, event_pc, settled, registration_complete>>

\* while (registration_complete < 1): only ping waits for its store.
Registered ==
    /\ pc = "register"
    /\ registration_complete >= 1
    /\ pc' = "send"
    /\ SenderOnly
    /\ UNCHANGED <<cur_flight_size, max_flight_size, old, num_sent, num_checks,
                   gave_up, peak>>

\* A pong on the context's thread is not called while an event is.
MayRun == program = "c_pong_ctx" => event_pc = "idle"

\* UmLatPong.java's onReceive sends and leaves it at that.
AfterSend == IF program = "java_pong" THEN "next" ELSE "count"

Send ==
    /\ pc = "send"
    /\ MayRun
    /\ InFlight < FlightLimit
    /\ num_sent' = num_sent + 1
    /\ pc' = AfterSend
    /\ SenderOnly
    /\ UNCHANGED <<cur_flight_size, max_flight_size, old, num_checks, gave_up, peak>>

\* LBM_SRC_NONBLOCK at the flight size: the send fails and the program ends.
\* Pong in Java sends without the flag and waits instead.
SendRefused ==
    /\ pc = "send"
    /\ MayRun
    /\ InFlight >= FlightLimit
    /\ program # "java_pong"
    /\ pc' = "refused"
    /\ SenderOnly
    /\ UNCHANGED <<cur_flight_size, max_flight_size, old, num_sent, num_checks,
                   gave_up, peak>>

\* Mutant: the counter is set from a copy read before the send.
CountFromSends ==
    /\ pc = "count"
    /\ cur_flight_size' = num_sent
    /\ old' = num_sent
    /\ peak' = IF cur_flight_size' > peak THEN cur_flight_size' ELSE peak
    /\ pc' = "max"
    /\ SenderOnly /\ UNCHANGED <<max_flight_size, num_sent, num_checks, gave_up>>

\* int cur = __sync_fetch_and_add(&cur_flight_size, 1), the value before the
\* addition; in Java incrementAndGet(), the value after it.
Count ==
    /\ pc = "count"
    /\ cur_flight_size' = cur_flight_size + 1
    /\ old' = IF IsJava THEN cur_flight_size + 1 ELSE cur_flight_size
    /\ peak' = IF cur_flight_size' > peak THEN cur_flight_size' ELSE peak
    /\ pc' = "max"
    /\ SenderOnly /\ UNCHANGED <<max_flight_size, num_sent, num_checks, gave_up>>

\* Mutant: the maximum follows the latest value.
TrackLatest ==
    /\ pc = "max"
    /\ max_flight_size' = old
    /\ pc' = "next"
    /\ SenderOnly
    /\ UNCHANGED <<cur_flight_size, old, num_sent, num_checks, gave_up, peak>>

TrackMax ==
    /\ pc = "max"
    /\ max_flight_size' = IF old > max_flight_size THEN old ELSE max_flight_size
    /\ pc' = "next"
    /\ SenderOnly
    /\ UNCHANGED <<cur_flight_size, old, num_sent, num_checks, gave_up, peak>>

NextMessage ==
    /\ pc = "next"
    /\ pc' = CASE num_sent < NumSends -> "send"
               [] num_sent = NumSends /\ IsPing -> "check"
               [] OTHER -> "done"
    /\ SenderOnly
    /\ UNCHANGED <<cur_flight_size, max_flight_size, old, num_sent, num_checks,
                   gave_up, peak>>

CheckOnly == UNCHANGED <<program, event_pc, cur_flight_size, max_flight_size, old,
                         num_sent, settled, registration_complete, peak>>

\* "Wait for Store to get caught up": three sleeps, then ping gives up.
CaughtUp ==
    /\ pc = "check"
    /\ cur_flight_size <= 0
    /\ pc' = "done"
    /\ CheckOnly /\ UNCHANGED <<num_checks, gave_up>>

\* Mutant: ping never gives up.
CheckForever ==
    /\ pc = "check"
    /\ cur_flight_size > 0
    /\ pc' = "sleep"
    /\ CheckOnly /\ UNCHANGED <<num_checks, gave_up>>

CheckAgain ==
    /\ pc = "check"
    /\ cur_flight_size > 0
    /\ num_checks' = num_checks + 1
    /\ IF num_checks' > 3
         THEN pc' = "done" /\ gave_up' = TRUE
         ELSE pc' = "sleep" /\ UNCHANGED gave_up
    /\ CheckOnly

Slept ==
    /\ pc = "sleep"
    /\ pc' = "check"
    /\ CheckOnly /\ UNCHANGED <<num_checks, gave_up>>

Sender ==
    \/ Registered \/ Send \/ SendRefused \/ Count \/ TrackMax \/ NextMessage
    \/ CaughtUp \/ CheckAgain \/ Slept

-----------------------------------------------------------------------------
(* The context's thread: handle_src_event.                                 *)

EventOnly == UNCHANGED <<program, max_flight_size, old, num_sent, num_checks,
                         gave_up, peak>>

Running == pc \notin {"died", "refused"}

\* An event is delivered between two others, and on a shared thread only
\* between two receive callbacks.
Deliverable ==
    /\ Running
    /\ event_pc = "idle"
    /\ program = "c_pong_ctx" => pc \in {"send", "done"}

\* Some message is in flight that the store can answer now.
Answerable == IF StoreIsSlow /\ pc = "count" THEN InFlight > 1 ELSE InFlight > 0

\* LBM_SRC_EVENT_UME_REGISTRATION_COMPLETE_EX.  The store may never send it:
\* a registration error changes nothing here, and nothing gives up.
RegistrationComplete ==
    /\ Deliverable
    /\ registration_complete = 0
    /\ registration_complete' = registration_complete + 1
    /\ EventOnly /\ UNCHANGED <<pc, event_pc, cur_flight_size, settled>>

\* The counter goes down and must not become negative: one atomic step in
\* Java, a subtraction and a later look at the variable in C.
Decrement ==
    /\ cur_flight_size' = cur_flight_size - 1
    /\ IF IsJava
         THEN /\ pc' = IF cur_flight_size' >= 0 THEN pc ELSE "died"
              /\ UNCHANGED event_pc
         ELSE event_pc' = "assert" /\ UNCHANGED pc

\* Mutant: a stable message is taken off twice.
StableTwice ==
    /\ Deliverable
    /\ Answerable
    /\ settled' = settled + 1
    /\ cur_flight_size' = cur_flight_size - 2
    /\ event_pc' = "assert"
    /\ EventOnly /\ UNCHANGED <<pc, registration_complete>>

\* LBM_SRC_EVENT_UME_MESSAGE_STABLE_EX; um_lat_ping.c does nothing with it.
MessageStable ==
    /\ Deliverable
    /\ Answerable
    /\ settled' = settled + 1
    /\ IF program = "c_ping"
         THEN UNCHANGED <<pc, event_pc, cur_flight_size>>
         ELSE Decrement
    /\ EventOnly /\ UNCHANGED registration_complete

\* LBM_SRC_EVENT_UME_MESSAGE_RECLAIMED_EX with the FORCED flag: UM holds
\* more messages than it may and drops the oldest.
ForcedReclaim ==
    /\ Deliverable
    /\ InFlight > RetainLimit
    /\ settled' = settled + 1
    /\ Decrement
    /\ EventOnly /\ UNCHANGED registration_complete

\* ASSRT(cur_flight_size >= 0): "Die if negative."
AssertNotNegative ==
    /\ Running
    /\ event_pc = "assert"
    /\ event_pc' = "idle"
    /\ pc' = IF cur_flight_size >= 0 THEN pc ELSE "died"
    /\ EventOnly /\ UNCHANGED <<cur_flight_size, settled, registration_complete>>

Events == RegistrationComplete \/ MessageStable \/ ForcedReclaim \/ AssertNotNegative

Next == Sender \/ Events

Spec == Init /\ [][Next]_vars

\* Both threads of the program go on.  Nothing makes the store register the
\* source or confirm a message.
FairSpec ==
    /\ Spec
    /\ WF_vars(Sender)
    /\ WF_vars(AssertNotNegative)

-----------------------------------------------------------------------------

TypeOK ==
    /\ program \in Programs
    /\ pc \in {"register", "send", "count", "max", "next", "check", "sleep",
               "done", "died", "refused"}
    /\ event_pc \in {"idle", "assert"}
    /\ cur_flight_size \in Int
    /\ max_flight_size \in 0 .. NumSends
    /\ old \in -1 .. NumSends
    /\ num_sent \in 0 .. NumSends
    /\ settled \in 0 .. num_sent
    /\ registration_complete \in 0 .. 1
    /\ num_checks \in 0 .. 4
    /\ gave_up \in BOOLEAN
    /\ peak \in 0 .. NumSends

(***************************************************************************)
(* "Die if negative." (um_lat_pong.c:185, um_lat_ping.c:356, and the       *)
(* assrt of UmLatPing.java:330 and UmLatPong.java:210): the assertion on   *)
(* the counter never ends the program.                                     *)
(***************************************************************************)
NeverDies == pc # "died"

(***************************************************************************)
(* Whenever a program is between two messages, its counter is right: the   *)
(* messages the store still owes an answer.  um_lat_ping.c, which never    *)
(* hears of stable messages, counts at least these.                        *)
(***************************************************************************)
CounterRight ==
    (pc \in {"send", "check", "sleep", "done"} /\ event_pc = "idle") =>
      IF program = "c_ping" THEN cur_flight_size >= InFlight
                            ELSE cur_flight_size = InFlight

(***************************************************************************)
(* The maximum that is printed at the end is the largest value the counter *)
(* has had, less one in C, where the atomic addition returns the value     *)
(* before it (um_lat_ping.c:646-649, UmLatPing.java:569-572).              *)
(***************************************************************************)
MaxIsPeak ==
    pc \in {"send", "check", "sleep", "done"} /\ peak > 0 =>
      max_flight_size = IF IsJava THEN peak ELSE peak - 1

(***************************************************************************)
(* A ping whose store has registered it comes to an end, whatever the      *)
(* store does from then on (um_lat_ping.c:720-793): where the store is     *)
(* silent it gives up, and where UM refuses a message it fails.  One that  *)
(* the store does not register waits at 720 for ever.                      *)
(***************************************************************************)
PingEnds ==
    IsPing /\ registration_complete >= 1 ~> pc \in {"done", "died", "refused"}
=============================================================================
