----------------------------- MODULE PacedSender -----------------------------
(***************************************************************************)
(* What send_loop promises: it sends num_sends messages one after another, *)
(* never more, and never sends one before its time on an even schedule of  *)
(* sends_per_sec messages a second that starts with a message at once.     *)
(* It may stop early only because a send failed.  now is the time since    *)
(* the loop began.                                                         *)
(***************************************************************************)
EXTENDS Integers

CONSTANTS num_sends, sends_per_sec, NsPerSec, MaxTime

VARIABLES now, sent, status

vars == <<now, sent, status>>

\* Messages whose time has come, ns nanoseconds after the loop started.
Due(ns) == (ns * sends_per_sec) \div NsPerSec + 1

Init ==
    /\ now = 0
    /\ sent = 0
    /\ status = "sending"

Tick == now < MaxTime /\ now' = now + 1 /\ UNCHANGED <<sent, status>>

Send ==
    /\ status = "sending"
    /\ sent < num_sends
    /\ sent < Due(now)
    /\ sent' = sent + 1
    /\ UNCHANGED <<now, status>>

Finish ==
    /\ status = "sending"
    /\ sent = num_sends
    /\ status' = "done"
    /\ UNCHANGED <<now, sent>>

Fail ==
    /\ status = "sending"
    /\ status' = "failed"
    /\ UNCHANGED <<now, sent>>

Next == Tick \/ Send \/ Finish \/ Fail

Spec == Init /\ [][Next]_vars
=============================================================================
