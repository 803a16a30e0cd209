----------------------------- MODULE LatencyTest -----------------------------
(***************************************************************************)
(* The contract of one run of um_lat_ping.  It exchanges messages          *)
(* (Echo) and comes to a verdict: "pass", the exit status 0 that           *)
(* automation/tst.sh looks at, only when every measured message, those     *)
(* after the first Warmup ones, has been answered; "fail" at any time.     *)
(***************************************************************************)
EXTENDS Echo

CONSTANT Warmup   \* messages that are not measured

VARIABLE verdict

Measured == Warmup + 1 .. Total

TestInit == Init /\ verdict = "running"

Exchange == Next /\ UNCHANGED verdict

Pass ==
    /\ verdict = "running"
    /\ Measured \subseteq got
    /\ verdict' = "pass"
    /\ UNCHANGED vars

Fail == verdict = "running" /\ verdict' = "fail" /\ UNCHANGED vars

TestNext == Exchange \/ Pass \/ Fail

TestSpec == TestInit /\ [][TestNext]_<<vars, verdict>>
=============================================================================
