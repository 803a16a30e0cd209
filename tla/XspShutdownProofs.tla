-------------------------- MODULE XspShutdownProofs --------------------------
(***************************************************************************)
(* The shutdown handshake, for any number of objects closed in turn.       *)
(***************************************************************************)
EXTENDS XspShutdown, TLAPS

\* A thread inside its loop has announced itself in _running; main has
\* taken the flag back before it waits, and closes only what it waited for.
Handshake ==
    /\ \A o \in Objects : thread_pc[o] \in {"test", "events"} => running[o]
    /\ main_pc \in {"unblock", "wait", "close"} => ~continueThread[object]
    /\ main_pc = "close" => thread_pc[object] # "events"
    /\ \A o \in closed : ~continueThread[o] /\ thread_pc[o] # "events"

IInv == TypeOK /\ Handshake

LEMMA InitInv == Init => IInv
BY XspShutdownAssumption DEF Init, IInv, TypeOK, Handshake, Objects

LEMMA StepInv == IInv /\ [Next]_vars => IInv'
<1> SUFFICES ASSUME IInv, [Next]_vars PROVE IInv'
  OBVIOUS
<1> USE XspShutdownAssumption DEF IInv, TypeOK, Handshake, Objects
<1>1. CASE Test
  BY <1>1 DEF Test, MainStep, Threads
<1>2. CASE StopThread
  BY <1>2 DEF StopThread, MainStep, Threads
<1>3. CASE Unblock
  BY <1>3 DEF Unblock, MainStep, Threads
<1>4. CASE ThreadGone
  BY <1>4 DEF ThreadGone, MainStep, Threads
<1>5. CASE Close
  BY <1>5 DEF Close, MainStep, Threads
<1>6. CASE Exit
  BY <1>6 DEF Exit, MainStep, Threads
<1>7. ASSUME NEW o \in Objects, SetRunning(o) PROVE IInv'
  BY <1>7 DEF SetRunning, ThreadStep
<1>8. ASSUME NEW o \in Objects, TestFlag(o) PROVE IInv'
  BY <1>8 DEF TestFlag, ThreadStep
<1>9. ASSUME NEW o \in Objects, ProcessEvents(o) PROVE IInv'
  BY <1>9 DEF ProcessEvents, ThreadStep
<1>10. ASSUME NEW o \in Objects, EventsFail(o) PROVE IInv'
  BY <1>10 DEF EventsFail, ThreadStep
<1>11. ASSUME NEW o \in Objects, Leave(o) PROVE IInv'
  BY <1>11 DEF Leave, ThreadStep
<1>12. CASE UNCHANGED vars
  BY <1>12 DEF vars
<1>13. QED
  BY <1>1, <1>2, <1>3, <1>4, <1>5, <1>6, <1>7, <1>8, <1>9, <1>10, <1>11, <1>12
     DEF Next, Main, ObjectThread

\* The inductive invariant holds throughout.
THEOREM Invariance == Spec => []IInv
BY InitInv, StepInv, PTL DEF Spec

\* The variables keep their types.
THEOREM TypeCorrect == Spec => []TypeOK
BY Invariance, PTL DEF IInv

\* No thread is inside processEvents of a closed object
\* (UmLatPing.java:704-714, 738-760).
THEOREM ClosedIsQuiet == Spec => []NoEventsOnClosed
<1>1. IInv => NoEventsOnClosed
  BY DEF IInv, Handshake, NoEventsOnClosed
<1>2. QED
  BY <1>1, Invariance, PTL
=============================================================================
