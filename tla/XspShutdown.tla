----------------------------- MODULE XspShutdown -----------------------------
(***************************************************************************)
(* How UmLatPing.java ends in sequential mode (-S): each UM object that    *)
(* has no thread of its own is driven by a Java thread that loops over     *)
(* processEvents, and run() stops that thread before it closes the object  *)
(* (UmLatPing.java:700-714, LBMXspThread at 721-761).                      *)
(*                                                                         *)
(* Objects are closed in the order given, the XSP and then the context.    *)
(* LBMContextThread belongs to UM; LBMXspThread calls itself its           *)
(* "approximate clone", so both follow the same model.                     *)
(***************************************************************************)
EXTENDS Integers

CONSTANT NumObjects   \* the objects, in the order they are closed: 1, 2, ...

ASSUME XspShutdownAssumption == NumObjects \in Nat \ {0}

Objects == 1 .. NumObjects

VARIABLES
    main_pc,          \* what main does next
    object,           \* to which object
    continueThread,   \* _continueThread, per object
    running,          \* _running
    thread_pc,        \* where the object's thread is in run()
    closed,           \* objects main has closed
    status            \* of the process: "up", "exit0" or "exit1"

vars == <<main_pc, object, continueThread, running, thread_pc, closed, status>>

\* A thread that was started may not have reached run() yet.
Init ==
    /\ main_pc = "test"
    /\ object = 1
    /\ continueThread = [o \in Objects |-> TRUE]
    /\ running = [o \in Objects |-> FALSE]
    /\ thread_pc = [o \in Objects |-> "started"]
    /\ closed = {}
    /\ status = "up"

Up == status = "up"

-----------------------------------------------------------------------------
(* Main.                                                                   *)

MainStep(here, there) == Up /\ main_pc = here /\ main_pc' = there

Threads == <<running, thread_pc>>

\* The measurements; then the source and the receiver are closed.
Test ==
    /\ MainStep("test", "stop")
    /\ UNCHANGED <<object, continueThread, Threads, closed, status>>

\* Mutant: the thread is not told to stop before it is waited for.
ForgetFlag ==
    /\ MainStep("stop", "unblock")
    /\ UNCHANGED <<object, continueThread, Threads, closed, status>>

\* terminate(): _continueThread = false
StopThread ==
    /\ MainStep("stop", "unblock")
    /\ continueThread' = [continueThread EXCEPT ![object] = FALSE]
    /\ UNCHANGED <<object, Threads, closed, status>>

\* _xsp.unblockProcessEvents()
Unblock ==
    /\ MainStep("unblock", "wait")
    /\ UNCHANGED <<object, continueThread, Threads, closed, status>>

\* Mutant: terminate returns at once.
ReturnAtOnce ==
    /\ MainStep("wait", "close")
    /\ UNCHANGED <<object, continueThread, Threads, closed, status>>

\* while (_running) Thread.sleep(250)
ThreadGone ==
    /\ MainStep("wait", "close")
    /\ ~running[object]
    /\ UNCHANGED <<object, continueThread, Threads, closed, status>>

\* myXsp.close(), myCtx.close()
Close ==
    /\ MainStep("close", IF object < NumObjects THEN "stop" ELSE "end")
    /\ closed' = closed \cup {object}
    /\ object' = IF object < NumObjects THEN object + 1 ELSE object
    /\ UNCHANGED <<continueThread, Threads, status>>

\* The process ends when main and every thread have.
Exit ==
    /\ MainStep("end", "end")
    /\ \A o \in Objects : thread_pc[o] = "ended"
    /\ status' = "exit0"
    /\ UNCHANGED <<object, continueThread, Threads, closed>>

Main == Test \/ StopThread \/ Unblock \/ ThreadGone \/ Close \/ Exit

-----------------------------------------------------------------------------
(* run() of an object's thread.                                            *)

ThreadStep(o, here, there) ==
    /\ Up
    /\ thread_pc[o] = here
    /\ thread_pc' = [thread_pc EXCEPT ![o] = there]
    /\ UNCHANGED <<main_pc, object, continueThread, closed>>

\* _running = true
SetRunning(o) ==
    /\ ThreadStep(o, "started", "test")
    /\ running' = [running EXCEPT ![o] = TRUE]
    /\ UNCHANGED status

\* while (_continueThread)
TestFlag(o) ==
    /\ ThreadStep(o, "test", IF continueThread[o] THEN "events" ELSE "leave")
    /\ UNCHANGED <<running, status>>

\* _xsp.processEvents(_msec) returns: after _msec at the latest.
ProcessEvents(o) ==
    /\ ThreadStep(o, "events", "test")
    /\ UNCHANGED <<running, status>>

\* It throws: the thread ends the process.
EventsFail(o) ==
    /\ ThreadStep(o, "events", "ended")
    /\ status' = "exit1"
    /\ UNCHANGED running

\* _running = false
Leave(o) ==
    /\ ThreadStep(o, "leave", "ended")
    /\ running' = [running EXCEPT ![o] = FALSE]
    /\ UNCHANGED status

ObjectThread(o) == SetRunning(o) \/ TestFlag(o) \/ ProcessEvents(o) \/ Leave(o)

Next == Main \/ \E o \in Objects : ObjectThread(o) \/ EventsFail(o)

Spec == Init /\ [][Next]_vars

\* Every thread is scheduled; processEvents comes back.
FairSpec ==
    /\ Spec
    /\ WF_vars(Main)
    /\ \A o \in Objects : WF_vars(ObjectThread(o))

-----------------------------------------------------------------------------

TypeOK ==
    /\ main_pc \in {"test", "stop", "unblock", "wait", "close", "end"}
    /\ object \in Objects
    /\ continueThread \in [Objects -> BOOLEAN]
    /\ running \in [Objects -> BOOLEAN]
    /\ thread_pc \in [Objects -> {"started", "test", "events", "leave", "ended"}]
    /\ closed \subseteq Objects
    /\ status \in {"up", "exit0", "exit1"}

(***************************************************************************)
(* No thread is inside processEvents of an object that main has closed,    *)
(* not even one that was started and had not come to run() when terminate  *)
(* looked at _running.                                                     *)
(***************************************************************************)
NoEventsOnClosed == \A o \in closed : thread_pc[o] # "events"

(***************************************************************************)
(* The process ends: terminate does not wait for ever on a thread that     *)
(* does not notice it should stop.                                         *)
(***************************************************************************)
Ends == <>(status # "up")
=============================================================================
