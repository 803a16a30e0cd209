--------------------------------- MODULE Echo --------------------------------
(***************************************************************************)
(* What ping relies on, whatever the network and the other process do: the *)
(* replies its callback sees answer messages it has sent, each at most     *)
(* once, in the order it sent them.  Messages are numbered from 1.         *)
(***************************************************************************)
EXTENDS Integers

CONSTANT Total   \* messages ping ever sends

VARIABLES
    sent,      \* number of messages sent
    got,       \* the messages answered
    answers    \* number of answers

vars == <<sent, got, answers>>

Init == sent = 0 /\ got = {} /\ answers = 0

Send == sent < Total /\ sent' = sent + 1 /\ UNCHANGED <<got, answers>>

Reply ==
    \E id \in 1 .. sent :
      /\ \A earlier \in got : earlier < id
      /\ got' = got \cup {id}
      /\ answers' = answers + 1
      /\ UNCHANGED sent

Next == Send \/ Reply

Spec == Init /\ [][Next]_vars
=============================================================================
