---------------------------- MODULE LbmpongProofs ----------------------------
(***************************************************************************)
(* Proofs about Lbmpong for every number of messages, of ignored ones and  *)
(* of faults: the window is one message, only a retry of pong's lengthens  *)
(* what ping measures, and what ping prints is what it has measured.       *)
(***************************************************************************)
EXTENDS Lbmpong, FiniteSetTheorems, TLAPS

\* The least number principle.  The C integers of that module are not used
\* here, so any widths that satisfy its assumption do.
Numbers == INSTANCE IntegerLemmas WITH IntMax <- 1, WordMod <- 5

\* The part of TypeOK that the invariants need.
Typed ==
    /\ main \in [Role -> MainPlaces]
    /\ cb \in [Role -> {"idle", "measure", "finish", "send"}]
    /\ held \in [Role -> Nat]
    /\ retries \in [Role -> Nat]
    /\ samples \in Seq(Nat)
    /\ to \in [Role -> Seq(Message)]

\* Stamps on their way to pong are fresh; pong's retries bound all others.
StampsFresh == \A i \in DOMAIN to["pong"] : to["pong"][i].age = 0
StampsBounded ==
    /\ \A i \in DOMAIN to["ping"] : to["ping"][i].age <= retries["pong"]
    /\ held["pong"] <= retries["pong"]
    /\ cb["ping"] = "measure" => held["ping"] <= retries["pong"]
    /\ OnlyPongSkews

IInv == Typed /\ OneInFlight /\ StampsFresh /\ StampsBounded


LEMMA InitIInv == Init => IInv
BY DEF Init, IInv, Typed, OneInFlight, StampsFresh, StampsBounded, OnlyPongSkews,
       Holding, Starting, InCallback, InSession, Role, MainPlaces, BeforeSend, Ended

\* What OneInFlight adds up are numbers.
LEMMA Counts ==
    ASSUME Typed
    PROVE  Starting \in Nat /\ InCallback \in Nat /\ InSession \in Nat
BY DEF Typed, Starting, BeforeSend, Holding, InCallback, InSession, Role

LEMMA CountsAfter ==
    ASSUME Typed'
    PROVE  Starting' \in Nat /\ InCallback' \in Nat /\ InSession' \in Nat
BY DEF Typed, Starting, BeforeSend, Holding, InCallback, InSession, Role

\* A step of main, which has nothing to do with the messages.
LEMMA MainKeepsIInv ==
    ASSUME IInv, NEW r \in Role,
           \/ Construct(r) \/ SetFields(r) \/ ConstructFails(r) \/ Pause(r) \/ TimeOut(r)
           \/ r = "ping" /\ (PrintSamples \/ PrintCount)
           \/ r = "pong" /\ Leave
    PROVE  IInv'
<1>1. UNCHANGED <<cb, held, retries, samples, to>>
  BY DEF Construct, SetFields, ConstructFails, Pause, TimeOut, PrintSamples,
    PrintCount, Leave, MainOnly,
         net_vars, ping_vars
<1>2. /\ main' \in [Role -> MainPlaces]
      /\ Starting' <= Starting
  BY DEF IInv, Typed, Construct, SetFields, ConstructFails, Pause, TimeOut, PrintSamples,
         PrintCount, Leave, Goto, AfterRun, Starting, MainPlaces, BeforeSend, Ended, Role
<1>3. OneInFlight'
  <2>1. InCallback' = InCallback /\ InSession' = InSession
    BY <1>1 DEF InCallback, InSession, Holding
  <2>2. Starting' \in Int
    BY DEF Starting
  <2>3. QED
    BY <1>2, <2>1, <2>2, Counts DEF IInv, OneInFlight
<1>4. QED
  BY <1>1, <1>2, <1>3 DEF IInv, Typed, StampsFresh, StampsBounded, OnlyPongSkews

LEMMA OneLonger ==
    ASSUME NEW a \in Int, NEW b \in Int, NEW c \in Int, NEW d \in Int,
           (c <= a + 1 /\ d = b) \/ (d <= b + 1 /\ c = a)
    PROVE  c + d <= a + b + 1
OBVIOUS

LEMMA OneShorter ==
    ASSUME NEW a \in Int, NEW b \in Int, NEW c \in Int, NEW d \in Int,
           (c + 1 = a /\ d = b) \/ (d + 1 = b /\ c = a)
    PROVE  c + d + 1 <= a + b
OBVIOUS

LEMMA Appended ==
    ASSUME NEW S, NEW s \in Seq(S), NEW m \in S
    PROVE  /\ Len(Append(s, m)) = Len(s) + 1
           /\ Len(s) \in Nat
           /\ \A i \in DOMAIN Append(s, m) :
                Append(s, m)[i] = m \/ (i \in DOMAIN s /\ Append(s, m)[i] = s[i])
OBVIOUS

\* Sending moves the message from its holder to the other session, or
\* nowhere when nobody listens.
LEMMA TransmitStamped ==
    ASSUME IInv, NEW r \in Role, Transmit(r), retries' = retries
    PROVE  /\ to' \in [Role -> Seq(Message)]
           /\ InSession' <= InSession + 1
           /\ StampsFresh'
           /\ \A i \in DOMAIN to'["ping"] : to'["ping"][i].age <= retries'["pong"]
<1> DEFINE m == [type |-> "DATA", age |-> Stamp(r)]
<1> USE DEF Role
<1>1. m \in Message /\ m.age = Stamp(r)
  BY DEF IInv, Typed, Message, Stamp
<1>2. /\ to' \in [Role -> Seq(Message)]
      /\ to'[r] = to[r]
      /\ \/ to'[Other(r)] = to[Other(r)]
         \/ to'[Other(r)] = Append(to[Other(r)], m)
  BY <1>1 DEF IInv, Typed, Transmit, Other
<1>3. InSession' <= InSession + 1
  <2>1. Len(to'[Other(r)]) <= Len(to[Other(r)]) + 1 /\ Len(to'[r]) = Len(to[r])
    BY <1>1, <1>2, Appended DEF IInv, Typed, Other
  <2>2. \A s \in Role : Len(to[s]) \in Nat /\ Len(to'[s]) \in Nat
    BY <1>2 DEF IInv, Typed
  <2>3. /\ Len(to["ping"]) \in Int /\ Len(to["pong"]) \in Int
        /\ Len(to'["ping"]) \in Int /\ Len(to'["pong"]) \in Int
    BY <2>2
  <2>4. \/ /\ Len(to'["pong"]) <= Len(to["pong"]) + 1
           /\ Len(to'["ping"]) = Len(to["ping"])
        \/ /\ Len(to'["ping"]) <= Len(to["ping"]) + 1
           /\ Len(to'["pong"]) = Len(to["pong"])
    BY <2>1 DEF Other
  <2>5. Len(to'["ping"]) + Len(to'["pong"]) <= Len(to["ping"]) + Len(to["pong"]) + 1
    BY <2>3, <2>4, OneLonger
  <2>6. QED
    BY <2>5 DEF InSession
<1>4. \A i \in DOMAIN to'[Other(r)] :
        \/ to'[Other(r)][i] = m
        \/ i \in DOMAIN to[Other(r)] /\ to'[Other(r)][i] = to[Other(r)][i]
  <2>1. to[Other(r)] \in Seq(Message)
    BY DEF IInv, Typed, Other
  <2>2. CASE to'[Other(r)] = to[Other(r)]
    BY <2>2
  <2>3. CASE to'[Other(r)] = Append(to[Other(r)], m)
    BY <1>1, <2>1, <2>3, Appended
  <2>4. QED
    BY <1>2, <2>2, <2>3
<1>5. CASE r = "ping"
  BY <1>1, <1>2, <1>3, <1>4, <1>5 DEF IInv, Other, Stamp, StampsFresh, StampsBounded
<1>6. CASE r = "pong"
  BY <1>1, <1>2, <1>3, <1>4, <1>6 DEF IInv, Other, Stamp, StampsFresh, StampsBounded
<1>7. QED
  BY <1>5, <1>6

\* Taking over the message: what leaves one place may appear in another.
LEMMA HandedOver ==
    ASSUME NEW a \in Nat, NEW b \in Nat, NEW c \in Nat,
           NEW d \in Nat, NEW e \in Nat, NEW f \in Nat,
           a + b + c <= 1,
           \/ d = a /\ e <= b /\ f <= c
           \/ d <= a /\ e = b /\ f = c
           \/ a = 1 /\ d = 0 /\ e <= b + 1 /\ f = c
           \/ c = 1 /\ f = 0 /\ e <= b + 1 /\ d <= a
           \/ e + 1 <= b /\ f <= c + 1 /\ d <= a
    PROVE  d + e + f <= 1
OBVIOUS

LEMMA FirstSendKeepsIInv ==
    ASSUME IInv, FirstSend \/ FirstSendRetry \/ FirstSendFails
    PROVE  IInv'
<1> USE DEF Role
<1>1. Starting = 1 /\ InSession = 0 /\ InCallback = 0
  <2>1. Starting = 1
    BY DEF FirstSend, FirstSendRetry, FirstSendFails, Goto, Starting, BeforeSend
  <2>2. QED
    BY <2>1, Counts DEF IInv, OneInFlight
<1>2. cb["ping"] # "measure"
  <2>1. Holding("ping") \in Nat /\ Holding("pong") \in Nat
    BY DEF Holding
  <2>2. QED
    BY <1>1, <2>1 DEF InCallback, Holding
<1>3. CASE FirstSend
  <2>1. /\ main' \in [Role -> MainPlaces]
        /\ Starting' = 0
    BY <1>3 DEF FirstSend, Goto, IInv, Typed, Starting, MainPlaces, BeforeSend, Ended
  <2>2. UNCHANGED <<cb, held, retries, samples>>
    BY <1>3 DEF FirstSend, ping_vars
  <2>3. InCallback' = InCallback
    BY <2>2 DEF InCallback, Holding
  <2>4. /\ to' \in [Role -> Seq(Message)]
        /\ InSession' <= InSession + 1
        /\ StampsFresh'
        /\ \A i \in DOMAIN to'["ping"] : to'["ping"][i].age <= retries'["pong"]
    BY <1>3, <2>2, TransmitStamped DEF FirstSend
  <2>5. Typed'
    BY <2>1, <2>2, <2>4 DEF IInv, Typed
  <2>6. OneInFlight'
    BY <1>1, <2>1, <2>3, <2>4, <2>5, CountsAfter DEF OneInFlight
  <2>7. QED
    BY <2>2, <2>4, <2>5, <2>6 DEF IInv, StampsBounded, OnlyPongSkews
<1>4. CASE FirstSendRetry
  <2>1. /\ held' = [held EXCEPT !["ping"] = @ + 1]
        /\ retries' = [retries EXCEPT !["ping"] = @ + 1]
        /\ UNCHANGED <<main, cb, samples, to>>
    BY <1>4 DEF FirstSendRetry, SleepAndRetry, ping_vars
  <2>2. Typed' /\ retries'["pong"] = retries["pong"] /\ held'["pong"] = held["pong"]
    BY <2>1 DEF IInv, Typed
  <2>3. OneInFlight'
    BY <2>1 DEF IInv, OneInFlight, Starting, InSession, InCallback, Holding
  <2>4. QED
    BY <1>2, <2>1, <2>2, <2>3 DEF IInv, StampsFresh, StampsBounded, OnlyPongSkews
<1>5. CASE FirstSendFails
  <2>1. /\ main' \in [Role -> MainPlaces]
        /\ Starting' = 0
        /\ UNCHANGED <<cb, held, retries, samples, to>>
    BY <1>5 DEF FirstSendFails, Goto, IInv, Typed, Starting, MainPlaces, BeforeSend,
      Ended, ping_vars
  <2>2. InCallback' = InCallback /\ InSession' = InSession
    BY <2>1 DEF InCallback, InSession, Holding
  <2>3. QED
    BY <1>1, <2>1, <2>2
       DEF IInv, Typed, OneInFlight, StampsFresh, StampsBounded, OnlyPongSkews
<1>6. QED
  BY <1>3, <1>4, <1>5

LEMMA ReceiveKeepsIInv ==
    ASSUME IInv, NEW r \in Role, Receive(r) \/ Loss(r)
    PROVE  IInv'
<1> USE DEF Role
<1>1. /\ to[r] \in Seq(Message)
      /\ to[r] # << >>
      /\ to' = [to EXCEPT ![r] = Tail(@)]
      /\ UNCHANGED <<retries, samples>>
  BY DEF IInv, Typed, Receive, Loss, ping_vars
<1>2. /\ Head(to[r]) \in Message
      /\ Head(to[r]) = to[r][1]
      /\ 1 \in DOMAIN to[r]
      /\ Tail(to[r]) \in Seq(Message)
      /\ Len(Tail(to[r])) + 1 = Len(to[r])
      /\ \A i \in DOMAIN Tail(to[r]) : i + 1 \in DOMAIN to[r] /\ Tail(to[r])[i] = to[r][i + 1]
  BY <1>1
<1>3. /\ to' \in [Role -> Seq(Message)]
      /\ to'[r] = Tail(to[r])
      /\ to'[Other(r)] = to[Other(r)]
  BY <1>1, <1>2 DEF IInv, Typed, Other
<1>4. InSession' + 1 <= InSession
  <2>1. \A s \in Role : Len(to[s]) \in Nat /\ Len(to'[s]) \in Nat
    BY <1>3 DEF IInv, Typed
  <2>2. /\ Len(to["ping"]) \in Int /\ Len(to["pong"]) \in Int
        /\ Len(to'["ping"]) \in Int /\ Len(to'["pong"]) \in Int
    BY <2>1
  <2>3. \/ /\ Len(to'["ping"]) + 1 = Len(to["ping"])
           /\ Len(to'["pong"]) = Len(to["pong"])
        \/ /\ Len(to'["pong"]) + 1 = Len(to["pong"])
           /\ Len(to'["ping"]) = Len(to["ping"])
    BY <1>2, <1>3 DEF Other
  <2>4. Len(to'["ping"]) + Len(to'["pong"]) + 1 <= Len(to["ping"]) + Len(to["pong"])
    BY <2>2, <2>3, OneShorter
  <2>5. QED
    BY <2>4 DEF InSession
<1>5. /\ StampsFresh'
      /\ \A i \in DOMAIN to'["ping"] : to'["ping"][i].age <= retries'["pong"]
  <2>1. CASE r = "ping"
    BY <1>1, <1>2, <1>3, <2>1 DEF IInv, StampsFresh, StampsBounded, Other
  <2>2. CASE r = "pong"
    BY <1>1, <1>2, <1>3, <2>2 DEF IInv, StampsFresh, StampsBounded, Other
  <2>3. QED
    BY <2>1, <2>2
<1>6. CASE Receive(r)
  <2>1. /\ main' = main
        /\ held' = [held EXCEPT ![r] = Head(to[r]).age]
        /\ cb' = [cb EXCEPT ![r] = IF r = "ping" THEN "measure" ELSE "send"]
        /\ cb[r] = "idle"
    BY <1>6 DEF Receive, At
  <2>2. Typed'
    BY <1>1, <1>2, <1>3, <2>1 DEF IInv, Typed, Message
  <2>3. Starting' = Starting /\ InCallback' = InCallback + 1
    BY <2>1 DEF IInv, Typed, Starting, InCallback, Holding
  <2>4. OneInFlight'
    BY <1>4, <2>2, <2>3, Counts, CountsAfter, HandedOver DEF IInv, OneInFlight
  <2>5. StampsBounded'
    BY <1>1, <1>2, <1>5, <2>1 DEF IInv, Typed, StampsFresh, StampsBounded, OnlyPongSkews
  <2>6. QED
    BY <1>5, <2>2, <2>4, <2>5 DEF IInv
<1>7. CASE Loss(r)
  <2>1. /\ main' = [main EXCEPT ![r] = "exit1"]
        /\ UNCHANGED <<cb, held>>
    BY <1>7 DEF Loss
  <2>2. Typed'
    BY <1>1, <1>3, <2>1 DEF IInv, Typed, MainPlaces, BeforeSend, Ended
  <2>3. Starting' <= Starting /\ InCallback' = InCallback
    BY <2>1 DEF IInv, Typed, Starting, BeforeSend, Ended, InCallback, Holding
  <2>4. OneInFlight'
    BY <1>4, <2>2, <2>3, Counts, CountsAfter, HandedOver DEF IInv, OneInFlight
  <2>5. QED
    BY <1>1, <1>5, <2>1, <2>2, <2>4 DEF IInv, StampsBounded, OnlyPongSkews
<1>8. QED
  BY <1>6, <1>7

\* The callback after it has the message, but for sending.
LEMMA MeasureKeepsIInv ==
    ASSUME IInv, Measure \/ FinishAndExit \/ FinishThrows
    PROVE  IInv'
<1> USE DEF Role
<1>1. UNCHANGED <<retries, to>>
  BY DEF Measure, FinishAndExit, FinishThrows, ping_vars, net_vars
<1>2. InSession' = InSession
  BY <1>1 DEF InSession
<1>3. CASE Measure
  <2>1. /\ cb["ping"] = "measure"
        /\ main' = main
        /\ held' = [held EXCEPT !["ping"] = 0]
        /\ \/ cb' = [cb EXCEPT !["ping"] = "finish"]
           \/ cb' = [cb EXCEPT !["ping"] = "send"]
        /\ \/ samples' = Append(samples, 1 + held["ping"])
           \/ samples' = samples
    BY <1>3 DEF Measure, At, diff
  <2>2. /\ 1 + held["ping"] \in Nat
        /\ 1 + held["ping"] <= 1 + retries["pong"]
    BY <2>1 DEF IInv, Typed, StampsBounded
  <2>3. /\ samples' \in Seq(Nat)
        /\ \A i \in DOMAIN samples' :
             samples'[i] = 1 + held["ping"]
               \/ (i \in DOMAIN samples /\ samples'[i] = samples[i])
    <3>1. samples \in Seq(Nat)
      BY DEF IInv, Typed
    <3>2. CASE samples' = samples
      BY <3>1, <3>2
    <3>3. CASE samples' = Append(samples, 1 + held["ping"])
      BY <2>2, <3>1, <3>3, Appended
    <3>4. QED
      BY <2>1, <3>2, <3>3
  <2>4. OnlyPongSkews'
    BY <1>1, <2>2, <2>3 DEF IInv, StampsBounded, OnlyPongSkews
  <2>5. Typed'
    BY <1>1, <2>1, <2>3 DEF IInv, Typed
  <2>6. Starting' = Starting /\ InCallback' <= InCallback
    BY <2>1 DEF IInv, Typed, Starting, InCallback, Holding
  <2>7. OneInFlight'
    BY <1>2, <2>5, <2>6, Counts, CountsAfter, HandedOver DEF IInv, OneInFlight
  <2>8. /\ cb'["ping"] # "measure"
        /\ held'["pong"] = held["pong"]
    BY <2>1 DEF IInv, Typed
  <2>9. QED
    BY <1>1, <2>4, <2>5, <2>7, <2>8 DEF IInv, StampsFresh, StampsBounded
<1>4. CASE FinishAndExit \/ FinishThrows
  <2>1. /\ UNCHANGED <<held, samples>>
        /\ main' \in [Role -> MainPlaces]
        /\ Starting' <= Starting
        /\ \/ cb' = cb
           \/ cb' = [cb EXCEPT !["ping"] = "idle"]
    BY <1>4 DEF FinishAndExit, FinishThrows, IInv, Typed, MainPlaces, BeforeSend, Ended, Starting,
                ping_vars
  <2>2. Typed' /\ InCallback' <= InCallback
    BY <1>1, <2>1 DEF IInv, Typed, InCallback, Holding
  <2>3. OneInFlight'
    BY <1>2, <2>1, <2>2, Counts, CountsAfter DEF IInv, OneInFlight
  <2>4. cb'["ping"] = "measure" => cb["ping"] = "measure"
    BY <2>1 DEF IInv, Typed
  <2>5. QED
    BY <1>1, <2>1, <2>2, <2>3, <2>4
       DEF IInv, StampsFresh, StampsBounded, OnlyPongSkews
<1>5. QED
  BY <1>3, <1>4

LEMMA ReplyKeepsIInv ==
    ASSUME IInv, NEW r \in Role,
           Reply(r) \/ ReplyRetry(r) \/ ReplyFails(r) \/ ReplyWithoutSource(r)
    PROVE  IInv'
<1> USE DEF Role
<1>1. cb[r] = "send"
  BY DEF Reply, ReplyRetry, ReplyFails, ReplyWithoutSource, Sending, At
<1>2. CASE Reply(r)
  <2>1. /\ UNCHANGED <<main, held, retries, samples>>
        /\ cb' = [cb EXCEPT ![r] = "idle"]
    BY <1>2 DEF Reply, Return
  <2>2. /\ to' \in [Role -> Seq(Message)]
        /\ InSession' <= InSession + 1
        /\ StampsFresh'
        /\ \A i \in DOMAIN to'["ping"] : to'["ping"][i].age <= retries'["pong"]
    BY <1>2, <2>1, TransmitStamped DEF Reply
  <2>3. Typed'
    BY <2>1, <2>2 DEF IInv, Typed
  <2>4. Starting' = Starting /\ InCallback' + 1 = InCallback
    BY <1>1, <2>1 DEF IInv, Typed, Starting, InCallback, Holding
  <2>5. OneInFlight'
    BY <2>2, <2>3, <2>4, Counts, CountsAfter DEF IInv, OneInFlight
  <2>6. cb'["ping"] = "measure" => cb["ping"] = "measure"
    BY <2>1 DEF IInv, Typed
  <2>7. QED
    BY <2>1, <2>2, <2>3, <2>5, <2>6 DEF IInv, StampsBounded, OnlyPongSkews
<1>3. CASE ReplyRetry(r)
  <2>1. /\ held' = [held EXCEPT ![r] = @ + 1]
        /\ retries' = [retries EXCEPT ![r] = @ + 1]
        /\ UNCHANGED <<main, cb, samples, to>>
    BY <1>3 DEF ReplyRetry, SleepAndRetry, ping_vars
  <2>2. Typed'
    BY <2>1 DEF IInv, Typed
  <2>3. /\ retries["pong"] <= retries'["pong"]
        /\ held'["pong"] <= retries'["pong"]
        /\ retries["pong"] \in Nat /\ retries'["pong"] \in Nat
    BY <2>1 DEF IInv, Typed, StampsBounded
  <2>4. OneInFlight'
    BY <2>1 DEF IInv, OneInFlight, Starting, InSession, InCallback, Holding
  <2>5. cb["ping"] = "measure" => held'["ping"] = held["ping"]
    BY <1>1, <2>1 DEF IInv, Typed
  <2>6. \A n \in Nat : n <= retries["pong"] => n <= retries'["pong"]
    BY <2>3
  <2>7. \A n \in Nat : n <= 1 + retries["pong"] => n <= 1 + retries'["pong"]
    BY <2>3
  <2>8. StampsBounded'
    <3>1. \A i \in DOMAIN to["ping"] : to["ping"][i].age \in Nat
      <4>1. to["ping"] \in Seq(Message)
        BY DEF IInv, Typed
      <4>2. \A i \in DOMAIN to["ping"] : to["ping"][i] \in Message
        BY <4>1
      <4>3. QED
        BY <4>2 DEF Message
    <3>2. \A i \in DOMAIN samples : samples[i] \in Nat
      BY DEF IInv, Typed
    <3>3. held["ping"] \in Nat
      BY DEF IInv, Typed
    <3>4. QED
      BY <2>1, <2>3, <2>5, <2>6, <2>7, <3>1, <3>2, <3>3
         DEF IInv, StampsBounded, OnlyPongSkews
  <2>9. QED
    BY <2>1, <2>2, <2>4, <2>8 DEF IInv, StampsFresh
<1>4. CASE ReplyFails(r) \/ ReplyWithoutSource(r)
  <2>1. /\ UNCHANGED <<main, held, retries, samples, to>>
        /\ cb' = [cb EXCEPT ![r] = "idle"]
    BY <1>4 DEF ReplyFails, ReplyWithoutSource, Return, ping_vars, net_vars
  <2>2. Typed'
    BY <2>1 DEF IInv, Typed
  <2>3. /\ Starting' = Starting /\ InSession' = InSession
        /\ InCallback' <= InCallback
    BY <2>1 DEF IInv, Typed, Starting, InSession, InCallback, Holding
  <2>4. OneInFlight'
    BY <2>2, <2>3, Counts, CountsAfter DEF IInv, OneInFlight
  <2>5. cb'["ping"] = "measure" => cb["ping"] = "measure"
    BY <2>1 DEF IInv, Typed
  <2>6. QED
    BY <2>1, <2>2, <2>4, <2>5 DEF IInv, StampsFresh, StampsBounded, OnlyPongSkews
<1>5. QED
  BY <1>2, <1>3, <1>4

\* The environment, and the end of the other process.
LEMMA OthersKeepIInv ==
    ASSUME IInv, NEW r \in Role, EndOfSource(r) \/ EndUnheard(r) \/ Join(r) \/ Drop(r)
    PROVE  IInv'
<1> USE DEF Role
<1>1. UNCHANGED <<cb, held, retries, samples>>
  BY DEF EndOfSource, EndUnheard, Join, Drop, ping_vars
<1>2. /\ main' \in [Role -> MainPlaces]
      /\ Starting' <= Starting
  BY DEF IInv, Typed, EndOfSource, EndUnheard, Join, Drop, AfterRun, MainPlaces,
    BeforeSend, Ended, Starting
<1>3. /\ to' \in [Role -> Seq(Message)]
      /\ \A s \in Role :
           /\ Len(to'[s]) = Len(to[s])
           /\ DOMAIN to'[s] = DOMAIN to[s]
           /\ \A i \in DOMAIN to[s] : to'[s][i].age = to[s][i].age
  <2>1. CASE to' = to
    BY <2>1 DEF IInv, Typed
  <2>2. CASE Drop(r)
    <3>1. PICK i \in DOMAIN to[r] : to' = [to EXCEPT ![r] = [@ EXCEPT ![i].type = "LOSS"]]
      BY <2>2 DEF Drop
    <3>2. to[r] \in Seq(Message) /\ to[r][i] \in Message
      BY DEF IInv, Typed
    <3> DEFINE lost == [to[r][i] EXCEPT !.type = "LOSS"]
    <3>3. lost \in Message /\ lost.age = to[r][i].age
      BY <3>2 DEF Message
    <3>4. to' = [to EXCEPT ![r] = [to[r] EXCEPT ![i] = lost]]
      BY <3>1 DEF IInv, Typed
    <3> HIDE DEF lost
    <3>5. /\ [to[r] EXCEPT ![i] = lost] \in Seq(Message)
          /\ Len([to[r] EXCEPT ![i] = lost]) = Len(to[r])
          /\ DOMAIN [to[r] EXCEPT ![i] = lost] = DOMAIN to[r]
          /\ \A j \in DOMAIN to[r] : [to[r] EXCEPT ![i] = lost][j].age = to[r][j].age
      BY <3>2, <3>3
    <3>6. QED
      BY <3>4, <3>5 DEF IInv, Typed
  <2>3. QED
    BY <2>1, <2>2 DEF EndOfSource, EndUnheard, Join, net_vars
<1>4. InSession' = InSession /\ InCallback' = InCallback
  BY <1>1, <1>3 DEF InSession, InCallback, Holding
<1>5. Typed'
  BY <1>1, <1>2, <1>3 DEF IInv, Typed
<1>6. OneInFlight'
  BY <1>2, <1>4, <1>5, Counts, CountsAfter DEF IInv, OneInFlight
<1>7. QED
  BY <1>1, <1>3, <1>5, <1>6 DEF IInv, StampsFresh, StampsBounded, OnlyPongSkews

LEMMA NextIInv == IInv /\ [Next]_vars => IInv'
<1> SUFFICES ASSUME IInv, [Next]_vars PROVE IInv'
  OBVIOUS
<1> USE DEF Role
<1>1. CASE UNCHANGED vars
  BY <1>1 DEF vars, ping_vars, net_vars, IInv, Typed, OneInFlight, Starting, InSession,
              InCallback, Holding, StampsFresh, StampsBounded, OnlyPongSkews
<1>2. ASSUME NEW r \in Role, MainStep(r) PROVE IInv'
  BY <1>2, MainKeepsIInv, FirstSendKeepsIInv DEF MainStep
<1>3. ASSUME NEW r \in Role, Callback(r) PROVE IInv'
  BY <1>3, ReceiveKeepsIInv, ReplyKeepsIInv, MeasureKeepsIInv, OthersKeepIInv DEF Callback
<1>4. ASSUME NEW r \in Role, Join(r) \/ Drop(r) \/ ReplyRetry(r) \/ ReplyFails(r) PROVE IInv'
  BY <1>4, ReplyKeepsIInv, OthersKeepIInv
<1>5. ASSUME NEW r \in Role, ConstructFails(r) PROVE IInv'
  BY <1>5, MainKeepsIInv
<1>6. CASE FirstSendRetry \/ FirstSendFails
  BY <1>6, FirstSendKeepsIInv
<1>7. CASE Leave
  BY <1>7, MainKeepsIInv
<1>8. QED
  BY <1>1, <1>2, <1>3, <1>4, <1>5, <1>6, <1>7 DEF Next

LEMMA InvariantIInv == Spec => []IInv
BY InitIInv, NextIInv, PTL DEF Spec

(***************************************************************************)
(* Whatever is retried, dropped or sent before the other side has joined,  *)
(* lbmpong never has two messages on their way (241-275, 703-780), so a    *)
(* reply always answers the message that ping stamped last.                *)
(***************************************************************************)
THEOREM WindowOfOne == Spec => []OneInFlight
<1>1. IInv => OneInFlight
  BY DEF IInv
<1>2. QED
  BY InvariantIInv, <1>1, PTL

(***************************************************************************)
(* The time that ping measures is lengthened by pong's retries only: its   *)
(* own stamp a message anew each time round (247-249).                     *)
(***************************************************************************)
THEOREM PingRetriesUnmeasured == Spec => []OnlyPongSkews
<1>1. IInv => OnlyPongSkews
  BY DEF IInv, StampsBounded
<1>2. QED
  BY InvariantIInv, <1>1, PTL

-----------------------------------------------------------------------------
(* What is counted, measured and printed.                                  *)

\* Of n replies, those that are measured, and of rtt_ignore those not yet
\* passed.
Beyond(n) == IF n > options.rtt_ignore THEN n - options.rtt_ignore ELSE 0
Left(n) == IF n < options.rtt_ignore THEN options.rtt_ignore - n ELSE 0

\* onReceive counts a reply before it is measured, and lowers rtt_ignore after.
Counted ==
    /\ msg_count = Beyond(replies)
    /\ rtt_ignore = Left(IF cb["ping"] = "idle" THEN replies ELSE replies - 1)
    /\ cb["ping"] # "idle" => replies > 0
    /\ cb["ping"] = "finish" => rtt_ignore = 0
    /\ msg_count = Len(samples)
                   + (IF cb["ping"] = "measure" /\ rtt_ignore = 0 THEN 1 ELSE 0)

\* No message is on its way and none will be sent.
Silent ==
    /\ main["ping"] \notin BeforeSend
    /\ \A r \in Role : to[r] = << >> /\ cb[r] \notin {"measure", "send"}

\* The last message is not answered, even when calc_med throws.
Enough ==
    /\ msg_count <= options.msgs
    /\ cb["ping"] = "finish" => msg_count = options.msgs
    /\ msg_count = options.msgs /\ cb["ping"] # "measure" => Silent

\* With an event queue nothing is received while main prints.
Printing ==
    /\ options.eventq["ping"] /\ main["ping"] \in {"print", "print_count"} =>
         cb["ping"] = "idle"
    /\ options.eventq["ping"] /\ main["ping"] = "print_count" => report.samples = samples
    /\ PrintedTogether

CInv == TypeOK /\ IInv /\ Counted /\ Enough /\ Printing

LEMMA InitCInv == Init => CInv
<1> SUFFICES ASSUME Init PROVE CInv
  OBVIOUS
<1>1. /\ options \in Options
      /\ rtt_ignore = options.rtt_ignore
      /\ main["ping"] = "construct"
      /\ cb["ping"] = "idle"
      /\ report = [samples |-> << >>, count |-> 0, median |-> 0]
      /\ msg_count = 0 /\ samples = << >> /\ replies = 0
  BY DEF Init, Role
<1>2. options.rtt_ignore \in Nat /\ options.msgs \in Nat \ {0}
  BY <1>1, LbmpongAssumption DEF Options
<1>3. TypeOK
  BY <1>1, <1>2, LbmpongAssumption DEF Init, TypeOK, Role, MainPlaces, BeforeSend, Ended
<1>4. Counted
  BY <1>1, <1>2 DEF Counted, Beyond, Left
<1>5. Enough
  BY <1>1, <1>2 DEF Enough
<1>6. Printing
  BY <1>1 DEF Printing, PrintedTogether
<1>7. QED
  BY <1>3, <1>4, <1>5, <1>6, InitIInv DEF CInv

\* The numbers the options give.
LEMMA OptionTypes ==
    ASSUME TypeOK
    PROVE  /\ options.rtt_ignore \in Nat
           /\ options.msgs \in Nat \ {0}
           /\ options.eventq \in [Role -> BOOLEAN]
           /\ options.rtt_collect \in BOOLEAN
BY LbmpongAssumption DEF TypeOK, Options

LEMMA OptionsStay ==
    ASSUME [Next]_vars
    PROVE  options' = options
BY DEF Next, vars, MainStep, Callback, Construct, SetFields, Pause, TimeOut, FirstSend,
  PrintSamples,
       PrintCount, Receive, Reply, ReplyWithoutSource, Loss, EndOfSource, EndUnheard, Measure,
       FinishAndExit, FinishThrows,
       Join, Drop, ConstructFails, ReplyRetry, ReplyFails, FirstSendRetry, FirstSendFails,
       Leave, MainOnly, Return

\* While ping has the message in its callback, it is nowhere else.
LEMMA PingHasIt ==
    ASSUME IInv, cb["ping"] = "measure" \/ cb["ping"] = "send"
    PROVE  /\ main["ping"] \notin BeforeSend
           /\ \A r \in Role : to[r] = << >>
           /\ cb["pong"] \notin {"measure", "send"}
<1> USE DEF Role
<1>1. Starting + InSession + InCallback <= 1
  BY DEF IInv, OneInFlight
<1>2. Starting \in Nat /\ InSession \in Nat /\ InCallback \in Nat
  BY Counts DEF IInv
<1>3. Holding("ping") = 1 /\ Holding("pong") \in Nat
  BY DEF Holding
<1>4. Starting = 0 /\ InSession = 0 /\ Holding("pong") = 0
  BY <1>1, <1>2, <1>3 DEF InCallback
<1>5. to["ping"] \in Seq(Message) /\ to["pong"] \in Seq(Message)
  BY DEF IInv, Typed
<1>6. Len(to["ping"]) \in Nat /\ Len(to["pong"]) \in Nat
  BY <1>5
<1>7. Len(to["ping"]) = 0 /\ Len(to["pong"]) = 0
  <2>1. \A a, b \in Nat : a + b = 0 => a = 0 /\ b = 0
    OBVIOUS
  <2>2. Len(to["ping"]) + Len(to["pong"]) = 0
    BY <1>4 DEF InSession
  <2>3. QED
    BY <1>6, <2>1, <2>2
<1>8. to["ping"] = << >> /\ to["pong"] = << >>
  BY <1>5, <1>7
<1>9. QED
  BY <1>4, <1>8 DEF Starting, Holding

\* Only ping's own callback moves what it counts.
LEMMA PingCounts ==
    ASSUME TypeOK, IInv, [Next]_vars
    PROVE  \/ Receive("ping") \/ Measure \/ FinishThrows
           \/ Reply("ping") \/ ReplyFails("ping")
           \/ UNCHANGED <<rtt_ignore, replies, msg_count, samples>> /\ cb'["ping"] = cb["ping"]
<1> USE DEF Role
<1>1. CASE UNCHANGED vars
  BY <1>1 DEF vars, ping_vars
<1>2. ASSUME NEW r \in Role, MainStep(r)
      PROVE  UNCHANGED <<rtt_ignore, replies, msg_count, samples, cb>>
  BY <1>2 DEF MainStep, Construct, SetFields, Pause, TimeOut, FirstSend, PrintSamples, PrintCount,
              MainOnly, ping_vars
<1>3. ASSUME NEW r \in Role, Join(r) \/ Drop(r) \/ ConstructFails(r) \/ ReplyRetry(r)
                               \/ Loss(r) \/ EndOfSource(r) \/ EndUnheard(r)
      PROVE  UNCHANGED <<rtt_ignore, replies, msg_count, samples, cb>>
  BY <1>3 DEF Join, Drop, ConstructFails, ReplyRetry, Loss, EndOfSource,
              EndUnheard, ping_vars
<1>4. CASE FirstSendRetry \/ FirstSendFails \/ Leave
  BY <1>4 DEF FirstSendRetry, FirstSendFails, Leave, MainOnly, ping_vars
<1>5. ASSUME \/ Receive("pong") \/ Reply("pong") \/ ReplyFails("pong")
             \/ ReplyWithoutSource("pong")
      PROVE  UNCHANGED <<rtt_ignore, replies, msg_count, samples>> /\ cb'["ping"] = cb["ping"]
  BY <1>5 DEF Receive, Reply, ReplyFails, ReplyWithoutSource, Return, OneLess, ping_vars,
              TypeOK
<1>6. ASSUME FinishAndExit
      PROVE  UNCHANGED <<rtt_ignore, replies, msg_count, samples, cb>>
  BY <1>6 DEF FinishAndExit
<1>7. ASSUME NEW r \in Role, Callback(r)
      PROVE  \/ Receive("ping") \/ Measure \/ FinishThrows \/ Reply("ping")
             \/ UNCHANGED <<rtt_ignore, replies, msg_count, samples>> /\ cb'["ping"] = cb["ping"]
  <2>1. CASE Loss(r) \/ EndOfSource(r) \/ EndUnheard(r)
    BY <1>3, <2>1
  <2>2. CASE r = "ping" /\ ~ (Loss(r) \/ EndOfSource(r) \/ EndUnheard(r))
    <3>1. ~ ReplyWithoutSource("ping")
      BY PingHasIt DEF ReplyWithoutSource, At, BeforeSend
    <3>2. QED
      BY <1>6, <1>7, <2>2, <3>1 DEF Callback
  <2>3. CASE r = "pong" /\ ~ (Loss(r) \/ EndOfSource(r) \/ EndUnheard(r))
    BY <1>5, <1>7, <2>3 DEF Callback
  <2>4. QED
    BY <2>1, <2>2, <2>3
<1>8. QED
  BY <1>1, <1>2, <1>3, <1>4, <1>5, <1>7 DEF Next

\* Only the three printing steps change the report.
LEMMA Prints ==
    ASSUME [Next]_vars
    PROVE  PrintSamples \/ PrintCount \/ FinishAndExit \/ UNCHANGED report
BY DEF Next, vars, ping_vars, MainStep, Callback, Construct, SetFields, Pause, TimeOut, FirstSend,
       Receive, Reply, ReplyWithoutSource, Loss, EndOfSource, EndUnheard, Measure,
       FinishThrows, Join, Drop,
       ConstructFails, ReplyRetry, ReplyFails, FirstSendRetry, FirstSendFails, Leave, Return

LEMMA CountedStep ==
    ASSUME TypeOK, IInv, Counted, [Next]_vars
    PROVE  Counted'
<1>1. options' = options
  BY OptionsStay
<1>2. options.rtt_ignore \in Nat
  BY OptionTypes
<1>3. /\ rtt_ignore \in Nat /\ msg_count \in Nat /\ replies \in Nat
      /\ cb \in [Role -> {"idle", "measure", "finish", "send"}]
      /\ samples \in Seq(Nat) /\ Len(samples) \in Nat
  BY DEF TypeOK
<1>4. CASE Receive("ping")
  <2>1. /\ cb["ping"] = "idle" /\ cb'["ping"] = "measure"
        /\ replies' = replies + 1
        /\ msg_count' = IF rtt_ignore = 0 THEN msg_count + 1 ELSE msg_count
        /\ UNCHANGED <<rtt_ignore, samples>>
    BY <1>3, <1>4 DEF Receive, At, Role
  <2>2. QED
    BY <1>1, <1>2, <1>3, <2>1 DEF Counted, Beyond, Left
<1>5. CASE Measure
  <2>1. /\ cb["ping"] = "measure"
        /\ cb'["ping"] # "idle" /\ cb'["ping"] # "measure"
        /\ cb'["ping"] = "finish" => rtt_ignore = 0
        /\ samples' = IF rtt_ignore = 0 THEN Append(samples, diff) ELSE samples
        /\ UNCHANGED <<rtt_ignore, msg_count, replies>>
    BY <1>3, <1>5 DEF Measure, At, Role
  <2>2. Len(samples') = Len(samples) + (IF rtt_ignore = 0 THEN 1 ELSE 0)
    BY <1>3, <2>1
  <2>3. QED
    BY <1>1, <1>2, <1>3, <2>1, <2>2 DEF Counted, Beyond, Left
<1>6. CASE FinishThrows
  <2>1. /\ cb["ping"] = "finish" /\ cb'["ping"] = "idle"
        /\ UNCHANGED <<rtt_ignore, msg_count, replies, samples>>
    BY <1>3, <1>6 DEF FinishThrows, At, Role, ping_vars
  <2>2. QED
    BY <1>1, <1>2, <1>3, <2>1 DEF Counted, Beyond, Left
<1>7. CASE Reply("ping") \/ ReplyFails("ping")
  <2>1. /\ cb["ping"] = "send" /\ cb'["ping"] = "idle"
        /\ rtt_ignore' = IF rtt_ignore > 0 THEN rtt_ignore - 1 ELSE rtt_ignore
        /\ UNCHANGED <<msg_count, replies, samples>>
    BY <1>3, <1>7 DEF Reply, ReplyFails, Return, OneLess, Sending, At, Role
  <2>2. QED
    BY <1>1, <1>2, <1>3, <2>1 DEF Counted, Beyond, Left
<1>8. CASE /\ UNCHANGED <<rtt_ignore, replies, msg_count, samples>>
           /\ cb'["ping"] = cb["ping"]
  BY <1>1, <1>8 DEF Counted, Beyond, Left
<1>9. QED
  BY <1>4, <1>5, <1>6, <1>7, <1>8, PingCounts

\* Once the message is gone it does not come back.
LEMMA SilentStep ==
    ASSUME TypeOK, Silent, [Next]_vars
    PROVE  Silent'
<1> USE DEF Role
<1>1. /\ main \in [Role -> MainPlaces]
      /\ cb \in [Role -> {"idle", "measure", "finish", "send"}]
      /\ to \in [Role -> Seq(Message)]
  BY DEF TypeOK
<1>2. /\ main["ping"] \notin BeforeSend
      /\ \A r \in Role : to[r] = << >> /\ cb[r] \notin {"measure", "send"}
  BY DEF Silent
<1>3. ~ (FirstSend \/ FirstSendRetry \/ FirstSendFails \/ Measure)
  BY <1>2 DEF FirstSend, FirstSendRetry, FirstSendFails, Measure, Goto, At, BeforeSend
<1>4. \A r \in Role : ~ (\/ Receive(r) \/ Loss(r) \/ Drop(r)
                           \/ Reply(r) \/ ReplyRetry(r) \/ ReplyFails(r)
                           \/ ReplyWithoutSource(r))
  BY <1>2 DEF Receive, Loss, Reply, ReplyRetry, ReplyFails, ReplyWithoutSource, Drop,
              Sending, At
<1>5. ASSUME NEW r \in Role, \/ Construct(r) \/ SetFields(r) \/ ConstructFails(r) \/ Pause(r) \/ TimeOut(r)
                             \/ PrintSamples \/ PrintCount \/ Leave \/ EndOfSource(r)
      PROVE  Silent'
  <2>1. UNCHANGED <<cb, to>>
    BY <1>5 DEF Construct, SetFields, ConstructFails, Pause, TimeOut, PrintSamples,
      PrintCount, Leave,
                EndOfSource, MainOnly, net_vars
  <2>2. main'["ping"] \notin BeforeSend
    BY <1>1, <1>2, <1>5 DEF Construct, SetFields, ConstructFails, Pause, TimeOut, PrintSamples,
       PrintCount, Leave, EndOfSource, SourceEnded, At, CallbackRuns, OnMain, Goto, AfterRun,
       BeforeSend, Ended
  <2>3. QED
    BY <1>2, <2>1, <2>2 DEF Silent
<1>6. ASSUME NEW r \in Role, Join(r) \/ EndUnheard(r) PROVE Silent'
  BY <1>2, <1>6 DEF Join, EndUnheard, Silent, BeforeSend
<1>7. CASE FinishAndExit \/ FinishThrows
  BY <1>1, <1>2, <1>7
     DEF FinishAndExit, FinishThrows, net_vars, ping_vars, Silent, BeforeSend
<1>8. CASE UNCHANGED vars
  BY <1>2, <1>8 DEF vars, net_vars, Silent
<1>9. QED
  BY <1>3, <1>4, <1>5, <1>6, <1>7, <1>8 DEF Next, MainStep, Callback

LEMMA EnoughStep ==
    ASSUME TypeOK, IInv, Counted, Enough, [Next]_vars
    PROVE  Enough'
<1>1. options' = options /\ options.rtt_ignore \in Nat /\ options.msgs \in Nat \ {0}
  BY OptionsStay, OptionTypes
<1>2. /\ rtt_ignore \in Nat /\ msg_count \in Nat /\ replies \in Nat
      /\ cb \in [Role -> {"idle", "measure", "finish", "send"}]
  BY DEF TypeOK
<1>3. CASE Receive("ping")
  <2>1. /\ cb["ping"] = "idle" /\ cb'["ping"] = "measure"
        /\ to["ping"] # << >>
        /\ msg_count' = IF rtt_ignore = 0 THEN msg_count + 1 ELSE msg_count
    BY <1>2, <1>3 DEF Receive, At, Role
  <2>2. ~ Silent
    BY <2>1 DEF Silent, Role
  <2>3. msg_count < options.msgs
    BY <1>1, <1>2, <2>1, <2>2 DEF Enough
  <2>4. QED
    BY <1>1, <1>2, <2>1, <2>3 DEF Enough
<1>4. CASE Measure
  <2>1. /\ cb["ping"] = "measure"
        /\ cb' = [cb EXCEPT !["ping"] = IF rtt_ignore = 0 /\ msg_count = options.msgs
                                          THEN "finish" ELSE "send"]
        /\ UNCHANGED <<main, to, rtt_ignore, msg_count>>
    BY <1>4 DEF Measure, At, net_vars
  <2>2. CASE rtt_ignore = 0 /\ msg_count = options.msgs
    <3>1. cb'["ping"] = "finish" /\ cb'["pong"] = cb["pong"]
      BY <1>2, <2>1, <2>2 DEF Role
    <3>2. Silent'
      BY <2>1, <3>1, PingHasIt DEF Silent, Role
    <3>3. QED
      BY <1>1, <2>1, <2>2, <3>1, <3>2 DEF Enough
  <2>3. CASE ~ (rtt_ignore = 0 /\ msg_count = options.msgs)
    <3>1. cb'["ping"] = "send"
      BY <1>2, <2>1, <2>3 DEF Role
    <3>2. msg_count # options.msgs
      BY <1>1, <1>2, <2>1, <2>3 DEF Counted, Beyond, Left
    <3>3. QED
      BY <1>1, <2>1, <3>1, <3>2 DEF Enough
  <2>4. QED
    BY <2>2, <2>3
<1>5. CASE \/ FinishThrows \/ Reply("ping") \/ ReplyFails("ping")
           \/ /\ UNCHANGED <<rtt_ignore, replies, msg_count, samples>>
              /\ cb'["ping"] = cb["ping"]
  <2>1. /\ msg_count' = msg_count
        /\ cb'["ping"] = cb["ping"] \/ (cb["ping"] # "measure" /\ cb'["ping"] = "idle")
    BY <1>2, <1>5 DEF FinishThrows, Reply, ReplyFails, Return, Sending, At, ping_vars, Role
  <2>2. msg_count' = options.msgs /\ cb'["ping"] # "measure" => Silent'
    BY <2>1, SilentStep DEF Enough
  <2>3. QED
    BY <1>1, <2>1, <2>2 DEF Enough
<1>6. QED
  BY <1>3, <1>4, <1>5, PingCounts

\* How main leaves its places: it only prints after run, prints the count
\* after the samples, and does not come back from exit(0).
LEMMA MainMoves ==
    ASSUME TypeOK, [Next]_vars
    PROVE  /\ main["ping"] = "exit0" => main'["ping"] = "exit0"
           /\ main'["ping"] = "print" =>
                main["ping"] = "print"
                \/ (cb'["ping"] = cb["ping"] /\ (OnMain("ping") => cb["ping"] = "idle"))
           /\ main'["ping"] = "print_count" => main["ping"] = "print_count" \/ PrintSamples
           /\ main'["ping"] = "exit0" =>
                \/ main["ping"] = "exit0"
                \/ PrintCount \/ FinishAndExit \/ ~ OnMain("ping")
<1> USE DEF Role
<1>1. main \in [Role -> MainPlaces]
  BY DEF TypeOK
<1>2. CASE \E r \in Role : \/ Construct(r) \/ SetFields(r) \/ ConstructFails(r)
                           \/ Pause(r) \/ TimeOut(r)
  BY <1>1, <1>2 DEF Construct, SetFields, ConstructFails, Pause, TimeOut, Goto, AfterRun, MainOnly
<1>3. CASE FirstSend \/ FirstSendFails \/ Leave \/ PrintSamples \/ PrintCount
  BY <1>1, <1>3 DEF FirstSend, FirstSendFails, Leave, PrintSamples, PrintCount, Goto
<1>4. CASE FinishAndExit \/ FinishThrows
  BY <1>1, <1>4 DEF FinishAndExit, FinishThrows, At, CallbackRuns, Ended
<1>5. CASE \E r \in Role : Loss(r) \/ EndOfSource(r)
  BY <1>1, <1>5 DEF Loss, EndOfSource, SourceEnded, At, CallbackRuns, Ended, AfterRun, OnMain
<1>6. CASE main' = main
  BY <1>6
<1>7. QED
  BY <1>2, <1>3, <1>4, <1>5, <1>6 DEF Next, MainStep, Callback, Receive, Reply, Measure, Join,
     Drop, ReplyRetry, ReplyFails, ReplyWithoutSource, EndUnheard, Return, FirstSendRetry, vars

LEMMA PrintingStep ==
    ASSUME TypeOK, IInv, Counted, Printing, [Next]_vars
    PROVE  Printing'
<1> SUFFICES ASSUME options.eventq["ping"]
             PROVE  /\ main'["ping"] \in {"print", "print_count"} => cb'["ping"] = "idle"
                    /\ main'["ping"] = "print_count" => report'.samples = samples'
                    /\ main'["ping"] = "exit0" => report'.count = Len(report'.samples)
  BY OptionsStay DEF Printing, PrintedTogether
<1> USE DEF OnMain, Role
<1>1. /\ main \in [Role -> MainPlaces]
      /\ cb \in [Role -> {"idle", "measure", "finish", "send"}]
      /\ Len(samples) \in Nat
      /\ report \in [samples : Seq(Nat), count : Nat, median : Nat]
  BY DEF TypeOK
\* On main, ping's callback only runs while main does not print.
<1>2. main["ping"] \in {"print", "print_count"} =>
        cb'["ping"] = cb["ping"] /\ samples' = samples
  <2>1. main["ping"] \in {"print", "print_count"} => ~ CallbackRuns("ping")
    BY DEF CallbackRuns
  <2>2. QED
    BY <2>1, PingCounts DEF Receive, Measure, FinishThrows, Reply, ReplyFails,
                           Sending, At
<1>3. main["ping"] \in {"print", "print_count"} => cb["ping"] = "idle"
  BY DEF Printing
<1>4. main'["ping"] \in {"print", "print_count"} => cb'["ping"] = "idle"
  BY <1>2, <1>3, MainMoves DEF PrintSamples, Goto
<1>5. main'["ping"] = "print_count" => report'.samples = samples'
  <2>1. CASE PrintSamples
    BY <1>1, <2>1 DEF PrintSamples, MainOnly
  <2>2. CASE PrintCount \/ FinishAndExit
    BY <1>1, <2>2 DEF PrintCount, FinishAndExit, Goto
  <2>3. CASE UNCHANGED report
    <3>1. main'["ping"] = "print_count" => main["ping"] = "print_count" \/ PrintSamples
      BY MainMoves
    <3>2. QED
      BY <1>2, <2>1, <2>3, <3>1 DEF Printing
  <2>4. QED
    BY <2>1, <2>2, <2>3, Prints
<1>6. main'["ping"] = "exit0" => report'.count = Len(report'.samples)
  <2>1. CASE PrintSamples
    BY <1>1, <2>1 DEF PrintSamples, Goto
  <2>2. CASE PrintCount
    <3>1. report' = [report EXCEPT !.count = msg_count] /\ main["ping"] = "print_count"
      BY <2>2 DEF PrintCount, Goto
    <3>2. report.samples = samples /\ msg_count = Len(samples)
      BY <1>1, <1>3, <3>1 DEF Printing, Counted
    <3>3. QED
      BY <1>1, <3>1, <3>2
  <2>3. CASE FinishAndExit
    <3>1. report'.samples = samples /\ report'.count = msg_count /\ cb["ping"] = "finish"
      BY <2>3 DEF FinishAndExit, At
    <3>2. QED
      BY <1>1, <3>1 DEF Counted
  <2>4. CASE UNCHANGED report
    BY <2>2, <2>3, <2>4, MainMoves DEF Printing, PrintedTogether
  <2>5. QED
    BY <2>1, <2>2, <2>3, <2>4, Prints
<1>7. QED
  BY <1>4, <1>5, <1>6

-----------------------------------------------------------------------------
(* What is printed are numbers, the median as well.                        *)

AtMost(t) == {i \in DOMAIN samples : samples[i] <= t}
Under(t) == {i \in DOMAIN samples : samples[i] < t}

\* Positions are counted by numbers, and a part of them by a smaller one.
LEMMA PlacesCount ==
    ASSUME TypeOK, NEW T \in SUBSET DOMAIN samples, NEW S \in SUBSET T
    PROVE  /\ Cardinality(S) \in Nat
           /\ Cardinality(T) \in Nat
           /\ Cardinality(S) <= Cardinality(T)
<1>1. DOMAIN samples = 1 .. Len(samples) /\ Len(samples) \in Nat
  BY DEF TypeOK
<1>2. IsFiniteSet(DOMAIN samples)
  BY <1>1, FS_Interval
<1>3. IsFiniteSet(T)
  BY <1>2, FS_Subset
<1>4. IsFiniteSet(S)
  BY <1>3, FS_Subset
<1>5. QED
  BY <1>3, <1>4, FS_Subset, FS_CardinalityType

\* Among any samples there is a longest: pong's retries bound them all.
LEMMA Longest ==
    ASSUME TypeOK, OnlyPongSkews, NEW P \in SUBSET DOMAIN samples, P # {}
    PROVE  \E i \in P : \A j \in P : samples[j] <= samples[i]
<1> DEFINE bound == 1 + retries["pong"]
           gaps == {bound - samples[i] : i \in P}
<1>1. \A i \in P : samples[i] \in Nat /\ samples[i] <= bound
  BY DEF TypeOK, OnlyPongSkews
<1>2. bound \in Nat
  BY DEF TypeOK, Role
<1> HIDE DEF bound
<1>3. gaps \in SUBSET Nat
  BY <1>1, <1>2
<1>4. gaps # {}
  OBVIOUS
<1>5. PICK g \in gaps : \A h \in gaps : g <= h
  <2> HIDE DEF gaps
  <2>1. QED
    BY <1>3, <1>4, Numbers!LeastNumber
<1>6. PICK i \in P : g = bound - samples[i]
  OBVIOUS
<1>7. ASSUME NEW j \in P PROVE samples[j] <= samples[i]
  <2>1. bound - samples[i] <= bound - samples[j]
    BY <1>5, <1>6
  <2>2. QED
    BY <1>1, <1>2, <2>1
<1>8. QED
  BY <1>7

\* Every place of the sorted samples has an entry.  It is the least sample
\* that more than place others do not exceed.
LEMMA SortedIsThere ==
    ASSUME TypeOK, OnlyPongSkews, NEW place \in Nat, place < Len(samples)
    PROVE  /\ Sorted(place) \in Nat
           /\ Cardinality(Under(Sorted(place))) <= place
           /\ Cardinality(AtMost(Sorted(place))) > place
<1> DEFINE values == {samples[i] : i \in DOMAIN samples}
           late == {t \in values : Cardinality(AtMost(t)) > place}
<1>1. DOMAIN samples = 1 .. Len(samples) /\ Len(samples) \in Nat
  BY DEF TypeOK
<1>2. \A i \in DOMAIN samples : samples[i] \in Nat
  BY DEF TypeOK
<1>3. Cardinality(DOMAIN samples) = Len(samples)
  BY <1>1, FS_Interval
<1>4. late # {}
  <2>1. DOMAIN samples # {}
    BY <1>1
  <2>2. PICK i \in DOMAIN samples : \A j \in DOMAIN samples : samples[j] <= samples[i]
    BY <2>1, Longest
  <2>3. AtMost(samples[i]) = DOMAIN samples
    BY <2>2 DEF AtMost
  <2>4. Cardinality(AtMost(samples[i])) > place
    BY <1>3, <2>3
  <2>5. QED
    BY <2>4
<1>5. late \in SUBSET Nat
  BY <1>2
<1>6. PICK s \in late : \A t \in late : s <= t
  <2> HIDE DEF late
  <2>1. QED
    BY <1>4, <1>5, Numbers!LeastNumber
<1>7. Cardinality(Under(s)) <= place
  <2>1. CASE Under(s) = {}
    BY <2>1, FS_EmptySet
  <2>2. CASE Under(s) # {}
    <3>1. PICK i \in Under(s) : \A j \in Under(s) : samples[j] <= samples[i]
      BY <2>2, Longest DEF Under
    <3>2. i \in DOMAIN samples /\ samples[i] < s
      BY DEF Under
    <3>3. samples[i] \notin late
      BY <1>2, <1>5, <1>6, <3>2
    <3>4. Under(s) \subseteq AtMost(samples[i])
      BY <3>1 DEF Under, AtMost
    <3>5. AtMost(samples[i]) \subseteq DOMAIN samples
      BY DEF AtMost
    <3>6. /\ Cardinality(AtMost(samples[i])) \in Nat
          /\ Cardinality(Under(s)) \in Nat
          /\ Cardinality(Under(s)) <= Cardinality(AtMost(samples[i]))
      BY <3>4, <3>5, PlacesCount
    <3>7. ~ (Cardinality(AtMost(samples[i])) > place)
      BY <3>2, <3>3
    <3>8. QED
      BY <3>6, <3>7
  <2>3. QED
    BY <2>1, <2>2
<1>8. \E t \in values : Cardinality(Under(t)) <= place /\ Cardinality(AtMost(t)) > place
  BY <1>6, <1>7
<1>9. /\ Sorted(place) \in values
      /\ Cardinality(Under(Sorted(place))) <= place
      /\ Cardinality(AtMost(Sorted(place))) > place
  BY <1>8 DEF Sorted, Under, AtMost
<1>10. QED
  BY <1>2, <1>9

\* calc_med is a time, wherever rtt_data holds what it reads.
LEMMA MedianType ==
    ASSUME TypeOK, OnlyPongSkews,
           msg_count = Len(samples), msg_count \div 2 + 1 < msg_count
    PROVE  calc_med \in Nat
<1> DEFINE place == msg_count \div 2
           a == Sorted(place)
           b == Sorted(place + 1)
<1>1. msg_count \in Nat /\ place \in Nat /\ place + 1 < Len(samples) /\ place < Len(samples)
  BY DEF TypeOK
<1>2. calc_med = IF msg_count % 2 = 1 THEN b ELSE (a + b) \div 2
  BY DEF calc_med
<1> HIDE DEF place
<1>3. a \in Nat /\ b \in Nat
  BY <1>1, SortedIsThere
<1> HIDE DEF a, b
<1>4. QED
  BY <1>2, <1>3

\* What FinishAndExit prints.
LEMMA FinalReport ==
    ASSUME TypeOK, IInv, Counted, Enough, FinishAndExit
    PROVE  report' \in [samples : Seq(Nat), count : Nat, median : Nat]
<1> DEFINE median == IF options.rtt_collect THEN calc_med ELSE 0
<1>1. /\ report' = [samples |-> samples, count |-> msg_count, median |-> median]
      /\ cb["ping"] = "finish"
      /\ options.rtt_collect => msg_count \div 2 + 1 < options.msgs
  <2>1. msg_count \in Nat /\ options.msgs \in Nat
    BY OptionTypes DEF TypeOK
  <2>2. QED
    BY <2>1 DEF FinishAndExit, MedianThrows, At
<1>2. msg_count = options.msgs /\ msg_count = Len(samples) /\ msg_count \in Nat
      /\ samples \in Seq(Nat)
  BY <1>1 DEF Counted, Enough, TypeOK
<1>3. median \in Nat
  BY <1>1, <1>2, MedianType DEF IInv, StampsBounded
<1> HIDE DEF median
<1>4. QED
  BY <1>1, <1>2, <1>3

-----------------------------------------------------------------------------

LEMMA TypeStep ==
    ASSUME CInv, [Next]_vars
    PROVE  TypeOK'
<1> USE DEF Role
<1>1. TypeOK /\ options' = options
  BY OptionsStay DEF CInv
<1>2. Typed'
  BY NextIInv DEF CInv, IInv
<1>3. /\ rtt_ignore' \in Nat /\ msg_count' \in Nat /\ replies' \in Nat
  <2>1. CASE Receive("ping")
    BY <1>1, <2>1 DEF Receive, TypeOK
  <2>2. CASE Measure \/ FinishThrows
    BY <1>1, <2>2 DEF Measure, FinishThrows, ping_vars, TypeOK
  <2>3. CASE Reply("ping") \/ ReplyFails("ping")
    BY <1>1, <2>3 DEF Reply, ReplyFails, Return, OneLess, TypeOK
  <2>4. CASE UNCHANGED <<rtt_ignore, replies, msg_count, samples>>
    BY <1>1, <2>4 DEF TypeOK
  <2>5. QED
    BY <1>1, <2>1, <2>2, <2>3, <2>4, PingCounts DEF CInv
<1>4. report' \in [samples : Seq(Nat), count : Nat, median : Nat]
  <2>1. CASE PrintSamples \/ PrintCount
    BY <1>1, <2>1 DEF PrintSamples, PrintCount, TypeOK
  <2>2. CASE FinishAndExit
    BY <2>2, FinalReport DEF CInv
  <2>3. CASE UNCHANGED report
    BY <1>1, <2>3 DEF TypeOK
  <2>4. QED
    BY <2>1, <2>2, <2>3, Prints
<1>5. joined' \in [Role -> BOOLEAN] /\ faults' \in 0 .. MaxFaults
  <2>1. faults \in 0 .. MaxFaults /\ MaxFaults \in Nat /\ joined \in [Role -> BOOLEAN]
    BY <1>1, LbmpongAssumption DEF TypeOK
  <2>2. \/ joined' = joined
        \/ \E r \in Role, j \in BOOLEAN : joined' = [joined EXCEPT ![r] = j]
    BY DEF Next, vars, net_vars, MainStep, Callback, Construct, SetFields, Pause,
      TimeOut, FirstSend,
       PrintSamples, PrintCount, Receive, Reply, ReplyWithoutSource, Loss, EndOfSource,
       EndUnheard, Measure, FinishAndExit,
       FinishThrows, Join, Drop, ConstructFails, ReplyRetry, ReplyFails, FirstSendRetry,
       FirstSendFails, Leave, MainOnly, Return
  <2>3. faults' = faults \/ (faults < MaxFaults /\ faults' = faults + 1)
    BY DEF Next, vars, net_vars, MainStep, Callback, Construct, SetFields, Pause,
      TimeOut, FirstSend,
       PrintSamples, PrintCount, Receive, Reply, ReplyWithoutSource, Loss, EndOfSource,
       EndUnheard, Measure, FinishAndExit,
       FinishThrows, Join, Drop, ConstructFails, ReplyRetry, ReplyFails, FirstSendRetry,
       FirstSendFails, Leave, MainOnly, Return, Fault, SleepAndRetry
  <2>4. joined' \in [Role -> BOOLEAN]
    BY <2>1, <2>2
  <2>5. QED
    BY <2>1, <2>3, <2>4
<1>6. QED
  BY <1>1, <1>2, <1>3, <1>4, <1>5 DEF TypeOK, Typed

LEMMA CountedAndPrinted == Spec => []CInv
<1>1. CInv /\ [Next]_vars => CInv'
  <2> SUFFICES ASSUME CInv, [Next]_vars PROVE CInv'
    OBVIOUS
  <2>1. IInv'
    BY NextIInv DEF CInv
  <2>2. TypeOK'
    BY TypeStep
  <2>3. Counted' /\ Enough' /\ Printing'
    BY CountedStep, EnoughStep, PrintingStep DEF CInv
  <2>4. QED
    BY <2>1, <2>2, <2>3 DEF CInv
<1>2. QED
  BY InitCInv, <1>1, PTL DEF Spec

THEOREM TypeCorrect == Spec => []TypeOK
<1>1. CInv => TypeOK
  BY DEF CInv
<1>2. QED
  BY CountedAndPrinted, <1>1, PTL

(***************************************************************************)
(* The replies after the first rtt_ignore, and only they, are counted and  *)
(* measured, and never more than the msgs entries of rtt_data: after the   *)
(* last one no message is left that could bring another, not even when     *)
(* calc_med throws (689, 710, 824).                                        *)
(***************************************************************************)
THEOREM CountsAndMeasures == Spec => []MeasuredExactly
<1>1. CInv => MeasuredExactly
  <2> SUFFICES ASSUME CInv PROVE MeasuredExactly
    OBVIOUS
  <2>1. /\ msg_count \in Nat /\ rtt_ignore \in Nat /\ replies \in Nat
        /\ Len(samples) \in Nat
        /\ options.msgs \in Nat
    BY OptionTypes DEF CInv, TypeOK
  <2>2. Counted /\ Enough
    BY DEF CInv
  <2>3. cb["ping"] # "measure" => msg_count = Len(samples)
    BY <2>1, <2>2 DEF Counted
  <2>4. msg_count = IF replies > options.rtt_ignore THEN replies - options.rtt_ignore ELSE 0
    BY <2>2 DEF Counted, Beyond
  <2>5. Len(samples) <= options.msgs
    BY <2>1, <2>2 DEF Counted, Enough
  <2>6. QED
    BY <2>3, <2>4, <2>5 DEF MeasuredExactly
<1>2. QED
  BY CountedAndPrinted, <1>1, PTL

(***************************************************************************)
(* With an event queue ping prints as many messages as measured times,     *)
(* however the run ends (884-918): onReceive runs on main, which therefore *)
(* never prints in the middle of it.                                       *)
(***************************************************************************)
THEOREM PrintsTogether == Spec => []PrintedTogether
<1>1. CInv => PrintedTogether
  BY DEF CInv, Printing
<1>2. QED
  BY CountedAndPrinted, <1>1, PTL
=============================================================================
