----------------------------- MODULE JitterProofs -----------------------------
(***************************************************************************)
(* For any command lines and any CPUs: the tools run with the options that *)
(* were given and turn nothing away that their help allows, what they      *)
(* accept can be run, um_lat_jitter measures on the CPU it says, and its   *)
(* report is of the loop that ran.                                         *)
(***************************************************************************)
EXTENDS Jitter, IntegerLemmas

-----------------------------------------------------------------------------
(* Options.                                                                *)

Fields == NumberFields \cup
    {"config", "exit_on_eos", "generic_src", "histogram", "app_name", "persist_mode",
     "rcv_thread", "spin_method", "group", "interface", "xml_config", "xml_loaded"}

LEMMA DefaultFields == DOMAIN Defaults = Fields
BY DEF Defaults, Fields, NumberFields

Modes(r) ==
    /\ r.persist_mode \in {"STREAMING", "RPP", "SPP"}
    /\ r.rcv_thread \in {"MAIN_CTX", "XSP"}
    /\ r.spin_method \in {"NO_SPIN", "FD_MGT_BUSY"}

\* The o_ variables at any moment.
Good(r) ==
    /\ DOMAIN r = Fields
    /\ \A f \in NumberFields : r[f] \in Int32
    /\ Modes(r)
    /\ r.warmup_loops > 0 => r.warmup_rate > 0

LEMMA DefaultsGood == Good(Defaults)
<1>1. -1 \in Int32 /\ 0 \in Int32 /\ 1000 \in Int32
  <2>1. 1000 \in Int32
    BY OptionsAssumption
  <2>2. QED
    BY <2>1, CIntegerAssumption DEF Int32
<1>2. \A f \in NumberFields : Defaults[f] \in Int32
  <2>1. /\ Defaults.affinity_src \in Int32 /\ Defaults.affinity_rcv \in Int32
        /\ Defaults.affinity_cpu \in Int32
    BY <1>1 DEF Defaults
  <2>2. /\ Defaults.linger_ms \in Int32 /\ Defaults.msg_len \in Int32
        /\ Defaults.num_msgs \in Int32 /\ Defaults.rate \in Int32
    BY <1>1 DEF Defaults
  <2>3. /\ Defaults.hist_num_buckets \in Int32 /\ Defaults.hist_ns_per_bucket \in Int32
        /\ Defaults.warmup_loops \in Int32 /\ Defaults.warmup_rate \in Int32
    BY <1>1 DEF Defaults
  <2>4. QED
    BY <2>1, <2>2, <2>3 DEF NumberFields
<1>3. QED
  BY <1>2, DefaultFields DEF Good, Modes, Defaults

\* An option that is no number.
LEMMA OtherField ==
    ASSUME NEW r, Good(r), NEW v,
           NEW f \in {"config", "exit_on_eos", "generic_src", "histogram", "app_name",
                      "group", "interface", "xml_config", "xml_loaded"}
    PROVE  Good([r EXCEPT ![f] = v])
BY DEF Good, Modes, Fields, NumberFields

\* A number, of a field without a condition.
LEMMA NumberGood ==
    ASSUME NEW r, Good(r), NEW v \in Int32,
           NEW f \in NumberFields \ {"warmup_loops", "warmup_rate"}
    PROVE  Good([r EXCEPT ![f] = v])
BY DEF Good, Modes, Fields, NumberFields

LEMMA AtoiType == ASSUME NEW text, AtoiOk(text) PROVE Numbers[text] \in Int32
BY DEF AtoiOk

LEMMA PairType ==
    ASSUME NEW text, PairOk(text)
    PROVE  First(text) \in Int32 /\ Second(text) \in Int32
BY AtoiType DEF PairOk, First, Second

LEMMA NumberFieldType ==
    ASSUME NEW p \in Programs, NEW opt \in DOMAIN NumberField[p]
    PROVE  NumberField[p][opt] \in NumberFields \ {"warmup_loops", "warmup_rate"}
<1>1. CASE p = "ping"
  BY <1>1 DEF NumberField, NumberFields
<1>2. CASE p = "pong"
  BY <1>2 DEF NumberField, NumberFields
<1>3. CASE p = "jitter"
  BY <1>3 DEF NumberField, NumberFields
<1>4. QED
  BY <1>1, <1>2, <1>3 DEF Programs

Statuses == {"parsing", "main", "exit0", "exit1", "segv"}

\* An option leaves the o_ variables good and the program parsing, or stops it.
Continues == Good(o') /\ status' \in Statuses \ {"main"}

LEMMA SetNumberGood ==
    ASSUME Good(o), status = "parsing", program \in Programs, NEW arg,
           NEW opt \in DOMAIN NumberField[program], SetNumber(opt, arg)
    PROVE  Continues
<1>1. CASE AtoiOk(arg)
  <2>1. Good([o EXCEPT ![NumberField[program][opt]] = Numbers[arg]])
    BY <1>1, AtoiType, NumberFieldType, NumberGood
  <2>2. QED
    BY <1>1, <2>1 DEF SetNumber, SetIf, Set, Continues, Statuses
<1>2. CASE ~AtoiOk(arg)
  BY <1>2 DEF SetNumber, SetIf, Stop, Continues, Statuses
<1>3. QED
  BY <1>1, <1>2

LEMMA LoadConfigGood ==
    ASSUME Good(o), status = "parsing", NEW arg, LoadConfig(arg) PROVE Continues
<1>1. Good([o EXCEPT !.config = Append(@, arg)])
  BY OtherField
<1>2. QED
  BY <1>1 DEF LoadConfig, SetIf, Set, Stop, Continues, Statuses

LEMMA SetXmlGood ==
    ASSUME Good(o), status = "parsing", NEW arg, SetXml(arg) PROVE Continues
<1>1. Good([o EXCEPT !.xml_config = arg])
  BY OtherField
<1>2. QED
  BY <1>1 DEF SetXml, Set, Continues, Statuses

LEMMA ModesGood ==
    ASSUME NEW r, Good(r), NEW mode \in {"STREAMING", "RPP", "SPP"}, NEW app,
           NEW thread \in {"MAIN_CTX", "XSP"}, NEW spin \in {"NO_SPIN", "FD_MGT_BUSY"}
    PROVE  /\ Good([r EXCEPT !.persist_mode = mode, !.app_name = app])
           /\ Good([r EXCEPT !.persist_mode = mode, !.app_name = app,
                             !.rcv_thread = thread])
           /\ Good([r EXCEPT !.rcv_thread = thread])
           /\ Good([r EXCEPT !.spin_method = spin])
BY DEF Good, Modes, Fields, NumberFields

LEMMA ModeValues ==
    ASSUME NEW text
    PROVE  /\ PersistMode(text) \in {"STREAMING", "RPP", "SPP", "unknown"}
           /\ RcvThread(text) \in {"MAIN_CTX", "XSP", "unknown"}
           /\ SpinMethod(text) \in {"NO_SPIN", "FD_MGT_BUSY", "unknown"}
BY DEF PersistMode, RcvThread, SpinMethod

LEMMA SetModesGood ==
    ASSUME Good(o), status = "parsing", NEW arg,
           SetPersist(arg) \/ PongPersist(arg) \/ SetRcvThread(arg) \/ SetSpin(arg)
    PROVE  Continues
<1> DEFINE mode == PersistMode(arg)
           thread == RcvThread(arg)
           spin == SpinMethod(arg)
<1>1. CASE Stop("exit1")
  BY <1>1 DEF Stop, Continues, Statuses
<1>2. CASE mode # "unknown"
             /\ Set([o EXCEPT !.persist_mode = mode, !.app_name = AppName(mode)])
  <2>1. Good([o EXCEPT !.persist_mode = mode, !.app_name = AppName(mode)])
    BY <1>2, ModeValues, ModesGood
  <2>2. QED
    BY <1>2, <2>1 DEF Set, Continues, Statuses
<1>3. CASE mode # "unknown" /\ thread # "unknown"
             /\ Set([o EXCEPT !.persist_mode = mode, !.app_name = AppName(mode),
                              !.rcv_thread = thread])
  <2>1. Good([o EXCEPT !.persist_mode = mode, !.app_name = AppName(mode),
                       !.rcv_thread = thread])
    BY <1>3, ModeValues, ModesGood
  <2>2. QED
    BY <1>3, <2>1 DEF Set, Continues, Statuses
<1>4. CASE thread # "unknown" /\ Set([o EXCEPT !.rcv_thread = thread])
  <2>1. Good([o EXCEPT !.rcv_thread = thread])
    BY <1>4, ModeValues, ModesGood
  <2>2. QED
    BY <1>4, <2>1 DEF Set, Continues, Statuses
<1>5. CASE spin # "unknown" /\ Set([o EXCEPT !.spin_method = spin])
  <2>1. Good([o EXCEPT !.spin_method = spin])
    BY <1>5, ModeValues, ModesGood
  <2>2. QED
    BY <1>5, <2>1 DEF Set, Continues, Statuses
<1>6. QED
  BY <1>1, <1>2, <1>3, <1>4, <1>5 DEF SetPersist, PongPersist, SetRcvThread, SetSpin, SetIf

\* The two numbers of -H and, with its condition, of -w.
LEMMA PairGood ==
    ASSUME NEW r, Good(r), NEW a \in Int32, NEW b \in Int32
    PROVE  /\ Good([r EXCEPT !.hist_num_buckets = a, !.hist_ns_per_bucket = b])
           /\ (a > 0 => b > 0) => Good([r EXCEPT !.warmup_loops = a, !.warmup_rate = b])
BY DEF Good, Modes, Fields, NumberFields

LEMMA SetPairGood ==
    ASSUME Good(o), status = "parsing", NEW arg, PingHistogram(arg) \/ PingWarmup(arg)
    PROVE  Continues
<1>1. CASE \E how \in {"exit1", "segv"} : Stop(how)
  BY <1>1 DEF Stop, Continues, Statuses
<1>2. CASE PairOk(arg) /\ Set([o EXCEPT !.hist_num_buckets = First(arg),
                                      !.hist_ns_per_bucket = Second(arg)])
  <2>1. Good([o EXCEPT !.hist_num_buckets = First(arg), !.hist_ns_per_bucket = Second(arg)])
    BY <1>2, PairType, PairGood
  <2>2. QED
    BY <1>2, <2>1 DEF Set, Continues, Statuses
<1>3. CASE /\ PairOk(arg) /\ (First(arg) > 0 => Second(arg) > 0)
           /\ Set([o EXCEPT !.warmup_loops = First(arg), !.warmup_rate = Second(arg)])
  <2>1. Good([o EXCEPT !.warmup_loops = First(arg), !.warmup_rate = Second(arg)])
    BY <1>3, PairType, PairGood
  <2>2. QED
    BY <1>3, <2>1 DEF Set, Continues, Statuses
<1>4. QED
  BY <1>1, <1>2, <1>3 DEF PingHistogram, PingWarmup, SetIf

LEMMA StopGood ==
    ASSUME Good(o), NEW how \in Statuses \ {"main"}, Stop(how) PROVE Continues
BY DEF Stop, Continues

LEMMA SetOtherGood ==
    ASSUME Good(o), status = "parsing", NEW v,
           NEW f \in {"exit_on_eos", "generic_src", "histogram", "group", "interface"},
           Set([o EXCEPT ![f] = v])
    PROVE  Continues
BY OtherField DEF Set, Continues, Statuses

LEMMA CasesGood ==
    ASSUME Good(o), status = "parsing", program \in Programs, NEW opt, NEW arg,
           \/ program = "ping" /\ PingCase(opt, arg)
           \/ program = "pong" /\ PongCase(opt, arg)
           \/ program = "jitter" /\ JitterCase(opt, arg)
    PROVE  Continues
<1>1. \/ \E how \in {"exit0", "exit1"} : Stop(how)
      \/ opt \in DOMAIN NumberField[program] /\ SetNumber(opt, arg)
      \/ LoadConfig(arg) \/ SetXml(arg)
      \/ SetPersist(arg) \/ PongPersist(arg) \/ SetRcvThread(arg) \/ SetSpin(arg)
      \/ PingHistogram(arg) \/ PingWarmup(arg)
      \/ Set([o EXCEPT !.exit_on_eos = 1]) \/ Set([o EXCEPT !.generic_src = 1])
      \/ Set([o EXCEPT !.group = arg]) \/ Set([o EXCEPT !.histogram = arg])
      \/ Set([o EXCEPT !.interface = arg])
  <2>1. CASE program = "ping" /\ PingCase(opt, arg)
    BY <2>1 DEF PingCase, NumberField
  <2>2. CASE program = "pong" /\ PongCase(opt, arg)
    BY <2>2 DEF PongCase, NumberField
  <2>3. CASE program = "jitter" /\ JitterCase(opt, arg)
    BY <2>3 DEF JitterCase, NumberField
  <2>4. QED
    BY <2>1, <2>2, <2>3
<1>2. QED
  BY <1>1, StopGood, SetNumberGood, LoadConfigGood, SetXmlGood, SetModesGood, SetPairGood,
     SetOtherGood DEF Statuses

OptInv ==
    /\ line \in CommandLines
    /\ optind \in Nat \ {0}
    /\ status \in Statuses
    /\ Good(o)
    /\ AcceptedRuns

LEMMA Unfinished ==
    ASSUME program' = program, Good(o'), status' \in Statuses \ {"main"}
    PROVE  AcceptedRuns'
BY DEF AcceptedRuns

LEMMA ChecksGood ==
    ASSUME Good(o), status = "parsing", program \in Programs, UNCHANGED line, NEW used,
           \/ program = "ping" /\ PingChecks(used)
           \/ program = "pong" /\ PongChecks(used)
           \/ program = "jitter" /\ JitterChecks(used)
    PROVE  Good(o') /\ status' \in Statuses /\ AcceptedRuns'
<1>0. program' = program
  BY DEF program
<1>1. CASE Stop("exit1")
  <2>1. Good(o') /\ status' \in Statuses \ {"main"}
    BY <1>1 DEF Stop, Statuses
  <2>2. QED
    BY <1>0, <2>1, Unfinished
<1>2. CASE program = "ping" /\ PingChecks(used) /\ ~Stop("exit1")
  <2>1. /\ o' = [o EXCEPT !.xml_loaded = @ \o XmlLoaded] /\ status' = "main"
        /\ o.rate > 0 /\ o.num_msgs > 0 /\ AsWord(o.msg_len) >= SizeofPerfMsg
        /\ o.hist_num_buckets > 0 /\ o.hist_ns_per_bucket > 0
    BY <1>2 DEF PingChecks, Start
  <2>2. Good(o')
    BY <2>1, OtherField
  <2>3. o.msg_len \in Int32 /\ (o.msg_len >= SizeofPerfMsg \/ o.msg_len < 0)
    <3>1. o.msg_len \in Int32
      BY DEF Good, NumberFields
    <3>2. o.msg_len \in Int
      BY <3>1, CIntegerAssumption DEF Int32
    <3>3. QED
      BY <2>1, <3>1, <3>2 DEF AsWord
  <2>4. /\ o'.rate = o.rate /\ o'.num_msgs = o.num_msgs /\ o'.msg_len = o.msg_len
        /\ o'.hist_num_buckets = o.hist_num_buckets
        /\ o'.hist_ns_per_bucket = o.hist_ns_per_bucket
    BY <2>1 DEF Good, Fields, NumberFields
  <2>5. AcceptedRuns'
    BY <1>0, <1>2, <2>1, <2>2, <2>3, <2>4 DEF AcceptedRuns, Good
  <2>6. QED
    BY <2>1, <2>2, <2>5 DEF Statuses
<1>3. CASE program = "pong" /\ PongChecks(used) /\ ~Stop("exit1")
  <2>1. o' = [o EXCEPT !.xml_loaded = @ \o XmlLoaded] /\ status' = "main"
    BY <1>3 DEF PongChecks, Start
  <2>2. Good(o')
    BY <2>1, OtherField
  <2>3. QED
    BY <1>0, <1>3, <2>1, <2>2 DEF AcceptedRuns, Statuses
<1>4. CASE program = "jitter" /\ JitterChecks(used) /\ ~Stop("exit1")
  <2> DEFINE a == First(o.histogram)
             b == Second(o.histogram)
  <2>1. /\ o' = [o EXCEPT !.hist_num_buckets = a, !.hist_ns_per_bucket = b]
        /\ status' = "main" /\ PairOk(o.histogram) /\ a > 0 /\ b > 0
    BY <1>4 DEF JitterChecks, Start
  <2>2. Good(o')
    BY <2>1, PairType, PairGood
  <2>3. o'.hist_num_buckets = a /\ o'.hist_ns_per_bucket = b
    BY <2>1 DEF Good, Fields, NumberFields
  <2>4. QED
    BY <1>0, <1>4, <2>1, <2>2, <2>3 DEF AcceptedRuns, Statuses
<1>5. QED
  BY <1>1, <1>2, <1>3, <1>4

LEMMA GetoptIndex ==
    ASSUME NEW words, NEW i \in Nat \ {0}, NEW optstring
    PROVE  cprt_getopt(words, i, optstring).optind \in Nat \ {0}
<1>1. Valued(words, i).optind \in {i + 1, i + 2}
  BY Zenon DEF Valued, Found
<1>2. Flag(words, i).optind \in {i, i + 1}
  BY Zenon DEF Flag, Found
<1>3. \/ cprt_getopt(words, i, optstring) = Found("EOF", "", i)
      \/ cprt_getopt(words, i, optstring) = Found("?", "", i)
      \/ cprt_getopt(words, i, optstring) = Marked(i)
      \/ cprt_getopt(words, i, optstring) = Valued(words, i)
      \/ cprt_getopt(words, i, optstring) = Flag(words, i)
  BY DEF cprt_getopt
<1>4. Found("EOF", "", i).optind = i /\ Found("?", "", i).optind = i
      /\ Marked(i).optind = i + 1
  BY Zenon DEF Found, Marked
<1>5. cprt_getopt(words, i, optstring).optind \in {i, i + 1, i + 2}
  BY <1>1, <1>2, <1>3, <1>4, Zenon
<1>6. QED
  BY <1>5

LEMMA LineType == line \in CommandLines => program \in Programs
BY OptionsAssumption DEF CommandLine, program

LEMMA OptionInv == OptInv /\ NextOption => OptInv'
<1> SUFFICES ASSUME OptInv, NextOption PROVE OptInv'
  OBVIOUS
<1> DEFINE next == cprt_getopt(argv, optind, OptString[program])
<1>1. /\ Good(o) /\ status = "parsing" /\ program \in Programs /\ UNCHANGED line
      /\ optind' = next.optind
  BY LineType DEF OptInv, NextOption
<1>2. optind' \in Nat \ {0}
  BY <1>1, GetoptIndex DEF OptInv
<1>3. Good(o') /\ status' \in Statuses /\ AcceptedRuns'
  <2>1. CASE \/ program = "ping" /\ PingChecks(next.optind)
             \/ program = "pong" /\ PongChecks(next.optind)
             \/ program = "jitter" /\ JitterChecks(next.optind)
    BY <1>1, <2>1, ChecksGood
  <2>2. CASE \/ program = "ping" /\ PingCase(next.opt, next.arg)
             \/ program = "pong" /\ PongCase(next.opt, next.arg)
             \/ program = "jitter" /\ JitterCase(next.opt, next.arg)
    <3>1. Continues
      BY <1>1, <2>2, CasesGood
    <3>2. program' = program
      BY <1>1 DEF program
    <3>3. QED
      BY <3>1, <3>2, Unfinished DEF Continues
  <2>3. QED
    BY <2>1, <2>2 DEF NextOption
<1>4. QED
  BY <1>1, <1>2, <1>3 DEF OptInv

LEMMA InitOptInv == OptionsInit => OptInv
BY DefaultsGood DEF OptionsInit, OptInv, AcceptedRuns, Statuses

LEMMA StutterOptInv == OptInv /\ UNCHANGED option_vars => OptInv'
BY DEF OptInv, option_vars, AcceptedRuns, program

-----------------------------------------------------------------------------
(* main and jitter_loop.                                                   *)

\* main goes on only after the options, and they stay what they are.
Main == pc # "options" => program = "jitter" /\ status = "main"

LEMMA OptionsFirst == OptInv /\ Main /\ [Next]_vars => OptInv' /\ Main'
<1> SUFFICES ASSUME OptInv, Main, [Next]_vars PROVE OptInv' /\ Main'
  OBVIOUS
<1>1. CASE ReadOption
  <2>1. pc = "options" /\ pc' = pc
    BY <1>1 DEF ReadOption, NextOption, Main, jitter_vars
  <2>2. QED
    BY <1>1, <2>1, OptionInv DEF ReadOption, Main
<1>2. CASE InMain
  BY <1>2, StutterOptInv DEF InMain, Main, option_vars, program
<1>3. CASE UNCHANGED vars
  BY <1>3, StutterOptInv DEF vars, jitter_vars, Main, option_vars, program
<1>4. QED
  BY <1>1, <1>2, <1>3
  DEF Next, Begin, TryCpu, SockTurn, SendFails, Compare, Pin, StampTurn, Report

\* Whatever the command line, main only goes on with options that it can
\* run with (um_lat_ping.c:221-226, um_lat_jitter.c:91-120).
THEOREM OptionsAccepted == Spec => []AcceptedRuns
<1>1. Init => OptInv /\ Main
  BY InitOptInv DEF Init, Main
<1>2. QED
  BY <1>1, OptionsFirst, PTL DEF Spec, OptInv

-----------------------------------------------------------------------------
(* What the options of a command line are.                                 *)

\* What an option more changes.
LEMMA PlacesAppend ==
    ASSUME NEW given \in Seq(Option), NEW option \in Option, NEW opt
    PROVE  /\ Places(Append(given, option), opt) =
                Places(given, opt) \cup (IF option.opt = opt THEN {Len(given) + 1} ELSE {})
           /\ Places(given, opt) \subseteq 1 .. Len(given)
BY DEF Places

LEMMA GreatestPlace ==
    ASSUME NEW given \in Seq(Option), NEW opt, Places(given, opt) # {}
    PROVE  /\ Greatest(Places(given, opt)) \in Places(given, opt)
           /\ \A j \in Places(given, opt) : j <= Greatest(Places(given, opt))
<1> DEFINE places == Places(given, opt)
<1>1. places \subseteq 0 .. Len(given) /\ places \in SUBSET Nat
  BY DEF Places
<1>2. \E i \in places : \A j \in places : j <= i
  <2>1. \E bound \in Nat : places \subseteq 0 .. bound
    BY <1>1
  <2>2. QED
    BY <1>1, <2>1, GreatestNumber
<1>3. QED
  BY <1>2, Zenon DEF Greatest

LEMMA LastAppend ==
    ASSUME NEW given \in Seq(Option), NEW option \in Option, NEW opt, NEW default
    PROVE  LastGiven(Append(given, option), opt, default) =
             IF option.opt = opt THEN option.arg ELSE LastGiven(given, opt, default)
<1> DEFINE more == Append(given, option)
<1>0. more \in Seq(Option) /\ Len(more) = Len(given) + 1 /\ more[Len(given) + 1] = option
      /\ \A i \in 1 .. Len(given) : more[i] = given[i]
  OBVIOUS
<1>8. more = Append(given, option)
  OBVIOUS
<1>9. /\ Places(more, opt) =
           Places(given, opt) \cup (IF option.opt = opt THEN {Len(given) + 1} ELSE {})
      /\ Places(given, opt) \subseteq 1 .. Len(given) /\ Len(given) \in Nat
  BY PlacesAppend
<1> HIDE DEF more
<1>1. CASE option.opt = opt
  <2>1. Places(more, opt) = Places(given, opt) \cup {Len(given) + 1}
        /\ Places(given, opt) \subseteq 1 .. Len(given)
    BY <1>1, <1>9
  <2>2. Greatest(Places(more, opt)) = Len(given) + 1
    <3>1. /\ Greatest(Places(more, opt)) \in Places(more, opt)
          /\ \A j \in Places(more, opt) : j <= Greatest(Places(more, opt))
      BY <1>0, <2>1, GreatestPlace
    <3>2. Len(given) \in Nat
      BY <1>9
    <3>3. Len(given) + 1 <= Greatest(Places(more, opt))
      BY <2>1, <3>1, Zenon
    <3>4. Greatest(Places(more, opt)) \in 1 .. Len(given) + 1
      BY <2>1, <3>1, <3>2
    <3>5. QED
      BY <3>2, <3>3, <3>4
  <2>3. QED
    BY <1>0, <1>1, <1>8, <2>1, <2>2 DEF LastGiven
<1>2. CASE option.opt # opt
  <2>1. Places(more, opt) = Places(given, opt)
        /\ Places(given, opt) \subseteq 1 .. Len(given)
    BY <1>2, <1>9
  <2>2. CASE Places(given, opt) = {}
    BY <1>2, <1>8, <2>1, <2>2 DEF LastGiven
  <2>3. CASE Places(given, opt) # {}
    <3>1. Greatest(Places(given, opt)) \in 1 .. Len(given)
      BY <2>1, <2>3, GreatestPlace
    <3>2. more[Greatest(Places(more, opt))] = given[Greatest(Places(given, opt))]
      BY <1>0, <2>1, <3>1
    <3>3. QED
      BY <1>2, <1>8, <2>1, <2>3, <3>2 DEF LastGiven
  <2>4. QED
    BY <2>2, <2>3
<1>3. QED
  BY <1>1, <1>2

LEMMA AllAppend ==
    ASSUME NEW given \in Seq(Option), NEW option \in Option, NEW opt,
           NEW values \in Seq(STRING), AllGiven(given, opt, values)
    PROVE  AllGiven(Append(given, option), opt,
                    IF option.opt = opt THEN Append(values, option.arg) ELSE values)
<1> DEFINE more == Append(given, option)
           places == Places(given, opt)
           UpTo(set, i) == {j \in set : j <= i}
<1>0. more \in Seq(Option) /\ Len(more) = Len(given) + 1 /\ more[Len(given) + 1] = option
      /\ \A i \in 1 .. Len(given) : more[i] = given[i]
  OBVIOUS
<1>1. places \subseteq 1 .. Len(given) /\ Len(given) \in Nat
  BY PlacesAppend
<1>8. more = Append(given, option)
  OBVIOUS
<1>9. Places(more, opt) = places \cup (IF option.opt = opt THEN {Len(given) + 1} ELSE {})
  BY PlacesAppend
<1> HIDE DEF more
<1>2. IsFiniteSet(places)
  <2>1. IsFiniteSet(1 .. Len(given))
    BY <1>1, FS_Interval
  <2>2. QED
    BY <1>1, <2>1, FS_Subset
<1>3. CASE option.opt = opt
  <2> DEFINE new == Len(given) + 1
  <2>1. Places(more, opt) = places \cup {new}
    BY <1>3, <1>9
  <2>2. Cardinality(Places(more, opt)) = Len(values) + 1
    <3>1. new \notin places
      BY <1>1
    <3>2. Cardinality(places \cup {new}) = Cardinality(places) + 1
      BY <1>2, <3>1, FS_AddElement
    <3>3. QED
      BY <2>1, <3>2 DEF AllGiven
  <2>3. /\ Append(values, option.arg) \in Seq(STRING)
        /\ Len(Append(values, option.arg)) = Len(values) + 1
        /\ Append(values, option.arg)[Len(values) + 1] = option.arg
        /\ \A i \in 1 .. Len(values) : Append(values, option.arg)[i] = values[i]
    BY DEF Option
  <2>4. ASSUME NEW i \in Places(more, opt)
        PROVE  Append(values, option.arg)[Cardinality(UpTo(Places(more, opt), i))] = more[i].arg
    <3>1. CASE i = new
      <4>1. UpTo(Places(more, opt), i) = Places(more, opt)
        BY <1>1, <2>1, <3>1
      <4>2. QED
        BY <1>0, <2>2, <2>3, <3>1, <4>1
    <3>2. CASE i \in places
      <4>1. UpTo(Places(more, opt), i) = UpTo(places, i)
        BY <1>1, <2>1, <3>2
      <4>2. UpTo(places, i) \subseteq places /\ i \in UpTo(places, i)
        BY <1>1, <3>2
      <4>3. Cardinality(UpTo(places, i)) \in 1 .. Len(values)
        <5>1. IsFiniteSet(UpTo(places, i)) /\ Cardinality(UpTo(places, i)) <= Cardinality(places)
          BY <1>2, <4>2, FS_Subset
        <5>2. Cardinality(UpTo(places, i)) \in Nat /\ Cardinality(UpTo(places, i)) # 0
          BY <4>2, <5>1, FS_CardinalityType, FS_EmptySet
        <5>3. QED
          BY <5>1, <5>2 DEF AllGiven
      <4>4. values[Cardinality(UpTo(places, i))] = given[i].arg
        BY <3>2 DEF AllGiven
      <4>5. QED
        BY <1>0, <1>1, <2>3, <3>2, <4>1, <4>3, <4>4
    <3>3. QED
      BY <2>1, <3>1, <3>2
  <2>5. QED
    BY <1>3, <1>8, <2>2, <2>3, <2>4 DEF AllGiven
<1>4. CASE option.opt # opt
  <2>1. Places(more, opt) = places
    BY <1>4, <1>9
  <2>2. QED
    BY <1>0, <1>1, <1>4, <1>8, <2>1 DEF AllGiven
<1>5. QED
  BY <1>3, <1>4

\* cprt_getopt finds an option as it is written.
LEMMA LettersType ==
    ASSUME NEW p \in Programs
    PROVE  /\ OptString[p].flags \cap OptString[p].valued = {}
           /\ "" \notin OptString[p].flags \cup OptString[p].valued
           /\ "-" \notin OptString[p].flags \cup OptString[p].valued
           /\ "?" \notin OptString[p].flags \cup OptString[p].valued
           /\ "EOF" \notin OptString[p].flags \cup OptString[p].valued
<1>1. CASE p = "ping"
  BY <1>1 DEF OptString
<1>2. CASE p = "pong"
  BY <1>2 DEF OptString
<1>3. CASE p = "jitter"
  BY <1>3 DEF OptString
<1>4. QED
  BY <1>1, <1>2, <1>3 DEF Programs

LEMMA EndMarkFields == EndMark.chr = "-" /\ EndMark.rest = ""
BY DEF EndMark

\* The cases of cprt_getopt, before the last word.
LEMMA GetoptCases ==
    ASSUME NEW words, NEW i, NEW letters, ~ (i > Len(words)),
           NEW found, found = cprt_getopt(words, i, letters),
           letters.flags \cap letters.valued = {},
           "-" \notin letters.flags \cup letters.valued,
           "" \notin letters.flags \cup letters.valued
    PROVE  /\ words[i].chr = "" => found = Found("EOF", "", i)
           /\ words[i] = EndMark => found = Marked(i)
           /\ words[i].chr \in letters.flags => found = Flag(words, i)
           /\ words[i].chr \in letters.valued => found = Valued(words, i)
           /\ words[i].chr \notin letters.flags \cup letters.valued
                /\ words[i].chr # "" /\ words[i] # EndMark => found = Found("?", "", i)
<1> DEFINE word == words[i]
<1>1. word = EndMark => word.chr = "-"
  BY EndMarkFields
<1>2. "-" # ""
  OBVIOUS
<1>3. word.chr = "" => found = Found("EOF", "", i)
  BY <1>1, <1>2, Zenon DEF cprt_getopt
<1>4. word = EndMark => found = Marked(i)
  BY <1>1, <1>2, Zenon DEF cprt_getopt
<1>5. word.chr \in letters.flags => found = Flag(words, i)
  <2>1. SUFFICES ASSUME word.chr \in letters.flags PROVE found = Flag(words, i)
    OBVIOUS
  <2>2. word.chr # "" /\ word # EndMark /\ word.chr \notin letters.valued
    BY <1>1, <2>1, Zenon
  <2>3. QED
    BY <2>1, <2>2, Zenon DEF cprt_getopt
<1>6. word.chr \in letters.valued => found = Valued(words, i)
  <2>1. SUFFICES ASSUME word.chr \in letters.valued PROVE found = Valued(words, i)
    OBVIOUS
  <2>2. word.chr # "" /\ word # EndMark
    BY <1>1, <2>1, Zenon
  <2>3. QED
    BY <2>1, <2>2, Zenon DEF cprt_getopt
<1>7. word.chr \notin letters.flags \cup letters.valued /\ word.chr # "" /\ word # EndMark
        => found = Found("?", "", i)
  <2>1. SUFFICES ASSUME word.chr \notin letters.flags \cup letters.valued,
                        word.chr # "", word # EndMark
                 PROVE  found = Found("?", "", i)
    OBVIOUS
  <2>2. word.chr \notin letters.flags /\ word.chr \notin letters.valued
    BY <2>1, Zenon
  <2>3. QED
    BY <2>1, <2>2, Zenon DEF cprt_getopt
<1>8. QED
  BY <1>3, <1>4, <1>5, <1>6, <1>7, Zenon

LEMMA FoundFields ==
    ASSUME NEW found, NEW i
    PROVE  /\ \A opt, arg : found = Found(opt, arg, i) =>
                found.opt = opt /\ found.arg = arg /\ found.optind = i
           /\ found = Marked(i) => found.opt = "EOF" /\ found.optind = i + 1
<1>1. ASSUME NEW opt, NEW arg, found = Found(opt, arg, i)
      PROVE  found.opt = opt /\ found.arg = arg /\ found.optind = i
  BY <1>1 DEF Found
<1>2. ASSUME found = Marked(i) PROVE found.opt = "EOF" /\ found.optind = i + 1
  BY <1>2 DEF Found, Marked
<1>3. QED
  BY <1>1, <1>2, Zenon

LEMMA GetoptReads ==
    ASSUME NEW p \in Programs, NEW words \in Seq(ArgvWord), NEW i, NEW next, NEW option,
           SpelledOut(option, OptString[p], words, i, next)
    PROVE  cprt_getopt(words, i, OptString[p]) = Found(option.opt, option.arg, next)
<1> DEFINE letters == OptString[p]
           word == words[i]
           found == cprt_getopt(words, i, letters)
<1>1. i \in DOMAIN words
  BY DEF SpelledOut
<1>2. i \in 1 .. Len(words) /\ Len(words) \in Nat
  BY <1>1
<1>3. word.chr = option.opt /\ ~ (i > Len(words))
  <2>1. word.chr = option.opt
    BY Zenon DEF SpelledOut
  <2>2. QED
    BY <1>2, <2>1
<1>4. /\ word.chr \in letters.flags => found = Flag(words, i)
      /\ word.chr \in letters.valued => found = Valued(words, i)
  BY <1>3, LettersType, GetoptCases, Zenon
<1>5. CASE option.opt \in letters.flags
  <2>1. word.rest = "" /\ option.arg = "" /\ next = i + 1
    BY <1>5, LettersType, Zenon DEF SpelledOut
  <2>2. Flag(words, i) = Found(word.chr, "", i + 1)
    BY <2>1, Zenon DEF Flag
  <2>3. QED
    BY <1>3, <1>4, <1>5, <2>1, <2>2, Zenon
<1>6. CASE /\ option.opt \in letters.valued
           /\ word.rest = option.arg /\ option.arg # "" /\ next = i + 1
  <2>1. Valued(words, i) = Found(word.chr, word.rest, i + 1)
    BY <1>6, Zenon DEF Valued
  <2>2. QED
    BY <1>3, <1>4, <1>6, <2>1, Zenon
<1>7. CASE /\ option.opt \in letters.valued
           /\ word.rest = "" /\ i + 1 \in DOMAIN words
           /\ option.arg = TextOf(words[i + 1]) /\ next = i + 2
  <2>1. ~ (i + 1 > Len(words))
    <3>1. i + 1 \in DOMAIN words
      BY <1>7, Zenon
    <3>2. DOMAIN words = 1 .. Len(words)
      OBVIOUS
    <3>3. i + 1 \in 1 .. Len(words)
      BY <3>1, <3>2, Zenon
    <3>4. QED
      BY <1>2, <3>3
  <2>2. Valued(words, i) = Found(word.chr, TextOf(words[i + 1]), i + 2)
    BY <1>7, <2>1, Zenon DEF Valued
  <2>3. QED
    BY <1>3, <1>4, <1>7, <2>2, Zenon
<1>8. QED
  BY <1>5, <1>6, <1>7, Zenon DEF SpelledOut

LEMMA GetoptEnds ==
    ASSUME NEW p \in Programs, NEW words \in Seq(ArgvWord), NEW i \in Nat \ {0},
           NoOption(OptString[p], words, i),
           NEW found, found = cprt_getopt(words, i, OptString[p])
    PROVE  \/ found.opt = "?" /\ i <= Len(words) /\ words[i] # EndMark
           \/ /\ found.opt = "EOF"
              /\ found.optind > Len(words) <=>
                   \/ i > Len(words)
                   \/ i = Len(words) /\ words[i] = EndMark
<1> DEFINE letters == OptString[p]
           word == words[i]
<1>0. /\ Len(words) \in Nat /\ (i <= Len(words) => i \in DOMAIN words)
      /\ i <= Len(words) => ~ (i > Len(words))
      /\ i = Len(words) => i + 1 > Len(words)
      /\ i + 1 > Len(words) <=> i >= Len(words)
      /\ i <= Len(words) => (i >= Len(words) <=> i = Len(words))
  OBVIOUS
<1>1. CASE i > Len(words)
  <2>1. found = Found("EOF", "", i)
    BY <1>1, Zenon DEF cprt_getopt
  <2>2. found.opt = "EOF" /\ found.optind = i
    BY <2>1, FoundFields, Zenon
  <2>3. QED
    BY <1>1, <2>2, Zenon
<1>2. CASE i <= Len(words)
  <2>0. ~ (i > Len(words)) /\ i \in DOMAIN words
    BY <1>0, <1>2, Zenon
  <2>1. /\ word.chr = "" => found = Found("EOF", "", i)
        /\ word = EndMark => found = Marked(i)
        /\ word.chr \in letters.flags => found = Flag(words, i)
        /\ word.chr \in letters.valued => found = Valued(words, i)
        /\ word.chr \notin letters.flags \cup letters.valued
             /\ word.chr # "" /\ word # EndMark => found = Found("?", "", i)
    <3>1. /\ letters.flags \cap letters.valued = {}
          /\ "-" \notin letters.flags \cup letters.valued
          /\ "" \notin letters.flags \cup letters.valued
      BY LettersType
    <3>2. QED
      <4>1. ASSUME NEW s, s = OptString[p]
            PROVE  /\ words[i].chr = "" => found = Found("EOF", "", i)
                   /\ words[i] = EndMark => found = Marked(i)
                   /\ words[i].chr \in s.flags => found = Flag(words, i)
                   /\ words[i].chr \in s.valued => found = Valued(words, i)
                   /\ words[i].chr \notin s.flags \cup s.valued
                        /\ words[i].chr # "" /\ words[i] # EndMark
                        => found = Found("?", "", i)
        <5>1. found = cprt_getopt(words, i, s)
          BY <4>1, Zenon
        <5>2. /\ s.flags \cap s.valued = {}
              /\ "-" \notin s.flags \cup s.valued
              /\ "" \notin s.flags \cup s.valued
          BY <4>1, <3>1, Zenon
        <5>3. QED
          BY <2>0, <5>1, <5>2, GetoptCases, Zenon
      <4>2. QED
        BY <4>1, Zenon
  <2>2. CASE word.chr = ""
    <3>1. word # EndMark
      BY <2>2, EndMarkFields
    <3>2. found = Found("EOF", "", i)
      BY <2>1, <2>2, Zenon
    <3>3. found.opt = "EOF" /\ found.optind = i
      BY <3>2, FoundFields, Zenon
    <3>4. QED
      BY <2>0, <3>1, <3>3, Zenon
  <2>3. CASE word = EndMark
    <3>1. found.opt = "EOF" /\ found.optind = i + 1
      BY <2>1, <2>3, FoundFields, Zenon
    <3>2. QED
      BY <1>0, <1>2, <2>0, <2>3, <3>1, Zenon
  <2>4. CASE word.chr # "" /\ word # EndMark
    <3>1. CASE word.chr \notin letters.flags \cup letters.valued
      <4>1. found = Found("?", "", i)
        BY <2>1, <2>4, <3>1, Zenon
      <4>2. found.opt = "?"
        BY <4>1, FoundFields, Zenon
      <4>3. QED
        BY <1>2, <2>4, <4>2, Zenon
    <3>2. CASE word.chr \in letters.flags
      <4>1. word.rest # ""
        BY <2>0, <2>4, <3>2, LettersType, Zenon DEF NoOption
      <4>2. found = Found("?", "", i)
        BY <2>1, <3>2, <4>1, Zenon DEF Flag
      <4>3. QED
        <5>1. found.opt = "?"
          BY <4>2, FoundFields, Zenon
        <5>2. QED
          BY <1>2, <2>4, <5>1, Zenon
    <3>3. CASE word.chr \in letters.valued
      <4>1. word.rest = "" /\ i = Len(words)
        BY <2>0, <2>4, <3>3, LettersType, Zenon DEF NoOption
      <4>2. i + 1 > Len(words)
        BY <1>0, <4>1, Zenon
      <4>3. found = Found("?", "", i + 1)
        BY <2>1, <3>3, <4>1, <4>2, Zenon DEF Valued
      <4>4. found.opt = "?"
        <5>1. \E j : found = Found("?", "", j)
          BY <4>3, Zenon
        <5>2. QED
          BY <5>1, FoundFields, Zenon
      <4>5. QED
        BY <1>2, <2>4, <4>4, Zenon
    <3>4. QED
      BY <3>1, <3>2, <3>3, Zenon
  <2>5. QED
    BY <2>2, <2>3, <2>4, Zenon
<1>3. QED
  <2>1. i > Len(words) \/ i <= Len(words)
    BY <1>0
  <2>2. QED
    BY <1>1, <1>2, <2>1, Zenon

-----------------------------------------------------------------------------
(* What one option changes.                                                *)

\* r is new with one option more.
Took(p, r, new, opt, arg) ==
    /\ \A n \in DOMAIN NumberField[p] :
         new[NumberField[p][n]] = IF n = opt THEN Numbers[arg] ELSE r[NumberField[p][n]]
    /\ p # "jitter" =>
         /\ new.generic_src = IF opt = "g" THEN 1 ELSE r.generic_src
         /\ new.config = IF opt = "c" THEN Append(r.config, arg) ELSE r.config
         /\ new.persist_mode = IF opt = "p" THEN PersistMode(arg) ELSE r.persist_mode
         /\ new.app_name = IF opt = "p" THEN AppName(PersistMode(arg)) ELSE r.app_name
         /\ new.spin_method = IF opt = "s" THEN SpinMethod(arg) ELSE r.spin_method
         /\ (p = "pong" => opt # "p") =>
              new.rcv_thread = IF opt = "R" THEN RcvThread(arg) ELSE r.rcv_thread
         /\ new.xml_config = IF opt = "x" THEN arg ELSE r.xml_config
         /\ new.xml_loaded = r.xml_loaded
    /\ p = "pong" => new.exit_on_eos = IF opt = "E" THEN 1 ELSE r.exit_on_eos
    /\ p = "ping" =>
         /\ new.warmup_loops = IF opt = "w" THEN First(arg) ELSE r.warmup_loops
         /\ new.warmup_rate = IF opt = "w" THEN Second(arg) ELSE r.warmup_rate
         /\ new.hist_num_buckets = IF opt = "H" THEN First(arg) ELSE r.hist_num_buckets
         /\ new.hist_ns_per_bucket = IF opt = "H" THEN Second(arg) ELSE r.hist_ns_per_bucket
    /\ p = "jitter" =>
         /\ new.group = IF opt = "g" THEN arg ELSE r.group
         /\ new.interface = IF opt = "i" THEN arg ELSE r.interface
         /\ new.histogram = IF opt = "H" THEN arg ELSE r.histogram

Others == {"hist_num_buckets", "hist_ns_per_bucket", "warmup_loops", "warmup_rate",
           "config", "exit_on_eos", "generic_src", "histogram", "app_name", "persist_mode",
           "rcv_thread", "spin_method", "group", "interface", "xml_config", "xml_loaded"}

LEMMA NumberFieldApart ==
    ASSUME NEW p \in Programs, NEW n \in DOMAIN NumberField[p]
    PROVE  /\ NumberField[p][n] \in Fields \ Others
           /\ \A m \in DOMAIN NumberField[p] : m # n => NumberField[p][m] # NumberField[p][n]
           /\ n \notin {"h", "g", "c", "p", "s", "R", "x", "E", "w", "H", "i", "?", "EOF"}
<1>1. CASE p = "ping"
  BY <1>1 DEF NumberField, NumberFields, Fields, Others
<1>2. CASE p = "pong"
  BY <1>2 DEF NumberField, NumberFields, Fields, Others
<1>3. CASE p = "jitter"
  BY <1>3 DEF NumberField, NumberFields, Fields, Others
<1>4. QED
  BY <1>1, <1>2, <1>3 DEF Programs

\* An assignment to one field leaves the others.
LEMMA Assign ==
    ASSUME NEW r, DOMAIN r = Fields, NEW f, NEW v
    PROVE  /\ f \in Fields => [r EXCEPT ![f] = v][f] = v
           /\ \A g \in Fields : g # f => [r EXCEPT ![f] = v][g] = r[g]
           /\ DOMAIN [r EXCEPT ![f] = v] = Fields
OBVIOUS

LEMMA NumberTaken ==
    ASSUME NEW p \in Programs, NEW r, DOMAIN r = Fields, NEW opt \in DOMAIN NumberField[p],
           NEW arg
    PROVE  Took(p, r, [r EXCEPT ![NumberField[p][opt]] = Numbers[arg]], opt, arg)
<1> DEFINE field == NumberField[p][opt]
           new == [r EXCEPT ![field] = Numbers[arg]]
<1>1. /\ field \in Fields \ Others
      /\ \A m \in DOMAIN NumberField[p] : m # opt => NumberField[p][m] # field
      /\ opt \notin {"h", "g", "c", "p", "s", "R", "x", "E", "w", "H", "i"}
  BY NumberFieldApart
<1>2. \A m \in DOMAIN NumberField[p] : NumberField[p][m] \in Fields
  BY NumberFieldApart
<1>3. new[field] = Numbers[arg] /\ \A g \in Fields : g # field => new[g] = r[g]
  BY <1>1, Assign
<1>4. \A g \in Others : new[g] = r[g]
  BY <1>1, <1>3 DEF Others, Fields
<1> HIDE DEF new, field
<1>5. \A n \in DOMAIN NumberField[p] :
        new[NumberField[p][n]] = IF n = opt THEN Numbers[arg] ELSE r[NumberField[p][n]]
  BY <1>1, <1>2, <1>3 DEF field
<1>6. Took(p, r, new, opt, arg)
  BY <1>1, <1>4, <1>5 DEF Took, Others
<1>7. QED
  BY <1>6 DEF new, field

\* An assignment to fields that are no numbers of one option.
Assigned(p, r, new, fields) ==
    /\ \A n \in DOMAIN NumberField[p] : new[NumberField[p][n]] = r[NumberField[p][n]]
    /\ \A g \in Others \ fields : new[g] = r[g]

LEMMA FieldsApart ==
    /\ \A p \in Programs : \A n \in DOMAIN NumberField[p] :
         NumberField[p][n] \in Fields \ Others
    /\ Others \subseteq Fields
BY NumberFieldApart DEF Others, Fields, NumberFields

Stopped == \E how \in {"exit0", "exit1", "segv"} : Stop(how)

\* Options that are no numbers.
OtherLetters == {"g", "c", "p", "R", "s", "x", "E", "w", "H", "i"}

\* What such an option changes.
OneOption(p, r, new, opt, arg) ==
    \/ /\ opt = "g" /\ p # "jitter" /\ Assigned(p, r, new, {"generic_src"})
       /\ new.generic_src = 1
    \/ /\ opt = "c" /\ p # "jitter" /\ Assigned(p, r, new, {"config"})
       /\ new.config = Append(r.config, arg)
    \/ /\ opt = "p" /\ p = "ping" /\ Assigned(p, r, new, {"persist_mode", "app_name"})
       /\ new.persist_mode = PersistMode(arg)
       /\ new.app_name = AppName(PersistMode(arg))
    \/ /\ opt = "p" /\ p = "pong"
       /\ Assigned(p, r, new, {"persist_mode", "app_name", "rcv_thread"})
       /\ new.persist_mode = PersistMode(arg)
       /\ new.app_name = AppName(PersistMode(arg))
    \/ /\ opt = "R" /\ p # "jitter" /\ Assigned(p, r, new, {"rcv_thread"})
       /\ new.rcv_thread = RcvThread(arg)
    \/ /\ opt = "s" /\ p # "jitter" /\ Assigned(p, r, new, {"spin_method"})
       /\ new.spin_method = SpinMethod(arg)
    \/ /\ opt = "x" /\ p # "jitter" /\ Assigned(p, r, new, {"xml_config"})
       /\ new.xml_config = arg
    \/ /\ opt = "E" /\ p = "pong" /\ Assigned(p, r, new, {"exit_on_eos"})
       /\ new.exit_on_eos = 1
    \/ /\ opt = "w" /\ p = "ping" /\ Assigned(p, r, new, {"warmup_loops", "warmup_rate"})
       /\ new.warmup_loops = First(arg) /\ new.warmup_rate = Second(arg)
    \/ /\ opt = "H" /\ p = "ping"
       /\ Assigned(p, r, new, {"hist_num_buckets", "hist_ns_per_bucket"})
       /\ new.hist_num_buckets = First(arg) /\ new.hist_ns_per_bucket = Second(arg)
    \/ /\ opt = "H" /\ p = "jitter" /\ Assigned(p, r, new, {"histogram"})
       /\ new.histogram = arg
    \/ /\ opt = "g" /\ p = "jitter" /\ Assigned(p, r, new, {"group"})
       /\ new.group = arg
    \/ /\ opt = "i" /\ p = "jitter" /\ Assigned(p, r, new, {"interface"})
       /\ new.interface = arg

LEMMA OtherTaken ==
    ASSUME NEW p \in Programs, NEW r, NEW new, NEW opt \in OtherLetters, NEW arg,
           OneOption(p, r, new, opt, arg)
    PROVE  Took(p, r, new, opt, arg)
<1>1. \A n \in DOMAIN NumberField[p] :
        new[NumberField[p][n]] = IF n = opt THEN Numbers[arg] ELSE r[NumberField[p][n]]
  <2>1. opt \notin DOMAIN NumberField[p]
    BY NumberFieldApart DEF OtherLetters
  <2>2. \A n \in DOMAIN NumberField[p] : new[NumberField[p][n]] = r[NumberField[p][n]]
    BY Zenon DEF OneOption, Assigned
  <2>3. QED
    BY <2>1, <2>2
<1>2. CASE opt \in {"g", "c"}
  BY <1>1, <1>2 DEF OneOption, Assigned, Others, Took
<1>3. CASE opt \in {"p", "R"}
  BY <1>1, <1>3 DEF OneOption, Assigned, Others, Took
<1>4. CASE opt \in {"s", "x", "E"}
  BY <1>1, <1>4 DEF OneOption, Assigned, Others, Took
<1>5. CASE opt \in {"w", "H", "i"}
  BY <1>1, <1>5 DEF OneOption, Assigned, Others, Took
<1>6. QED
  BY <1>2, <1>3, <1>4, <1>5 DEF OtherLetters

LEMMA PingTakes ==
    ASSUME DOMAIN o = Fields, NEW opt, NEW arg, PingCase(opt, arg), program = "ping"
    PROVE  Stopped \/ (Took("ping", o, o', opt, arg) /\ UNCHANGED status)
<1>1. \/ \E how \in {"exit0", "exit1", "segv"} : Stop(how)
      \/ opt \in DOMAIN NumberField.ping
           /\ Set([o EXCEPT ![NumberField[program][opt]] = Numbers[arg]])
      \/ opt = "c" /\ Set([o EXCEPT !.config = Append(@, arg)])
      \/ opt = "g" /\ Set([o EXCEPT !.generic_src = 1])
      \/ opt = "H" /\ Set([o EXCEPT !.hist_num_buckets = First(arg),
                                    !.hist_ns_per_bucket = Second(arg)])
      \/ opt = "p" /\ Set([o EXCEPT !.persist_mode = PersistMode(arg),
                                    !.app_name = AppName(PersistMode(arg))])
      \/ opt = "R" /\ Set([o EXCEPT !.rcv_thread = RcvThread(arg)])
      \/ opt = "s" /\ Set([o EXCEPT !.spin_method = SpinMethod(arg)])
      \/ opt = "w" /\ Set([o EXCEPT !.warmup_loops = First(arg),
                                    !.warmup_rate = Second(arg)])
      \/ opt = "x" /\ Set([o EXCEPT !.xml_config = arg])
  <2>1. \/ \E how \in {"exit0", "exit1"} : Stop(how)
        \/ opt \in DOMAIN NumberField.ping /\ SetNumber(opt, arg)
        \/ opt = "c" /\ LoadConfig(arg)
        \/ opt = "g" /\ Set([o EXCEPT !.generic_src = 1])
        \/ opt = "H" /\ PingHistogram(arg)
        \/ opt = "p" /\ SetPersist(arg)
        \/ opt = "R" /\ SetRcvThread(arg)
        \/ opt = "s" /\ SetSpin(arg)
        \/ opt = "w" /\ PingWarmup(arg)
        \/ opt = "x" /\ SetXml(arg)
    BY DEF PingCase
  <2>2. QED
    BY <2>1 DEF SetNumber, SetIf, LoadConfig, PingHistogram, SetPersist, SetRcvThread,
       SetSpin, PingWarmup, SetXml
<1>2. "ping" \in Programs
  BY DEF Programs
<1>3. CASE opt \in DOMAIN NumberField.ping
             /\ Set([o EXCEPT ![NumberField[program][opt]] = Numbers[arg]])
  BY <1>2, <1>3, NumberTaken DEF Set
<1>4. CASE opt = "c" /\ Set([o EXCEPT !.config = Append(@, arg)])
  <2>1. Assigned("ping", o, o', {"config"}) /\ o'.config = Append(o.config, arg)
    BY <1>2, <1>4, FieldsApart DEF Assigned, Others, Set
  <2>2. QED
    BY <1>2, <1>4, <2>1, OtherTaken DEF OneOption, OtherLetters, Set
<1>5. CASE opt = "g" /\ Set([o EXCEPT !.generic_src = 1])
  <2>1. Assigned("ping", o, o', {"generic_src"}) /\ o'.generic_src = 1
    BY <1>2, <1>5, FieldsApart DEF Assigned, Others, Set
  <2>2. QED
    BY <1>2, <1>5, <2>1, OtherTaken DEF OneOption, OtherLetters, Set
<1>6. CASE opt = "H" /\ Set([o EXCEPT !.hist_num_buckets = First(arg),
                                      !.hist_ns_per_bucket = Second(arg)])
  <2>1. /\ Assigned("ping", o, o', {"hist_num_buckets", "hist_ns_per_bucket"})
        /\ o'.hist_num_buckets = First(arg)
        /\ o'.hist_ns_per_bucket = Second(arg)
    BY <1>2, <1>6, FieldsApart DEF Assigned, Others, Set
  <2>2. QED
    BY <1>2, <1>6, <2>1, OtherTaken DEF OneOption, OtherLetters, Set
<1>7. CASE opt = "p" /\ Set([o EXCEPT !.persist_mode = PersistMode(arg),
                                      !.app_name = AppName(PersistMode(arg))])
  <2>1. /\ Assigned("ping", o, o', {"persist_mode", "app_name"})
        /\ o'.persist_mode = PersistMode(arg)
        /\ o'.app_name = AppName(PersistMode(arg))
    BY <1>2, <1>7, FieldsApart DEF Assigned, Others, Set
  <2>2. QED
    BY <1>2, <1>7, <2>1, OtherTaken DEF OneOption, OtherLetters, Set
<1>8. CASE opt = "R" /\ Set([o EXCEPT !.rcv_thread = RcvThread(arg)])
  <2>1. Assigned("ping", o, o', {"rcv_thread"}) /\ o'.rcv_thread = RcvThread(arg)
    BY <1>2, <1>8, FieldsApart DEF Assigned, Others, Set
  <2>2. QED
    BY <1>2, <1>8, <2>1, OtherTaken DEF OneOption, OtherLetters, Set
<1>9. CASE opt = "s" /\ Set([o EXCEPT !.spin_method = SpinMethod(arg)])
  <2>1. Assigned("ping", o, o', {"spin_method"}) /\ o'.spin_method = SpinMethod(arg)
    BY <1>2, <1>9, FieldsApart DEF Assigned, Others, Set
  <2>2. QED
    BY <1>2, <1>9, <2>1, OtherTaken DEF OneOption, OtherLetters, Set
<1>10. CASE opt = "w" /\ Set([o EXCEPT !.warmup_loops = First(arg),
                                       !.warmup_rate = Second(arg)])
  <2>1. /\ Assigned("ping", o, o', {"warmup_loops", "warmup_rate"})
        /\ o'.warmup_loops = First(arg)
        /\ o'.warmup_rate = Second(arg)
    BY <1>2, <1>10, FieldsApart DEF Assigned, Others, Set
  <2>2. QED
    BY <1>2, <1>10, <2>1, OtherTaken DEF OneOption, OtherLetters, Set
<1>11. CASE opt = "x" /\ Set([o EXCEPT !.xml_config = arg])
  <2>1. Assigned("ping", o, o', {"xml_config"}) /\ o'.xml_config = arg
    BY <1>2, <1>11, FieldsApart DEF Assigned, Others, Set
  <2>2. QED
    BY <1>2, <1>11, <2>1, OtherTaken DEF OneOption, OtherLetters, Set
<1>12. QED
  BY <1>1, <1>3, <1>4, <1>5, <1>6, <1>7, <1>8, <1>9, <1>10, <1>11 DEF Stopped

LEMMA PongTakes ==
    ASSUME DOMAIN o = Fields, NEW opt, NEW arg, PongCase(opt, arg), program = "pong"
    PROVE  Stopped \/ (Took("pong", o, o', opt, arg) /\ UNCHANGED status)
<1>1. \/ \E how \in {"exit0", "exit1", "segv"} : Stop(how)
      \/ opt \in DOMAIN NumberField.pong
           /\ Set([o EXCEPT ![NumberField[program][opt]] = Numbers[arg]])
      \/ opt = "c" /\ Set([o EXCEPT !.config = Append(@, arg)])
      \/ opt = "E" /\ Set([o EXCEPT !.exit_on_eos = 1])
      \/ opt = "g" /\ Set([o EXCEPT !.generic_src = 1])
      \/ opt = "p" /\ Set([o EXCEPT !.persist_mode = PersistMode(arg),
                                    !.app_name = AppName(PersistMode(arg)),
                                    !.rcv_thread = RcvThread(arg)])
      \/ opt = "R" /\ Set([o EXCEPT !.rcv_thread = RcvThread(arg)])
      \/ opt = "s" /\ Set([o EXCEPT !.spin_method = SpinMethod(arg)])
      \/ opt = "x" /\ Set([o EXCEPT !.xml_config = arg])
  <2>1. \/ \E how \in {"exit0", "exit1"} : Stop(how)
        \/ opt \in DOMAIN NumberField.pong /\ SetNumber(opt, arg)
        \/ opt = "c" /\ LoadConfig(arg)
        \/ opt = "E" /\ Set([o EXCEPT !.exit_on_eos = 1])
        \/ opt = "g" /\ Set([o EXCEPT !.generic_src = 1])
        \/ opt = "p" /\ PongPersist(arg)
        \/ opt = "R" /\ SetRcvThread(arg)
        \/ opt = "s" /\ SetSpin(arg)
        \/ opt = "x" /\ SetXml(arg)
    BY DEF PongCase
  <2>2. QED
    BY <2>1 DEF SetNumber, SetIf, LoadConfig, PongPersist, SetRcvThread, SetSpin, SetXml
<1>2. "pong" \in Programs
  BY DEF Programs
<1>3. CASE opt \in DOMAIN NumberField.pong
             /\ Set([o EXCEPT ![NumberField[program][opt]] = Numbers[arg]])
  BY <1>2, <1>3, NumberTaken DEF Set
<1>4. CASE opt = "c" /\ Set([o EXCEPT !.config = Append(@, arg)])
  <2>1. Assigned("pong", o, o', {"config"}) /\ o'.config = Append(o.config, arg)
    BY <1>2, <1>4, FieldsApart DEF Assigned, Others, Set
  <2>2. QED
    BY <1>2, <1>4, <2>1, OtherTaken DEF OneOption, OtherLetters, Set
<1>5. CASE opt = "E" /\ Set([o EXCEPT !.exit_on_eos = 1])
  <2>1. Assigned("pong", o, o', {"exit_on_eos"}) /\ o'.exit_on_eos = 1
    BY <1>2, <1>5, FieldsApart DEF Assigned, Others, Set
  <2>2. QED
    BY <1>2, <1>5, <2>1, OtherTaken DEF OneOption, OtherLetters, Set
<1>6. CASE opt = "g" /\ Set([o EXCEPT !.generic_src = 1])
  <2>1. Assigned("pong", o, o', {"generic_src"}) /\ o'.generic_src = 1
    BY <1>2, <1>6, FieldsApart DEF Assigned, Others, Set
  <2>2. QED
    BY <1>2, <1>6, <2>1, OtherTaken DEF OneOption, OtherLetters, Set
<1>7. CASE opt = "p" /\ Set([o EXCEPT !.persist_mode = PersistMode(arg),
                                      !.app_name = AppName(PersistMode(arg)),
                                      !.rcv_thread = RcvThread(arg)])
  <2>1. /\ Assigned("pong", o, o', {"persist_mode", "app_name", "rcv_thread"})
        /\ o'.persist_mode = PersistMode(arg)
        /\ o'.app_name = AppName(PersistMode(arg))
        /\ o'.rcv_thread = RcvThread(arg)
    BY <1>2, <1>7, FieldsApart DEF Assigned, Others, Set
  <2>2. QED
    BY <1>2, <1>7, <2>1, OtherTaken DEF OneOption, OtherLetters, Set
<1>8. CASE opt = "R" /\ Set([o EXCEPT !.rcv_thread = RcvThread(arg)])
  <2>1. Assigned("pong", o, o', {"rcv_thread"}) /\ o'.rcv_thread = RcvThread(arg)
    BY <1>2, <1>8, FieldsApart DEF Assigned, Others, Set
  <2>2. QED
    BY <1>2, <1>8, <2>1, OtherTaken DEF OneOption, OtherLetters, Set
<1>9. CASE opt = "s" /\ Set([o EXCEPT !.spin_method = SpinMethod(arg)])
  <2>1. Assigned("pong", o, o', {"spin_method"}) /\ o'.spin_method = SpinMethod(arg)
    BY <1>2, <1>9, FieldsApart DEF Assigned, Others, Set
  <2>2. QED
    BY <1>2, <1>9, <2>1, OtherTaken DEF OneOption, OtherLetters, Set
<1>10. CASE opt = "x" /\ Set([o EXCEPT !.xml_config = arg])
  <2>1. Assigned("pong", o, o', {"xml_config"}) /\ o'.xml_config = arg
    BY <1>2, <1>10, FieldsApart DEF Assigned, Others, Set
  <2>2. QED
    BY <1>2, <1>10, <2>1, OtherTaken DEF OneOption, OtherLetters, Set
<1>11. QED
  BY <1>1, <1>3, <1>4, <1>5, <1>6, <1>7, <1>8, <1>9, <1>10 DEF Stopped

LEMMA JitterTakes ==
    ASSUME DOMAIN o = Fields, NEW opt, NEW arg, JitterCase(opt, arg), program = "jitter"
    PROVE  Stopped \/ (Took("jitter", o, o', opt, arg) /\ UNCHANGED status)
<1>1. \/ \E how \in {"exit0", "exit1", "segv"} : Stop(how)
      \/ opt \in DOMAIN NumberField.jitter
           /\ Set([o EXCEPT ![NumberField[program][opt]] = Numbers[arg]])
      \/ opt = "g" /\ Set([o EXCEPT !.group = arg])
      \/ opt = "H" /\ Set([o EXCEPT !.histogram = arg])
      \/ opt = "i" /\ Set([o EXCEPT !.interface = arg])
  <2>1. \/ \E how \in {"exit0", "exit1"} : Stop(how)
        \/ opt \in DOMAIN NumberField.jitter /\ SetNumber(opt, arg)
        \/ opt = "g" /\ Set([o EXCEPT !.group = arg])
        \/ opt = "H" /\ Set([o EXCEPT !.histogram = arg])
        \/ opt = "i" /\ Set([o EXCEPT !.interface = arg])
    BY DEF JitterCase
  <2>2. QED
    BY <2>1 DEF SetNumber, SetIf
<1>2. "jitter" \in Programs
  BY DEF Programs
<1>3. CASE opt \in DOMAIN NumberField.jitter
             /\ Set([o EXCEPT ![NumberField[program][opt]] = Numbers[arg]])
  BY <1>2, <1>3, NumberTaken DEF Set
<1>4. CASE opt = "g" /\ Set([o EXCEPT !.group = arg])
  <2>1. Assigned("jitter", o, o', {"group"}) /\ o'.group = arg
    BY <1>2, <1>4, FieldsApart DEF Assigned, Others, Set
  <2>2. QED
    BY <1>2, <1>4, <2>1, OtherTaken DEF OneOption, OtherLetters, Set
<1>5. CASE opt = "H" /\ Set([o EXCEPT !.histogram = arg])
  <2>1. Assigned("jitter", o, o', {"histogram"}) /\ o'.histogram = arg
    BY <1>2, <1>5, FieldsApart DEF Assigned, Others, Set
  <2>2. QED
    BY <1>2, <1>5, <2>1, OtherTaken DEF OneOption, OtherLetters, Set
<1>6. CASE opt = "i" /\ Set([o EXCEPT !.interface = arg])
  <2>1. Assigned("jitter", o, o', {"interface"}) /\ o'.interface = arg
    BY <1>2, <1>6, FieldsApart DEF Assigned, Others, Set
  <2>2. QED
    BY <1>2, <1>6, <2>1, OtherTaken DEF OneOption, OtherLetters, Set
<1>7. QED
  BY <1>1, <1>3, <1>4, <1>5, <1>6 DEF Stopped

-----------------------------------------------------------------------------
(* The o_ variables after some of the options.                             *)

\* The o_ variables, after some of the options, are what these say.
Reads(p, given, r) ==
    /\ AsMeant(p, given, r)
    /\ p # "jitter" =>
         /\ r.config \in Seq(STRING)
         /\ r.app_name = AppName(r.persist_mode)
         /\ r.xml_config = LastGiven(given, "x", "")
         /\ r.xml_loaded = << >>
    /\ p = "ping" => HistogramAsMeant(given, r)
    /\ p = "jitter" => r.histogram = LastGiven(given, "H", "0,0")

LEMMA NothingGiven ==
    ASSUME NEW opt, NEW default
    PROVE  Places(<< >>, opt) = {} /\ LastGiven(<< >>, opt, default) = default
BY DEF Places, LastGiven

LEMMA NothingRead == ASSUME NEW p \in Programs PROVE Reads(p, << >>, Defaults)
<1>1. AllGiven(<< >>, "c", Defaults.config)
  BY NothingGiven, FS_EmptySet DEF AllGiven, Defaults
<1>2. \A opt \in DOMAIN NumberField[p] :
        LET field == NumberField[p][opt]
        IN  Defaults[field] = IF Places(<< >>, opt) = {} THEN Defaults[field]
                              ELSE Numbers[LastGiven(<< >>, opt, "")]
  BY NothingGiven
<1>3. /\ PersistMode("") = "STREAMING" /\ SpinMethod("") = "NO_SPIN"
      /\ RcvThread("") = "MAIN_CTX" /\ AppName("STREAMING") = "um_perf"
  BY DEF PersistMode, SpinMethod, RcvThread, AppName
<1>4. AsMeant(p, << >>, Defaults)
  <2>1. /\ Defaults.generic_src = 0 /\ Defaults.exit_on_eos = 0
        /\ Defaults.persist_mode = "STREAMING" /\ Defaults.spin_method = "NO_SPIN"
        /\ Defaults.rcv_thread = "MAIN_CTX"
        /\ Defaults.warmup_loops = 0 /\ Defaults.warmup_rate = 0
        /\ Defaults.group = "" /\ Defaults.interface = ""
    BY DEF Defaults
  <2>2. \A opt : Places(<< >>, opt) = {} /\ \A default : LastGiven(<< >>, opt, default) = default
    BY NothingGiven
  <2>3. First("0,0") = 0 /\ Second("0,0") = 0
    BY OptionsAssumption
  <2>4. /\ Defaults.generic_src = 1 <=> Places(<< >>, "g") # {}
        /\ Defaults.persist_mode = PersistMode(LastGiven(<< >>, "p", ""))
        /\ Defaults.spin_method = SpinMethod(LastGiven(<< >>, "s", ""))
        /\ Defaults.rcv_thread = RcvThread(LastGiven(<< >>, "R", ""))
        /\ Defaults.exit_on_eos = 1 <=> Places(<< >>, "E") # {}
    <3>1. Places(<< >>, "g") = {} /\ Places(<< >>, "E") = {}
      BY <2>2
    <3>2. /\ LastGiven(<< >>, "p", "") = "" /\ LastGiven(<< >>, "s", "") = ""
          /\ LastGiven(<< >>, "R", "") = ""
      BY <2>2
    <3>3. Defaults.generic_src # 1 /\ Defaults.exit_on_eos # 1
      BY DEF Defaults
    <3>4. QED
      BY <1>3, <2>1, <3>1, <3>2, <3>3, Zenon
  <2>5. /\ Defaults.warmup_loops = First(LastGiven(<< >>, "w", "0,0"))
        /\ Defaults.warmup_rate = Second(LastGiven(<< >>, "w", "0,0"))
        /\ Defaults.group = LastGiven(<< >>, "g", "")
        /\ Defaults.interface = LastGiven(<< >>, "i", "")
    BY <2>1, <2>2, <2>3
  <2>6. QED
    BY <1>1, <1>2, <2>4, <2>5 DEF AsMeant
<1>5. HistogramAsMeant(<< >>, Defaults)
  BY NothingGiven, OptionsAssumption DEF HistogramAsMeant, Defaults
<1>6. /\ Defaults.config = << >> /\ Defaults.app_name = AppName(Defaults.persist_mode)
      /\ Defaults.xml_config = "" /\ Defaults.xml_loaded = << >>
      /\ Defaults.histogram = "0,0"
  BY <1>3 DEF Defaults
<1>7. << >> \in Seq(STRING)
  OBVIOUS
<1>8. LastGiven(<< >>, "x", "") = "" /\ LastGiven(<< >>, "H", "0,0") = "0,0"
  BY NothingGiven
<1>9. QED
  BY <1>4, <1>5, <1>6, <1>7, <1>8 DEF Reads

LEMMA PlacesMore ==
    ASSUME NEW given \in Seq(Option), NEW option \in Option, NEW opt
    PROVE  Places(Append(given, option), opt) # {}
             <=> option.opt = opt \/ Places(given, opt) # {}
BY PlacesAppend

LEMMA ReadsMore ==
    ASSUME NEW p \in Programs, NEW given \in Seq(Option), NEW option \in Option,
           NEW r, NEW new, Reads(p, given, r), Took(p, r, new, option.opt, option.arg)
    PROVE  Reads(p, Append(given, option), new)
<1> DEFINE arg == option.arg
           opt == option.opt
<1>0. PICK more : more = Append(given, option)
  OBVIOUS
<1>1. \A let, default : LastGiven(more, let, default) =
                          IF opt = let THEN arg ELSE LastGiven(given, let, default)
  BY <1>0, LastAppend
<1>2. \A let : Places(more, let) # {} <=> let = opt \/ Places(given, let) # {}
  BY <1>0, PlacesMore
<1>3. \A n \in DOMAIN NumberField[p] :
        LET field == NumberField[p][n]
        IN  new[field] = IF Places(more, n) = {} THEN Defaults[field]
                         ELSE Numbers[LastGiven(more, n, "")]
  <2> SUFFICES ASSUME NEW n \in DOMAIN NumberField[p]
               PROVE  LET field == NumberField[p][n]
                      IN  new[field] = IF Places(more, n) = {} THEN Defaults[field]
                                       ELSE Numbers[LastGiven(more, n, "")]
    OBVIOUS
  <2> DEFINE field == NumberField[p][n]
  <2>1. new[field] = IF n = opt THEN Numbers[arg] ELSE r[field]
    BY DEF Took
  <2>2. r[field] = IF Places(given, n) = {} THEN Defaults[field]
                   ELSE Numbers[LastGiven(given, n, "")]
    BY DEF Reads, AsMeant
  <2> HIDE DEF field
  <2>3. new[field] = IF Places(more, n) = {} THEN Defaults[field]
                     ELSE Numbers[LastGiven(more, n, "")]
    BY <1>1, <1>2, <2>1, <2>2
  <2>4. QED
    BY <2>3 DEF field
<1>4. p # "jitter" => AllGiven(more, "c", new.config) /\ new.config \in Seq(STRING)
  <2>1. SUFFICES ASSUME p # "jitter"
                 PROVE  AllGiven(more, "c", new.config) /\ new.config \in Seq(STRING)
    OBVIOUS
  <2>2. /\ new.config = IF opt = "c" THEN Append(r.config, arg) ELSE r.config
        /\ r.config \in Seq(STRING)
    BY <2>1 DEF Took, Reads
  <2>3. AllGiven(given, "c", r.config)
    BY <2>1 DEF Reads, AsMeant, Programs
  <2>4. arg \in STRING
    BY DEF Option
  <2>5. AllGiven(more, "c", IF opt = "c" THEN Append(r.config, arg) ELSE r.config)
    BY <1>0, <2>2, <2>3, AllAppend
  <2>6. (IF opt = "c" THEN Append(r.config, arg) ELSE r.config) \in Seq(STRING)
    <3>1. Append(r.config, arg) \in Seq(STRING)
      BY <2>2, <2>4
    <3>2. QED
      BY <2>2, <3>1
  <2>7. QED
    BY <2>2, <2>5, <2>6, Zenon
<1>5. p # "jitter" =>
        /\ new.generic_src = 1 <=> Places(more, "g") # {}
        /\ new.persist_mode = PersistMode(LastGiven(more, "p", ""))
        /\ new.spin_method = SpinMethod(LastGiven(more, "s", ""))
        /\ (p = "pong" => Places(more, "p") = {}) =>
             new.rcv_thread = RcvThread(LastGiven(more, "R", ""))
        /\ new.app_name = AppName(new.persist_mode)
        /\ new.xml_config = LastGiven(more, "x", "")
        /\ new.xml_loaded = << >>
  <2>1. SUFFICES ASSUME p # "jitter"
                 PROVE  /\ new.generic_src = 1 <=> Places(more, "g") # {}
                        /\ new.persist_mode = PersistMode(LastGiven(more, "p", ""))
                        /\ new.spin_method = SpinMethod(LastGiven(more, "s", ""))
                        /\ (p = "pong" => Places(more, "p") = {}) =>
                             new.rcv_thread = RcvThread(LastGiven(more, "R", ""))
                        /\ new.app_name = AppName(new.persist_mode)
                        /\ new.xml_config = LastGiven(more, "x", "")
                        /\ new.xml_loaded = << >>
    OBVIOUS
  <2>2. /\ new.generic_src = IF opt = "g" THEN 1 ELSE r.generic_src
        /\ new.persist_mode = IF opt = "p" THEN PersistMode(arg) ELSE r.persist_mode
        /\ new.app_name = IF opt = "p" THEN AppName(PersistMode(arg)) ELSE r.app_name
        /\ new.spin_method = IF opt = "s" THEN SpinMethod(arg) ELSE r.spin_method
        /\ (p = "pong" => opt # "p") =>
             new.rcv_thread = IF opt = "R" THEN RcvThread(arg) ELSE r.rcv_thread
        /\ new.xml_config = IF opt = "x" THEN arg ELSE r.xml_config
        /\ new.xml_loaded = r.xml_loaded
    BY <2>1 DEF Took
  <2>3. /\ r.generic_src = 1 <=> Places(given, "g") # {}
        /\ r.persist_mode = PersistMode(LastGiven(given, "p", ""))
        /\ r.spin_method = SpinMethod(LastGiven(given, "s", ""))
        /\ (p = "pong" => Places(given, "p") = {}) =>
             r.rcv_thread = RcvThread(LastGiven(given, "R", ""))
    BY <2>1 DEF Reads, AsMeant, Programs
  <2>4. /\ r.app_name = AppName(r.persist_mode)
        /\ r.xml_config = LastGiven(given, "x", "")
        /\ r.xml_loaded = << >>
    BY <2>1 DEF Reads
  <2>5. new.generic_src = 1 <=> Places(more, "g") # {}
    BY <1>2, <2>2, <2>3
  <2>6. new.persist_mode = PersistMode(LastGiven(more, "p", ""))
    BY <1>1, <2>2, <2>3
  <2>7. new.spin_method = SpinMethod(LastGiven(more, "s", ""))
    BY <1>1, <2>2, <2>3
  <2>8. ASSUME p = "pong" => Places(more, "p") = {}
        PROVE  new.rcv_thread = RcvThread(LastGiven(more, "R", ""))
    <3>1. p = "pong" => opt # "p" /\ Places(given, "p") = {}
      BY <1>2, <2>8
    <3>2. QED
      BY <1>1, <2>2, <2>3, <3>1
  <2>9. new.app_name = AppName(new.persist_mode)
    BY <2>2, <2>4
  <2>10. new.xml_config = LastGiven(more, "x", "") /\ new.xml_loaded = << >>
    BY <1>1, <2>2, <2>4
  <2>11. QED
    BY <2>5, <2>6, <2>7, <2>8, <2>9, <2>10
<1>6. CASE p = "ping"
  <2>1. /\ new.warmup_loops = IF opt = "w" THEN First(arg) ELSE r.warmup_loops
        /\ new.warmup_rate = IF opt = "w" THEN Second(arg) ELSE r.warmup_rate
        /\ new.hist_num_buckets = IF opt = "H" THEN First(arg) ELSE r.hist_num_buckets
        /\ new.hist_ns_per_bucket = IF opt = "H" THEN Second(arg) ELSE r.hist_ns_per_bucket
    BY <1>6 DEF Took
  <2>2. /\ r.warmup_loops = First(LastGiven(given, "w", "0,0"))
        /\ r.warmup_rate = Second(LastGiven(given, "w", "0,0"))
    BY <1>6 DEF Reads, AsMeant
  <2>3. /\ r.hist_num_buckets = First(LastGiven(given, "H", "0,0"))
        /\ r.hist_ns_per_bucket = Second(LastGiven(given, "H", "0,0"))
    BY <1>6 DEF Reads, HistogramAsMeant
  <2>4. /\ new.warmup_loops = First(LastGiven(more, "w", "0,0"))
        /\ new.warmup_rate = Second(LastGiven(more, "w", "0,0"))
        /\ new.hist_num_buckets = First(LastGiven(more, "H", "0,0"))
        /\ new.hist_ns_per_bucket = Second(LastGiven(more, "H", "0,0"))
    BY <1>1, <2>1, <2>2, <2>3
  <2>5. AsMeant(p, more, new)
    BY <1>3, <1>4, <1>5, <1>6, <2>4 DEF AsMeant
  <2>6. HistogramAsMeant(more, new)
    BY <2>4 DEF HistogramAsMeant
  <2>7. QED
    BY <1>0, <1>4, <1>5, <1>6, <2>5, <2>6 DEF Reads
<1>7. CASE p = "pong"
  <2>1. new.exit_on_eos = IF opt = "E" THEN 1 ELSE r.exit_on_eos
    BY <1>7 DEF Took
  <2>2. r.exit_on_eos = 1 <=> Places(given, "E") # {}
    BY <1>7 DEF Reads, AsMeant
  <2>3. new.exit_on_eos = 1 <=> Places(more, "E") # {}
    BY <1>2, <2>1, <2>2
  <2>4. AsMeant(p, more, new)
    BY <1>3, <1>4, <1>5, <1>7, <2>3 DEF AsMeant
  <2>5. QED
    BY <1>0, <1>4, <1>5, <1>7, <2>4 DEF Reads
<1>8. CASE p = "jitter"
  <2>1. /\ new.group = IF opt = "g" THEN arg ELSE r.group
        /\ new.interface = IF opt = "i" THEN arg ELSE r.interface
        /\ new.histogram = IF opt = "H" THEN arg ELSE r.histogram
    BY <1>8 DEF Took
  <2>2. r.group = LastGiven(given, "g", "") /\ r.interface = LastGiven(given, "i", "")
    BY <1>8 DEF Reads, AsMeant
  <2>3. r.histogram = LastGiven(given, "H", "0,0")
    BY <1>8 DEF Reads
  <2>4. /\ new.group = LastGiven(more, "g", "") /\ new.interface = LastGiven(more, "i", "")
        /\ new.histogram = LastGiven(more, "H", "0,0")
    BY <1>1, <2>1, <2>2, <2>3
  <2>5. AsMeant(p, more, new)
    BY <1>3, <1>8, <2>4 DEF AsMeant
  <2>6. QED
    BY <1>0, <1>8, <2>4, <2>5 DEF Reads
<1>9. QED
  BY <1>6, <1>7, <1>8 DEF Programs

-----------------------------------------------------------------------------
(* From one option to the next, and into main.                             *)

ParsedSoFar ==
    status = "parsing" =>
      \E k \in 0 .. Len(line.given) :
        optind = line.at[k + 1] /\ Reads(program, SubSeq(line.given, 1, k), o)

LEMMA CaseOf ==
    ASSUME DOMAIN o = Fields, program \in Programs, NEW opt, NEW arg,
           \/ program = "ping" /\ PingCase(opt, arg)
           \/ program = "pong" /\ PongCase(opt, arg)
           \/ program = "jitter" /\ JitterCase(opt, arg)
    PROVE  /\ Stopped \/ (Took(program, o, o', opt, arg) /\ UNCHANGED status)
           /\ opt = "?" => Stop("exit1")
<1>1. Stopped \/ (Took(program, o, o', opt, arg) /\ UNCHANGED status)
  BY PingTakes, PongTakes, JitterTakes
<1>2. ASSUME opt = "?" PROVE Stop("exit1")
  <2>1. CASE program = "ping" /\ PingCase(opt, arg)
    BY <1>2, <2>1 DEF PingCase, NumberField
  <2>2. CASE program = "pong" /\ PongCase(opt, arg)
    BY <1>2, <2>2 DEF PongCase, NumberField
  <2>3. CASE program = "jitter" /\ JitterCase(opt, arg)
    BY <1>2, <2>3 DEF JitterCase, NumberField
  <2>4. QED
    BY <2>1, <2>2, <2>3
<1>3. QED
  BY <1>1, <1>2

LEMMA DocumentedModes ==
    ASSUME NEW arg
    PROVE  /\ arg \in {"", "r", "s"} => PersistMode(arg) # "unknown"
           /\ arg \in {"", "x"} => RcvThread(arg) # "unknown"
           /\ arg \in {"", "f"} => SpinMethod(arg) # "unknown"
BY DEF PersistMode, RcvThread, SpinMethod

LEMMA PingAccepts ==
    ASSUME status = "parsing", program = "ping", NEW opt, NEW arg,
           ValueDocumented("ping", opt, arg), PingCase(opt, arg)
    PROVE  status' = "parsing"
<1>1. \/ opt \in DOMAIN NumberField.ping /\ AtoiOk(arg) /\ SetNumber(opt, arg)
      \/ opt = "g" /\ Set([o EXCEPT !.generic_src = 1])
      \/ opt = "c" /\ arg \in Configs /\ LoadConfig(arg)
      \/ opt = "p" /\ arg \in {"", "r", "s"} /\ SetPersist(arg)
      \/ opt = "R" /\ arg \in {"", "x"} /\ SetRcvThread(arg)
      \/ opt = "s" /\ arg \in {"", "f"} /\ SetSpin(arg)
      \/ opt = "x" /\ SetXml(arg)
      \/ opt = "H" /\ PairOk(arg) /\ PingHistogram(arg)
      \/ opt = "w" /\ PairOk(arg) /\ (First(arg) > 0 => Second(arg) > 0) /\ PingWarmup(arg)
  <2>1. \/ opt \in DOMAIN NumberField.ping /\ AtoiOk(arg)
        \/ opt = "g"
        \/ opt = "c" /\ arg \in Configs
        \/ opt = "p" /\ arg \in {"", "r", "s"}
        \/ opt = "R" /\ arg \in {"", "x"}
        \/ opt = "s" /\ arg \in {"", "f"}
        \/ opt = "x"
        \/ opt = "H" /\ PairOk(arg)
        \/ opt = "w" /\ PairOk(arg) /\ (First(arg) > 0 => Second(arg) > 0)
    BY DEF ValueDocumented, OptString
  <2>2. \A n \in DOMAIN NumberField.ping : n \notin OtherLetters \cup {"h"}
    BY DEF NumberField, OtherLetters
  <2>3. CASE opt \in DOMAIN NumberField.ping
    BY <2>1, <2>2, <2>3 DEF PingCase, OtherLetters
  <2>4. CASE opt \in {"g", "c", "p", "R"}
    BY <2>1, <2>2, <2>4 DEF PingCase, OtherLetters
  <2>5. CASE opt \in {"s", "x", "H", "w"}
    BY <2>1, <2>2, <2>5 DEF PingCase, OtherLetters
  <2>6. QED
    BY <2>1, <2>3, <2>4, <2>5
<1>2. PairOk(arg) => Len(TokensOf(arg)) # 1
  BY DEF PairOk
<1>3. QED
  BY <1>1, <1>2, DocumentedModes
  DEF SetNumber, LoadConfig, SetPersist, SetRcvThread, SetSpin, SetXml, PingHistogram,
      PingWarmup, SetIf, Set

LEMMA PongAccepts ==
    ASSUME status = "parsing", program = "pong", NEW opt, NEW arg, opt # "p",
           ValueDocumented("pong", opt, arg), PongCase(opt, arg)
    PROVE  status' = "parsing"
<1>1. \/ opt \in DOMAIN NumberField.pong /\ AtoiOk(arg) /\ SetNumber(opt, arg)
      \/ opt = "g" /\ Set([o EXCEPT !.generic_src = 1])
      \/ opt = "E" /\ Set([o EXCEPT !.exit_on_eos = 1])
      \/ opt = "c" /\ arg \in Configs /\ LoadConfig(arg)
      \/ opt = "R" /\ arg \in {"", "x"} /\ SetRcvThread(arg)
      \/ opt = "s" /\ arg \in {"", "f"} /\ SetSpin(arg)
      \/ opt = "x" /\ SetXml(arg)
  BY DEF ValueDocumented, PongCase, NumberField, OptString
<1>2. QED
  BY <1>1, DocumentedModes
  DEF SetNumber, LoadConfig, SetRcvThread, SetSpin, SetXml, SetIf, Set

LEMMA JitterAccepts ==
    ASSUME status = "parsing", program = "jitter", NEW opt, NEW arg,
           ValueDocumented("jitter", opt, arg), JitterCase(opt, arg)
    PROVE  status' = "parsing"
<1>1. \/ opt \in DOMAIN NumberField.jitter /\ AtoiOk(arg) /\ SetNumber(opt, arg)
      \/ opt = "g" /\ Set([o EXCEPT !.group = arg])
      \/ opt = "H" /\ Set([o EXCEPT !.histogram = arg])
      \/ opt = "i" /\ Set([o EXCEPT !.interface = arg])
  BY DEF ValueDocumented, JitterCase, NumberField, OptString
<1>2. QED
  BY <1>1 DEF SetNumber, SetIf, Set

LEMMA LineFields ==
    ASSUME line \in CommandLines
    PROVE  /\ program \in Programs /\ argv \in Seq(ArgvWord)
           /\ line.given \in Seq(Option) /\ line.at \in Seq(Nat) /\ WellFormed(line)
BY OptionsAssumption DEF CommandLine, program, argv

LEMMA GivenDocumented ==
    ASSUME NEW l, l.given \in Seq(Option), Documented(l), NEW opt, NEW default,
           Places(l.given, opt) # {}
    PROVE  ValueDocumented(l.program, opt, LastGiven(l.given, opt, default))
<1> DEFINE last == Greatest(Places(l.given, opt))
<1>1. last \in Places(l.given, opt)
  BY GreatestPlace
<1> HIDE DEF last
<1>2. last \in DOMAIN l.given /\ l.given[last].opt = opt
  BY <1>1, Zenon DEF Places
<1>3. ValueDocumented(l.program, l.given[last].opt, l.given[last].arg)
  BY <1>2, Zenon DEF Documented
<1>4. LastGiven(l.given, opt, default) = l.given[last].arg
  BY Zenon DEF LastGiven, last
<1>5. QED
  BY <1>2, <1>3, <1>4, Zenon

\* What the checks write is not what AsMeant is about.
LEMMA MeantBefore ==
    ASSUME NEW p \in Programs, NEW given, NEW r, NEW new, AsMeant(p, given, r),
           \A f \in Fields \ {"xml_loaded", "hist_num_buckets", "hist_ns_per_bucket"} :
             new[f] = r[f]
    PROVE  AsMeant(p, given, new)
<1>1. \A n \in DOMAIN NumberField[p] :
        LET field == NumberField[p][n]
        IN  new[field] = IF Places(given, n) = {} THEN Defaults[field]
                         ELSE Numbers[LastGiven(given, n, "")]
  <2> SUFFICES ASSUME NEW n \in DOMAIN NumberField[p]
               PROVE  LET field == NumberField[p][n]
                      IN  new[field] = IF Places(given, n) = {} THEN Defaults[field]
                                       ELSE Numbers[LastGiven(given, n, "")]
    OBVIOUS
  <2>1. NumberField[p][n] \in Fields \ {"xml_loaded", "hist_num_buckets", "hist_ns_per_bucket"}
    BY FieldsApart DEF Others
  <2>2. new[NumberField[p][n]] = r[NumberField[p][n]]
    BY <2>1
  <2>3. QED
    BY <2>2 DEF AsMeant
<1>2. /\ new.generic_src = r.generic_src /\ new.config = r.config
      /\ new.persist_mode = r.persist_mode /\ new.spin_method = r.spin_method
      /\ new.rcv_thread = r.rcv_thread /\ new.exit_on_eos = r.exit_on_eos
      /\ new.warmup_loops = r.warmup_loops /\ new.warmup_rate = r.warmup_rate
      /\ new.group = r.group /\ new.interface = r.interface
  BY DEF Fields, NumberFields
<1>3. QED
  BY <1>1, <1>2 DEF AsMeant

\* The checks go on with what they ask for, and only with it.
LEMMA XmlAsUsed ==
    ASSUME Reads(program, line.given, o), program \in {"ping", "pong"}
    PROVE  /\ XmlUsable(line.given) <=> XmlLoads
           /\ o.xml_loaded \o XmlLoaded =
                LET file == LastGiven(line.given, "x", "")
                IN  IF file = "" THEN << >> ELSE <<<<file, AppName(o.persist_mode)>>>>
<1>1. /\ o.app_name = AppName(o.persist_mode)
      /\ o.xml_config = LastGiven(line.given, "x", "") /\ o.xml_loaded = << >>
      /\ o.persist_mode = PersistMode(LastGiven(line.given, "p", ""))
  BY DEF Reads, AsMeant
<1>2. XmlUsable(line.given) <=> XmlLoads
  BY <1>1, Zenon DEF XmlUsable, XmlLoads
<1>3. << >> \o << >> = << >> /\ \A x : << >> \o <<x>> = <<x>>
  OBVIOUS
<1>4. QED
  BY <1>1, <1>2, <1>3, Zenon DEF XmlLoaded

\* With all that the help texts ask for, the checks let the program start.
LEMMA PingStarts ==
    ASSUME OptInv, program = "ping", Reads("ping", line.given, o), Documented(line),
           line.given \in Seq(Option), NEW used, used > Len(argv), PingChecks(used)
    PROVE  status' = "main"
<1> DEFINE given == line.given
<1>1. PingAsksFor(given) /\ XmlUsable(given)
  BY DEF Documented, program
<1>2. /\ Numbers[LastGiven(given, "r", "")] > 0 /\ Places(given, "r") # {}
      /\ Numbers[LastGiven(given, "n", "")] > 0 /\ Places(given, "n") # {}
      /\ Numbers[LastGiven(given, "m", "")] >= SizeofPerfMsg /\ Places(given, "m") # {}
      /\ First(LastGiven(given, "H", "0,0")) > 0 /\ Second(LastGiven(given, "H", "0,0")) > 0
  BY <1>1 DEF PingAsksFor, HistogramGiven
<1>3. \A n \in DOMAIN NumberField.ping : Places(given, n) # {} =>
        o[NumberField.ping[n]] = Numbers[LastGiven(given, n, "")]
  BY DEF Reads, AsMeant
<1>4. /\ "r" \in DOMAIN NumberField.ping /\ NumberField.ping["r"] = "rate"
      /\ "n" \in DOMAIN NumberField.ping /\ NumberField.ping["n"] = "num_msgs"
      /\ "m" \in DOMAIN NumberField.ping /\ NumberField.ping["m"] = "msg_len"
  BY DEF NumberField
<1>5. o.rate > 0 /\ o.num_msgs > 0 /\ o.msg_len >= SizeofPerfMsg
  BY <1>2, <1>3, <1>4
<1>6. o.hist_num_buckets > 0 /\ o.hist_ns_per_bucket > 0
  BY <1>2 DEF Reads, HistogramAsMeant
<1>7. AsWord(o.msg_len) >= SizeofPerfMsg
  <2>1. o.msg_len \in Int /\ SizeofPerfMsg \in Nat
    <3>1. o.msg_len \in Int32
      BY DEF OptInv, Good, NumberFields
    <3>2. o.msg_len \in Int
      BY <3>1, CIntegerAssumption DEF Int32
    <3>3. SizeofPerfMsg \in Nat
      BY OptionsAssumption
    <3>4. QED
      BY <3>2, <3>3
  <2>2. ~ (o.msg_len < 0)
    BY <1>5, <2>1
  <2>3. QED
    BY <1>5, <2>2 DEF AsWord
<1>8. XmlLoads
  BY <1>1, XmlAsUsed
<1>9. QED
  BY <1>5, <1>6, <1>7, <1>8, Zenon DEF PingChecks, Start

LEMMA PongStarts ==
    ASSUME program = "pong", Reads("pong", line.given, o), Documented(line),
           NEW used, used > Len(argv), PongChecks(used)
    PROVE  status' = "main"
<1>1. XmlUsable(line.given)
  BY DEF Documented, program
<1>2. XmlLoads
  BY <1>1, XmlAsUsed
<1>3. QED
  BY <1>2, Zenon DEF PongChecks, Start

LEMMA JitterStarts ==
    ASSUME program = "jitter", Reads("jitter", line.given, o), Documented(line),
           JitterAsksFor(line.given), line.given \in Seq(Option),
           NEW used, used > Len(argv), JitterChecks(used)
    PROVE  status' = "main"
<1> DEFINE given == line.given
<1>1. /\ First(LastGiven(given, "H", "0,0")) > 0 /\ Second(LastGiven(given, "H", "0,0")) > 0
      /\ Places(given, "g") # {} /\ Places(given, "i") # {}
  BY DEF JitterAsksFor, HistogramGiven
<1>2. /\ o.histogram = LastGiven(given, "H", "0,0")
      /\ o.group = LastGiven(given, "g", "") /\ o.interface = LastGiven(given, "i", "")
  BY DEF Reads, AsMeant
<1>3. PairOk(o.histogram)
  <2>1. CASE Places(given, "H") = {}
    BY <1>2, <2>1, OptionsAssumption DEF LastGiven
  <2>2. CASE Places(given, "H") # {}
    <3>1. ValueDocumented("jitter", "H", LastGiven(given, "H", "0,0"))
      BY <2>2, GivenDocumented DEF program
    <3>2. QED
      BY <1>2, <3>1 DEF ValueDocumented, NumberField
  <2>3. QED
    BY <2>1, <2>2
<1>4. o.group \in Addresses
  <2>1. ValueDocumented("jitter", "g", LastGiven(given, "g", ""))
    BY <1>1, GivenDocumented DEF program
  <2>2. QED
    BY <1>2, <2>1 DEF ValueDocumented, NumberField, OptString
<1>5. o.interface \in Addresses
  <2>1. ValueDocumented("jitter", "i", LastGiven(given, "i", ""))
    BY <1>1, GivenDocumented DEF program
  <2>2. QED
    BY <1>2, <2>1 DEF ValueDocumented, NumberField
<1>6. QED
  BY <1>1, <1>2, <1>3, <1>4, <1>5, Zenon DEF JitterChecks, Start

ChecksOf(used) ==
    \/ program = "ping" /\ PingChecks(used)
    \/ program = "pong" /\ PongChecks(used)
    \/ program = "jitter" /\ JitterChecks(used)

LEMMA ChecksRead ==
    ASSUME OptInv, status = "parsing", UNCHANGED line, program \in Programs,
           line.given \in Seq(Option), Reads(program, line.given, o), NEW used,
           used > Len(argv) <=> line.complete, ChecksOf(used)
    PROVE  AsGiven' /\ XmlReadForItsMode' /\ RefusedForCause' /\ status' # "parsing"
<1> DEFINE given == line.given
           file == LastGiven(given, "x", "")
<1>0. program' = program /\ Good(o) /\ DOMAIN o = Fields
  BY DEF program, OptInv, Good
<1>1. CASE Stop("exit1")
  <2>1. status' = "exit1"
    BY <1>1 DEF Stop
  <2>2. ASSUME Documented(line), program = "jitter" => JitterAsksFor(line.given)
        PROVE  FALSE
    <3>1. used > Len(argv)
      BY <2>2 DEF Documented
    <3>2. status' = "main"
      BY <2>2, <3>1, PingStarts, PongStarts, JitterStarts DEF ChecksOf
    <3>3. QED
      BY <2>1, <3>2
  <2>3. ~Documented(line) \/ (program = "jitter" /\ ~JitterAsksFor(line.given))
    BY <2>2
  <2>4. RefusedForCause'
    BY <1>0, <2>3 DEF RefusedForCause
  <2>5. QED
    BY <2>1, <2>4 DEF AsGiven, XmlReadForItsMode
<1>2. CASE ~Stop("exit1")
  <2>1. status' = "main" /\ line.complete
    BY <1>2 DEF ChecksOf, PingChecks, PongChecks, JitterChecks, Start
  <2>2. \A f \in Fields \ {"xml_loaded", "hist_num_buckets", "hist_ns_per_bucket"} :
          o'[f] = o[f]
    BY <1>0, <1>2 DEF ChecksOf, PingChecks, PongChecks, JitterChecks, Start
  <2>3. AsMeant(program, given, o')
    BY <2>2, MeantBefore DEF Reads
  <2>4. program # "jitter" =>
          o'.xml_loaded = IF file = "" THEN << >> ELSE <<<<file, AppName(o'.persist_mode)>>>>
    <3>1. SUFFICES ASSUME program # "jitter"
                   PROVE  o'.xml_loaded = IF file = "" THEN << >>
                                          ELSE <<<<file, AppName(o'.persist_mode)>>>>
      OBVIOUS
    <3>2. o' = [o EXCEPT !.xml_loaded = @ \o XmlLoaded]
      BY <1>2, <3>1 DEF ChecksOf, PingChecks, PongChecks, Start
    <3>3. o'.xml_loaded = o.xml_loaded \o XmlLoaded /\ o'.persist_mode = o.persist_mode
      BY <1>0, <3>2 DEF Fields
    <3>4. QED
      BY <3>1, <3>3, XmlAsUsed DEF Programs
  <2>5. program = "ping" => HistogramAsMeant(given, o')
    <3>1. SUFFICES ASSUME program = "ping" PROVE HistogramAsMeant(given, o')
      OBVIOUS
    <3>2. o' = [o EXCEPT !.xml_loaded = @ \o XmlLoaded]
      BY <1>2, <3>1 DEF ChecksOf, PingChecks, Start
    <3>3. /\ o'.hist_num_buckets = o.hist_num_buckets
          /\ o'.hist_ns_per_bucket = o.hist_ns_per_bucket
      BY <1>0, <3>2 DEF Fields, NumberFields
    <3>4. HistogramAsMeant(given, o)
      BY <3>1 DEF Reads
    <3>5. QED
      BY <3>3, <3>4 DEF HistogramAsMeant
  <2>6. program = "jitter" => HistogramAsMeant(given, o')
    <3>1. SUFFICES ASSUME program = "jitter" PROVE HistogramAsMeant(given, o')
      OBVIOUS
    <3>2. o' = [o EXCEPT !.hist_num_buckets = First(o.histogram),
                         !.hist_ns_per_bucket = Second(o.histogram)]
      BY <1>2, <3>1 DEF ChecksOf, JitterChecks, Start
    <3>3. /\ o'.hist_num_buckets = First(o.histogram)
          /\ o'.hist_ns_per_bucket = Second(o.histogram)
      BY <1>0, <3>2 DEF Fields, NumberFields
    <3>4. o.histogram = LastGiven(given, "H", "0,0")
      BY <3>1 DEF Reads
    <3>5. QED
      BY <3>3, <3>4 DEF HistogramAsMeant
  <2>7. AsGiven'
    BY <1>0, <2>1, <2>3, <2>5, <2>6 DEF AsGiven
  <2>8. XmlReadForItsMode'
    BY <1>0, <2>4 DEF XmlReadForItsMode
  <2>9. QED
    BY <2>1, <2>7, <2>8 DEF RefusedForCause
<1>3. QED
  BY <1>1, <1>2

LEMMA PrefixOf ==
    ASSUME NEW given \in Seq(Option), NEW k \in 0 .. Len(given)
    PROVE  /\ SubSeq(given, 1, k) \in Seq(Option)
           /\ k = 0 => SubSeq(given, 1, k) = << >>
           /\ k = Len(given) => SubSeq(given, 1, k) = given
           /\ k < Len(given) => /\ k + 1 \in DOMAIN given /\ given[k + 1] \in Option
                               /\ SubSeq(given, 1, k + 1) = Append(SubSeq(given, 1, k), given[k + 1])
<1>1. SubSeq(given, 1, k) \in Seq(Option)
  OBVIOUS
<1>2. k = 0 => SubSeq(given, 1, k) = << >>
  OBVIOUS
<1>3. k = Len(given) => SubSeq(given, 1, k) = given
  OBVIOUS
<1>4. ASSUME k < Len(given)
      PROVE  /\ k + 1 \in DOMAIN given /\ given[k + 1] \in Option
             /\ SubSeq(given, 1, k + 1) = Append(SubSeq(given, 1, k), given[k + 1])
  BY <1>4
<1>5. QED
  BY <1>1, <1>2, <1>3, <1>4

\* One step of the loop, from the options read so far.
LEMMA ReadsNext ==
    ASSUME OptInv, status = "parsing", NextOption, program \in Programs,
           argv \in Seq(ArgvWord), line.given \in Seq(Option), WellFormed(line),
           NEW k \in 0 .. Len(line.given), k < Len(line.given),
           optind = line.at[k + 1], Reads(program, SubSeq(line.given, 1, k), o)
    PROVE  ParsedSoFar' /\ AsGiven' /\ XmlReadForItsMode' /\ RefusedForCause'
<1> DEFINE given == line.given
           option == given[k + 1]
           next == cprt_getopt(argv, optind, OptString[program])
<1>0. program' = program /\ line' = line
  BY DEF NextOption, program
<1>1. /\ k + 1 \in DOMAIN given /\ option \in Option /\ SubSeq(given, 1, k) \in Seq(Option)
      /\ SubSeq(given, 1, k + 1) = Append(SubSeq(given, 1, k), option)
  BY PrefixOf
<1>2. SpelledOut(option, OptString[program], argv, optind, line.at[k + 2])
  BY <1>1 DEF WellFormed, program, argv
<1>3. next = Found(option.opt, option.arg, line.at[k + 2])
  BY <1>2, GetoptReads
<1>4. next.opt = option.opt /\ next.arg = option.arg /\ next.optind = line.at[k + 2]
  BY <1>3 DEF Found
<1>5. option.opt # "EOF" /\ option.opt # "?"
  BY <1>2, LettersType DEF SpelledOut
<1>6. /\ optind' = line.at[k + 2]
      /\ \/ program = "ping" /\ PingCase(option.opt, option.arg)
         \/ program = "pong" /\ PongCase(option.opt, option.arg)
         \/ program = "jitter" /\ JitterCase(option.opt, option.arg)
  BY <1>4, <1>5 DEF NextOption
<1>7. CASE Stopped
  <2>1. status' \in {"exit0", "exit1", "segv"}
    BY <1>7 DEF Stopped, Stop
  <2>2. ASSUME Documented(line), program = "pong" => Places(given, "p") = {} PROVE FALSE
    <3>1. ValueDocumented(program, option.opt, option.arg)
      BY <1>1, <2>2 DEF Documented, program
    <3>2. program = "pong" => option.opt # "p"
      BY <1>1, <2>2 DEF Places
    <3>3. status' = "parsing"
      BY <1>6, <3>1, <3>2, PingAccepts, PongAccepts, JitterAccepts
    <3>4. QED
      BY <2>1, <3>3
  <2>3. QED
    BY <1>0, <2>1, <2>2 DEF ParsedSoFar, AsGiven, XmlReadForItsMode, RefusedForCause
<1>8. CASE Took(program, o, o', option.opt, option.arg) /\ UNCHANGED status
  <2>1. Reads(program, SubSeq(given, 1, k + 1), o')
    BY <1>1, <1>8, ReadsMore
  <2>2. ParsedSoFar'
    BY <1>0, <1>6, <2>1 DEF ParsedSoFar
  <2>3. QED
    BY <1>8, <2>2 DEF AsGiven, XmlReadForItsMode, RefusedForCause
<1>9. QED
  <2>1. DOMAIN o = Fields
    BY DEF OptInv, Good
  <2>2. QED
    BY <1>6, <1>7, <1>8, <2>1, CaseOf

\* The step after the last option.
LEMMA ReadsEnd ==
    ASSUME OptInv, status = "parsing", NextOption, program \in Programs,
           argv \in Seq(ArgvWord), line.given \in Seq(Option), WellFormed(line),
           optind = line.at[Len(line.given) + 1], Reads(program, line.given, o)
    PROVE  ParsedSoFar' /\ AsGiven' /\ XmlReadForItsMode' /\ RefusedForCause'
<1> DEFINE next == cprt_getopt(argv, optind, OptString[program])
<1>0. line' = line /\ optind \in Nat \ {0} /\ Len(argv) \in Nat
  BY DEF NextOption, OptInv
<1>1. /\ NoOption(OptString[program], argv, optind)
      /\ line.complete <=> \/ optind > Len(argv)
                           \/ optind = Len(argv) /\ argv[optind] = EndMark
  BY DEF WellFormed, program, argv
<1>2. \/ next.opt = "?" /\ optind <= Len(argv) /\ argv[optind] # EndMark
      \/ next.opt = "EOF" /\ (next.optind > Len(argv) <=> line.complete)
  BY <1>0, <1>1, GetoptEnds
<1>3. CASE next.opt = "?" /\ optind <= Len(argv) /\ argv[optind] # EndMark
  <2>1. \/ program = "ping" /\ PingCase("?", next.arg)
        \/ program = "pong" /\ PongCase("?", next.arg)
        \/ program = "jitter" /\ JitterCase("?", next.arg)
    BY <1>3 DEF NextOption
  <2>2. Stop("exit1")
    <3>1. DOMAIN o = Fields
      BY DEF OptInv, Good
    <3>2. QED
      BY <2>1, <3>1, CaseOf
  <2>3. ~ line.complete
    BY <1>0, <1>1, <1>3
  <2>4. QED
    BY <1>0, <2>2, <2>3
    DEF Stop, ParsedSoFar, AsGiven, XmlReadForItsMode, RefusedForCause, Documented
<1>4. CASE next.opt = "EOF" /\ (next.optind > Len(argv) <=> line.complete)
  <2>1. ChecksOf(next.optind)
    BY <1>4 DEF NextOption, ChecksOf
  <2>2. AsGiven' /\ XmlReadForItsMode' /\ RefusedForCause' /\ status' # "parsing"
    BY <1>0, <1>4, <2>1, ChecksRead
  <2>3. QED
    BY <2>2 DEF ParsedSoFar
<1>5. QED
  BY <1>2, <1>3, <1>4

ReadInv == ParsedSoFar /\ AsGiven /\ XmlReadForItsMode /\ RefusedForCause

LEMMA ReadsOption == OptInv /\ ReadInv /\ NextOption => ReadInv'
<1> SUFFICES ASSUME OptInv, ReadInv, NextOption PROVE ReadInv'
  OBVIOUS
<1>1. /\ program \in Programs /\ argv \in Seq(ArgvWord)
      /\ line.given \in Seq(Option) /\ WellFormed(line)
  BY LineFields DEF OptInv
<1>2. status = "parsing"
  BY DEF NextOption
<1>3. PICK k \in 0 .. Len(line.given) :
        optind = line.at[k + 1] /\ Reads(program, SubSeq(line.given, 1, k), o)
  BY <1>2 DEF ReadInv, ParsedSoFar
<1>4. CASE k < Len(line.given)
  BY <1>1, <1>2, <1>3, <1>4, ReadsNext DEF ReadInv
<1>5. CASE k = Len(line.given)
  <2>1. Reads(program, line.given, o)
    BY <1>1, <1>3, <1>5, PrefixOf
  <2>2. QED
    BY <1>1, <1>2, <1>3, <1>5, <2>1, ReadsEnd DEF ReadInv
<1>6. QED
  BY <1>1, <1>4, <1>5

LEMMA InitReadInv == OptionsInit => ReadInv
<1> SUFFICES ASSUME OptionsInit PROVE ReadInv
  OBVIOUS
<1>1. /\ program \in Programs /\ line.given \in Seq(Option) /\ WellFormed(line)
      /\ optind = 1 /\ o = Defaults /\ status = "parsing"
  BY LineFields DEF OptionsInit
<1>2. SubSeq(line.given, 1, 0) = << >> /\ 0 \in 0 .. Len(line.given)
  BY <1>1, PrefixOf
<1>3. line.at[0 + 1] = 1
  BY <1>1 DEF WellFormed
<1>4. Reads(program, SubSeq(line.given, 1, 0), o)
  BY <1>1, <1>2, NothingRead
<1>5. QED
  BY <1>1, <1>2, <1>3, <1>4
  DEF ReadInv, ParsedSoFar, AsGiven, XmlReadForItsMode, RefusedForCause

LEMMA StutterReadInv == ReadInv /\ UNCHANGED option_vars => ReadInv'
BY DEF ReadInv, option_vars, ParsedSoFar, AsGiven, XmlReadForItsMode, RefusedForCause, program

LEMMA ReadInvariance == Spec => []ReadInv
<1>1. Init => OptInv /\ Main /\ ReadInv
  BY InitOptInv, InitReadInv DEF Init, Main
<1>2. OptInv /\ Main /\ ReadInv /\ [Next]_vars => OptInv' /\ Main' /\ ReadInv'
  <2> SUFFICES ASSUME OptInv, Main, ReadInv, [Next]_vars PROVE OptInv' /\ Main' /\ ReadInv'
    OBVIOUS
  <2>1. OptInv' /\ Main'
    BY OptionsFirst
  <2>2. CASE ReadOption
    BY <2>1, <2>2, ReadsOption DEF ReadOption
  <2>3. CASE ~ReadOption
    <3>1. UNCHANGED option_vars
      BY <2>3
      DEF Next, Begin, TryCpu, SockTurn, SendFails, Compare, Pin, StampTurn, Report, InMain, vars
    <3>2. QED
      BY <2>1, <3>1, StutterReadInv
  <2>4. QED
    BY <2>2, <2>3
<1>3. QED
  BY <1>1, <1>2, PTL DEF Spec

\* A tool that starts runs with the options its command line spells out, in
\* any order and in any of the ways to write a value (cprt.c:405-492,
\* um_lat_ping.c:117-217).
THEOREM ReadAsGiven == Spec => []AsGiven
BY ReadInvariance, PTL DEF ReadInv

\* The XML file of -x is read once, for the application of the -p that
\* counts (um_lat_ping.c:211, 228).
THEOREM XmlReadLate == Spec => []XmlReadForItsMode
BY ReadInvariance, PTL DEF ReadInv

\* What the help texts allow is never turned away, with the two exceptions
\* that the property names: pong's -p (um_lat_pong.c:106-131), and a
\* um_lat_jitter without -g, -i or buckets (um_lat_jitter.c:107-118).
THEOREM DocumentedAccepted == Spec => []RefusedForCause
BY ReadInvariance, PTL DEF ReadInv

-----------------------------------------------------------------------------
(* The report.                                                             *)

Preparing == pc \in {"scan", "warmup", "test", "compare", "pin"}

\* The two records of the extremes agree while no sample is longer than an
\* int, which a sample inside the loop never is.
Agree ==
    /\ hist.max = ts_max_ns
    /\ hist.min = ts_min_ns
    /\ hist.sum \in 0 .. elapsed

LoopInv ==
    /\ elapsed \in Nat /\ ts_min_ns \in Nat /\ ts_max_ns \in Nat
    /\ pc = "options" => ts_min_ns = MinSentinel /\ ts_max_ns = 0
    /\ Preparing => /\ ts_min_ns = MinSentinel /\ ts_max_ns = 0
                    /\ hist.max = 0 /\ hist.min = MinSentinel
                    /\ hist.sum = 0 /\ hist.num = 0
    /\ Measuring => /\ hist.num \in Nat
                    /\ ts_max_ns <= elapsed
                    /\ ts_max_ns <= IntMax => Agree
    /\ pc = "loop" => elapsed < LoopNs
    /\ Measuring /\ pc # "loop" => hist.num > 0

\* A time that an int holds is what the histogram is given.
LEMMA CastSmall ==
    ASSUME NEW x \in 0 .. IntMax
    PROVE  Record!CastSample(x) = x
<1>1. Record!AsInt(x) = x
  BY AsIntSmall DEF Record!AsInt, AsInt
<1>2. Record!AsWord(x) = x
  BY AsWordSmall DEF Record!AsWord, AsWord
<1>3. QED
  BY <1>1, <1>2 DEF Record!CastSample

LEMMA StampLoop ==
    ASSUME LoopInv, NEW before \in Nat, NEW between \in Nat, StampTurn(before, between)
    PROVE  LoopInv'
<1>1. /\ pc = "loop" /\ Measuring /\ ~Preparing
      /\ elapsed \in Nat /\ elapsed < LoopNs /\ LoopNs \in 1 .. IntMax
      /\ ts_min_ns \in Nat /\ ts_max_ns \in Nat /\ ts_max_ns <= elapsed
      /\ hist.num \in Nat /\ Agree
  BY JitterAssumption, CIntegerAssumption DEF StampTurn, LoopInv, Measuring, Preparing
<1>2. /\ elapsed' = elapsed + before + between
      /\ ts_min_ns' = IF between < ts_min_ns THEN between ELSE ts_min_ns
      /\ ts_max_ns' = IF between > ts_max_ns THEN between ELSE ts_max_ns
      /\ pc' = IF elapsed' < LoopNs THEN "loop" ELSE "print"
  BY DEF StampTurn, Between
<1>3. /\ hist'.num = hist.num + 1
      /\ hist'.sum = (hist.sum + Record!CastSample(between)) % WordMod
      /\ hist'.max = IF Record!CastSample(between) > hist.max
                       THEN Record!CastSample(between) ELSE hist.max
      /\ hist'.min = IF Record!CastSample(between) < hist.min
                       THEN Record!CastSample(between) ELSE hist.min
  BY DEF StampTurn, Between, Record!hist_input, Record!NewMin
<1>4. ts_max_ns' <= elapsed'
  BY <1>1, <1>2
<1>5. ASSUME ts_max_ns' <= IntMax PROVE Agree'
  <2>1. between \in 0 .. IntMax
    BY <1>1, <1>2, <1>5, CIntegerAssumption
  <2>2. Record!CastSample(between) = between
    BY <2>1, CastSmall
  <2>3. hist.sum \in 0 .. elapsed /\ hist.sum + between \in Nat
        /\ hist.sum + between < WordMod
    BY <1>1, <2>1, CIntegerAssumption DEF Agree
  <2>4. hist'.sum = hist.sum + between
    BY <1>3, <2>2, <2>3, SmallMod, CIntegerAssumption
  <2>5. hist'.sum \in 0 .. elapsed'
    BY <1>1, <1>2, <2>3, <2>4
  <2>6. QED
    BY <1>1, <1>2, <1>3, <2>2, <2>5 DEF Agree
<1>6. QED
  BY <1>1, <1>2, <1>3, <1>4, <1>5 DEF LoopInv, Measuring, Preparing

LEMMA InitLoop == Init => LoopInv
BY JitterAssumption DEF Init, LoopInv, Preparing, Measuring

LEMMA StepLoop == LoopInv /\ [Next]_vars => LoopInv'
<1> SUFFICES ASSUME LoopInv, [Next]_vars PROVE LoopInv'
  OBVIOUS
<1>1. CASE ReadOption \/ UNCHANGED vars
  BY <1>1 DEF ReadOption, vars, jitter_vars, loop_vars, LoopInv, Preparing, Measuring, Agree
<1>2. CASE Begin
  <2>1. hist'.max = 0 /\ hist'.min = MinSentinel /\ hist'.sum = 0 /\ hist'.num = 0
    BY <1>2 DEF Begin, Record!hist_init
  <2>2. pc' \in {"pin", "scan", "exit1"} /\ pc = "options"
        /\ UNCHANGED <<elapsed, ts_min_ns, ts_max_ns>>
    BY <1>2 DEF Begin
  <2>3. QED
    BY <2>1, <2>2 DEF LoopInv, Preparing, Measuring
<1>3. CASE TryCpu
  <2>1. Preparing /\ pc' \in {"pin", "warmup"} /\ elapsed' = 0 /\ UNCHANGED loop_vars
    BY <1>3 DEF TryCpu, Preparing
  <2>2. QED
    BY <2>1 DEF LoopInv, Preparing, Measuring, loop_vars
<1>4. ASSUME NEW time \in SockTimes, SockTurn(time) PROVE LoopInv'
  <2>1. Preparing /\ pc' \in {"warmup", "test", "compare"} /\ UNCHANGED loop_vars
    BY <1>4 DEF SockTurn, Preparing
  <2>2. elapsed' \in Nat
    BY <1>4, JitterAssumption DEF SockTurn, LoopInv
  <2>3. QED
    BY <2>1, <2>2 DEF LoopInv, Preparing, Measuring, loop_vars
<1>5. CASE SendFails \/ Compare
  <2>1. Preparing /\ pc' \in {"scan", "exit1"} /\ UNCHANGED <<elapsed, loop_vars>>
    BY <1>5 DEF SendFails, Compare, Preparing
  <2>2. QED
    BY <2>1 DEF LoopInv, Preparing, Measuring, loop_vars
<1>6. CASE Pin
  <2>1. Preparing /\ pc' \in {"loop", "exit1"} /\ elapsed' = 0 /\ UNCHANGED loop_vars
    BY <1>6 DEF Pin, Preparing
  <2>2. QED
    BY <2>1, JitterAssumption DEF LoopInv, Preparing, Measuring, loop_vars, Agree
<1>7. ASSUME NEW t \in StampTimes, StampTurn(t[1], t[2]) PROVE LoopInv'
  <2>1. t[1] \in Nat /\ t[2] \in Nat
    BY JitterAssumption
  <2>2. QED
    BY <1>7, <2>1, StampLoop
<1>8. CASE Report
  <2>1. Measuring /\ pc # "loop" /\ pc' \in {"exit0", "sigfpe"}
        /\ UNCHANGED <<elapsed, loop_vars>>
    BY <1>8 DEF Report, Measuring
  <2>2. QED
    BY <2>1 DEF LoopInv, Preparing, Measuring, loop_vars, Agree
<1>9. QED
  BY <1>1, <1>2, <1>3, <1>4, <1>5, <1>6, <1>7, <1>8 DEF Next

\* No time inside jitter_loop is ever spoilt by the cast to int
\* (um_lat_jitter.c:242-261).
THEOREM LoopReported == Spec => []ReportsTheLoop
<1>1. LoopInv => ReportsTheLoop
  BY JitterAssumption DEF LoopInv, ReportsTheLoop, Agree
<1>2. QED
  BY <1>1, InitLoop, StepLoop, PTL DEF Spec

-----------------------------------------------------------------------------
(* The search for a CPU.                                                   *)

TestingCpu == pc \in {"warmup", "test", "compare"}

\* What has been found among CPUs 0 .. cpu - 1.
FoundSoFar ==
    /\ cpu \in 0 .. MaskBits
    /\ DOMAIN tested = 0 .. cpu - 1
    /\ \A c \in 0 .. cpu - 1 : c \in allowed /\ tested[c] \in Nat
    /\ max_loops \in 0 .. IntMax
    /\ cpu = 0 => max_loops = 0 /\ max_cpu = -1
    /\ cpu > 0 => Best(max_cpu) /\ tested[max_cpu] = max_loops

ScanInv ==
    /\ allowed \subseteq CpuNums
    /\ elapsed \in Nat /\ num_sends \in Nat
    /\ FoundSoFar
    /\ TestingCpu => cpu < MaskBits /\ cpu \in allowed
    /\ pc = "test" => elapsed < TestNs /\ num_sends <= 2 * elapsed
    /\ pc = "compare" => num_sends \in 1 .. IntMax
    /\ pc = "pin" /\ ~(o.affinity_cpu > -1) => cpu = MaskBits \/ cpu \notin allowed
    /\ MeasuresOnBest

LEMMA CompareFound ==
    ASSUME ScanInv, Compare
    PROVE  FoundSoFar'
<1>1. /\ cpu \in CpuNums /\ cpu \in allowed /\ MaskBits \in Nat \ {0}
      /\ num_sends \in 1 .. IntMax /\ IntMax \in Nat
      /\ max_loops \in 0 .. IntMax
      /\ cpu' = cpu + 1
      /\ UNCHANGED allowed
  BY JitterAssumption, CIntegerAssumption
  DEF Compare, InMain, ScanInv, FoundSoFar, TestingCpu, CpuNums
<1>2. DOMAIN tested = 0 .. cpu - 1 /\ \A c \in 0 .. cpu - 1 : c \in allowed /\ tested[c] \in Nat
  BY DEF ScanInv, FoundSoFar
<1>3. tested' = [c \in 0 .. cpu |-> IF c = cpu THEN num_sends ELSE tested[c]]
  BY <1>1, <1>2 DEF Compare, CpuNums
<1>4. /\ DOMAIN tested' = 0 .. cpu
      /\ tested'[cpu] = num_sends
      /\ \A c \in 0 .. cpu - 1 : tested'[c] = tested[c]
  BY <1>1, <1>3 DEF CpuNums
<1>5. \A c \in 0 .. cpu : c \in allowed /\ tested'[c] \in Nat
  BY <1>1, <1>2, <1>4 DEF CpuNums
<1>6. AsWord(max_loops) = max_loops /\ AsInt(num_sends) = num_sends
  BY <1>1, AsWordSmall, AsIntSmall
<1>7. CASE cpu = 0
  <2>1. max_loops = 0
    BY <1>7 DEF ScanInv, FoundSoFar
  <2>2. max_loops' = num_sends /\ max_cpu' = 0
    BY <1>1, <1>6, <1>7, <2>1 DEF Compare
  <2>3. Best(max_cpu)'
    BY <1>4, <1>5, <1>7, <2>2 DEF Best
  <2>4. QED
    BY <1>1, <1>4, <1>5, <1>7, <2>2, <2>3 DEF FoundSoFar, CpuNums
<1>8. CASE cpu > 0
  <2>1. /\ max_cpu \in 0 .. cpu - 1 /\ tested[max_cpu] = max_loops
        /\ \A d \in 0 .. cpu - 1 : /\ tested[d] <= max_loops
                                   /\ d < max_cpu => tested[d] < max_loops
    BY <1>2, <1>8 DEF ScanInv, FoundSoFar, Best
  <2>2. CASE num_sends > max_loops
    <3>1. max_loops' = num_sends /\ max_cpu' = cpu
      BY <1>6, <2>2 DEF Compare
    <3>2. \A d \in 0 .. cpu - 1 : tested'[d] < num_sends
      BY <1>1, <1>2, <1>4, <2>1, <2>2
    <3>3. ASSUME NEW d \in 0 .. cpu
          PROVE  tested'[d] <= tested'[cpu] /\ (d < cpu => tested'[d] < tested'[cpu])
      <4>1. d = cpu \/ d \in 0 .. cpu - 1
        BY <1>1 DEF CpuNums
      <4>2. tested'[d] \in Nat /\ tested'[cpu] = num_sends /\ num_sends \in Nat
        BY <1>1, <1>4, <1>5
      <4>3. QED
        BY <3>2, <4>1, <4>2
    <3>4. Best(max_cpu)'
      BY <1>1, <1>4, <3>1, <3>3 DEF Best, CpuNums
    <3>5. QED
      BY <1>1, <1>4, <1>5, <3>1, <3>4 DEF FoundSoFar, CpuNums
  <2>3. CASE ~(num_sends > max_loops)
    <3>1. max_loops' = max_loops /\ max_cpu' = max_cpu
      BY <1>6, <2>3 DEF Compare
    <3>2. tested'[max_cpu] = max_loops /\ max_cpu < cpu /\ max_cpu \in Int
      BY <1>1, <1>4, <2>1 DEF CpuNums
    <3>3. \A d \in 0 .. cpu - 1 : /\ tested'[d] <= max_loops
                                  /\ d < max_cpu => tested'[d] < max_loops
      BY <1>4, <2>1
    <3>4. tested'[cpu] <= max_loops
      BY <1>1, <1>4, <2>3
    <3>5. \A d \in 0 .. cpu : d = cpu \/ d \in 0 .. cpu - 1
      BY <1>1 DEF CpuNums
    <3>6. ASSUME NEW d \in 0 .. cpu
          PROVE  tested'[d] <= max_loops /\ (d < max_cpu => tested'[d] < max_loops)
      <4>1. CASE d = cpu
        BY <3>2, <3>4, <4>1
      <4>2. CASE d \in 0 .. cpu - 1
        BY <3>3, <4>2
      <4>3. QED
        BY <3>5, <4>1, <4>2
    <3>7. Best(max_cpu)'
      BY <1>1, <1>4, <2>1, <3>1, <3>2, <3>6 DEF Best, CpuNums
    <3>8. QED
      BY <1>1, <1>4, <1>5, <3>1, <3>2, <3>7 DEF FoundSoFar, CpuNums
  <2>4. QED
    BY <2>2, <2>3
<1>9. QED
  BY <1>1, <1>7, <1>8 DEF CpuNums

\* Where the scan stops is where the usable CPUs have their first gap.
LEMMA PinBest ==
    ASSUME ScanInv, Main, o.affinity_cpu \in Int, Pin
    PROVE  MeasuresOnBest'
<1> SUFFICES ASSUME Measuring' PROVE MeasuresOnBest'
  BY DEF MeasuresOnBest
<1>1. /\ UNCHANGED <<o, allowed, tested, cpu, max_cpu>>
      /\ pc = "pin"
      /\ \E mask \in CpuMasks(IF o.affinity_cpu > -1 THEN o.affinity_cpu ELSE max_cpu) :
            ~Refused(mask) /\ pinned' = CpuSetOf(mask) \cap allowed
  BY DEF Pin, InMain, option_vars, scan_vars, Measuring
<1>2. ASSUME NEW n \in CpuNums,
             \E mask \in CpuMasks(n) : ~Refused(mask) /\ pinned' = CpuSetOf(mask) \cap allowed
      PROVE  pinned' = {n}
  <2>1. ~Refused({n}) /\ pinned' = CpuSetOf({n}) \cap allowed
    BY <1>2 DEF CpuMasks
  <2>2. CpuSetOf({n}) = {n}
    BY DEF CpuSetOf
  <2>3. QED
    BY <2>1, <2>2 DEF Refused
<1>3. CASE o.affinity_cpu > -1
  BY <1>1, <1>2, <1>3 DEF MeasuresOnBest
<1>4. CASE ~(o.affinity_cpu > -1)
  <2> SUFFICES ASSUME 0 \in allowed
               PROVE  /\ \E c \in CpuNums : Best(c)' /\ pinned' = {c}
                      /\ DOMAIN tested' = {c \in CpuNums : 0 .. c \subseteq allowed'}
    BY <1>1, <1>4 DEF MeasuresOnBest
  <2>1. /\ cpu \in 0 .. MaskBits /\ MaskBits \in Nat \ {0}
        /\ cpu = MaskBits \/ cpu \notin allowed
        /\ DOMAIN tested = 0 .. cpu - 1
        /\ \A c \in 0 .. cpu - 1 : c \in allowed
        /\ allowed \subseteq CpuNums
    BY <1>1, <1>4, JitterAssumption DEF ScanInv, FoundSoFar
  <2>2. cpu > 0
    BY <2>1
  <2>3. Best(max_cpu) /\ max_cpu \in CpuNums
    BY <2>1, <2>2 DEF ScanInv, FoundSoFar, Best, CpuNums
  <2>4. pinned' = {max_cpu}
    BY <1>1, <1>2, <1>4, <2>3
  <2>5. Best(max_cpu)'
    BY <1>1, <2>3 DEF Best
  <2>6. 0 .. cpu - 1 = {c \in CpuNums : 0 .. c \subseteq allowed}
    <3>1. ASSUME NEW c \in CpuNums, 0 .. c \subseteq allowed PROVE c \in 0 .. cpu - 1
      BY <2>1, <3>1 DEF CpuNums
    <3>2. ASSUME NEW c \in 0 .. cpu - 1 PROVE c \in CpuNums /\ 0 .. c \subseteq allowed
      BY <2>1 DEF CpuNums
    <3>3. QED
      BY <3>1, <3>2
  <2>7. QED
    BY <1>1, <2>1, <2>3, <2>4, <2>5, <2>6
<1>5. QED
  BY <1>3, <1>4

\* The scan's variables do not move in jitter_loop, nor before the scan.
LEMMA ScanUnchanged ==
    ASSUME ScanInv, UNCHANGED <<o, allowed, pinned, scan_vars>>, elapsed' \in Nat,
           pc' \in {"scan", "exit1", "loop", "print", "exit0", "sigfpe"}
             \/ (pc' = "pin" /\ o.affinity_cpu > -1),
           ~Measuring' \/ Measuring
    PROVE  ScanInv'
BY DEF ScanInv, FoundSoFar, Best, TestingCpu, MeasuresOnBest, scan_vars, Measuring

LEMMA InitScan == Init => ScanInv
<1> SUFFICES ASSUME Init PROVE ScanInv
  OBVIOUS
<1>1. /\ allowed \subseteq CpuNums /\ elapsed = 0 /\ num_sends = 0 /\ pc = "options"
      /\ cpu = 0 /\ max_loops = 0 /\ max_cpu = -1 /\ DOMAIN tested = {}
  BY DEF Init
<1>2. QED
  BY <1>1, JitterAssumption, CIntegerAssumption
  DEF ScanInv, FoundSoFar, TestingCpu, MeasuresOnBest, Measuring

LEMMA StepScan == OptInv /\ Main /\ ScanInv /\ [Next]_vars => ScanInv'
<1> SUFFICES ASSUME OptInv, Main, ScanInv, [Next]_vars PROVE ScanInv'
  OBVIOUS
<1>a. o.affinity_cpu \in Int /\ elapsed \in Nat
  BY CIntegerAssumption DEF OptInv, Good, NumberFields, Int32, ScanInv
<1>1. CASE ReadOption
  <2>1. pc = "options" /\ UNCHANGED jitter_vars
    BY <1>1 DEF ReadOption, NextOption, Main
  <2>2. QED
    BY <2>1 DEF ScanInv, FoundSoFar, Best, TestingCpu, MeasuresOnBest, jitter_vars, scan_vars,
                Measuring
<1>2. CASE UNCHANGED vars
  BY <1>2 DEF vars, option_vars, jitter_vars, ScanInv, FoundSoFar, Best, TestingCpu,
              MeasuresOnBest, scan_vars, Measuring
<1>3. CASE Begin
  <2>1. UNCHANGED <<o, allowed, pinned, elapsed, scan_vars>>
    BY <1>3 DEF Begin, InMain, option_vars
  <2>2. pc' \in {IF o.affinity_cpu > -1 THEN "pin" ELSE "scan", "exit1"}
    BY <1>3 DEF Begin
  <2>3. pc' \in {"scan", "exit1"} \/ (pc' = "pin" /\ o.affinity_cpu > -1)
    BY <2>2, Zenon
  <2>4. QED
    BY <1>a, <2>1, <2>3, ScanUnchanged DEF Measuring
<1>4. CASE TryCpu
  <2>1. /\ UNCHANGED <<o, allowed, cpu, max_loops, max_cpu, tested>>
        /\ elapsed' = 0 /\ num_sends' = 0
        /\ \/ pc' = "warmup" /\ cpu < MaskBits /\ \E mask \in CpuMasks(cpu) : ~Refused(mask)
           \/ pc' = "pin" /\ ~(cpu < MaskBits)
           \/ pc' = "pin" /\ \E mask \in CpuMasks(cpu) : Refused(mask)
    BY <1>4 DEF TryCpu, InMain, option_vars
  <2>2. cpu \in 0 .. MaskBits /\ MaskBits \in Nat \ {0}
    BY JitterAssumption DEF ScanInv, FoundSoFar
  <2>3. ASSUME cpu < MaskBits, NEW mask \in CpuMasks(cpu)
        PROVE  Refused(mask) <=> cpu \notin allowed
    <3>1. cpu \in CpuNums /\ mask = {cpu}
      BY <2>2, <2>3 DEF CpuMasks, CpuNums
    <3>2. CpuSetOf(mask) = {cpu}
      BY <3>1 DEF CpuSetOf
    <3>3. QED
      BY <3>2 DEF Refused
  <2>4. \/ pc' = "warmup" /\ cpu < MaskBits /\ cpu \in allowed
        \/ pc' = "pin" /\ (cpu = MaskBits \/ cpu \notin allowed)
    BY <2>1, <2>2, <2>3
  <2>5. FoundSoFar'
    BY <2>1 DEF ScanInv, FoundSoFar, Best
  <2>6. QED
    BY <2>1, <2>4, <2>5 DEF ScanInv, TestingCpu, MeasuresOnBest, Measuring
<1>5. ASSUME NEW time \in SockTimes, SockTurn(time) PROVE ScanInv'
  <2>1. /\ UNCHANGED <<o, allowed, cpu, max_loops, max_cpu, tested>>
        /\ pc \in {"warmup", "test"} /\ time \in Nat \ {0}
    BY <1>5, JitterAssumption DEF SockTurn, InMain, option_vars
  <2>2. FoundSoFar'
    BY <2>1 DEF ScanInv, FoundSoFar, Best
  <2>3. /\ elapsed \in Nat /\ num_sends \in Nat /\ cpu < MaskBits /\ cpu \in allowed
        /\ pc = "test" => elapsed < TestNs /\ num_sends <= 2 * elapsed
        /\ TestNs \in Nat \ {0} /\ 2 * TestNs <= IntMax /\ IntMax \in Nat
    BY <2>1, JitterAssumption, CIntegerAssumption DEF ScanInv, TestingCpu
  <2>4. CASE pc = "warmup"
    <3>1. /\ pc' \in {"warmup", "test"} /\ elapsed' \in Nat /\ num_sends' \in Nat
          /\ pc' = "test" => elapsed' = 0 /\ num_sends' = 0
      BY <1>5, <2>1, <2>3, <2>4 DEF SockTurn
    <3>2. pc' = "test" => elapsed' < TestNs /\ num_sends' <= 2 * elapsed'
      BY <2>3, <3>1
    <3>3. pc' \in {"warmup", "test"}
      BY <3>1
    <3>4. ~Measuring'
      BY <3>3 DEF Measuring
    <3>5. QED
      BY <2>1, <2>2, <2>3, <3>1, <3>2, <3>4 DEF ScanInv, TestingCpu, MeasuresOnBest
  <2>5. CASE pc = "test"
    <3>1. /\ pc' \in {"test", "compare"} /\ elapsed' \in Nat /\ num_sends' = num_sends + 2
          /\ pc' = "test" => elapsed' = elapsed + time /\ elapsed' < TestNs
      BY <1>5, <2>1, <2>3, <2>5 DEF SockTurn
    <3>2. elapsed < TestNs /\ num_sends <= 2 * elapsed
      BY <2>3, <2>5
    <3>3. num_sends' \in 1 .. IntMax
      BY <2>3, <3>1, <3>2
    <3>4. pc' = "test" => num_sends' <= 2 * elapsed'
      BY <2>1, <2>3, <3>1, <3>2
    <3>5. pc' \in {"test", "compare"} /\ elapsed' \in Nat /\ num_sends' \in Nat
      BY <2>3, <3>1
    <3>6. ~Measuring'
      BY <3>5 DEF Measuring
    <3>7. pc' = "test" => elapsed' < TestNs
      BY <3>1
    <3>8. QED
      BY <2>1, <2>2, <2>3, <3>3, <3>4, <3>5, <3>6, <3>7 DEF ScanInv, TestingCpu, MeasuresOnBest
  <2>6. QED
    BY <2>1, <2>4, <2>5
<1>6. CASE SendFails
  <2>1. UNCHANGED <<o, allowed, pinned, elapsed, scan_vars>> /\ pc' = "exit1"
    BY <1>6 DEF SendFails, InMain, option_vars
  <2>2. elapsed' \in Nat /\ ~Measuring'
    BY <1>a, <2>1 DEF Measuring
  <2>3. QED
    BY <2>1, <2>2, ScanUnchanged
<1>7. CASE Compare
  <2>1. pc' = "scan" /\ UNCHANGED <<o, allowed, elapsed, num_sends>>
    BY <1>7 DEF Compare, InMain, option_vars
  <2>2. QED
    BY <1>7, <2>1, CompareFound DEF ScanInv, TestingCpu, MeasuresOnBest, Measuring
<1>8. CASE Pin
  <2>1. /\ UNCHANGED <<o, allowed, scan_vars>> /\ elapsed' = 0
        /\ pc' \in {"loop", "exit1"}
    BY <1>8 DEF Pin, InMain, option_vars
  <2>2. FoundSoFar'
    BY <2>1 DEF ScanInv, FoundSoFar, Best, scan_vars
  <2>3. QED
    BY <1>8, <1>a, <2>1, <2>2, PinBest DEF ScanInv, TestingCpu, scan_vars
<1>9. ASSUME NEW t \in StampTimes, StampTurn(t[1], t[2]) PROVE ScanInv'
  <2>1. t[1] \in Nat /\ t[2] \in Nat
    BY JitterAssumption
  <2>2. /\ UNCHANGED <<o, allowed, pinned, scan_vars>> /\ elapsed' = elapsed + t[1] + t[2]
        /\ pc = "loop" /\ pc' \in {"loop", "print"}
    BY <1>9 DEF StampTurn, InMain, option_vars
  <2>3. elapsed' \in Nat /\ Measuring
    BY <1>a, <2>1, <2>2 DEF Measuring
  <2>4. QED
    BY <2>2, <2>3, ScanUnchanged
<1>10. CASE Report
  <2>1. /\ UNCHANGED <<o, allowed, pinned, elapsed, scan_vars>>
        /\ pc = "print" /\ pc' \in {"exit0", "sigfpe"}
    BY <1>10 DEF Report, InMain, option_vars
  <2>2. elapsed' \in Nat /\ Measuring
    BY <1>a, <2>1 DEF Measuring
  <2>3. QED
    BY <2>1, <2>2, ScanUnchanged
<1>11. QED
  BY <1>1, <1>2, <1>3, <1>4, <1>5, <1>6, <1>7, <1>8, <1>9, <1>10 DEF Next

\* For any CPUs, and any turns of the two loops that take some time, the
\* thread ends up on the CPU it was told or on the best of those tested
\* (um_lat_jitter.c:337-369).
THEOREM BestChosen == Spec => []MeasuresOnBest
<1>1. Init => OptInv /\ Main /\ ScanInv
  BY InitOptInv, InitScan DEF Init, Main
<1>2. OptInv /\ Main /\ ScanInv /\ [Next]_vars => OptInv' /\ Main' /\ ScanInv'
  BY OptionsFirst, StepScan
<1>3. ScanInv => MeasuresOnBest
  BY DEF ScanInv
<1>4. QED
  BY <1>1, <1>2, <1>3, PTL DEF Spec

-----------------------------------------------------------------------------
(* Type correctness.                                                       *)

Pcs == {"options", "scan", "warmup", "test", "compare", "pin", "loop", "print",
        "exit0", "exit1", "sigfpe"}

TypeInv ==
    /\ pc \in Pcs
    /\ pinned \subseteq allowed
    /\ tested = [c \in DOMAIN tested |-> tested[c]]
    /\ pc # "options" => hist \in Record!Hist

LEMMA BucketsGiven ==
    ASSUME OptInv, InMain
    PROVE  o.hist_num_buckets \in Nat \ {0} /\ o.hist_ns_per_bucket \in Nat \ {0}
<1>1. o.hist_num_buckets \in Int32 /\ o.hist_ns_per_bucket \in Int32
  BY DEF OptInv, Good, NumberFields
<1>2. o.hist_num_buckets > 0 /\ o.hist_ns_per_bucket > 0
  BY DEF OptInv, InMain, AcceptedRuns
<1>3. QED
  BY <1>1, <1>2, CIntegerAssumption DEF Int32

LEMMA CastType ==
    ASSUME NEW x \in Nat
    PROVE  Record!CastSample(x) \in Word
<1>1. x % (2 * (IntMax + 1)) \in 0 .. 2 * (IntMax + 1) - 1
  BY CIntegerAssumption, DivMod
<1>2. Record!AsInt(x) \in Int32
  BY <1>1, CIntegerAssumption DEF Record!AsInt, Int32
<1>3. QED
  BY <1>2, CIntegerAssumption DEF Record!CastSample, Record!AsWord, Int32, Word

LEMMA InputType ==
    ASSUME OptInv, InMain, hist \in Record!Hist, NEW s \in Word
    PROVE  Record!hist_input(hist, s) \in Record!Hist
<1>1. o.hist_num_buckets \in Nat \ {0} /\ o.hist_ns_per_bucket \in Nat \ {0}
  BY BucketsGiven
<1>2. Record!BucketOf(s) \in Nat
  <2>1. s \in Nat
    BY CIntegerAssumption DEF Word
  <2>2. s \div o.hist_ns_per_bucket \in Nat
    BY <1>1, <2>1, DivMod
  <2>3. QED
    BY <2>2 DEF Record!BucketOf
<1>3. ~Record!Overflows(s) => Record!BucketOf(s) \in Record!Buckets
  BY <1>1, <1>2 DEF Record!Overflows, Record!Buckets
<1>4. Record!Word = Word
  BY DEF Record!Word, Word
<1>5. /\ hist.buckets \in [Record!Buckets -> Nat] /\ hist.overflows \in Nat
      /\ hist.num \in Nat /\ hist.sum \in Word
      /\ hist.min \in Word \cup {MinSentinel} /\ hist.max \in Word
  BY <1>4 DEF Record!Hist
<1>6. (hist.sum + s) % WordMod \in Word
  <2>1. hist.sum + s \in Nat
    BY <1>5, CIntegerAssumption DEF Word
  <2>2. WordMod \in Nat \ {0}
    BY CIntegerAssumption
  <2>3. (hist.sum + s) % WordMod \in 0 .. WordMod - 1
    BY <2>1, <2>2, DivMod
  <2>4. QED
    BY <2>3 DEF Word
<1>7. /\ Record!NewMin(hist, s) \in Word \cup {MinSentinel}
      /\ (IF s > hist.max THEN s ELSE hist.max) \in Word
  BY <1>5 DEF Record!NewMin
<1>8. (IF Record!Overflows(s) THEN hist.buckets
         ELSE [hist.buckets EXCEPT ![Record!BucketOf(s)] = @ + 1]) \in [Record!Buckets -> Nat]
  BY <1>3, <1>5
<1>9. QED
  BY <1>4, <1>5, <1>6, <1>7, <1>8 DEF Record!hist_input, Record!Hist

\* The histogram of -H keeps its type while -H is what it was.
LEMMA HistSame ==
    ASSUME UNCHANGED <<o, hist>>, hist \in Record!Hist PROVE (hist \in Record!Hist)'
BY DEF Record!Hist, Record!Buckets, Record!Word

LEMMA StepTypes == OptInv /\ Main /\ TypeInv /\ [Next]_vars => TypeInv'
<1> SUFFICES ASSUME OptInv, Main, TypeInv, [Next]_vars PROVE TypeInv'
  OBVIOUS
<1>1. CASE ReadOption
  <2>1. pc = "options" /\ UNCHANGED <<pc, allowed, pinned, tested>>
    BY <1>1 DEF ReadOption, NextOption, Main, jitter_vars, scan_vars
  <2>2. QED
    BY <2>1 DEF TypeInv
<1>2. CASE UNCHANGED vars
  <2>1. UNCHANGED <<pc, allowed, pinned, tested, o, hist>>
    BY <1>2 DEF vars, jitter_vars, scan_vars, loop_vars, option_vars
  <2>2. QED
    BY <2>1, HistSame DEF TypeInv
<1>3. CASE Begin
  <2>1. UNCHANGED <<o, allowed, pinned, tested>> /\ InMain
    BY <1>3 DEF Begin, InMain, option_vars, scan_vars
  <2>2. pc' \in Pcs
    BY <1>3 DEF Begin, Pcs
  <2>3. Record!hist_init \in Record!Hist
    BY <2>1, BucketsGiven, CIntegerAssumption
    DEF Record!hist_init, Record!Hist, Record!Word
  <2>4. (hist \in Record!Hist)'
    BY <1>3, <2>1, <2>3 DEF Begin, Record!Hist, Record!Buckets, Record!Word
  <2>5. QED
    BY <2>1, <2>2, <2>4 DEF TypeInv
<1>4. CASE TryCpu \/ (\E time \in SockTimes : SockTurn(time)) \/ SendFails \/ Compare \/ Pin
           \/ Report
  <2>1. UNCHANGED <<o, allowed, hist>> /\ pc # "options"
    BY <1>4 DEF TryCpu, SockTurn, SendFails, Compare, Pin, Report, InMain, option_vars,
                loop_vars
  <2>2. (hist \in Record!Hist)'
    BY <2>1, HistSame DEF TypeInv
  <2>3. pc' \in Pcs
    BY <1>4 DEF TryCpu, SockTurn, SendFails, Compare, Pin, Report, TypeInv, Pcs
  <2>4. pinned' \subseteq allowed'
    BY <1>4, <2>1 DEF TryCpu, SockTurn, SendFails, Compare, Pin, Report, TypeInv
  <2>5. (tested = [c \in DOMAIN tested |-> tested[c]])'
    BY <1>4 DEF TryCpu, SockTurn, SendFails, Compare, Pin, Report, TypeInv, scan_vars
  <2>6. QED
    BY <2>2, <2>3, <2>4, <2>5 DEF TypeInv
<1>5. ASSUME NEW t \in StampTimes, StampTurn(t[1], t[2]) PROVE TypeInv'
  <2>1. /\ UNCHANGED <<o, allowed, pinned, tested>> /\ InMain
        /\ pc = "loop" /\ pc' \in {"loop", "print"}
    BY <1>5 DEF StampTurn, InMain, option_vars, scan_vars
  <2>2. Record!CastSample(t[2]) \in Word
    BY CastType, JitterAssumption
  <2>3. Record!hist_input(hist, Record!CastSample(t[2])) \in Record!Hist
    BY <2>1, <2>2, InputType DEF TypeInv
  <2>4. hist' = Record!hist_input(hist, Record!CastSample(t[2]))
    BY <1>5 DEF StampTurn, Between
  <2>5. (hist \in Record!Hist)'
    BY <2>1, <2>3, <2>4 DEF Record!Hist, Record!Buckets, Record!Word
  <2>6. QED
    BY <2>1, <2>5 DEF TypeInv, Pcs
<1>6. QED
  BY <1>1, <1>2, <1>3, <1>4, <1>5 DEF Next

LEMMA AllTyped == OptInv /\ LoopInv /\ ScanInv /\ TypeInv => TypeOK
<1> SUFFICES ASSUME OptInv, LoopInv, ScanInv, TypeInv PROVE TypeOK
  OBVIOUS
<1>1. OptionsTypeOK
  BY DefaultFields, OptionsAssumption DEF OptInv, OptionsTypeOK, Good, Modes, Statuses
<1>2. /\ cpu \in 0 .. MaskBits /\ max_loops \in Int32 /\ max_cpu \in CpuNums \cup {-1}
      /\ DOMAIN tested \subseteq CpuNums
  BY JitterAssumption, CIntegerAssumption DEF ScanInv, FoundSoFar, Best, CpuNums, Int32
<1>3. tested \in [DOMAIN tested -> Nat]
  BY DEF TypeInv, ScanInv, FoundSoFar
<1>4. QED
  BY <1>1, <1>2, <1>3 DEF TypeOK, LoopInv, ScanInv, TypeInv, Pcs

\* The sums wrap, the counts of sends stay in an int, and nothing leaves
\* its range.
THEOREM TypeCorrect == Spec => []TypeOK
<1>1. Init => OptInv /\ Main /\ LoopInv /\ ScanInv /\ TypeInv
  BY InitOptInv, InitLoop, InitScan DEF Init, Main, TypeInv, Pcs
<1>2. OptInv /\ Main /\ LoopInv /\ ScanInv /\ TypeInv /\ [Next]_vars
        => OptInv' /\ Main' /\ LoopInv' /\ ScanInv' /\ TypeInv'
  BY OptionsFirst, StepLoop, StepScan, StepTypes
<1>3. QED
  BY <1>1, <1>2, AllTyped, PTL DEF Spec
=============================================================================
