------------------------------- MODULE Options -------------------------------
(***************************************************************************)
(* get_my_opts of um_lat_ping.c, um_lat_pong.c and um_lat_jitter.c: the    *)
(* words of a command line are read one option at a time into the global   *)
(* o_ variables and what is parsed out of them, and what is left over,     *)
(* missing or unusable ends the program before main goes on.               *)
(*                                                                         *)
(* A command line carries, as history, the options that its author meant   *)
(* and where they are: the programs see argv only, and the properties      *)
(* compare what they make of it with what was given.  UM's configuration   *)
(* files are the environment: which of them can be loaded.                 *)
(***************************************************************************)
EXTENDS Getopt, FiniteSets

CONSTANTS
    CommandLines,   \* the command lines of this instance
    Configs,        \* files that lbm_config accepts
    XmlConfigs,     \* pairs of a file and an application it describes
    Addresses,      \* texts that inet_aton accepts
    SizeofPerfMsg   \* sizeof(perf_msg_t), 16

Programs == {"ping", "pong", "jitter"}

ArgvWord == [chr : STRING, rest : STRING]

\* One option as its author means it.
Option == [opt : STRING, arg : STRING]

\* given is what argv spells out, option k from the word at[k] on; complete
\* says that nothing else, except for a "--" at the end, is in it.
CommandLine ==
    [program : Programs, argv : Seq(ArgvWord), given : Seq(Option), at : Seq(Nat),
     complete : BOOLEAN]

OptString ==
    [ping |-> [flags |-> {"h", "g"},
               valued |-> {"A", "a", "c", "H", "l", "L", "m", "n", "p", "R", "r",
                           "s", "w", "x"}],
     pong |-> [flags |-> {"h", "E", "g"}, valued |-> {"a", "c", "p", "R", "s", "x"}],
     jitter |-> [flags |-> {"h"}, valued |-> {"a", "g", "H", "i"}]]

\* The option is written from word i up to word next: a letter alone, a
\* letter with its value, or a letter and its value in the next word.
SpelledOut(option, letters, words, i, next) ==
    /\ i \in DOMAIN words
    /\ words[i].chr = option.opt
    /\ \/ /\ option.opt \in letters.flags
          /\ words[i].rest = "" /\ option.arg = ""
          /\ next = i + 1
       \/ /\ option.opt \in letters.valued
          /\ words[i].rest = option.arg /\ option.arg # ""
          /\ next = i + 1
       \/ /\ option.opt \in letters.valued
          /\ words[i].rest = ""
          /\ i + 1 \in DOMAIN words /\ option.arg = TextOf(words[i + 1])
          /\ next = i + 2

\* No option is written from word i on.
NoOption(letters, words, i) ==
    i \in DOMAIN words =>
      \/ words[i].chr = "" \/ words[i] = EndMark
      \/ words[i].chr \notin letters.flags \cup letters.valued
      \/ words[i].chr \in letters.flags /\ words[i].rest # ""
      \/ words[i].chr \in letters.valued /\ words[i].rest = "" /\ i = Len(words)

\* What a command line says it is.
WellFormed(l) ==
    LET letters == OptString[l.program]
        end == l.at[Len(l.given) + 1]
    IN  /\ Len(l.at) = Len(l.given) + 1
        /\ l.at[1] = 1
        /\ \A k \in DOMAIN l.given :
             SpelledOut(l.given[k], letters, l.argv, l.at[k], l.at[k + 1])
        /\ NoOption(letters, l.argv, end)
        /\ l.complete <=> \/ end > Len(l.argv)
                          \/ end = Len(l.argv) /\ l.argv[end] = EndMark

ASSUME OptionsAssumption ==
    /\ Numbers \in [DOMAIN Numbers -> Int]
    /\ PairOk("0,0") /\ First("0,0") = 0 /\ Second("0,0") = 0
    /\ \A l \in CommandLines : l \in CommandLine /\ WellFormed(l)
    /\ 1000 \in Int32
    /\ SizeofPerfMsg \in Nat \ {0}

VARIABLES
    line,    \* the command line
    optind,  \* cprt_optind
    o,       \* the o_ variables and what is parsed out of them
    status   \* "parsing", "main", or how the program has ended

option_vars == <<line, optind, o, status>>

program == line.program
argv == line.argv

Defaults ==
    [affinity_src |-> -1, affinity_rcv |-> -1, affinity_cpu |-> -1,
     config |-> << >>, exit_on_eos |-> 0, generic_src |-> 0, linger_ms |-> 1000,
     msg_len |-> 0, num_msgs |-> 0, rate |-> 0,
     histogram |-> "0,0", hist_num_buckets |-> 0, hist_ns_per_bucket |-> 0,
     warmup_loops |-> 0, warmup_rate |-> 0,
     app_name |-> "um_perf", persist_mode |-> "STREAMING",
     rcv_thread |-> "MAIN_CTX", spin_method |-> "NO_SPIN",
     group |-> "", interface |-> "", xml_config |-> "", xml_loaded |-> << >>]

\* The options whose value is one number.
NumberField ==
    [ping |-> [A |-> "affinity_src", a |-> "affinity_rcv", l |-> "linger_ms",
               m |-> "msg_len", n |-> "num_msgs", r |-> "rate"],
     pong |-> [a |-> "affinity_rcv"],
     jitter |-> [a |-> "affinity_cpu"]]

\* strcasecmp with each of the values an option may have.
PersistMode(text) ==
    CASE text = "" -> "STREAMING"
      [] text \in {"r", "R"} -> "RPP"
      [] text \in {"s", "S"} -> "SPP"
      [] OTHER -> "unknown"
AppName(mode) ==
    CASE mode = "STREAMING" -> "um_perf"
      [] mode = "RPP" -> "um_perf_rpp"
      [] OTHER -> "um_perf_spp"
RcvThread(text) ==
    CASE text = "" -> "MAIN_CTX"
      [] text \in {"x", "X"} -> "XSP"
      [] OTHER -> "unknown"
SpinMethod(text) ==
    CASE text = "" -> "NO_SPIN"
      [] text \in {"f", "F"} -> "FD_MGT_BUSY"
      [] OTHER -> "unknown"

-----------------------------------------------------------------------------
(* One option.  Each operator gives the next o and status.                 *)

OptionsInit ==
    /\ line \in CommandLines
    /\ optind = 1
    /\ o = Defaults
    /\ status = "parsing"

Stop(how) == status' = how /\ UNCHANGED o
Set(new) == o' = new /\ UNCHANGED status
SetIf(ok, new) == IF ok THEN Set(new) ELSE Stop("exit1")

\* CPRT_ATOI(cprt_optarg, ...)
SetNumber(opt, arg) ==
    SetIf(AtoiOk(arg), [o EXCEPT ![NumberField[program][opt]] = Numbers[arg]])

SetPersist(arg) ==
    SetIf(PersistMode(arg) # "unknown",
          [o EXCEPT !.persist_mode = PersistMode(arg),
                    !.app_name = AppName(PersistMode(arg))])

SetRcvThread(arg) ==
    SetIf(RcvThread(arg) # "unknown", [o EXCEPT !.rcv_thread = RcvThread(arg)])

SetSpin(arg) ==
    SetIf(SpinMethod(arg) # "unknown", [o EXCEPT !.spin_method = SpinMethod(arg)])

\* Mutant: of several files only the last counts, as with -x.
LastConfig(arg) == SetIf(arg \in Configs, [o EXCEPT !.config = <<arg>>])

\* E(lbm_config(...)): the files are loaded one after another.
LoadConfig(arg) ==
    SetIf(arg \in Configs, [o EXCEPT !.config = Append(@, arg)])

\* -H.  The assertion on the second number tests the first one again, so
\* that without a comma CPRT_ATOI is handed a null pointer.
PingHistogram(arg) ==
    IF Len(TokensOf(arg)) = 1 /\ AtoiOk(TokensOf(arg)[1])
      THEN Stop("segv")
      ELSE SetIf(PairOk(arg), [o EXCEPT !.hist_num_buckets = First(arg),
                                        !.hist_ns_per_bucket = Second(arg)])

\* Mutant: a warm-up may have no rate.
AnyWarmup(arg) ==
    SetIf(PairOk(arg),
          [o EXCEPT !.warmup_loops = First(arg), !.warmup_rate = Second(arg)])

\* Mutant: the rate is needed even without a warm-up.
RateAlways(arg) ==
    SetIf(PairOk(arg) /\ Second(arg) > 0,
          [o EXCEPT !.warmup_loops = First(arg), !.warmup_rate = Second(arg)])

\* -w: a warm-up needs a rate.
PingWarmup(arg) ==
    SetIf(PairOk(arg) /\ (First(arg) > 0 => Second(arg) > 0),
          [o EXCEPT !.warmup_loops = First(arg), !.warmup_rate = Second(arg)])

\* Mutant: the file is read at once, for the application known so far.
XmlAtOnce(arg) ==
    SetIf(<<arg, o.app_name>> \in XmlConfigs,
          [o EXCEPT !.xml_config = arg, !.xml_loaded = Append(@, <<arg, o.app_name>>)])

\* "Don't read it now since app_name might not be set yet."
SetXml(arg) == Set([o EXCEPT !.xml_config = arg])

\* The default takes what is no option, "?", and -L, which is in the option
\* string and has no case.
PingCase(opt, arg) ==
    CASE opt = "h" -> Stop("exit0")
      [] opt \in DOMAIN NumberField.ping -> SetNumber(opt, arg)
      [] opt = "c" -> LoadConfig(arg)
      [] opt = "g" -> Set([o EXCEPT !.generic_src = 1])
      [] opt = "H" -> PingHistogram(arg)
      [] opt = "p" -> SetPersist(arg)
      [] opt = "R" -> SetRcvThread(arg)
      [] opt = "s" -> SetSpin(arg)
      [] opt = "w" -> PingWarmup(arg)
      [] opt = "x" -> SetXml(arg)
      [] OTHER -> Stop("exit1")

\* The case of -p has no break: its value is then read as the one of -R.
PongPersist(arg) ==
    SetIf(PersistMode(arg) # "unknown" /\ RcvThread(arg) # "unknown",
          [o EXCEPT !.persist_mode = PersistMode(arg),
                    !.app_name = AppName(PersistMode(arg)),
                    !.rcv_thread = RcvThread(arg)])

PongCase(opt, arg) ==
    CASE opt = "h" -> Stop("exit0")
      [] opt \in DOMAIN NumberField.pong -> SetNumber(opt, arg)
      [] opt = "c" -> LoadConfig(arg)
      [] opt = "E" -> Set([o EXCEPT !.exit_on_eos = 1])
      [] opt = "g" -> Set([o EXCEPT !.generic_src = 1])
      [] opt = "p" -> PongPersist(arg)
      [] opt = "R" -> SetRcvThread(arg)
      [] opt = "s" -> SetSpin(arg)
      [] opt = "x" -> SetXml(arg)
      [] OTHER -> Stop("exit1")

JitterCase(opt, arg) ==
    CASE opt = "h" -> Stop("exit0")
      [] opt \in DOMAIN NumberField.jitter -> SetNumber(opt, arg)
      [] opt = "g" -> Set([o EXCEPT !.group = arg])
      [] opt = "H" -> Set([o EXCEPT !.histogram = arg])
      [] opt = "i" -> Set([o EXCEPT !.interface = arg])
      [] OTHER -> Stop("exit1")

-----------------------------------------------------------------------------
(* After the last option.                                                  *)

Start(ok, new) ==
    IF ok THEN o' = new /\ status' = "main" ELSE Stop("exit1")

\* "Waited to read xml config (if any) so that app_name is set up right."
XmlLoads == o.xml_config = "" \/ <<o.xml_config, o.app_name>> \in XmlConfigs
XmlLoaded == IF o.xml_config = "" THEN << >> ELSE <<<<o.xml_config, o.app_name>>>>

\* o_msg_len >= sizeof(perf_msg_t) compares an int with a size_t.
PingChecks(used) ==
    Start(/\ used > Len(argv)
          /\ o.rate > 0
          /\ o.num_msgs > 0
          /\ AsWord(o.msg_len) >= SizeofPerfMsg
          /\ o.hist_num_buckets > 0
          /\ o.hist_ns_per_bucket > 0
          /\ XmlLoads,
          [o EXCEPT !.xml_loaded = @ \o XmlLoaded])

PongChecks(used) ==
    Start(used > Len(argv) /\ XmlLoads, [o EXCEPT !.xml_loaded = @ \o XmlLoaded])

JitterChecks(used) ==
    Start(/\ PairOk(o.histogram)
          /\ First(o.histogram) > 0
          /\ Second(o.histogram) > 0
          /\ o.group \in Addresses
          /\ o.interface \in Addresses
          /\ used > Len(argv),
          [o EXCEPT !.hist_num_buckets = First(o.histogram),
                    !.hist_ns_per_bucket = Second(o.histogram)])

\* while ((opt = cprt_getopt(argc, argv, ...)) != EOF) switch (opt)
NextOption ==
    /\ status = "parsing"
    /\ UNCHANGED line
    /\ LET next == cprt_getopt(argv, optind, OptString[program])
       IN  /\ optind' = next.optind
           /\ \/ next.opt = "EOF" /\ program = "ping" /\ PingChecks(next.optind)
              \/ next.opt = "EOF" /\ program = "pong" /\ PongChecks(next.optind)
              \/ next.opt = "EOF" /\ program = "jitter" /\ JitterChecks(next.optind)
              \/ next.opt # "EOF" /\ program = "ping" /\ PingCase(next.opt, next.arg)
              \/ next.opt # "EOF" /\ program = "pong" /\ PongCase(next.opt, next.arg)
              \/ next.opt # "EOF" /\ program = "jitter" /\ JitterCase(next.opt, next.arg)

OptionsSpec == OptionsInit /\ [][NextOption]_option_vars /\ WF_option_vars(NextOption)

-----------------------------------------------------------------------------

NumberFields == {"affinity_src", "affinity_rcv", "affinity_cpu", "linger_ms",
                 "msg_len", "num_msgs", "rate", "hist_num_buckets",
                 "hist_ns_per_bucket", "warmup_loops", "warmup_rate"}

OptionsTypeOK ==
    /\ line \in CommandLine
    /\ optind \in Nat \ {0}
    /\ status \in {"parsing", "main", "exit0", "exit1", "segv"}
    /\ DOMAIN o = DOMAIN Defaults
    /\ \A f \in NumberFields : o[f] \in Int32
    /\ o.persist_mode \in {"STREAMING", "RPP", "SPP"}
    /\ o.rcv_thread \in {"MAIN_CTX", "XSP"}
    /\ o.spin_method \in {"NO_SPIN", "FD_MGT_BUSY"}

\* The last value given for an option, or else what stands for its default.
Greatest(places) == CHOOSE i \in places : \A j \in places : j <= i
Places(given, opt) == {i \in DOMAIN given : given[i].opt = opt}
LastGiven(given, opt, default) ==
    IF Places(given, opt) = {} THEN default
    ELSE given[Greatest(Places(given, opt))].arg

\* The values are all those given for an option, in their order.
AllGiven(given, opt, values) ==
    /\ Len(values) = Cardinality(Places(given, opt))
    /\ \A i \in Places(given, opt) :
         values[Cardinality({j \in Places(given, opt) : j <= i})] = given[i].arg

\* The o_ variables are what the options of a command line say.
AsMeant(p, given, opts) ==
    /\ \A opt \in DOMAIN NumberField[p] :
         LET field == NumberField[p][opt]
         IN  opts[field] = IF Places(given, opt) = {} THEN Defaults[field]
                           ELSE Numbers[LastGiven(given, opt, "")]
    /\ p \in {"ping", "pong"} =>
         /\ opts.generic_src = 1 <=> Places(given, "g") # {}
         /\ AllGiven(given, "c", opts.config)
         /\ opts.persist_mode = PersistMode(LastGiven(given, "p", ""))
         /\ opts.spin_method = SpinMethod(LastGiven(given, "s", ""))
         /\ (p = "pong" => Places(given, "p") = {}) =>
              opts.rcv_thread = RcvThread(LastGiven(given, "R", ""))
    /\ p = "pong" => (opts.exit_on_eos = 1 <=> Places(given, "E") # {})
    /\ p = "ping" =>
         <<opts.warmup_loops, opts.warmup_rate>> =
           <<First(LastGiven(given, "w", "0,0")), Second(LastGiven(given, "w", "0,0"))>>
    /\ p = "jitter" =>
         <<opts.group, opts.interface>> =
           <<LastGiven(given, "g", ""), LastGiven(given, "i", "")>>

\* The buckets of the histogram are what -H says.
HistogramAsMeant(given, opts) ==
    <<opts.hist_num_buckets, opts.hist_ns_per_bucket>> =
      <<First(LastGiven(given, "H", "0,0")), Second(LastGiven(given, "H", "0,0"))>>

(***************************************************************************)
(* A program that starts has read the command line as it was meant:        *)
(* wherever a value was written, in the word of its option or in the next, *)
(* and in whatever order; of repeated options the last counts, and -c      *)
(* loads every file in turn (cprt.c:405-492, um_lat_ping.c:117-217).  In   *)
(* pong -p sets the receive thread as well (um_lat_pong.c:120).            *)
(***************************************************************************)
AsGiven ==
    status = "main" =>
      /\ line.complete
      /\ AsMeant(program, line.given, o)
      /\ program \in {"ping", "jitter"} => HistogramAsMeant(line.given, o)

(***************************************************************************)
(* "Don't read it now since app_name might not be set yet."                *)
(* (um_lat_ping.c:211, 228): whatever the order of -p and -x, the XML file *)
(* that counts is read once, for the application of the persistence mode   *)
(* that the program then runs with.                                        *)
(***************************************************************************)
XmlReadForItsMode ==
    status = "main" /\ program # "jitter" =>
      LET file == LastGiven(line.given, "x", "")
      IN  o.xml_loaded = IF file = "" THEN << >>
                         ELSE <<<<file, AppName(o.persist_mode)>>>>

(***************************************************************************)
(* What is accepted can be run: the divisions and loops of the histogram   *)
(* and of send_loop are defined (HistogramAssumption, SendLoopAssumption), *)
(* and a message holds a time stamp unless its length is negative, which   *)
(* the comparison with a size_t lets through (um_lat_ping.c:221-226).      *)
(***************************************************************************)
AcceptedRuns ==
    status = "main" =>
      /\ program \in {"ping", "jitter"} =>
           o.hist_num_buckets > 0 /\ o.hist_ns_per_bucket > 0
      /\ program = "ping" =>
           /\ o.rate > 0 /\ o.num_msgs > 0
           /\ o.warmup_loops > 0 => o.warmup_rate > 0
           /\ o.msg_len >= SizeofPerfMsg \/ o.msg_len < 0

\* A value that the help texts offer for an option (um_lat_ping.c:81-97,
\* um_lat_pong.c:66-76, um_lat_jitter.c:50-66).
ValueDocumented(p, opt, arg) ==
    CASE opt \in DOMAIN NumberField[p] -> AtoiOk(arg)
      [] opt \in {"g", "E"} /\ opt \in OptString[p].flags -> TRUE
      [] opt = "c" /\ p # "jitter" -> arg \in Configs
      [] opt = "p" /\ p # "jitter" -> arg \in {"", "r", "s"}
      [] opt = "R" /\ p # "jitter" -> arg \in {"", "x"}
      [] opt = "s" /\ p # "jitter" -> arg \in {"", "f"}
      [] opt = "x" /\ p # "jitter" -> TRUE
      [] opt = "H" /\ p # "pong" -> PairOk(arg)
      [] opt = "w" /\ p = "ping" ->
           PairOk(arg) /\ (First(arg) > 0 => Second(arg) > 0)
      [] opt \in {"g", "i"} /\ p = "jitter" -> arg \in Addresses
      [] OTHER -> FALSE

HistogramGiven(given) ==
    LET arg == LastGiven(given, "H", "0,0") IN First(arg) > 0 /\ Second(arg) > 0

\* "those marked with 'R' are required" (um_lat_ping.c:82), and the numbers
\* that get_my_opts asserts of them (221-226).
PingAsksFor(given) ==
    /\ \A opt \in {"r", "n"} :
         Places(given, opt) # {} /\ Numbers[LastGiven(given, opt, "")] > 0
    /\ Places(given, "m") # {}
    /\ Numbers[LastGiven(given, "m", "")] >= SizeofPerfMsg
    /\ HistogramGiven(given)

\* What um_lat_jitter needs (um_lat_jitter.c:107-118) and its help text does
\* not ask for.
JitterAsksFor(given) ==
    Places(given, "g") # {} /\ Places(given, "i") # {} /\ HistogramGiven(given)

XmlUsable(given) ==
    LET file == LastGiven(given, "x", "")
        mode == PersistMode(LastGiven(given, "p", ""))
    IN  file = "" \/ <<file, AppName(mode)>> \in XmlConfigs

Documented(l) ==
    /\ l.complete
    /\ \A i \in DOMAIN l.given :
         ValueDocumented(l.program, l.given[i].opt, l.given[i].arg)
    /\ l.program = "ping" => PingAsksFor(l.given)
    /\ l.program # "jitter" => XmlUsable(l.given)

(***************************************************************************)
(* No command line that the help texts allow is turned away, by an error   *)
(* or a crash, with two exceptions.  pong refuses what its help offers for *)
(* -p (um_lat_pong.c:73, 106-131); and um_lat_jitter, whose usage has -g,  *)
(* -H and -i in brackets (um_lat_jitter.c:50), ends without any of them,   *)
(* or with a -H of no buckets (107-118).                                   *)
(***************************************************************************)
RefusedForCause ==
    status \in {"exit1", "segv"} =>
      \/ ~Documented(line)
      \/ program = "pong" /\ Places(line.given, "p") # {}
      \/ program = "jitter" /\ ~JitterAsksFor(line.given)
=============================================================================
