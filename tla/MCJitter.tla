------------------------------- MODULE MCJitter -------------------------------
(***************************************************************************)
(* Command lines for Jitter: what an author means, spelled in three ways,  *)
(* with what may follow.  Texts are strings, numbers stand for themselves  *)
(* scaled to an int of eleven bits.                                        *)
(***************************************************************************)
EXTENDS Jitter, SequencesExt, TLC

MCNumbers ==
    "-1" :> -1 @@ "0" :> 0 @@ "1" :> 1 @@ "2" :> 2 @@ "3" :> 3 @@ "4" :> 4 @@
    "5" :> 5 @@ "2000" :> 2000

MCTokens ==
    "" :> << >> @@ "0,0" :> <<"0", "0">> @@ "2,3" :> <<"2", "3">> @@
    "3,1" :> <<"3", "1">> @@ "5,0" :> <<"5", "0">> @@ "1,x" :> <<"1", "x">> @@
    "1,2,3" :> <<"1", "2", "3">>

MCConfigs == {"a.cfg", "b.cfg"}
MCXmlConfigs ==
    {"um.xml"} \X {"um_perf", "um_perf_rpp", "um_perf_spp"} \cup {<<"rpp.xml", "um_perf_rpp">>}
MCAddresses == {"239.101.3.1", "10.0.0.1"}

Opt(opt, arg) == [opt |-> opt, arg |-> arg]
Letter(opt, rest) == [chr |-> opt, rest |-> rest]

\* A value as a word of its own.
ValueWord(arg) ==
    CASE arg = "-1" -> Letter("1", "")
      [] arg = "--" -> EndMark
      [] OTHER -> Plain(arg)

Attached(given) == <<Letter(given.opt, given.arg)>>
Separate(given) == <<Letter(given.opt, ""), ValueWord(given.arg)>>

\* spelling: the options at odd and at even places, attached or not.
Spelled(p, given, spelling) ==
    FlattenSeq([i \in DOMAIN given |->
      IF given[i].opt \in OptString[p].flags THEN <<Letter(given[i].opt, "")>>
      ELSE IF given[i].arg # "" /\ spelling[i % 2] THEN Attached(given[i])
      ELSE Separate(given[i])])

Spellings == {f \in [{0, 1} -> BOOLEAN] : f[0] => f[1]}

Tails == {<< >>, <<EndMark>>, <<Plain("more")>>, <<EndMark, Plain("more")>>,
          <<Letter("a", "")>>, <<Letter("z", "")>>, <<Letter("h", "h")>>}

Line(p, given, spelling, tail) ==
    [program |-> p, argv |-> Spelled(p, given, spelling) \o tail, given |-> given,
     at |-> [k \in 1 .. Len(given) + 1 |->
               Len(Spelled(p, SubSeq(given, 1, k - 1), spelling)) + 1],
     complete |-> tail \in {<< >>, <<EndMark>>}]

LinesOf(p, givens) ==
    {Line(p, given, spelling, << >>) : given \in givens, spelling \in Spellings}

Tailed(p, given) == {Line(p, given, spelling, tail) : spelling \in Spellings, tail \in Tails}

\* Before or after what a program needs, up to two options more.
Around(needed, extras) ==
    {<<e>> \o needed : e \in extras} \cup {<<e>> \o needed \o <<f>> : e, f \in extras}

PingNeeds == <<Opt("H", "2,3"), Opt("m", "4"), Opt("n", "1"), Opt("r", "5")>>
PingExtras ==
    {Opt("h", ""), Opt("A", "1"), Opt("a", "-1"), Opt("c", "a.cfg"), Opt("c", "b.cfg"),
     Opt("c", "--"), Opt("g", ""), Opt("H", "3,1"), Opt("H", "0,0"), Opt("H", "1,x"),
     Opt("H", "1,2,3"), Opt("H", "5"), Opt("H", ""), Opt("L", "1"), Opt("l", "2000"), Opt("l", "5"),
     Opt("m", "3"), Opt("m", "-1"), Opt("n", "0"), Opt("p", ""), Opt("p", "r"),
     Opt("p", "s"), Opt("p", "q"), Opt("R", ""), Opt("R", "x"), Opt("R", "y"),
     Opt("r", "-1"), Opt("s", "f"), Opt("s", "x"), Opt("w", "0,0"), Opt("w", "2,3"),
     Opt("w", "5,0"), Opt("w", "5"), Opt("x", ""), Opt("x", "um.xml"), Opt("x", "rpp.xml")}

PongExtras ==
    {Opt("h", ""), Opt("a", "3"), Opt("a", "x"), Opt("c", "a.cfg"), Opt("c", "b.cfg"),
     Opt("c", "c.cfg"), Opt("E", ""), Opt("g", ""), Opt("p", ""), Opt("p", "r"),
     Opt("p", "s"), Opt("R", ""), Opt("R", "x"), Opt("R", "y"), Opt("s", "f"), Opt("s", "x"),
     Opt("x", ""), Opt("x", "um.xml"), Opt("x", "rpp.xml")}

JitterGivens ==
    {<<Opt("H", "3,1"), Opt("g", "239.101.3.1"), Opt("i", "10.0.0.1")>>} \cup
    {<<Opt("a", bound_to), Opt("g", "239.101.3.1"), Opt("H", "2,3"), Opt("i", "10.0.0.1")>> :
       bound_to \in {"-1", "1", "4"}}
JitterRefused ==
    {<<Opt("h", "")>>, <<Opt("a", "x")>>, <<Opt("H", "2,3"), Opt("i", "10.0.0.1")>>,
     <<Opt("g", "239.101.3.1"), Opt("H", "2,3")>>,
     <<Opt("g", "239.101.3.1"), Opt("i", "10.0.0.1")>>,
     <<Opt("g", "nowhere"), Opt("H", "2,3"), Opt("i", "10.0.0.1")>>,
     <<Opt("g", "239.101.3.1"), Opt("H", "5,0"), Opt("i", "10.0.0.1")>>,
     <<Opt("H", "5"), Opt("g", "239.101.3.1"), Opt("i", "10.0.0.1")>>}

MCCommandLines == UNION
    {LinesOf("ping", Around(PingNeeds, PingExtras)), Tailed("ping", PingNeeds),
     LinesOf("ping", {Remove(PingNeeds, PingNeeds[i]) : i \in DOMAIN PingNeeds}),
     LinesOf("pong", Around(<< >>, PongExtras)), Tailed("pong", << >>),
     LinesOf("ping", {PingNeeds \o <<Opt("p", mode), Opt("p", "s"), Opt("x", "um.xml")>> :
                        mode \in {"", "r"}}),
     LinesOf("jitter", JitterRefused),
     {Line("jitter", given, [i \in {0, 1} |-> i = 1], << >>) : given \in JitterGivens},
     {Line("jitter", << >>, [i \in {0, 1} |-> TRUE], tail) : tail \in Tails}}

MCSockTimes == {1, 2, 3}
MCStampTimes == {<<0, 1>>, <<1, 0>>, <<0, 3>>, <<1, 1100>>}
=============================================================================
