------------------------------- MODULE Getopt --------------------------------
(***************************************************************************)
(* What cprt offers to read a command line: cprt_getopt (cprt.c), CPRT_ATOI *)
(* (cprt.h) and CPRT_STRTOK, which is the library's strtok_r.  A word of   *)
(* the command line is seen as cprt_getopt looks at it:                    *)
(*   chr    the character after a leading "-", "" when the word has no     *)
(*          leading "-" or nothing after it                                *)
(*   rest   what follows; the whole word when chr is ""                    *)
(***************************************************************************)
EXTENDS CInteger, Sequences

CONSTANTS
    Numbers,  \* what strtoll makes of a text, for the texts that are numbers
    Tokens    \* the fields of a text with commas

Plain(text) == [chr |-> "", rest |-> text]
EndMark == [chr |-> "-", rest |-> ""]

\* A word that is taken as the value of the option before it.
TextOf(word) == IF word.chr = "" THEN word.rest ELSE "-" \o word.chr \o word.rest

\* strtok_r(text, ","), called until it returns NULL.
TokensOf(text) == IF text \in DOMAIN Tokens THEN Tokens[text] ELSE <<text>>

\* CPRT_ATOI into an int: the whole text is a number, and one of an int.
\* Where it is not, CPRT_EOK0 ends the program with status 1.
AtoiOk(text) == text \in DOMAIN Numbers /\ Numbers[text] \in Int32

\* The text is two numbers, "first,second".
PairOk(text) ==
    /\ Len(TokensOf(text)) = 2
    /\ AtoiOk(TokensOf(text)[1])
    /\ AtoiOk(TokensOf(text)[2])
First(text) == Numbers[TokensOf(text)[1]]
Second(text) == Numbers[TokensOf(text)[2]]

-----------------------------------------------------------------------------
(* cprt_getopt(argc, argv, optstring), with optstring as the letters that  *)
(* take no value and those that do.  argv[0] is left out, so argc is       *)
(* Len(argv) + 1.                                                          *)

Found(opt, arg, optind) == [opt |-> opt, arg |-> arg, optind |-> optind]

\* A letter with a value: the rest of its word or, failing that, the next
\* word whatever it looks like.
Valued(argv, optind) ==
    LET word == argv[optind]
    IN  IF word.rest # "" THEN Found(word.chr, word.rest, optind + 1)
        ELSE IF optind + 1 > Len(argv) THEN Found("?", "", optind + 1)
        ELSE Found(word.chr, TextOf(argv[optind + 1]), optind + 2)

\* Mutant: a letter without a value is read again.
FlagReadAgain(argv, optind) ==
    IF argv[optind].rest = "" THEN Found(argv[optind].chr, "", optind)
                              ELSE Found("?", "", optind)

\* A letter without: several in one word are not supported.
Flag(argv, optind) ==
    IF argv[optind].rest = "" THEN Found(argv[optind].chr, "", optind + 1)
                              ELSE Found("?", "", optind)

\* "--" is consumed, and nothing after it is an option.
Marked(optind) == Found("EOF", "", optind + 1)

cprt_getopt(argv, optind, optstring) ==
    IF optind > Len(argv) THEN Found("EOF", "", optind)
    ELSE LET word == argv[optind]
         IN  CASE word.chr = "" -> Found("EOF", "", optind)
               [] word = EndMark -> Marked(optind)
               [] word.chr \in optstring.valued -> Valued(argv, optind)
               [] word.chr \in optstring.flags -> Flag(argv, optind)
               [] OTHER -> Found("?", "", optind)
=============================================================================
