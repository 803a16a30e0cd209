------------------------------- MODULE CInteger ------------------------------
(***************************************************************************)
(* The two C integer types whose width matters in this program, as cprt.h  *)
(* and the tools use them: int and uint64_t.                               *)
(***************************************************************************)
EXTENDS Integers

CONSTANTS
    IntMax,   \* largest int: 2^31 - 1 in the programs
    WordMod   \* number of uint64_t values: 2^64 in the programs

ASSUME CIntegerAssumption ==
    /\ IntMax \in Nat \ {0}
    /\ WordMod \in Nat
    /\ WordMod > 2 * (IntMax + 1)

\* The values of an int and of a uint64_t.
Int32 == -(IntMax + 1) .. IntMax
Word == 0 .. WordMod - 1

\* (int)x: the low bits of x, read as two's complement.
AsInt(x) ==
    LET low == x % (2 * (IntMax + 1))
    IN  IF low <= IntMax THEN low ELSE low - 2 * (IntMax + 1)

\* Mutant: an int reaches a uint64_t as it is.
NoWidening(x) == x

\* An int converted to uint64_t: a negative value becomes a huge one.
AsWord(x) == IF x < 0 THEN x + WordMod ELSE x
=============================================================================
