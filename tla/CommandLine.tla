---- MODULE CommandLine ----
(***************************************************************************)
(* What the programs of ClassWork3 and ClassWork7 do with the words of     *)
(* their command lines. A word is a string; argv[1] is the program's name. *)
(***************************************************************************)
EXTENDS Integers, FiniteSetsExt, Sequences

CONSTANTS
    BaseName,   \* the part of a path after its last slash
    Numeral     \* atoi, for the words it does not turn into 0

ASSUME NumeralAssumption == \A word \in DOMAIN Numeral : Numeral[word] \in Int

Atoi(word) == IF word \in DOMAIN Numeral THEN Numeral[word] ELSE 0

\* The word after the first occurrence of the option, or nothing.
getOption(argv, option) ==
    LET at == {k \in DOMAIN argv : argv[k] = option}
    IN IF at = {} THEN {} ELSE {argv[k + 1] : k \in {Min(at)} \ {Len(argv)}}

\* What an option asks for, or the default.
Number(argv, option, default) ==
    LET words == getOption(argv, option)
    IN IF words = {} THEN default ELSE Atoi(CHOOSE n \in words : TRUE)
====
