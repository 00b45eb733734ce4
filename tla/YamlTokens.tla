----------------------------- MODULE YamlTokens -----------------------------
(***************************************************************************)
(* The tokens of a YAML file, and the queue in which the scanner leaves    *)
(* them and from which the parser takes them.                              *)
(***************************************************************************)
EXTENDS Integers, Sequences, SequencesExt, FiniteSetsExt

VARIABLE scanner

Token(type)          == [type |-> type, status |-> "VALID", value |-> <<>>]
ValueToken(type, v)  == [Token(type) EXCEPT !.value = v]
Unverified(type)     == [Token(type) EXCEPT !.status = "UNVERIFIED"]

-----------------------------------------------------------------------------
(* Scanner::empty, peek and pop                                            *)

\* EnsureTokensInQueue: invalid tokens are dropped; more is scanned until the front
\* token is valid or the stream has ended.
FrontOf(s) ==
    Min({i \in s.front .. (Len(s.tokens) + 1) :
            i = Len(s.tokens) + 1 \/ s.tokens[i].status # "INVALID"})

\* Mutant: a token is handed out as soon as it is there.
Ensured_AnyStatus(s) == s.endedStream \/ FrontOf(s) <= Len(s.tokens)

Ensured(s) ==
    \/ s.endedStream
    \/ FrontOf(s) <= Len(s.tokens) /\ s.tokens[FrontOf(s)].status = "VALID"

Empty == FrontOf(scanner) > Len(scanner.tokens)
Peek  == scanner.tokens[FrontOf(scanner)]
At(type) == ~Empty /\ Peek.type = type
AtOneOf(types) == ~Empty /\ Peek.type \in types
PopToken == scanner' = [scanner EXCEPT !.front = FrontOf(scanner) + 1]
KeepToken == UNCHANGED scanner

-----------------------------------------------------------------------------

Digits == <<"1", "2", "3", "4", "5", "6", "7", "8", "9">>
Digit(c) == c = "0" \/ Contains(Digits, c)
=============================================================================
