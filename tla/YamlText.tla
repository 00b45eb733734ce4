------------------------------ MODULE YamlText ------------------------------
(***************************************************************************)
(* The characters of a YAML file as yaml-cpp reads them: the expressions   *)
(* of exp.h and the scanning of scalars (scanscalar.cpp) and of tags       *)
(* (scantag.cpp).  A text is a sequence of symbols: an indicator, a blank, *)
(* a break, or a word, which stands for a run of letters or digits and     *)
(* takes one column.  The escapes \x, \u and \U are left out.              *)
(***************************************************************************)
EXTENDS Integers, Sequences, SequencesExt, FiniteSetsExt

VARIABLE text

Eof == "eof"
Backquote == "backquote"

\* Stream::CharAt, Stream::operator bool; positions start at 1.
Char(i) == IF i \in DOMAIN text THEN text[i] ELSE Eof
More(i) == i <= Len(text)

\* The first position from i on of which P does not hold.
From(i) == i .. (Len(text) + 1)

\* Mark::line is told apart by where the line starts.
LineStart(i) == Max({0} \cup {j \in 1 .. (i - 1) : Char(j) = "\n"})
Column(i) == i - 1 - LineStart(i)
AtLineStart(i) == i = 1 \/ Char(i - 1) = "\n"

BreakAt(i) == Char(i) = "\n" \/ (Char(i) = "\r" /\ Char(i + 1) = "\n")
AfterBreak(i) == IF Char(i) = "\n" THEN i + 1 ELSE i + 2
BlankAt(i) == Char(i) \in {" ", "\t"}
BlankOrBreak(i) == BlankAt(i) \/ BreakAt(i)
Ends(i) == BlankOrBreak(i) \/ Char(i) = Eof

Thrice(i, c) == \A j \in i .. (i + 2) : Char(j) = c
DocStart(i) == Thrice(i, "-") /\ Ends(i + 3)
DocEnd(i) == Thrice(i, ".") /\ Ends(i + 3)
DocIndicator(i) == DocStart(i) \/ DocEnd(i)

BlockEntry(i) == Char(i) = "-" /\ Ends(i + 1)
Key(i) == Char(i) = "?" /\ BlankOrBreak(i + 1)
Value(i) == Char(i) = ":" /\ Ends(i + 1)
ValueInFlow(i) == Char(i) = ":" /\ (BlankOrBreak(i + 1) \/ Char(i + 1) \in {",", "]", "}"})

NeverPlain == {",", "[", "]", "{", "}", "#", "&", "*", "!", "|", ">", "'", "\"", "%", "@", Backquote}

PlainScalar(i) ==
    ~(BlankOrBreak(i) \/ Char(i) \in NeverPlain \/ (Char(i) \in {"-", "?", ":"} /\ Ends(i + 1)))

PlainScalarInFlow(i) ==
    ~(\/ BlankOrBreak(i) \/ Char(i) \in NeverPlain \cup {"?"}
      \/ Char(i) \in {"-", ":"} /\ (BlankAt(i + 1) \/ Char(i + 1) = Eof))

CommentAfter(i) == BlankOrBreak(i) /\ Char(IF BlankAt(i) THEN i + 1 ELSE AfterBreak(i)) = "#"
ScanScalarEnd(i) == Value(i) \/ CommentAfter(i)
ScanScalarEndInFlow(i) ==
    \/ Char(i) = ":" /\ (Ends(i + 1) \/ Char(i + 1) \in {",", "]", "}"})
    \/ Char(i) \in {",", "?", "[", "]", "{", "}"}
    \/ CommentAfter(i)

AnchorChar(i) == ~(Char(i) \in {"[", "]", "{", "}", ","} \/ BlankOrBreak(i))
AnchorEnd(i) == Char(i) \in {"?", ":", ",", "]", "}", "%", "@", Backquote} \/ BlankOrBreak(i)

Punctuation == {"#", ";", "/", "?", ":", "@", "&", "=", "+", "$", "_", ".", "~", "*", "'", "(", ")"}
Word(i) ==
    More(i) /\ ~BlankOrBreak(i)
    /\ Char(i) \notin Punctuation \cup {",", "!", "[", "]", "{", "}", "<", ">", "|", "\"", "\\", "%", Backquote, "\r"}
TagChar(i) == Word(i) \/ Char(i) \in Punctuation
UriChar(i) == TagChar(i) \/ Char(i) \in {",", "!", "[", "]"}

\* Exp::Escape: what stands for the symbol after the escape character.
Escapes ==
    [c \in {"n", "t", "\t", " ", "\"", "'", "\\", "/"} |->
        CASE c = "n" -> "\n" [] c = "t" -> "\t" [] OTHER -> c]

-----------------------------------------------------------------------------
(* ScanScalar                                                              *)

\* ScanScalarParams::end
ScalarEnd(params, i) ==
    CASE params.end = "plain"  -> ScanScalarEnd(i)
      [] params.end = "flow"   -> ScanScalarEndInFlow(i)
      [] params.end = "single" -> Char(i) = "'" /\ Char(i + 1) # "'"
      [] params.end = "double" -> Char(i) = "\""
      [] params.end = "empty"  -> Char(i) = Eof

DocumentAt(i) == AtLineStart(i) /\ DocIndicator(i)

\* What ScanScalar keeps from line to line.
Scalar0(i, params) ==
    [at |-> i, scalar |-> <<>>, error |-> "none", indent |-> params.indent,
     last |-> 0,              \* length up to the last character that is no whitespace
     escaped |-> -1,          \* lastEscapedChar
     escapedNewline |-> FALSE, leadingSpaces |-> FALSE,
     found |-> FALSE,         \* foundNonEmptyLine
     past |-> params.fold = "flow",   \* pastOpeningBreak
     empty |-> FALSE, more |-> FALSE, folded |-> 0, foldedMore |-> FALSE]

ScalarStates ==
    [at : Nat, scalar : Seq(STRING), error : STRING, indent : Int, last : Nat, escaped : Int,
     escapedNewline : BOOLEAN, leadingSpaces : BOOLEAN, found : BOOLEAN, past : BOOLEAN,
     empty : BOOLEAN, more : BOOLEAN, folded : Nat, foldedMore : BOOLEAN]

\* Phase 1: to the end of the line or of the scalar.
ScanLine(state, params) ==
    LET line[s \in ScalarStates] ==
        LET c    == Char(s.at)
            read == [s EXCEPT !.found = TRUE, !.past = TRUE]
        IN  IF ~More(s.at) \/ ScalarEnd(params, s.at) \/ BreakAt(s.at) THEN s
            ELSE IF DocumentAt(s.at) /\ params.onDocIndicator # "none"
            THEN IF params.onDocIndicator = "throw" THEN [s EXCEPT !.error = "DOC_IN_SCALAR"] ELSE s
            ELSE IF params.end = "double" /\ c = "\\" /\ BreakAt(s.at + 1)
            THEN [read EXCEPT !.at = @ + 1, !.last = Len(s.scalar), !.escaped = Len(s.scalar),
                              !.escapedNewline = TRUE]
            ELSE IF (params.end = "double" /\ c = "\\") \/ (params.end = "single" /\ c = "'")
            THEN IF Char(s.at + 1) \notin DOMAIN Escapes THEN [s EXCEPT !.error = "INVALID_ESCAPE"]
                 ELSE line[[read EXCEPT !.at = @ + 2, !.last = Len(s.scalar) + 1,
                                        !.escaped = Len(s.scalar) + 1,
                                        !.scalar = Append(@, Escapes[Char(s.at + 1)])]]
            ELSE line[[read EXCEPT !.at = @ + 1, !.scalar = Append(@, c),
                                   !.last = IF BlankAt(s.at) THEN @ ELSE Len(s.scalar) + 1]]
    IN  line[state]

\* What a line break adds to the scalar, the next line starting at i.
Folded(s, params, i, nextEmpty, nextMore) ==
    CASE ~s.past -> <<>>
      [] s.past /\ params.fold = "dont" -> <<"\n">>
      [] s.past /\ params.fold = "flow" ->
            IF nextEmpty THEN <<"\n">>
            ELSE IF s.empty \/ s.escapedNewline THEN <<>> ELSE <<" ">>
      [] s.past /\ params.fold = "block" ->
            IF nextEmpty THEN <<>>
            ELSE (IF ~s.empty /\ ~s.more /\ ~nextMore /\ Column(i) >= s.indent
                  THEN <<" ">> ELSE <<"\n">>)
                 \o (IF s.folded = 0 THEN <<>>
                     ELSE [n \in 1 .. (s.folded - 1) |-> "\n"]
                          \o (IF s.foldedMore \/ nextMore \/ ~s.found THEN <<"\n">> ELSE <<>>))

\* Phases 2 and 3: the break, the indentation and the blanks that follow.
NextLine(s, params) ==
    LET begin     == AfterBreak(s.at)
        detecting == params.detectIndent /\ ~s.found
        i         == Min({j \in From(begin) :
                            ~(/\ Char(j) = " " /\ (Column(j) < s.indent \/ detecting)
                              /\ ~ScalarEnd(params, j))})
        indent    == IF detecting THEN Max({s.indent, Column(i)}) ELSE s.indent
        k         == IF params.eatLeadingWhitespace
                     THEN Min({j \in From(i) : ~BlankAt(j) \/ ScalarEnd(params, j)}) ELSE i
        tab       == params.onTabInIndentation = "throw"
                     /\ \E j \in i .. k : Char(j) = "\t" /\ Column(j) < indent
        nextEmpty == BreakAt(k)
        nextMore  == BlankAt(k)
        kept      == [s EXCEPT !.indent = indent,
                               !.scalar = IF params.fold = "flow" THEN SubSeq(@, 1, s.last) ELSE @]
        startedMore == IF params.fold = "block" /\ s.folded = 0 /\ nextEmpty
                       THEN s.more ELSE s.foldedMore
    IN  IF tab THEN [s EXCEPT !.error = "TAB_IN_INDENTATION"]
        ELSE [kept EXCEPT
                !.at = k,
                !.scalar = @ \o Folded([kept EXCEPT !.foldedMore = startedMore],
                                       params, k, nextEmpty, nextMore),
                !.folded = IF params.fold = "block" /\ s.past /\ nextEmpty THEN @ + 1 ELSE 0,
                !.foldedMore = startedMore,
                !.empty = nextEmpty, !.more = nextMore, !.past = TRUE, !.escapedNewline = FALSE,
                !.leadingSpaces = ~nextEmpty /\ Column(k) < indent]

ScanLines(state, params) ==
    LET lines[s \in ScalarStates] ==
        LET line == ScanLine([s EXCEPT !.last = Len(s.scalar)], params)
            next == NextLine(line, params)
        IN  IF ~More(s.at) \/ line.error # "none" THEN line
            ELSE IF ~More(line.at)
            THEN IF params.eatEnd THEN [line EXCEPT !.error = "EOF_IN_SCALAR"] ELSE line
            ELSE IF params.onDocIndicator = "break" /\ DocumentAt(line.at) THEN line
            ELSE IF ScalarEnd(params, line.at)
            THEN IF params.eatEnd THEN [line EXCEPT !.at = @ + 1] ELSE line
            ELSE IF next.error # "none" \/ next.leadingSpaces THEN next
            ELSE lines[next]
    IN  lines[state]

\* Length of the scalar without the trailing symbols of a set; what an escape left is kept.
Trimmed(s, trailing) ==
    Max({s.escaped + 1} \cup {k \in 1 .. Len(s.scalar) : s.scalar[k] \notin trailing})

Prefix(scalar, length) == SubSeq(scalar, 1, Min({length, Len(scalar)}))

\* Post-processing: trimTrailingSpaces, then chomp.
Chomped(s, params) ==
    LET blanks == Trimmed(s, {" ", "\t"})
        t == [s EXCEPT !.scalar =
                IF params.trimTrailingSpaces /\ blanks # 0 THEN Prefix(@, blanks) ELSE @]
        breaks == Trimmed(t, {"\n"})
    IN  [t EXCEPT !.scalar =
            CASE params.chomp = "keep"  -> @
              [] params.chomp = "clip"  -> IF breaks = 0 THEN <<>> ELSE Prefix(@, breaks + 1)
              [] params.chomp = "strip" -> Prefix(@, breaks)]

ScanScalar(i, params) == Chomped(ScanLines(Scalar0(i, params), params), params)
=============================================================================
