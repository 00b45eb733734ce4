---------------------------- MODULE YamlScanner ----------------------------
(***************************************************************************)
(* YAML::Scanner: characters into tokens.  A token that may turn out to    *)
(* begin the key of a map is queued unverified; the ':' behind it, or the  *)
(* end of its line, decides.  Positions, marks and error messages are left *)
(* out.  The state of the scanner is one record and each step of           *)
(* ScanNextToken is an action: line by line to the next token, the indents *)
(* that end before it one by one, then the branch for the characters       *)
(* there, which may end all indents first.                                 *)
(***************************************************************************)
EXTENDS YamlText, YamlTokens

CONSTANT MaxKeyLength   \* of a simple key, 1024 in the code

\* tokens holds all tokens ever queued; m_tokens is what begins at front.  indents
\* holds positions in indentRefs, as a simple key does; 0 is no pointer.
NewScanner ==
    [at |-> 1, tokens |-> <<>>, front |-> 1, branch |-> "StartStream", endedStream |-> FALSE,
     simpleKeyAllowed |-> FALSE, canBeJSONFlow |-> FALSE, simpleKeys |-> <<>>,
     indents |-> <<>>, indentRefs |-> <<>>, flows |-> <<>>, error |-> "none"]

Throw(s, what) == [s EXCEPT !.error = what]
Push(s, token) == [s EXCEPT !.tokens = Append(@, token)]
Eat(s, n) == [s EXCEPT !.at = @ + n]
Allow(s, key, json) == [s EXCEPT !.simpleKeyAllowed = key, !.canBeJSONFlow = json]

InFlowContext(s) == s.flows # <<>>
InBlockContext(s) == s.flows = <<>>
FlowLevel(s) == Len(s.flows)

TopIndent(s) == s.indentRefs[Last(s.indents)]

\* Simple keys (simplekey.cpp)

ActiveSimpleKey(s) == s.simpleKeys # <<>> /\ Last(s.simpleKeys).flowLevel = FlowLevel(s)

\* Mutant: the key is decided and not removed.
Decide_KeyStays(s, key, status) ==
    [s EXCEPT !.tokens = [i \in DOMAIN @ |-> IF i \in {key.mapStart, key.token}
                                             THEN [@[i] EXCEPT !.status = status] ELSE @[i]],
              !.indentRefs = [i \in DOMAIN @ |-> IF i = key.indent
                                                 THEN [@[i] EXCEPT !.status = status] ELSE @[i]]]

\* Validate or Invalidate: the status of a key's indent, map start and key token.
Decide(s, key, status) ==
    [s EXCEPT !.tokens = [i \in DOMAIN @ |-> IF i \in {key.mapStart, key.token}
                                             THEN [@[i] EXCEPT !.status = status] ELSE @[i]],
              !.indentRefs = [i \in DOMAIN @ |-> IF i = key.indent
                                                 THEN [@[i] EXCEPT !.status = status] ELSE @[i]],
              !.simpleKeys = Front(@)]

InvalidateSimpleKey(s) ==
    IF ActiveSimpleKey(s) THEN Decide(s, Last(s.simpleKeys), "INVALID") ELSE s

\* Whether VerifySimpleKey returns true: the key is on this line and not too long.
IsSimpleKey(s) ==
    /\ ActiveSimpleKey(s)
    /\ LET key == Last(s.simpleKeys)
       IN  LineStart(s.at) = LineStart(key.at) /\ s.at - key.at <= MaxKeyLength

VerifySimpleKey(s) ==
    IF IsSimpleKey(s) THEN Decide(s, Last(s.simpleKeys), "VALID") ELSE InvalidateSimpleKey(s)

\* Indentation

\* Where PushIndentTo queues a start token: not in a flow, not to the left of the
\* last indent, and at its column only for a sequence in a map.
Indents(s, type) ==
    /\ InBlockContext(s)
    /\ \/ Column(s.at) > TopIndent(s).column
       \/ Column(s.at) = TopIndent(s).column /\ type = "SEQ" /\ TopIndent(s).type = "MAP"

PushIndent(s, type) ==
    [Push(s, Token(IF type = "SEQ" THEN "BLOCK_SEQ_START" ELSE "BLOCK_MAP_START")) EXCEPT
        !.indents = Append(@, Len(s.indentRefs) + 1),
        !.indentRefs = Append(@, [column |-> Column(s.at), type |-> type, status |-> "VALID",
                                   start |-> Len(s.tokens) + 1])]

PushIndentTo(s, type) == IF Indents(s, type) THEN PushIndent(s, type) ELSE s

InsertPotentialSimpleKey(s) ==
    IF ~s.simpleKeyAllowed \/ ActiveSimpleKey(s) THEN s
    ELSE LET indented == Indents(s, "MAP")
             t == PushIndentTo(s, "MAP")
             n == Len(t.tokens)
         IN  [Push(t, Unverified("KEY")) EXCEPT
                !.tokens = IF indented THEN [@ EXCEPT ![n].status = "UNVERIFIED"] ELSE @,
                !.indentRefs = IF indented THEN [@ EXCEPT ![Len(@)].status = "UNKNOWN"] ELSE @,
                !.simpleKeys = Append(@,
                    [at |-> s.at, flowLevel |-> FlowLevel(s), token |-> n + 1,
                     mapStart |-> IF indented THEN n ELSE 0,
                     indent |-> IF indented THEN Len(t.indentRefs) ELSE 0])]

PopIndent(s) ==
    LET indent == TopIndent(s)
        t      == [s EXCEPT !.indents = Front(@)]
    IN  IF indent.status # "VALID" THEN InvalidateSimpleKey(t)
        ELSE IF indent.type = "SEQ" THEN Push(t, Token("BLOCK_SEQ_END"))
        ELSE IF indent.type = "MAP" THEN Push(t, Token("BLOCK_MAP_END")) ELSE t

\* Mutant: a sequence ends only where the column is to the left of it.
Outdented_Column(s) == s.indents # <<>> /\ TopIndent(s).column > Column(s.at)

\* Whether what follows at s.at does not belong to the block of the top indent.
Outdented(s) ==
    /\ s.indents # <<>>
    /\ \/ TopIndent(s).column > Column(s.at)
       \/ TopIndent(s).column = Column(s.at) /\ TopIndent(s).type = "SEQ" /\ ~BlockEntry(s.at)

\* What ends the document ends all its blocks first.
EndsDocument == {"EndStream", "Directive", "DocStart", "DocEnd"}

\* Mutant: at the end of the text the flow that is open is no matter.
IndentsToPop_InFlow(s) ==
    s.branch \in EndsDocument /\ s.indents # <<>> /\ TopIndent(s).type # "NONE"

IndentsToPop(s) ==
    s.branch \in EndsDocument /\ InBlockContext(s) /\ s.indents # <<>> /\ TopIndent(s).type # "NONE"

\* The keys are dropped, their tokens stay unverified.
PopAllSimpleKeys(s) == [s EXCEPT !.simpleKeys = <<>>]

-----------------------------------------------------------------------------
(* ScanNextToken                                                           *)

\* Blanks and a comment.
SkipBlanks(s) ==
    LET word    == Min({i \in From(s.at) : ~BlankAt(i)})
        tabbed  == InBlockContext(s) /\ \E i \in s.at .. (word - 1) : Char(i) = "\t"
        comment == IF Char(word) = "#" THEN Min({i \in From(word) : ~More(i) \/ BreakAt(i)}) ELSE word
    IN  [s EXCEPT !.at = comment, !.simpleKeyAllowed = @ /\ ~tabbed]

BeginLine(s) ==
    LET t == InvalidateSimpleKey([s EXCEPT !.at = AfterBreak(@)])
    IN  [t EXCEPT !.simpleKeyAllowed = @ \/ InBlockContext(t)]

IsValue(s) ==
    IF InBlockContext(s) THEN Value(s.at)
    ELSE ValueInFlow(s.at) \/ (s.canBeJSONFlow /\ Char(s.at) = ":")

\* The branch for the characters at s.at: the first that matches, in the order of the code.
Branches(s) ==
    LET i     == s.at
        c     == Char(i)
        start == AtLineStart(i)
        block == InBlockContext(s)
    IN  <<<<"EndStream", ~More(i)>>,
          <<"Directive", start /\ c = "%">>,
          <<"DocStart", start /\ DocStart(i)>>,
          <<"DocEnd", start /\ DocEnd(i)>>,
          <<"FlowStart", c \in {"[", "{"}>>,
          <<"FlowEnd", c \in {"]", "}"}>>,
          <<"FlowEntry", c = ",">>,
          <<"BlockEntry", BlockEntry(i)>>,
          <<"Key", Key(i)>>,
          <<"Value", IsValue(s)>>,
          <<"AnchorOrAlias", c \in {"*", "&"}>>,
          <<"Tag", c = "!">>,
          <<"BlockScalar", block /\ c \in {"|", ">"}>>,
          <<"QuotedScalar", c \in {"'", "\""}>>,
          <<"PlainScalar", IF block THEN PlainScalar(i) ELSE PlainScalarInFlow(i)>>,
          <<"Unknown", TRUE>>>>

Branch(s) ==
    LET branches == Branches(s) IN branches[Min({n \in DOMAIN branches : branches[n][2]})][1]

\* A line of ScanToNextToken: it ends, or the next token is on it.
ScanToNextToken ==
    /\ \/ scanner.branch = "none" /\ scanner.error = "none" /\ ~Ensured(scanner)
       \/ scanner.branch = "nextLine"
    /\ LET s == SkipBlanks(scanner)
       IN  scanner' = IF BreakAt(s.at) THEN [BeginLine(s) EXCEPT !.branch = "nextLine"]
                      ELSE [s EXCEPT !.branch = IF InFlowContext(s) THEN Branch(s) ELSE "outdented"]

\* PopIndentToHere: the indents of the blocks that end here, one by one, and then those
\* of keys that were none.
PopOutdented ==
    /\ scanner.branch = "outdented"
    /\ scanner' = IF Outdented(scanner) THEN PopIndent(scanner) ELSE [scanner EXCEPT !.branch = "invalid"]

PopInvalid ==
    /\ scanner.branch = "invalid"
    /\ scanner' = IF scanner.indents # <<>> /\ TopIndent(scanner).status = "INVALID" THEN PopIndent(scanner)
                  ELSE [scanner EXCEPT !.branch = Branch(scanner)]

PopAllIndents == IndentsToPop(scanner) /\ scanner' = PopIndent(scanner)

\* The handler of a branch leaves the scanner in state s.
Scan(branch, s) ==
    scanner.branch = branch /\ ~IndentsToPop(scanner) /\ scanner' = [s EXCEPT !.branch = "none"]

StartStream ==
    Scan("StartStream",
         [scanner EXCEPT !.simpleKeyAllowed = TRUE, !.indents = <<1>>,
                         !.indentRefs = <<[column |-> -1, type |-> "NONE", status |-> "VALID", start |-> 0]>>])

\* Mutant: m_endedStream is not set.
EndStream_NotEnded ==
    Scan("EndStream",
         [PopAllSimpleKeys(scanner) EXCEPT !.simpleKeyAllowed = FALSE])

EndStream ==
    Scan("EndStream",
         [PopAllSimpleKeys(scanner) EXCEPT
            !.simpleKeyAllowed = FALSE, !.endedStream = TRUE])

\* The document is ended, and with it its keys.
DocumentEnded == Allow(PopAllSimpleKeys(scanner), FALSE, FALSE)

\* The words from i to the end of the line or a comment, and where they end.
Parameters(i) ==
    LET params[j \in Nat] ==
        LET begin == Min({k \in From(j) : ~BlankAt(k)})
            end   == Min({k \in From(begin) : Ends(k)})
        IN  IF Ends(begin) \/ Char(begin) = "#" THEN [list |-> <<>>, at |-> begin]
            ELSE [params[end] EXCEPT !.list = <<SubSeq(text, begin, end - 1)>> \o @]
    IN  params[i]

ScanDirective ==
    LET end    == Min({j \in From(scanner.at + 1) : Ends(j)})
        params == Parameters(end)
    IN  Scan("Directive",
             [Push(DocumentEnded, ValueToken("DIRECTIVE",
                    [name |-> SubSeq(text, scanner.at + 1, end - 1), params |-> params.list]))
              EXCEPT !.at = params.at])

ScanDocStart == Scan("DocStart", Eat(Push(DocumentEnded, Token("DOC_START")), 3))
ScanDocEnd   == Scan("DocEnd", Eat(Push(DocumentEnded, Token("DOC_END")), 3))

ScanFlowStart ==
    LET s == Allow(InsertPotentialSimpleKey(scanner), TRUE, FALSE)
        type == IF Char(s.at) = "[" THEN "FLOW_SEQ" ELSE "FLOW_MAP"
    IN  Scan("FlowStart",
             Eat(Push([s EXCEPT !.flows = Append(@, type)],
                      Token(IF type = "FLOW_SEQ" THEN "FLOW_SEQ_START" ELSE "FLOW_MAP_START")), 1))

\* A solo entry of a flow map is a key without a value, of a flow sequence no key.
SoloEntry(s) ==
    IF InBlockContext(s) THEN s
    ELSE IF Last(s.flows) = "FLOW_SEQ" THEN InvalidateSimpleKey(s)
    ELSE IF IsSimpleKey(s) THEN Push(VerifySimpleKey(s), Token("VALUE")) ELSE VerifySimpleKey(s)

ScanFlowEnd ==
    LET type == IF Char(scanner.at) = "]" THEN "FLOW_SEQ" ELSE "FLOW_MAP"
        s    == Allow(SoloEntry(scanner), FALSE, TRUE)
    IN  Scan("FlowEnd",
             IF InBlockContext(scanner) \/ Last(scanner.flows) # type THEN Throw(scanner, "FLOW_END")
             ELSE Eat(Push([s EXCEPT !.flows = Front(@)],
                           Token(IF type = "FLOW_SEQ" THEN "FLOW_SEQ_END" ELSE "FLOW_MAP_END")), 1))

ScanFlowEntry ==
    Scan("FlowEntry", Eat(Push(Allow(SoloEntry(scanner), TRUE, FALSE), Token("FLOW_ENTRY")), 1))

ScanBlockEntry ==
    Scan("BlockEntry",
         IF InFlowContext(scanner) \/ ~scanner.simpleKeyAllowed THEN Throw(scanner, "BLOCK_ENTRY")
         ELSE Eat(Push(Allow(PushIndentTo(scanner, "SEQ"), TRUE, FALSE), Token("BLOCK_ENTRY")), 1))

ScanKey ==
    Scan("Key",
         IF InBlockContext(scanner) /\ ~scanner.simpleKeyAllowed THEN Throw(scanner, "MAP_KEY")
         ELSE Eat(Push([PushIndentTo(scanner, "MAP") EXCEPT
                            !.simpleKeyAllowed = InBlockContext(scanner)], Token("KEY")), 1))

ScanValue ==
    Scan("Value",
         IF IsSimpleKey(scanner)
         THEN Eat(Push(Allow(VerifySimpleKey(scanner), FALSE, FALSE), Token("VALUE")), 1)
         ELSE IF InBlockContext(scanner) /\ ~scanner.simpleKeyAllowed THEN Throw(scanner, "MAP_VALUE")
         ELSE Eat(Push(Allow(PushIndentTo(VerifySimpleKey(scanner), "MAP"),
                             InBlockContext(scanner), FALSE), Token("VALUE")), 1))

ScanAnchorOrAlias ==
    LET s    == Allow(InsertPotentialSimpleKey(scanner), FALSE, FALSE)
        type == IF Char(s.at) = "*" THEN "ALIAS" ELSE "ANCHOR"
        end  == Min({i \in From(s.at + 1) : ~More(i) \/ ~AnchorChar(i)})
    IN  Scan("AnchorOrAlias",
             IF end = s.at + 1 THEN Throw(s, "ANCHOR_NOT_FOUND")
             ELSE IF More(end) /\ ~AnchorEnd(end) THEN Throw(s, "CHAR_IN_ANCHOR")
             ELSE [Push(s, ValueToken(type, SubSeq(text, s.at + 1, end - 1))) EXCEPT !.at = end])

\* A tag is of a type, with a text and, after the handle, a suffix.
ScanTag ==
    LET s      == Allow(InsertPotentialSimpleKey(scanner), FALSE, FALSE)
        i      == s.at + 1
        word   == Min({j \in From(i) : ~Word(j)})
        handle == ~More(word) \/ Char(word) = "!"
        end    == IF handle THEN word ELSE Min({j \in From(word) : ~TagChar(j)})
        close  == Min({j \in From(i + 1) : ~UriChar(j)})
        suffix == Min({j \in From(end + 1) : ~TagChar(j)})
        Tag(type, value, rest, at) ==
            [Push(s, ValueToken("TAG", [type |-> type, value |-> value, suffix |-> rest]))
             EXCEPT !.at = at]
    IN  Scan("Tag",
             IF Char(i) = "<"
             THEN IF Char(close) = ">" THEN Tag("VERBATIM", SubSeq(text, i + 1, close - 1), <<>>, close + 1)
                  ELSE Throw(s, "END_OF_VERBATIM_TAG")
             ELSE IF ~handle /\ Char(end) = "!" THEN Throw(s, "CHAR_IN_TAG_HANDLE")
             ELSE IF Char(end) = "!"
             THEN IF suffix = end + 1 THEN Throw(s, "TAG_WITH_NO_SUFFIX")
                  ELSE Tag("NAMED_HANDLE", SubSeq(text, i, end - 1), SubSeq(text, end + 1, suffix - 1), suffix)
             ELSE Tag(IF end > i THEN "PRIMARY_HANDLE"
                      ELSE IF handle THEN "SECONDARY_HANDLE" ELSE "NON_SPECIFIC",
                      SubSeq(text, i, end - 1), <<>>, end))

\* The scanner in state s behind the scalar that was read.
ReadScalar(s, type, read, key, json) ==
    IF read.error # "none" THEN Throw(s, read.error)
    ELSE [Push(Allow(s, key, json), ValueToken(type, read.scalar)) EXCEPT !.at = read.at]

FlowScalar ==
    [end |-> "plain", eatEnd |-> FALSE, indent |-> 0, detectIndent |-> FALSE, fold |-> "flow",
     eatLeadingWhitespace |-> TRUE, trimTrailingSpaces |-> FALSE, chomp |-> "clip",
     onDocIndicator |-> "none", onTabInIndentation |-> "none"]

ScanPlainScalar ==
    LET read == ScanScalar(scanner.at,
                    [FlowScalar EXCEPT
                        !.end = IF InFlowContext(scanner) THEN "flow" ELSE "plain",
                        !.indent = IF InFlowContext(scanner) THEN 0 ELSE TopIndent(scanner).column + 1,
                        !.trimTrailingSpaces = TRUE, !.chomp = "strip",
                        !.onDocIndicator = "break", !.onTabInIndentation = "throw"])
    IN  Scan("PlainScalar", ReadScalar(InsertPotentialSimpleKey(scanner), "PLAIN_SCALAR", read,
                                       read.leadingSpaces, FALSE))

ScanQuotedScalar ==
    LET read == ScanScalar(scanner.at + 1,
                    [FlowScalar EXCEPT
                        !.end = IF Char(scanner.at) = "'" THEN "single" ELSE "double",
                        !.eatEnd = TRUE, !.onDocIndicator = "throw"])
    IN  Scan("QuotedScalar", ReadScalar(InsertPotentialSimpleKey(scanner), "NON_PLAIN_SCALAR", read,
                                        FALSE, TRUE))

\* Exp::Chomp: a sign, a digit, or both in either order.
Chomp(i) ==
    LET Sign(c) == c \in {"+", "-"}
    IN  SubSeq(text, i,
               IF (Sign(Char(i)) /\ Digit(Char(i + 1))) \/ (Digit(Char(i)) /\ Sign(Char(i + 1))) THEN i + 1
               ELSE IF Sign(Char(i)) \/ Digit(Char(i)) THEN i ELSE i - 1)

ScanBlockScalar ==
    LET chomp  == Chomp(scanner.at + 1)
        word   == Min({j \in From(scanner.at + 1 + Len(chomp)) : ~BlankAt(j)})
        line   == IF Char(word) = "#" THEN Min({j \in From(word) : ~More(j) \/ BreakAt(j)}) ELSE word
        digit  == SelectInSeq(Digits, LAMBDA d : Contains(chomp, d))
        read   == ScanScalar(line,
                    [FlowScalar EXCEPT
                        !.end = "empty", !.eatLeadingWhitespace = FALSE, !.onTabInIndentation = "throw",
                        !.fold = IF Char(scanner.at) = ">" THEN "block" ELSE "dont",
                        !.chomp = IF Contains(chomp, "+") THEN "keep"
                                  ELSE IF Contains(chomp, "-") THEN "strip" ELSE "clip",
                        !.detectIndent = digit = 0,
                        !.indent = Max({1, digit}) + Max({0, TopIndent(scanner).column})])
    IN  Scan("BlockScalar",
             IF Contains(chomp, "0") THEN Throw(scanner, "ZERO_INDENT_IN_BLOCK")
             ELSE IF More(line) /\ ~BreakAt(line) THEN Throw(scanner, "CHAR_IN_BLOCK")
             ELSE ReadScalar(scanner, "NON_PLAIN_SCALAR", read, TRUE, FALSE))

UnknownToken == Scan("Unknown", Throw(scanner, "UNKNOWN_TOKEN"))

ScanNextToken ==
    \/ StartStream \/ ScanToNextToken \/ PopOutdented \/ PopInvalid \/ PopAllIndents
    \/ EndStream \/ UnknownToken
    \/ ScanDirective \/ ScanDocStart \/ ScanDocEnd
    \/ ScanFlowStart \/ ScanFlowEnd \/ ScanFlowEntry
    \/ ScanBlockEntry \/ ScanKey \/ ScanValue
    \/ ScanAnchorOrAlias \/ ScanTag
    \/ ScanPlainScalar \/ ScanQuotedScalar \/ ScanBlockScalar

\* The parser takes the front token (YamlParser).
TakeToken ==
    scanner.branch = "none" /\ scanner.error = "none" /\ Ensured(scanner) /\ ~Empty /\ PopToken

\* Whatever text there is, and whenever a token is taken: the scanner alone.
ScannerSpec == scanner = NewScanner /\ [][ScanNextToken \/ TakeToken]_scanner

-----------------------------------------------------------------------------
(* Properties                                                              *)

\* A simple key that is still open is in front of the parser: its tokens are not
\* verified, and none of them has been handed out.
KeysPending ==
    \A i \in DOMAIN scanner.simpleKeys :
        LET key == scanner.simpleKeys[i]
        IN  /\ scanner.tokens[key.token].type = "KEY"
            /\ \A t \in {key.mapStart, key.token} \ {0} :
                  scanner.front <= t /\ scanner.tokens[t].status = "UNVERIFIED"
            /\ i > 1 => scanner.simpleKeys[i - 1].flowLevel < key.flowLevel

\* What the parser has been given is never changed afterwards: the scanner reads on
\* behind a token that may begin a key before it hands it out.
DeliveredStands ==
    [][\A i \in 1 .. (scanner.front - 1) : scanner'.tokens[i] = scanner.tokens[i]]_scanner

Closing ==
    [BLOCK_SEQ_START |-> "BLOCK_SEQ_END", BLOCK_MAP_START |-> "BLOCK_MAP_END",
     FLOW_SEQ_START |-> "FLOW_SEQ_END", FLOW_MAP_START |-> "FLOW_MAP_END"]

\* The positions of the start tokens that are open behind token n, if those of open were
\* before it; 0 is there if it ends something else than the last of them.
Close(open, tokens, n) ==
    LET type == tokens[n].type
    IN  IF tokens[n].status # "VALID" THEN open
        ELSE IF type \in DOMAIN Closing THEN open \cup {n}
        ELSE IF \A start \in DOMAIN Closing : type # Closing[start] THEN open
        ELSE IF open \ {0} # {} /\ type = Closing[tokens[Max(open)].type] THEN open \ {Max(open)}
        ELSE open \cup {0}

Unclosed(tokens) ==
    LET open[n \in 0 .. Len(tokens)] == IF n = 0 THEN {} ELSE Close(open[n - 1], tokens, n)
    IN  open[Len(tokens)]

\* Blocks have no end in the text: the tokens that begin and end them come from the
\* columns alone, and a start may become valid when others have begun and ended behind
\* it.  They are nested, with each other and with the flow collections, and at the end of
\* the text no block is open outside a flow collection left open.  A start that was never
\* decided, as before a document mark within a flow collection, has no end.
BlocksClosed ==
    /\ 0 \notin Unclosed(scanner.tokens)
    /\ scanner.endedStream /\ scanner.flows = <<>> => Unclosed(scanner.tokens) = {}
=============================================================================
