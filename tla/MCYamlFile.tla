----------------------------- MODULE MCYamlFile -----------------------------
(***************************************************************************)
(* Files for TLC: configurations written in every style, short texts of    *)
(* all kinds, and texts in every encoding.                                 *)
(***************************************************************************)
EXTENDS ConfigFile

Words == <<"web", "db", "services", "command", "run", "fast", "two", "note", "n", "null",
           "settings", "workdir", "YAML", "TAG", "1", "0", "x", "letter", "smiley">>

\* A code point for each symbol: words are letters, one of two and one of four bytes.
MCCode ==
    [symbol \in {"\t", "\n", " ", "!", "\"", "#", "%", "&", "'", "*", "+", ",", "-", ".", ":",
                 "<", ">", "?", "[", "\\", "]", "{", "|", "}", "~", "\r"}
              \cup ToSet(Words) |->
        CASE symbol = "\t" -> 9    [] symbol = "\n" -> 10  [] symbol = "\r" -> 13
          [] symbol = " " -> 32    [] symbol = "!" -> 33   [] symbol = "\"" -> 34
          [] symbol = "#" -> 35    [] symbol = "%" -> 37   [] symbol = "&" -> 38
          [] symbol = "'" -> 39    [] symbol = "*" -> 42   [] symbol = "+" -> 43
          [] symbol = "," -> 44    [] symbol = "-" -> 45   [] symbol = "." -> 46
          [] symbol = ":" -> 58    [] symbol = "<" -> 60   [] symbol = ">" -> 62
          [] symbol = "?" -> 63    [] symbol = "[" -> 91   [] symbol = "\\" -> 92
          [] symbol = "]" -> 93    [] symbol = "{" -> 123  [] symbol = "|" -> 124
          [] symbol = "}" -> 125   [] symbol = "~" -> 126
          [] symbol = "letter" -> 233 [] symbol = "smiley" -> 128000
          [] OTHER -> 96 + SelectInSeq(Words, LAMBDA word : word = symbol)]

-----------------------------------------------------------------------------
(* Encodings                                                               *)

Mark == 65279

\* n bytes of a unit, the highest first.
BigEndian(unit, n) == [i \in 1 .. n |-> (unit \div (256 ^ (n - i))) % 256]

Units16(ch) ==
    IF ch < 65536 THEN <<ch>>
    ELSE <<55296 + ((ch - 65536) \div 1024), 56320 + ((ch - 65536) % 1024)>>

EncodedChar(ch, encoding) ==
    CASE encoding = "utf8"    -> Stream!Utf8(ch)
      [] encoding = "utf16be" -> FlattenSeq([i \in DOMAIN Units16(ch) |-> BigEndian(Units16(ch)[i], 2)])
      [] encoding = "utf16le" -> FlattenSeq([i \in DOMAIN Units16(ch) |-> Reverse(BigEndian(Units16(ch)[i], 2))])
      [] encoding = "utf32be" -> BigEndian(ch, 4)
      [] encoding = "utf32le" -> Reverse(BigEndian(ch, 4))

Encoded(codes, encoding) ==
    FlattenSeq([i \in DOMAIN codes |-> EncodedChar(codes[i], encoding)])

Encodings == {"utf8", "utf16be", "utf16le", "utf32be", "utf32le"}

\* A file with that text.
Written(symbols, encoding, marked, document) ==
    LET code  == MCCode
        codes == [i \in DOMAIN symbols |-> code[symbols[i]]]
    IN  [exists |-> TRUE, written |-> symbols, document |-> document,
         bytes |-> Encoded(IF marked THEN <<Mark>> \o codes ELSE codes, encoding)]

-----------------------------------------------------------------------------
(* Documents and styles                                                    *)

Pair(key, node) == <<ScalarNode(key), node>>
MapOf(entries)  == [kind |-> "Map", entries |-> entries]
ListOf(items)    == [kind |-> "Sequence", items |-> items]
Run    == ScalarNode(<<"run">>)
Spaced == ScalarNode(<<"run", " ", "fast">>)
Colon  == ScalarNode(<<"x", ":", "two">>)
Awkward == ScalarNode(<<"-", " ", "'", "x", "'", " ", "#">>)
Lines2 == ScalarNode(<<"run", "\n", "two">>)
Lines3 == ScalarNode(<<"run", "\n", "\n", "two", "\n">>)

\* The second use of a collection is written as an alias of the first.
Anchored(name, node) == [kind |-> "Anchored", name |-> name, node |-> node]
Alias(name, node)    == [kind |-> "Alias", name |-> name, node |-> node]

RECURSIVE Meant(_)
Meant(node) ==
    CASE node.kind \in {"Anchored", "Alias"} -> Meant(node.node)
      [] node.kind = "Sequence" -> ListOf([i \in DOMAIN node.items |-> Meant(node.items[i])])
      [] node.kind = "Map" ->
            MapOf([i \in DOMAIN node.entries |-> <<Meant(node.entries[i][1]), Meant(node.entries[i][2])>>])
      [] OTHER -> node

PlainScalars == {<<"run">>, <<"run", " ", "fast">>, <<"x", ":", "two">>, <<"web">>, <<"db">>,
                 <<"services">>, <<"command">>, <<"settings">>, <<"workdir">>, <<"letter">>}

Quoted(value, quote) ==
    <<quote>> \o
    FlattenSeq([i \in DOMAIN value |->
        CASE quote = "'" /\ value[i] = "'" -> <<"'", "'">>
          [] quote = "\"" /\ value[i] \in {"\"", "\\"} -> <<"\\", value[i]>>
          [] quote = "\"" /\ value[i] = "\n" -> <<"\\", "n">>
          [] OTHER -> <<value[i]>>]) \o <<quote>>

\* A scalar within a line; what the style does not allow is put in double quotes.
Inline(node, style) ==
    IF node.kind = "Null" THEN <<"~">>
    ELSE IF style.quote = "plain" /\ node.value \in PlainScalars THEN node.value
    ELSE IF style.quote = "single" /\ ~Contains(node.value, "\n") THEN Quoted(node.value, "'")
    ELSE Quoted(node.value, "\"")

Separated(texts, separator) ==
    FlattenSeq([i \in DOMAIN texts |-> IF i = 1 THEN texts[i] ELSE separator \o texts[i]])

RECURSIVE Flow(_, _)
Flow(node, style) ==
    CASE node.kind = "Anchored" -> <<"&", node.name, " ">> \o Flow(node.node, style)
      [] node.kind = "Alias"    -> <<"*", node.name>>
      [] node.kind = "Sequence" ->
            <<"[">> \o Separated([i \in DOMAIN node.items |-> Flow(node.items[i], style)], <<",", " ">>)
            \o <<"]">>
      [] node.kind = "Map" ->
            <<"{">> \o Separated([i \in DOMAIN node.entries |->
                           Flow(node.entries[i][1], style) \o <<" ", ":", " ">> \o
                           Flow(node.entries[i][2], style)], <<",", " ">>)
            \o <<"}">>
      [] OTHER -> Inline(node, style)

Indented(lines, n) == [i \in DOMAIN lines |-> IF lines[i] = <<>> THEN <<>> ELSE [j \in 1 .. n |-> " "] \o lines[i]]
Behind(prefix, lines) == <<prefix \o lines[1]>> \o Indented(Tail(lines), Len(prefix))

\* The lines of a literal or folded scalar, the first with the indicator.
ScalarLines(node, style) ==
    LET chomp == IF Last(node.value) = "\n" THEN <<>> ELSE <<"-">>
        value == IF Last(node.value) = "\n" THEN Front(node.value) ELSE node.value
        RECURSIVE Split(_)
        Split(v) == IF \E i \in DOMAIN v : v[i] = "\n"
                    THEN LET i == SelectInSeq(v, LAMBDA c : c = "\n")
                         IN  <<SubSeq(v, 1, i - 1)>> \o Split(SubSeq(v, i + 1, Len(v)))
                    ELSE <<v>>
        lines == Split(value)
    IN  IF style.quote = "literal" THEN <<<<"|">> \o chomp>> \o Indented(lines, 2)
        ELSE <<<<">">> \o chomp>> \o
             Indented(FlattenSeq([i \in DOMAIN lines |->
                        IF i = 1 \/ lines[i] = <<>> THEN <<lines[i]>> ELSE <<<<>>, lines[i]>>]), 2)

IsBlockScalar(node, style) ==
    node.kind = "Scalar" /\ style.quote \in {"literal", "folded"} /\ node.value # <<>>
    /\ node.value[1] \notin {"\n", " "}

IsBlock(node, style) ==
    node.kind \in {"Sequence", "Map"} /\ style.map = "block"
    /\ (IF node.kind = "Map" THEN node.entries # <<>> ELSE node.items # <<>> /\ style.seq # "flow")

\* A node as lines; the first may stand behind "- ", ": " or "? ".
RECURSIVE Block(_, _)
Block(node, style) ==
    IF node.kind = "Anchored" /\ IsBlock(node.node, style)
    THEN <<<<"&", node.name>>>> \o Block(node.node, style)
    ELSE IF IsBlockScalar(node, style) THEN ScalarLines(node, style)
    ELSE IF ~IsBlock(node, style) THEN <<Flow(node, style)>>
    ELSE IF node.kind = "Sequence"
    THEN FlattenSeq([i \in DOMAIN node.items |-> Behind(<<"-", " ">>, Block(node.items[i], style))])
    ELSE FlattenSeq([i \in DOMAIN node.entries |->
            LET key   == node.entries[i][1]
                value == node.entries[i][2]
                lines == Block(value, style)
                inner == IF value.kind = "Anchored" THEN value.node ELSE value
                name  == Flow(key, style) \o <<":">>
                body  == IF value.kind = "Anchored" /\ IsBlock(inner, style) THEN Tail(lines) ELSE lines
                depth == IF inner.kind = "Sequence" /\ style.seq = "level" THEN 0 ELSE 2
            IN  IF style.key = "explicit"
                THEN Behind(<<"?", " ">>, Block(key, style)) \o Behind(<<":", " ">>, lines)
                ELSE IF IsBlock(inner, style)
                THEN <<name \o (IF value.kind = "Anchored" THEN <<" ">> \o lines[1] ELSE <<>>)>>
                     \o Indented(body, depth)
                ELSE IF value = NullNode /\ style.quote # "plain" THEN <<name>>
                ELSE <<name \o <<" ">> \o lines[1]>> \o Tail(lines)])

Text(node, style) ==
    LET lines == Block(node, style)
        noted == IF style.comments /\ style.quote \notin {"literal", "folded"}
                 THEN FlattenSeq([i \in DOMAIN lines |->
                          <<lines[i] \o <<" ", "#", "note">>, <<" ", "#", ":">>>>])
                 ELSE lines
        marked == IF style.marks THEN <<<<"%", "YAML", " ", "1", ".", "1">>, <<"-", "-", "-">>>> \o noted
                                      \o <<<<".", ".", ".">>, <<"x">>>>
                  ELSE noted
    IN  Separated(marked, style.break) \o (IF style.final THEN style.break ELSE <<>>)

Documents ==
    {Run, NullNode,
     MapOf(<<Pair(<<"settings">>, Anchored("x", MapOf(<<Pair(<<"web">>, Run)>>))),
             Pair(<<"services">>, Alias("x", MapOf(<<Pair(<<"web">>, Run)>>)))>>),
     MapOf(<<Pair(<<"settings">>, MapOf(<<Pair(<<"workdir">>, Run)>>)),
             Pair(<<"services">>, MapOf(<<<<NullNode, Spaced>>>>))>>),
     MapOf(<<Pair(<<"services">>, MapOf(<<Pair(<<"web">>, Run), <<ListOf(<<Run>>), Run>>>>))>>),
     MapOf(<<Pair(<<"services">>, MapOf(<<Pair(<<"web">>, Spaced), Pair(<<"db">>, NullNode)>>))>>),
     MapOf(<<Pair(<<"services">>,
         MapOf(<<Pair(<<"web">>, MapOf(<<Pair(<<"command">>, Colon),
                                         Pair(<<"db">>, ListOf(<<Run, Awkward>>))>>)),
                 Pair(<<"db">>, Run)>>))>>),
     MapOf(<<Pair(<<"web">>, Anchored("x", MapOf(<<Pair(<<"command">>, Lines2)>>))),
             Pair(<<"db">>, Alias("x", MapOf(<<Pair(<<"command">>, Lines2)>>)))>>),
     ListOf(<<ListOf(<<Run, ListOf(<<>>)>>), MapOf(<<Pair(<<"web">>, ListOf(<<Lines3>>)), Pair(<<"db">>, Lines2)>>),
             MapOf(<<>>), ScalarNode(<<>>)>>)}

Style == [seq |-> "indented", map |-> "block", quote |-> "plain", key |-> "simple",
          break |-> <<"\n">>, final |-> TRUE, comments |-> FALSE, marks |-> FALSE]
Layouts ==
    {Style, [Style EXCEPT !.final = FALSE], [Style EXCEPT !.break = <<"\r", "\n">>],
     [Style EXCEPT !.comments = TRUE], [Style EXCEPT !.marks = TRUE],
     [Style EXCEPT !.comments = TRUE, !.marks = TRUE, !.break = <<"\r", "\n">>, !.final = FALSE]}
Styles ==
    {[layout EXCEPT !.map = "flow", !.quote = quote] :
        layout \in Layouts, quote \in {"plain", "single", "double"}} \cup
    {[layout EXCEPT !.seq = seq, !.quote = quote, !.key = key] :
        layout \in Layouts, seq \in {"indented", "level", "flow"},
        quote \in {"plain", "single", "double", "literal", "folded"}, key \in {"simple", "explicit"}}

StyledFiles ==
    {Written(Text(document, style), "utf8", FALSE, Meant(document)) :
        document \in Documents, style \in Styles}

-----------------------------------------------------------------------------
(* Texts that need not be YAML                                             *)

Texts(alphabet, n) == UNION {[1 .. k -> alphabet] : k \in 0 .. n}

ShortTexts ==
    Texts({"x", " ", "\n", ":", "-", "?", "[", "]", "{", "}", ",", "\"", "'", "&", "*", "#", "!", "|"}, 3)
    \cup Texts({"x", "\n", ":", " ", "-", "?"}, 4)
    \cup Texts({"x", "[", "]", "{", "}", ":", ",", "?"}, 4)

\* What takes more characters: directives, tags, aliases of all kinds, tabs, escapes,
\* headers of block scalars, keys that are too long and collections that are too deep.
LongTexts ==
    {<<"%", "YAML", " ", version, ".", "1", "\n", "x">> : version \in {"0", "1", "x"}} \cup
    {<<"%", "YAML", " ", "1", ".", "1", "\n", "%", "YAML", " ", "1", ".", "1", "\n", "x">>,
     <<"%", "YAML", "\n">>, <<"%", "note", " ", "#", "x">>, <<"%", "TAG", "\n">>,
     <<"%", "TAG", " ", "!", " ", "x", "\n", "%", "TAG", " ", "!", " ", "x", "\n">>,
     <<"%", "TAG", " ", "!", "x", "!", " ", "two", "\n", "-", "-", "-", "\n", "!", "x", "!", "run">>,
     <<"!", "<", "x", ">", " ", "x">>, <<"!", "<", "x">>, <<"!", "!", "x", " ", "x">>,
     <<"!", "x", " ", "!", "x", " ", "x">>, <<"!", "x", "!", " ", "x">>, <<"!", "x", ".", "!", "x">>,
     <<"!", "!", "x", " ", ",">>, <<"!", "x", ":", " ", "x">>,
     <<"&", "x", " ", "&", "x", " ", "x">>, <<"&", "x", " ", "*", "x">>, <<"&", "x", " ", "[", "*", "x", "]">>,
     <<"[", "&", "x", " ", "run", ",", "*", "x", ",", "&", "x", " ", "two", ",", "*", "x", "]">>,
     <<"{", "&", "x", " ", "run", ":", " ", "*", "x", " ", ",", "*", "x", " ", ":", " ", "two", "}">>,
     <<"[", "&", "x", " ", "?", " ", "run", ":", "&", "two", " ", "run", ",", "*", "x", ",", "*", "two", "]">>,
     <<"[", ":", " ", "x", ",", "?", " ", "x", "]">>, <<"-", "\t", "x", "\n", "\t", "-", " ", "x">>,
     <<"\"", "\\", "x", "\"">>, <<"\"", "\\", "n", "\"">>, <<"\"", "\\", "\n", " ", "x", "\"">>,
     <<"'", "\n", "-", "-", "-", "\n", "'">>, <<"x", "\n", "-", "-", "-", "\n", "run">>,
     <<"x", "\n", ".", ".", ".", "\n", "run">>, <<"|", "0", "\n">>, <<"|", "x", "\n">>,
     <<"|", "1", "+", "\n", " ", "x", "\n", "\n">>, <<">", "-", "1", " ", "#", "x", "\n", " ", "x", "\n">>,
     <<"|", "\n", "\t", "x">>, <<"|", "\n", " ", " ", "x", "\n", " ", "x", "\n", "x">>,
     <<"x", ":", " ", ">", "\n", " ", "x", "\n", " ", " ", "x", "\n", " ", "x", "\n">>,
     <<"[", "\n", "-", "-", "-", "\n", "]">>, <<"[", "\n", "%", "x", "\n", "]">>,
     <<"-", " ", "[", "x", "\n", ".", ".", ".", "\n", "]">>,
     <<"<">>, <<"x", ":", " ", "x", ":", " ", "x">>, <<"x", ":", "\n", " ", "-", " ", "x", "\n", "-">>} \cup
    {[i \in 1 .. n |-> "["] : n \in {5, 6, 7}} \cup
    {<<"\"">> \o [i \in 1 .. n |-> "x"] \o <<"\"", ":", " ", "x">> : n \in {14, 15}} \cup
    {[i \in 1 .. n |-> IF i % 2 = 1 THEN "-" ELSE " "] : n \in {10, 12}}

TextFiles == {Written(symbols, "utf8", FALSE, Unwritten) : symbols \in ShortTexts \cup LongTexts}

EncodedFiles ==
    {Written(symbols, encoding, TRUE, Unwritten) : encoding \in Encodings,
        symbols \in {<<>>, <<"letter">>, <<"smiley">>, <<"x">>, <<"smiley", "x", "\n", "letter">>}} \cup
    {Written(symbols, encoding, FALSE, Unwritten) : encoding \in Encodings,
        symbols \in {<<>>, <<"x">>, <<"x", "letter">>, <<"-", " ", "smiley", "\n", "letter", "x">>}}

Missing == [exists |-> FALSE, written |-> <<>>, document |-> Unwritten, bytes |-> <<>>]

MCFiles == StyledFiles \cup TextFiles \cup EncodedFiles \cup {Missing}
=============================================================================
