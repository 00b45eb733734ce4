------------------------------ MODULE YamlFile ------------------------------
(***************************************************************************)
(* YAML::LoadFile: the file is opened, its bytes are decoded (YamlStream)  *)
(* and the text is scanned and parsed into nodes (YamlParser).  The file   *)
(* is one of Files: its bytes, the text that was encoded in them, and,     *)
(* where that text was written for a node, the node.                       *)
(***************************************************************************)
EXTENDS YamlScanner, YamlParser

CONSTANTS
    Files,   \* [exists, bytes, written, document]
    StepsAtStart, StepsPerSymbol,   \* the bound claimed of the steps of a load
    Code     \* the code point of each symbol; a word is one letter here

VARIABLES
    file,
    steps    \* of the load so far, to bound them

vars == <<file, steps, text, scanner, parser>>

Stream == INSTANCE YamlStream

\* The symbols of UTF-8 bytes; what is none of them is the word unknown.
Width(byte) == IF byte < 192 THEN 1 ELSE IF byte < 224 THEN 2 ELSE IF byte < 240 THEN 3 ELSE 4

RECURSIVE Symbols(_, _)
Symbols(bytes, symbolOf) ==
    IF bytes = <<>> THEN <<>>
    ELSE LET width == Min({Width(bytes[1]), Len(bytes)})
             char  == SubSeq(bytes, 1, width)
         IN  <<IF char \in DOMAIN symbolOf THEN symbolOf[char] ELSE "unknown">>
             \o Symbols(SubSeq(bytes, width + 1, Len(bytes)), symbolOf)

SymbolOf ==
    LET codes == Code
    IN  [char \in {Stream!Utf8(codes[s]) : s \in DOMAIN codes} |->
            CHOOSE s \in DOMAIN codes : Stream!Utf8(codes[s]) = char]

Init ==
    /\ file \in Files /\ steps = 0
    /\ text = <<>> /\ outcome = "unread"
    /\ scanner = NewScanner
    /\ ParserInit

Scans == outcome = "none" /\ ScanNextToken /\ UNCHANGED parser

LoadStep == (Scans \/ HandleDocument) /\ UNCHANGED text

ReadFile ==
    /\ outcome = "unread"
    /\ IF file.exists THEN text' = Symbols(Stream!Decoded(file.bytes), SymbolOf) /\ outcome' = "none"
       ELSE outcome' = "BAD_FILE" /\ UNCHANGED text
    /\ UNCHANGED <<scanner, frames, directives, anchors, curAnchor, builder>>

Unfinished == outcome \in {"unread", "none"}

\* Nothing follows a load that has ended.
Ended == ~Unfinished /\ UNCHANGED vars

Next ==
    \/ (ReadFile \/ LoadStep) /\ steps' = steps + 1 /\ UNCHANGED file
    \/ Ended

Spec == Init /\ [][Next]_vars

-----------------------------------------------------------------------------
(* Properties                                                              *)

\* The node of that number with all below it, as Atone's parser gets to see it.
RECURSIVE Tree(_)
Tree(id) ==
    IF id = 0 THEN NullNode
    ELSE LET node == builder.nodes[id]
         IN  CASE node.kind \in {"Undefined", "Null", "Scalar"} -> node
               [] node.kind = "Sequence" ->
                    [node EXCEPT !.items = [i \in DOMAIN Items(builder.nodes, id) |-> Tree(@[i])]]
               [] node.kind = "Map" ->
                    [node EXCEPT !.entries = [i \in DOMAIN Pairs(builder.nodes, id) |->
                        <<Tree(Pairs(builder.nodes, id)[i][1]), Tree(Pairs(builder.nodes, id)[i][2])>>]]

Unwritten == [kind |-> "Unwritten"]

\* A document written by the rules of YAML, in any of its styles, is loaded as the
\* node it was written for: block and flow collections, indented or not, plain,
\* quoted, literal and folded scalars, anchors and aliases, explicit keys, comments,
\* either kind of line break, with and without the last one.
LoadsWhatIsWritten ==
    file.document # Unwritten /\ ~Unfinished =>
        outcome = "loaded" /\ Tree(builder.root) = file.document

\* Whatever the encoding, with a byte order mark or beginning with an ASCII
\* character, the text scanned is the text that was encoded.
EncodingIrrelevant == file.exists /\ outcome # "unread" => text = file.written

\* Every load ends, with a node or with an exception, after a number of steps that
\* grows no faster than the text: a step of the scanner or the parser that uses up
\* nothing is followed by one that does.  (That no load stops before is deadlock
\* freedom, as Ended is the only other step.)
LoadEnds == steps <= StepsAtStart + StepsPerSymbol * Len(text)
=============================================================================
