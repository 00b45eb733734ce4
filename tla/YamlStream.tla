----------------------------- MODULE YamlStream -----------------------------
(***************************************************************************)
(* YAML::Stream: the bytes of a file into UTF-8.  The encoding is told by  *)
(* the mark at the beginning or, without one, by where the zero bytes of   *)
(* the first character are.  A file is a sequence of bytes.                *)
(***************************************************************************)
EXTENDS Integers, Sequences, SequencesExt

Replacement == 65533   \* CP_REPLACEMENT_CHARACTER
EofChar == 4           \* Stream::eof()

\* UtfIntroCharType
CharType(byte) ==
    CASE byte = -1 -> "Other"   \* the end of the file
      [] byte = 0 -> "00" [] byte = 187 -> "BB" [] byte = 191 -> "BF"
      [] byte = 239 -> "EF" [] byte = 254 -> "FE" [] byte = 255 -> "FF"
      [] OTHER -> "Ascii"

Step(state, ungets) == [state |-> state, ungets |-> ungets]

\* s_introTransitions and s_introUngetCount: in each state the character types that
\* matter, and what every other type leads to.
Intro ==
    [start |-> [expected |-> [c \in {"00", "EF", "FE", "FF", "Ascii"} |->
                    CASE c = "00" -> Step("utfbe_b1", 0) [] c = "EF" -> Step("utf8_bom1", 0)
                      [] c = "FE" -> Step("utf16be_bom1", 0) [] c = "FF" -> Step("utfle_bom1", 0)
                      [] c = "Ascii" -> Step("utf8_imp", 0)],
                other |-> Step("utf8", 1)],
     utfbe_b1     |-> [expected |-> [c \in {"00", "Ascii"} |->
                          IF c = "00" THEN Step("utf32be_b2", 0) ELSE Step("utf16be", 2)],
                       other |-> Step("utf8", 2)],
     utf32be_b2   |-> [expected |-> [c \in {"00", "FE"} |->
                          IF c = "00" THEN Step("utf32be", 3) ELSE Step("utf32be_bom3", 0)],
                       other |-> Step("utf8", 3)],
     utf32be_bom3 |-> [expected |-> [c \in {"FF"} |-> Step("utf32be", 0)], other |-> Step("utf8", 4)],
     utf16be_bom1 |-> [expected |-> [c \in {"FF"} |-> Step("utf16be", 0)], other |-> Step("utf8", 2)],
     utfle_bom1   |-> [expected |-> [c \in {"FE"} |-> Step("utf16le_bom2", 0)], other |-> Step("utf8", 2)],
     utf16le_bom2 |-> [expected |-> [c \in {"00"} |-> Step("utf32le_bom3", 0)], other |-> Step("utf16le", 1)],
     utf32le_bom3 |-> [expected |-> [c \in {"00"} |-> Step("utf32le", 0)], other |-> Step("utf16le", 2)],
     utf8_imp     |-> [expected |-> [c \in {"00"} |-> Step("utf16le_imp", 0)], other |-> Step("utf8", 2)],
     utf16le_imp  |-> [expected |-> [c \in {"00"} |-> Step("utf32le_imp3", 0)], other |-> Step("utf16le", 3)],
     utf32le_imp3 |-> [expected |-> [c \in {"00"} |-> Step("utf32le", 4)], other |-> Step("utf16le", 4)],
     utf8_bom1    |-> [expected |-> [c \in {"BB"} |-> Step("utf8_bom2", 0)], other |-> Step("utf8", 2)],
     utf8_bom2    |-> [expected |-> [c \in {"BF"} |-> Step("utf8", 0)], other |-> Step("utf8", 3)]]

\* The constructor: the encoding, and the number of bytes before the text.
RECURSIVE CharSet(_, _, _)
CharSet(bytes, state, used) ==
    IF state \notin DOMAIN Intro THEN [charSet |-> state, used |-> used]
    ELSE LET type == CharType(IF used < Len(bytes) THEN bytes[used + 1] ELSE -1)
             step == IF type \in DOMAIN Intro[state].expected
                     THEN Intro[state].expected[type] ELSE Intro[state].other
         IN  CharSet(bytes, step.state, used + 1 - step.ungets)

\* Utf8Adjust: bits of a code point behind the leading bits of its byte.
Bits(ch, shift, width) == (ch \div (2 ^ shift)) % (2 ^ width)

\* QueueUnicodeCodepoint
Utf8(codepoint) ==
    LET ch == IF codepoint = EofChar THEN Replacement ELSE codepoint
        Tail6(shift) == 128 + Bits(ch, shift, 6)
    IN  IF ch < 128 THEN <<ch>>
        ELSE IF ch < 2048 THEN <<192 + Bits(ch, 6, 5), Tail6(0)>>
        ELSE IF ch < 65536 THEN <<224 + Bits(ch, 12, 4), Tail6(6), Tail6(0)>>
        ELSE <<240 + Bits(ch, 18, 3), Tail6(12), Tail6(6), Tail6(0)>>

\* The 16 or 32 bits at the beginning of bytes.
Unit(bytes, charSet) ==
    CASE charSet = "utf16be" -> 256 * bytes[1] + bytes[2]
      [] charSet = "utf16le" -> 256 * bytes[2] + bytes[1]
      [] charSet = "utf32be" -> 256 * (256 * (256 * bytes[1] + bytes[2]) + bytes[3]) + bytes[4]
      [] charSet = "utf32le" -> 256 * (256 * (256 * bytes[4] + bytes[3]) + bytes[2]) + bytes[1]

RestOf(bytes, n) == SubSeq(bytes, n + 1, Len(bytes))

\* A surrogate of UTF-16.
High(unit) == unit >= 55296 /\ unit < 56320
\* Mutant: the first of the low surrogates is none.
Low_OffByOne(unit) == unit > 56320 /\ unit < 57344

Low(unit) == unit >= 56320 /\ unit < 57344

\* StreamInUtf32: what is left of a unit at the end is dropped.
RECURSIVE StreamInUtf32(_, _)
StreamInUtf32(bytes, charSet) ==
    IF Len(bytes) < 4 THEN <<>>
    ELSE Utf8(Unit(bytes, charSet)) \o StreamInUtf32(RestOf(bytes, 4), charSet)

\* StreamInUtf16: the units after a high surrogate, until one ends the character.
RECURSIVE StreamInUtf16(_, _), Surrogate(_, _, _)
StreamInUtf16(bytes, charSet) ==
    IF Len(bytes) < 2 THEN <<>>
    ELSE LET ch   == Unit(bytes, charSet)
             rest == RestOf(bytes, 2)
         IN  IF High(ch) THEN Surrogate(ch, rest, charSet)
             ELSE Utf8(IF Low(ch) THEN Replacement ELSE ch) \o StreamInUtf16(rest, charSet)

\* Of a high surrogate without its low one the surrogate itself is queued, and the
\* unit that stood in its place is lost.
Surrogate(ch, bytes, charSet) ==
    IF Len(bytes) < 2 THEN Utf8(Replacement)
    ELSE LET chLow == Unit(bytes, charSet)
             rest  == RestOf(bytes, 2)
         IN  IF Low(chLow)
             THEN Utf8(65536 + (1024 * (ch % 1024)) + (chLow % 1024)) \o StreamInUtf16(rest, charSet)
             ELSE Utf8(Replacement) \o
                  IF High(chLow) THEN Surrogate(chLow, rest, charSet)
                  ELSE Utf8(ch) \o StreamInUtf16(rest, charSet)

\* All that Stream::get returns until the end.
Decoded(bytes) ==
    LET intro == CharSet(bytes, "start", 0)
        rest  == RestOf(bytes, intro.used)
    IN  CASE intro.charSet = "utf8" -> rest
          [] intro.charSet \in {"utf16le", "utf16be"} -> StreamInUtf16(rest, intro.charSet)
          [] intro.charSet \in {"utf32le", "utf32be"} -> StreamInUtf32(rest, intro.charSet)
=============================================================================
