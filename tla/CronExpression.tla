--------------------------- MODULE CronExpression ---------------------------
(***************************************************************************)
(* Cron expressions: what the vendored parser (3rd-party/cron) makes of    *)
(* the text of one, and when it matches a time.                            *)
(*                                                                         *)
(* A text is a shortcut or a sequence of fields, a field a sequence of     *)
(* ranges.  What the parser does depends on the character after a number,  *)
(* so that is kept: a comma, a blank, or the end of the text.  Names of    *)
(* months and days stand for their numbers; anything else that get_number  *)
(* does not read is a "word".  Characters it skips are left out.           *)
(***************************************************************************)
EXTENDS CronTime, Sequences

NoStep == -1

\* The ranges of a text: *, n, n-m, each perhaps with a step, and words.
Piece(what, from, to, by) == [what |-> what, from |-> from, to |-> to, by |-> by]
Star           == Piece("*", 0, 0, NoStep)
StarBy(n)      == Piece("*", 0, 0, n)
Number(n)      == Piece("n", n, n, NoStep)
NumberBy(n, k) == Piece("n", n, n, k)
Span(m, n)     == Piece("n-m", m, n, NoStep)
SpanBy(m, n, k) == Piece("n-m", m, n, k)
Word           == Piece("word", 0, 0, NoStep)

\* What is written, up to a blank that may follow it.
Fields(fields, last) == [shortcut |-> "none", fields |-> fields, last |-> last]
Shortcut(name)       == [shortcut |-> name, fields |-> <<>>, last |-> "end"]

Low  == <<0, 0, 1, 1, 0>>
High == <<59, 23, 31, 12, 7>>
FieldName == <<"minute", "hour", "dom", "month", "dow">>

-----------------------------------------------------------------------------

\* Mutant: an element after the last is let through.
InBounds_OffByOne(number, low, high) == low <= number /\ number <= high + 1

\* What set_element accepts.
InBounds(number, low, high) == low <= number /\ number <= high

\* One range, followed by the character next.  A number only counts before a
\* character of its list of terminators, and the end of the text is not one.
get_range(r, low, high, next) ==
    LET first == IF r.what = "*" THEN low ELSE r.from
        final == IF r.what = "*" THEN high ELSE r.to
        by    == IF r.by = NoStep THEN 1 ELSE r.by
        read  == /\ r.what # "word"
                 /\ r.what = "n" => r.by = NoStep
                 /\ next = "end" => r.what = "*" /\ r.by = NoStep
                 /\ first <= final
                 /\ by # 0
        numbers == {n \in first .. final : read /\ (n - first) % by = 0}
        stops(n) == n \in numbers /\ ~InBounds(n, low, high)
    IN  [bits |-> {n - low : n \in {m \in numbers : \A k \in first .. m : ~stops(k)}},
         eof  |-> next = "end" \/ ~read \/ \E n \in numbers : stops(n)]

\* Ranges are read until one gives EOF; what it has set stays set.
get_list(field, low, high, next) ==
    LET result(i) == get_range(field[i], low, high, IF i < Len(field) THEN "," ELSE next)
        read == {i \in DOMAIN field : \A j \in 1 .. i - 1 : ~result(j).eof}
    IN  [bits |-> UNION {result(i).bits : i \in read},
         eof  |-> \E i \in DOMAIN field : result(i).eof]

\* Make Sundays equivalent.
Sundays(dow) == IF dow \cap {0, 7} # {} THEN dow \cup {0, 7} ELSE dow

Entry(minute, hour, dom, month, dow, flags) ==
    [minute |-> minute, hour |-> hour, dom |-> dom, month |-> month,
     dow |-> Sundays(dow), flags |-> flags]

ShortcutEntry ==
    LET yearly == Entry({0}, {0}, {0}, {0}, 0..7, {"DOW_STAR"})
        daily  == Entry({0}, {0}, 0..30, 0..11, 0..7, {})
    IN  [reboot   |-> Entry({}, {}, {}, {}, {}, {"WHEN_REBOOT"}),
         yearly   |-> yearly, annually |-> yearly,
         monthly  |-> Entry({0}, {0}, {0}, 0..11, 0..7, {"DOW_STAR"}),
         weekly   |-> Entry({0}, {0}, 0..30, 0..11, {0}, {"DOW_STAR"}),
         daily    |-> daily, midnight |-> daily,
         hourly   |-> Entry({0}, 0..23, 0..30, 0..11, 0..7, {})]

\* An expression without an entry: what cron_expr_parse leaves of an empty text.
NoEntry == [flags |-> {"NULL"}]

\* The entry of a text and the error reported, if any.  Before each of the first
\* four fields ends there must be more text; the fifth must end with the text.
load_entry(text) ==
    LET fields == text.fields
        list(i) == get_list(fields[i], Low[i], High[i],
                            IF i < Len(fields) THEN "blank" ELSE text.last)
        bad(i)  == i <= Len(fields) /\
                   IF i < 5 THEN i = Len(fields) \/ list(i).eof
                   ELSE ~list(i).eof /\ Len(fields) > 5
        star(i, flag) == IF fields[i][1].what = "*" THEN {flag} ELSE {}
        failed(error) == [entry |-> NoEntry, error |-> error]
        loaded(entry) == [entry |-> entry, error |-> "none"]
    IN  IF text.shortcut \in DOMAIN ShortcutEntry THEN loaded(ShortcutEntry[text.shortcut])
        ELSE IF text.shortcut # "none" THEN failed("timespec")
        ELSE IF fields = <<>> THEN failed("none")
        ELSE IF \E i \in 1..5 : bad(i)
        THEN failed(FieldName[CHOOSE i \in 1..5 : bad(i) /\ \A j \in 1 .. i - 1 : ~bad(j)])
        ELSE loaded(Entry(list(1).bits, list(2).bits, list(3).bits, list(4).bits,
                          list(5).bits, star(3, "DOM_STAR") \cup star(5, "DOW_STAR")))

-----------------------------------------------------------------------------

cron_expr_match_reboot(entry) == "WHEN_REBOOT" \in entry.flags

\* Mutant: both days must match, whether or not one of them is a star.
cron_expr_match_Both(entry, t) ==
    /\ entry # NoEntry
    /\ t.minute \in entry.minute /\ t.hour \in entry.hour /\ t.month \in entry.month
    /\ t.dow \in entry.dow /\ t.dom \in entry.dom

cron_expr_match(entry, t) ==
    /\ entry # NoEntry
    /\ t.minute \in entry.minute /\ t.hour \in entry.hour /\ t.month \in entry.month
    /\ IF entry.flags \cap {"DOM_STAR", "DOW_STAR"} # {}
       THEN t.dow \in entry.dow /\ t.dom \in entry.dom
       ELSE t.dow \in entry.dow \/ t.dom \in entry.dom

\* ServiceScheduler::CheckTime, of a set of entries.
CheckTime(entries, t) == \E entry \in entries : cron_expr_match(entry, t)
=============================================================================
