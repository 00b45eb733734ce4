-------------------------- MODULE ServiceScheduler --------------------------
(***************************************************************************)
(* The constructor of ServiceScheduler: it parses the schedules of one     *)
(* service, as they stand in the configuration file, one after another.    *)
(***************************************************************************)
EXTENDS CronExpression, Functions

CONSTANTS
    Configurations,  \* what a configuration file may hold: sequences of texts
    Times            \* the minutes at which the services are looked at

\* The ranges and texts that can be written (see CronExpression).  A number is digits,
\* and a field has a range, be it a word.
Ranges ==
    {r \in [what : {"*", "n", "n-m", "word"}, from : Nat, to : Nat, by : Nat \cup {NoStep}] :
        r.what \in {"*", "n"} => r.from = r.to}

Texts ==
    {text \in [shortcut : STRING, fields : Seq(Seq(Ranges) \ {<<>>}), last : {"end", "blank"}] :
        text.shortcut # "none" => text.fields = <<>>}

ASSUME TextsAssumption == Configurations \subseteq Seq(Texts) /\ Times \subseteq CronTimes

VARIABLES
    schedules,     \* the texts of this service
    todo,          \* those the loop has yet to come to
    expressions,
    on_boot,
    error          \* thrown by the constructor, "none" if nothing was

building == <<schedules, todo, expressions, on_boot, error>>

ConstructorInit ==
    /\ schedules \in Configurations
    /\ todo = schedules
    /\ expressions = <<>>
    /\ on_boot = (schedules = <<>>)
    /\ error = "none"

Constructing == todo # <<>> /\ error = "none"
parsed == load_entry(Head(todo))

ParseFails ==
    /\ Constructing /\ parsed.error # "none"
    /\ error' = parsed.error
    /\ UNCHANGED <<schedules, todo, expressions, on_boot>>

\* Mutant: the expression is skipped, but the service is not started at boot.
AddReboot_Forgotten ==
    /\ Constructing /\ parsed.error = "none" /\ cron_expr_match_reboot(parsed.entry)
    /\ todo' = Tail(todo)
    /\ UNCHANGED <<schedules, expressions, on_boot, error>>

AddReboot ==
    /\ Constructing /\ parsed.error = "none" /\ cron_expr_match_reboot(parsed.entry)
    /\ on_boot' = TRUE
    /\ todo' = Tail(todo)
    /\ UNCHANGED <<schedules, expressions, error>>

AddExpression ==
    /\ Constructing /\ parsed.error = "none" /\ ~cron_expr_match_reboot(parsed.entry)
    /\ expressions' = Append(expressions, parsed.entry)
    /\ todo' = Tail(todo)
    /\ UNCHANGED <<schedules, on_boot, error>>

ConstructorNext == ParseFails \/ AddReboot \/ AddExpression

ConstructorSpec == ConstructorInit /\ [][ConstructorNext]_building

-----------------------------------------------------------------------------
(* What a text means, as the documents of Atone and cron have it: a field  *)
(* is the set of the numbers of its ranges.                                *)

Numbers(r, low, high) ==
    LET first == IF r.what = "*" THEN low ELSE r.from
        final == IF r.what = "*" THEN high ELSE r.to
    IN  {n \in first .. final : r.by = NoStep \/ (n - first) % r.by = 0}

ValidRange(r, low, high) ==
    /\ r.what # "word" /\ r.by # 0
    /\ r.what = "n" => r.by = NoStep
    /\ r.from <= r.to
    /\ Numbers(r, low, high) \subseteq low..high

ValidField(text, i) ==
    i <= Len(text.fields) /\ \A j \in DOMAIN text.fields[i] :
                                ValidRange(text.fields[i][j], Low[i], High[i])

FieldNumbers(text, i) ==
    UNION {Numbers(text.fields[i][j], Low[i], High[i]) : j \in DOMAIN text.fields[i]}

\* '* * 1,15 * Sun' runs on the first and fifteenth and every Sunday, '* * * * Sun'
\* only on Sundays, '* * 1,15 * *' only on the first and fifteenth.
Meant(text, t) ==
    LET starred(i) == text.fields[i][1].what = "*"
        day     == t.dom + FIRST_DOM \in FieldNumbers(text, 3)
        weekday == {t.dow, IF t.dow = 0 THEN 7 ELSE t.dow} \cap FieldNumbers(text, 5) # {}
    IN  /\ t.minute \in FieldNumbers(text, 1) /\ t.hour \in FieldNumbers(text, 2)
        /\ t.month + FIRST_MONTH \in FieldNumbers(text, 4)
        /\ IF starred(3) \/ starred(5) THEN day /\ weekday ELSE day \/ weekday

\* What the shortcuts of cron stand for: "@hourly meaning '0 * * * *'".
Abbreviated ==
    LET every  == <<Star>>
        zero   == <<Number(0)>>
        one    == <<Number(1)>>
        yearly == <<zero, zero, one, one, every>>
        daily  == <<zero, zero, every, every, every>>
    IN  [yearly  |-> yearly, annually |-> yearly,
         monthly |-> <<zero, zero, one, every, every>>,
         weekly  |-> <<zero, zero, every, every, zero>>,
         daily   |-> daily, midnight |-> daily,
         hourly  |-> <<zero, every, every, every, every>>]

Unabbreviated(text) ==
    IF text.shortcut \in DOMAIN Abbreviated THEN Fields(Abbreviated[text.shortcut], "blank")
    ELSE text

\* A cron expression "with only five fields", or a shortcut.
WellFormed(text) ==
    \/ text.shortcut \in DOMAIN Abbreviated \cup {"reboot"}
    \/ Len(text.fields) = 5 /\ \A i \in 1..5 : ValidField(text, i)

Empty(text) == text.shortcut = "none" /\ text.fields = <<>>

\* No cron expression, but the parser reports nothing: there is nothing to read, or it
\* gives up in the day of the week, where it takes that for the end of the text.
Overlooked(text) ==
    \/ Empty(text)
    \/ /\ Len(text.fields) >= 5
       /\ \A i \in 1..4 : ValidField(text, i)
       /\ ~ValidField(text, 5)

\* The parser reads the last field to its end: it is a list of stars, or of
\* numbers with a blank behind them.
Closed(text) ==
    \/ text.shortcut # "none" \/ text.last = "blank"
    \/ \A j \in DOMAIN text.fields[5] : text.fields[5][j] = Star

-----------------------------------------------------------------------------
(* Properties                                                              *)

Constructed == todo = <<>> /\ error = "none"

\* The constructor throws for a text that is no cron expression, whichever of the
\* texts it is, but for those the parser overlooks, and for no other: fields out of
\* their bounds, too few or too many, and unknown shortcuts (CronExpression's
\* constructor, entry.c).  That nothing is overlooked is CronSyntaxHonoured.
RefusedUnlessOverlooked ==
    /\ Constructed => \A text \in Range(schedules) : WellFormed(text) \/ Overlooked(text)
    /\ error # "none" =>
          \E text \in Range(schedules) : ~WellFormed(text) /\ ~Overlooked(text)

Matched(t) == CheckTime(Range(expressions), t)

AwaitedBy(text, t) == text.shortcut # "reboot" /\ ~Empty(text) /\ Meant(Unabbreviated(text), t)
Awaited(t) == \E text \in Range(schedules) : AwaitedBy(text, t)

\* CheckTime answers yes at exactly the minutes the texts mean, whichever of
\* them it is, shortcut or fields, and however days of the month and of the week are
\* combined, if the last field of each was read to its end.
FiresWhenMeant ==
    /\ Constructed
    /\ \A text \in Range(schedules) : Empty(text) \/ (WellFormed(text) /\ Closed(text))
    => \A t \in Times : Matched(t) <=> Awaited(t)

\* The same of every cron expression, and nothing else is let through: "The syntax of
\* the expression is the same as the cron command (with only five fields of the time
\* expression)".  Violated in both ways: a number at the end of the text is not read,
\* so that a service for Fridays never runs, and a day of the week that is no number
\* is accepted, with all that stands behind it.
CronSyntaxHonoured ==
    Constructed =>
    /\ \A text \in Range(schedules) : WellFormed(text)
    /\ \A text \in Range(schedules), t \in Times :
          WellFormed(text) /\ AwaitedBy(text, t) => Matched(t)
=============================================================================
