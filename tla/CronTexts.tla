----------------------------- MODULE CronTexts -----------------------------
(***************************************************************************)
(* Texts of cron expressions, and the minutes to look at them, for TLC.    *)
(***************************************************************************)
EXTENDS CronExpression, SequencesExt

Each == <<Star>>

\* Valid expressions: single days, lists, spans and steps in every field, Sunday
\* as 0 and as 7, both days restricted, one of them starred with a step.
ValidTexts ==
    {Fields(<<Each, Each, Each, Each, Each>>, "end"),
     Fields(<<<<StarBy(5)>>, <<Number(0), SpanBy(3, 23, 20)>>, Each, Each, Each>>, "end"),
     Fields(<<<<Number(59)>>, Each, <<Number(1), Number(15)>>, Each, <<Number(7)>>>>, "blank"),
     Fields(<<<<Number(0)>>, <<Number(0)>>, Each, Each, <<Span(5, 7)>>>>, "blank"),
     Fields(<<<<Number(0)>>, Each, <<StarBy(2)>>, <<Number(12)>>, <<Number(0)>>>>, "blank"),
     Fields(<<<<Number(0), Number(5)>>, Each, <<Number(31)>>, Each, Each>>, "blank")}

\* The same days of the week as people write them, at the end of the text.
OpenTexts ==
    {Fields(<<<<Number(0)>>, <<Number(0)>>, Each, Each, <<Number(5)>>>>, "end"),
     Fields(<<<<Number(0)>>, Each, <<Number(1)>>, Each, <<Number(1), Number(0)>>>>, "end"),
     Fields(<<<<Number(0)>>, Each, Each, Each, <<Span(1, 5)>>>>, "end")}

InvalidTexts ==
    {Fields(<<<<Number(60)>>, Each, Each, Each, Each>>, "end"),
     Fields(<<Each, <<Number(0), Span(20, 24)>>, Each, Each, Each>>, "end"),
     Fields(<<Each, Each, <<Number(0)>>, Each, Each>>, "end"),
     Fields(<<Each, Each, <<Number(32)>>, Each, Each>>, "end"),
     Fields(<<Each, Each, Each, <<Word>>, Each>>, "end"),
     Fields(<<<<Span(5, 3)>>, Each, Each, Each, Each>>, "end"),
     Fields(<<<<StarBy(0)>>, Each, Each, Each, Each>>, "end"),
     Fields(<<<<NumberBy(5, 2)>>, Each, Each, Each, Each>>, "end"),
     Fields(<<Each, Each, Each, Each>>, "blank"),
     Fields(<<Each, Each, Each, Each, Each, Each>>, "end"),
     Fields(<<Each, Each, Each, Each, <<Word>>, Each>>, "end"),
     Fields(<<Each, Each, Each, Each, <<Number(9)>>>>, "blank"),
     Shortcut("fortnightly")}

Shortcuts ==
    {Shortcut("reboot"), Shortcut("annually"), Shortcut("weekly"), Shortcut("midnight"),
     Shortcut("hourly"), Fields(<<>>, "end")}

AllConfigurations == BoundedSeq(ValidTexts \cup OpenTexts \cup InvalidTexts \cup Shortcuts, 2)

\* Midnight of Fridays, and an expression with a word for the day of the week and
\* a sixth field.
AsInCron ==
    {<<Fields(<<<<Number(0)>>, <<Number(0)>>, Each, Each, <<Number(5)>>>>, "end"),
       Fields(<<<<Number(30)>>, Each, Each, Each, <<Word>>, Each>>, "end")>>}

SomeTimes == [minute: {0, 5, 59}, hour: {0, 3, 23}, dom: {0, 1, 14, 30},
              month: {0, 11}, dow: 0..6, year: {124}]
=============================================================================
