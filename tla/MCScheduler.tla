---------------------------- MODULE MCScheduler ----------------------------
(***************************************************************************)
(* Services, schedules and stretches of the calendar for TLC.              *)
(***************************************************************************)
EXTENDS SchedulerProperties

CONSTANTS hourly, nightly, monthly

\* @hourly, 59 23 * * * and @monthly.
MCExpressions ==
    LET EveryNight == Entry({59}, {23}, 0..30, 0..11, 0..7, {"DOM_STAR", "DOW_STAR"})
    IN  (hourly  :> {ShortcutEntry.hourly}) @@
        (nightly :> {EveryNight}) @@
        (monthly :> {ShortcutEntry.monthly})

DateOf(year, month, day, weekday, hour, minute) ==
    [tm_min |-> minute, tm_hour |-> hour, tm_mday |-> day, tm_mon |-> month - 1,
     tm_wday |-> weekday, tm_year |-> year - 1900]

\* The end of 2022, a Saturday, and the start of 2023.
YearMinutes == {DateOf(2022, 12, 31, 6, 23, m) : m \in 57..59} \cup
               {DateOf(2023, 1, 1, 0, 0, m) : m \in 0..2}

\* The end of February 2023.
CommonMinutes == {DateOf(2023, 2, 28, 2, 23, m) : m \in 58..59} \cup
                 {DateOf(2023, 3, 1, 3, 0, m) : m \in 0..1}
=============================================================================
