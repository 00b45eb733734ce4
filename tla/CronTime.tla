------------------------------ MODULE CronTime ------------------------------
(***************************************************************************)
(* The cron times of 3rd-party/cron/src/cronutils.c, which CronTime.cpp    *)
(* wraps: a minute, broken down into 0-based fields so that they can index *)
(* the bit strings of an expression.  Below them the calendar, as gmtime   *)
(* gives it: years count from 1900, months from 0, days of the month from  *)
(* 1.  Seconds are left out, since nothing of cron looks at them.          *)
(***************************************************************************)
EXTENDS Integers

-----------------------------------------------------------------------------
(* The calendar: external.                                                 *)

Leap(year) ==
    LET ad == year + 1900
    IN  ad % 4 = 0 /\ (ad % 100 # 0 \/ ad % 400 = 0)

LastDay(month, year) ==
    CASE month = 1                -> IF Leap(year) THEN 29 ELSE 28
      [] month \in {3, 5, 8, 10}  -> 30
      [] OTHER                    -> 31

Date ==
    {c \in [tm_min: 0..59, tm_hour: 0..23, tm_mday: 1..31, tm_mon: 0..11,
            tm_wday: 0..6, tm_year: Nat] :
        c.tm_mday <= LastDay(c.tm_mon, c.tm_year)}

\* A field that the one below it carries into, until it is full itself.
Carry(into, full, x, first) == IF full THEN first ELSE IF into THEN x + 1 ELSE x

NextMinute(c) ==
    LET hour  == c.tm_min = 59
        day   == hour /\ c.tm_hour = 23
        month == day /\ c.tm_mday = LastDay(c.tm_mon, c.tm_year)
        year  == month /\ c.tm_mon = 11
    IN  [tm_min  |-> Carry(TRUE, hour, c.tm_min, 0),
         tm_hour |-> Carry(hour, day, c.tm_hour, 0),
         tm_mday |-> Carry(day, month, c.tm_mday, 1),
         tm_mon  |-> Carry(month, year, c.tm_mon, 0),
         tm_wday |-> Carry(day, day /\ c.tm_wday = 6, c.tm_wday, 0),
         tm_year |-> Carry(year, FALSE, c.tm_year, 0)]

-----------------------------------------------------------------------------
(* cron_time_t                                                             *)

FIRST_DOM   == 1
FIRST_MONTH == 1

CronTimes == [minute: 0..59, hour: 0..23, dom: 0..30, month: 0..11,
              dow: 0..6, year: Nat]

cron_time_set(tm) ==
    [minute |-> tm.tm_min,
     hour   |-> tm.tm_hour,
     dom    |-> tm.tm_mday - FIRST_DOM,
     month  |-> tm.tm_mon + 1 - FIRST_MONTH,
     dow    |-> tm.tm_wday,
     year   |-> tm.tm_year]

cron_int_cmp(a, b, fallback) == IF a < b THEN -1 ELSE IF a > b THEN 1 ELSE fallback

cron_time_cmp(t, u) ==
    cron_int_cmp(t.year, u.year,
        cron_int_cmp(t.month, u.month,
            cron_int_cmp(t.dom, u.dom,
                cron_int_cmp(t.hour, u.hour,
                    cron_int_cmp(t.minute, u.minute, 0)))))

\* CronTime's operators < and <=.
Before(t, u) == cron_time_cmp(t, u) < 0
UpTo(t, u)   == cron_time_cmp(t, u) <= 0

\* The day (0-based, already incremented) at which the switch over the months
\* ends the month.  The test for leap years is applied to a year from 1900.
MonthEnds(t) ==
    CASE t.month = 1 ->
           IF t.year % 4 = 0 /\ (t.year % 100 # 0 \/ t.year % 400 = 0) THEN 29 ELSE 28
      [] t.month \in {3, 5, 8, 10} -> 30
      [] OTHER -> 31

HourIsOver(t) == t.minute + 1 >= 60
DayIsOver(t)  == HourIsOver(t) /\ t.hour + 1 >= 24

\* The switch is only reached with 29 or more.
MonthIsOver(t) == DayIsOver(t) /\ t.dom + 1 >= 29 /\ t.dom + 1 >= MonthEnds(t)

YearIsOver(t) == MonthIsOver(t) /\ t.month + 1 >= 12

\* Mutant: after Saturday comes 7, which crontabs also call Sunday.
WeekIsOver_Sunday7(t) == DayIsOver(t) /\ t.dow + 1 > 7

WeekIsOver(t) == DayIsOver(t) /\ t.dow + 1 >= 7

\* Mutant: the month starts again, but the year does not end.
cron_time_inc_SameYear(t) ==
    [minute |-> Carry(TRUE, HourIsOver(t), t.minute, 0),
     hour   |-> Carry(HourIsOver(t), DayIsOver(t), t.hour, 0),
     dom    |-> Carry(DayIsOver(t), MonthIsOver(t), t.dom, 0),
     month  |-> Carry(MonthIsOver(t), YearIsOver(t), t.month, 0),
     dow    |-> Carry(DayIsOver(t), WeekIsOver(t), t.dow, 0),
     year   |-> t.year]

cron_time_inc(t) ==
    [minute |-> Carry(TRUE, HourIsOver(t), t.minute, 0),
     hour   |-> Carry(HourIsOver(t), DayIsOver(t), t.hour, 0),
     dom    |-> Carry(DayIsOver(t), MonthIsOver(t), t.dom, 0),
     month  |-> Carry(MonthIsOver(t), YearIsOver(t), t.month, 0),
     dow    |-> Carry(DayIsOver(t), WeekIsOver(t), t.dow, 0),
     year   |-> Carry(YearIsOver(t), FALSE, t.year, 0)]
=============================================================================
