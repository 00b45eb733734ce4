-------------------------- MODULE SchedulerProofs --------------------------
(***************************************************************************)
(* Cron times against the calendar, for every date; then the scheduler for *)
(* any services, any schedules and any clock: the timer, the minutes it    *)
(* passes, and that it implements Punctuality wherever the increment       *)
(* follows the calendar.                                                   *)
(***************************************************************************)
EXTENDS SchedulerProperties, FiniteSetTheorems, TLAPS

-----------------------------------------------------------------------------
(* The fields of dates and cron times                                      *)

LEMMA DateFields ==
    ASSUME NEW c \in Date
    PROVE  /\ c.tm_min \in 0..59 /\ c.tm_hour \in 0..23 /\ c.tm_mday \in 1..31
           /\ c.tm_mon \in 0..11 /\ c.tm_wday \in 0..6 /\ c.tm_year \in Nat
           /\ c.tm_mday <= LastDay(c.tm_mon, c.tm_year)
  BY DEF Date

LEMMA LastDayType == \A m \in 0..11, y \in Nat : LastDay(m, y) \in 28..31
  BY DEF LastDay

\* gmtime's next minute is a date.
LEMMA NextMinuteType == \A c \in Date : NextMinute(c) \in Date
<1> SUFFICES ASSUME NEW c \in Date PROVE NextMinute(c) \in Date
  OBVIOUS
<1>1. /\ NextMinute(c).tm_min \in 0..59 /\ NextMinute(c).tm_hour \in 0..23
      /\ NextMinute(c).tm_mday \in 1..31 /\ NextMinute(c).tm_mon \in 0..11
      /\ NextMinute(c).tm_wday \in 0..6 /\ NextMinute(c).tm_year \in Nat
  BY DateFields, LastDayType DEF NextMinute, Carry
<1>2. NextMinute(c).tm_mday <= LastDay(NextMinute(c).tm_mon, NextMinute(c).tm_year)
  <2>1. CASE NextMinute(c).tm_mday = 1
    BY <1>1, <2>1, LastDayType
  <2>2. CASE NextMinute(c).tm_mday # 1
    <3>1. /\ NextMinute(c).tm_mon = c.tm_mon /\ NextMinute(c).tm_year = c.tm_year
          /\ NextMinute(c).tm_mday <= LastDay(c.tm_mon, c.tm_year)
      BY <2>2, DateFields, LastDayType DEF NextMinute, Carry
    <3> QED
      BY <3>1
  <2> QED
    BY <2>1, <2>2
<1> QED
  BY <1>1, <1>2 DEF Date, NextMinute

\* cron_time_set breaks every date down into the fields of a cron time.
LEMMA SetType == \A c \in Date : cron_time_set(c) \in CronTimes
  BY DateFields DEF CronTimes, cron_time_set, FIRST_DOM, FIRST_MONTH

LEMMA CronTimeFields ==
    ASSUME NEW t \in CronTimes
    PROVE  /\ t.minute \in 0..59 /\ t.hour \in 0..23 /\ t.month \in 0..11
           /\ t.dom \in 0..30 /\ t.dow \in 0..6 /\ t.year \in Nat
           /\ MonthEnds(t) \in 28..31
  BY DEF CronTimes, MonthEnds

LEMMA IncrementType == \A t \in CronTimes : cron_time_inc(t) \in CronTimes
<1> SUFFICES ASSUME NEW t \in CronTimes PROVE cron_time_inc(t) \in CronTimes
  OBVIOUS
<1>1. /\ cron_time_inc(t).minute \in 0..59 /\ cron_time_inc(t).hour \in 0..23
      /\ cron_time_inc(t).dom \in 0..30 /\ cron_time_inc(t).month \in 0..11
      /\ cron_time_inc(t).dow \in 0..6 /\ cron_time_inc(t).year \in Nat
  BY CronTimeFields DEF cron_time_inc, Carry, HourIsOver, DayIsOver, MonthIsOver, YearIsOver,
                        WeekIsOver
<1> QED
  BY <1>1 DEF CronTimes, cron_time_inc

-----------------------------------------------------------------------------
(* The order of cron times                                                 *)

LEMMA BeforeFields ==
    ASSUME NEW t \in CronTimes, NEW u \in CronTimes
    PROVE  Before(t, u) <=>
            \/ t.year < u.year
            \/ t.year = u.year /\ t.month < u.month
            \/ t.year = u.year /\ t.month = u.month /\ t.dom < u.dom
            \/ t.year = u.year /\ t.month = u.month /\ t.dom = u.dom /\ t.hour < u.hour
            \/ /\ t.year = u.year /\ t.month = u.month /\ t.dom = u.dom /\ t.hour = u.hour
               /\ t.minute < u.minute
  BY CronTimeFields DEF Before, cron_time_cmp, cron_int_cmp

\* CronTime's < is a strict order.
THEOREM BeforeIsOrder ==
    /\ \A t \in CronTimes : ~Before(t, t)
    /\ \A t, u, v \in CronTimes : Before(t, u) /\ Before(u, v) => Before(t, v)
<1>1. ASSUME NEW t \in CronTimes PROVE ~Before(t, t)
  BY BeforeFields, CronTimeFields
<1>2. ASSUME NEW t \in CronTimes, NEW u \in CronTimes, NEW v \in CronTimes,
             Before(t, u), Before(u, v)
      PROVE  Before(t, v)
  <2> DEFINE LexLess(p, q) ==
            \/ p[1] < q[1]
            \/ p[1] = q[1] /\ p[2] < q[2]
            \/ p[1] = q[1] /\ p[2] = q[2] /\ p[3] < q[3]
            \/ p[1] = q[1] /\ p[2] = q[2] /\ p[3] = q[3] /\ p[4] < q[4]
            \/ p[1] = q[1] /\ p[2] = q[2] /\ p[3] = q[3] /\ p[4] = q[4] /\ p[5] < q[5]
         Lexical(w) == <<w.year, w.month, w.dom, w.hour, w.minute>>
  <2>1. \A p, q, r \in Int \X Int \X Int \X Int \X Int :
            LexLess(p, q) /\ LexLess(q, r) => LexLess(p, r)
    OBVIOUS
  <2>2. \A w \in {t, u, v} : Lexical(w) \in Int \X Int \X Int \X Int \X Int
    BY CronTimeFields
  <2>3. LexLess(Lexical(t), Lexical(u)) /\ LexLess(Lexical(u), Lexical(v))
    BY <1>2, BeforeFields
  <2>4. LexLess(Lexical(t), Lexical(v))
    BY <2>1, <2>2, <2>3
  <2> QED
    BY <2>4, BeforeFields
<1> QED
  BY <1>1, <1>2

\* cron_time_inc goes forward from every cron time, the ones that are no dates
\* included: CheckSchedule's loop comes to its end, and to no minute twice.
THEOREM IncrementAdvances == \A t \in CronTimes : Before(t, cron_time_inc(t))
<1> SUFFICES ASSUME NEW t \in CronTimes PROVE Before(t, cron_time_inc(t))
  OBVIOUS
<1> DEFINE u == cron_time_inc(t)
<1>1. \/ u.minute = t.minute + 1 /\ u.hour = t.hour /\ u.dom = t.dom /\ u.month = t.month
         /\ u.year = t.year
      \/ u.hour = t.hour + 1 /\ u.dom = t.dom /\ u.month = t.month /\ u.year = t.year
      \/ u.dom = t.dom + 1 /\ u.month = t.month /\ u.year = t.year
      \/ u.month = t.month + 1 /\ u.year = t.year
      \/ u.year = t.year + 1
  BY CronTimeFields DEF cron_time_inc, Carry, HourIsOver, DayIsOver, MonthIsOver, YearIsOver
<1>2. u \in CronTimes
  BY IncrementType
<1> HIDE DEF u
<1>3. Before(t, u)
  BY <1>1, <1>2, BeforeFields, CronTimeFields
<1> QED
  BY <1>3 DEF u

-----------------------------------------------------------------------------
(* The increment against the calendar                                      *)

\* The last minute of February in a year without a leap day.
CommonFebruaryEnds(c) ==
    /\ c.tm_mon = 1 /\ c.tm_mday = 28 /\ ~Leap(c.tm_year)
    /\ c.tm_hour = 23 /\ c.tm_min = 59

\* Everywhere else "increment by one minute" is what cron_time_inc does, although
\* it takes a year from 1900 for a year of the Lord.
THEOREM IncrementIsNextMinute ==
    \A c \in Date :
        ~CommonFebruaryEnds(c) => cron_time_inc(cron_time_set(c)) = cron_time_set(NextMinute(c))
<1> SUFFICES ASSUME NEW c \in Date, ~CommonFebruaryEnds(c)
             PROVE cron_time_inc(cron_time_set(c)) = cron_time_set(NextMinute(c))
  OBVIOUS
<1> DEFINE t == cron_time_set(c)
<1>1. /\ t.minute = c.tm_min /\ t.hour = c.tm_hour /\ t.dom = c.tm_mday - 1
      /\ t.month = c.tm_mon /\ t.dow = c.tm_wday /\ t.year = c.tm_year
  BY DateFields DEF cron_time_set, FIRST_DOM, FIRST_MONTH
<1> HIDE DEF t
<1>2. DayIsOver(t) <=> c.tm_min = 59 /\ c.tm_hour = 23
  BY <1>1, DateFields DEF DayIsOver, HourIsOver
<1>3. MonthIsOver(t) <=> DayIsOver(t) /\ c.tm_mday = LastDay(c.tm_mon, c.tm_year)
  <2>1. CASE c.tm_mon = 1
    BY <1>1, <1>2, <2>1, DateFields DEF MonthIsOver, MonthEnds, LastDay, CommonFebruaryEnds
  <2>2. CASE c.tm_mon # 1
    BY <1>1, <2>2, DateFields DEF MonthIsOver, MonthEnds, LastDay
  <2> QED
    BY <2>1, <2>2
<1>4. cron_time_inc(t) = cron_time_set(NextMinute(c))
  BY <1>1, <1>2, <1>3, DateFields
  DEF cron_time_inc, NextMinute, cron_time_set, Carry, HourIsOver, YearIsOver, WeekIsOver,
      FIRST_DOM, FIRST_MONTH
<1> QED
  BY <1>4 DEF t

\* There it comes to a 29 February that the year does not have, and after that day
\* to the first of March, a day of the week too late.
THEOREM EveryFebruaryHas29Days ==
    ASSUME NEW c \in Date, CommonFebruaryEnds(c),
           NEW bogus, bogus = cron_time_inc(cron_time_set(c)),
           NEW last, last = [bogus EXCEPT !.hour = 23, !.minute = 59]
    PROVE  /\ bogus.month = 1 /\ bogus.dom + FIRST_DOM = 29
           /\ cron_time_inc(last).month = 2 /\ cron_time_inc(last).dom = 0
           /\ cron_time_inc(last).dow # cron_time_set(NextMinute(c)).dow
<1> DEFINE t == cron_time_set(c)
<1>1. /\ t.minute = 59 /\ t.hour = 23 /\ t.dom = 27
      /\ t.month = 1 /\ t.dow = c.tm_wday /\ t.year = c.tm_year
  BY DateFields DEF cron_time_set, FIRST_DOM, FIRST_MONTH, CommonFebruaryEnds
<1>2. DayIsOver(t) /\ ~MonthIsOver(t) /\ ~YearIsOver(t)
  BY <1>1 DEF DayIsOver, HourIsOver, MonthIsOver, YearIsOver
<1> HIDE DEF t
<1>3. /\ bogus \in [minute: Int, hour: Int, dom: Int, month: Int, dow: Int, year: Int]
      /\ bogus.dom = 28 /\ bogus.month = 1 /\ bogus.year = c.tm_year
      /\ bogus.dow = (IF c.tm_wday = 6 THEN 0 ELSE c.tm_wday + 1)
  BY <1>1, <1>2, DateFields DEF t, cron_time_inc, Carry, WeekIsOver, HourIsOver
<1>4. /\ last.minute = 59 /\ last.hour = 23 /\ last.dom = 28 /\ last.month = 1
      /\ last.dow = bogus.dow /\ last.year = bogus.year
  BY <1>3
<1>5. MonthEnds(last) \in 28..29
  BY <1>4 DEF MonthEnds
<1>6. DayIsOver(last) /\ MonthIsOver(last) /\ ~YearIsOver(last)
  BY <1>4, <1>5 DEF DayIsOver, HourIsOver, MonthIsOver, YearIsOver
<1>7. /\ cron_time_inc(last).month = 2 /\ cron_time_inc(last).dom = 0
      /\ cron_time_inc(last).dow = IF last.dow = 6 THEN 0 ELSE last.dow + 1
  BY <1>3, <1>4, <1>6, DateFields DEF cron_time_inc, Carry, WeekIsOver
<1>8. cron_time_set(NextMinute(c)).dow = bogus.dow
  BY <1>3, DateFields DEF cron_time_set, NextMinute, Carry, CommonFebruaryEnds
<1> QED
  BY <1>3, <1>4, <1>7, <1>8, DateFields DEF FIRST_DOM

-----------------------------------------------------------------------------
(* The scheduler                                                           *)

Inv == TypeOK /\ TimerNeverLost /\ NoMinuteTwice

LEMMA EpochType == Epoch \in Date
  BY DEF Epoch, Date, LastDay

LEMMA Initially == Init => Inv
<1> SUFFICES ASSUME Init PROVE Inv
  OBVIOUS
<1>1. now \in Date /\ setbacks \in Nat
  BY SchedulerAssumption DEF Init
<1>2. timer \in Date /\ timer # None /\ tick \in BOOLEAN
  BY SchedulerAssumption, EpochType DEF Init
<1>3. /\ pc = "wait" /\ time = None /\ safe_begin = None
      /\ last_schedule_time = None /\ previous_time = None
  BY DEF Init
<1> QED
  BY <1>1, <1>2, <1>3 DEF Inv, TypeOK, TimerNeverLost, NoMinuteTwice

-----------------------------------------------------------------------------
(* The steps of the clock leave the thread alone; the timer's expiry turns *)
(* into the pending tick.                                                  *)

LEMMA ClockSteps == Inv /\ (TimePasses \/ ClockSetBack \/ TimerExpires) => Inv'
<1> SUFFICES ASSUME Inv, TimePasses \/ ClockSetBack \/ TimerExpires PROVE Inv'
  OBVIOUS
<1> USE SchedulerAssumption DEF Inv, TypeOK, TimerNeverLost, NoMinuteTwice, tickVars, clockVars
<1>1. CASE TimePasses
  BY <1>1 DEF TimePasses
<1>2. CASE ClockSetBack
  BY <1>2 DEF ClockSetBack
<1>3. CASE TimerExpires
  BY <1>3 DEF TimerExpires
<1> QED
  BY <1>1, <1>2, <1>3

\* A tick starts the loop after the minute of the tick before.
LEMMA ReceiveTickStep == Inv /\ ReceiveTick => Inv'
<1> SUFFICES ASSUME Inv, ReceiveTick PROVE Inv'
  OBVIOUS
<1>1. cron_time_set(now) \in CronTimes
  BY SetType DEF Inv, TypeOK
<1>2. last_schedule_time # None =>
        /\ cron_time_inc(last_schedule_time) \in CronTimes
        /\ Before(last_schedule_time, cron_time_inc(last_schedule_time))
  BY IncrementType, IncrementAdvances DEF Inv, TypeOK
<1>3. TypeOK'
  BY <1>1, <1>2, SchedulerAssumption DEF Inv, TypeOK, ReceiveTick, clockVars
<1>4. TimerNeverLost'
  BY DEF ReceiveTick, TimerNeverLost
<1>5. NoMinuteTwice'
  BY <1>2 DEF ReceiveTick, NoMinuteTwice
<1> QED
  BY <1>3, <1>4, <1>5 DEF Inv

\* The loop goes on from there, ever later.
LEMMA CheckMinuteStep == Inv /\ CheckMinute => Inv'
<1> SUFFICES ASSUME Inv, CheckMinute PROVE Inv'
  OBVIOUS
<1>1. /\ safe_begin \in CronTimes /\ cron_time_inc(safe_begin) \in CronTimes
      /\ Before(safe_begin, cron_time_inc(safe_begin))
  BY IncrementType, IncrementAdvances DEF Inv, TypeOK, CheckMinute
<1>2. /\ pc = "check" /\ pc' = pc /\ safe_begin' = cron_time_inc(safe_begin)
      /\ UNCHANGED <<clockVars, timer, tick, time, last_schedule_time, previous_time>>
  BY DEF CheckMinute
<1>3. TypeOK'
  BY <1>1, <1>2 DEF Inv, TypeOK, clockVars
<1>4. TimerNeverLost'
  BY <1>2 DEF TimerNeverLost
<1>5. NoMinuteTwice'
  BY <1>1, <1>2, BeforeIsOrder DEF Inv, TypeOK, NoMinuteTwice
<1> QED
  BY <1>3, <1>4, <1>5 DEF Inv

LEMMA StartFoundStep == Inv /\ StartFound => Inv'
  BY DEF Inv, TypeOK, TimerNeverLost, NoMinuteTwice, StartFound, clockVars

\* The timer is armed whenever the thread goes back to wait.
LEMMA RequestTickStep == Inv /\ RequestTick => Inv'
<1> SUFFICES ASSUME Inv, RequestTick PROVE Inv'
  OBVIOUS
<1>1. NextMinute(time) \in Date
  BY NextMinuteType DEF Inv, TypeOK, RequestTick
<1> QED
  BY <1>1, SchedulerAssumption
  DEF Inv, TypeOK, TimerNeverLost, NoMinuteTwice, RequestTick, clockVars

LEMMA Steps == Inv /\ [Next]_vars => Inv'
<1> SUFFICES ASSUME Inv, [Next]_vars PROVE Inv'
  OBVIOUS
<1>1. CASE UNCHANGED vars
  BY <1>1 DEF Inv, TypeOK, TimerNeverLost, NoMinuteTwice, vars, tickVars, clockVars
<1>2. CASE Next
  BY <1>2, ClockSteps, ReceiveTickStep, CheckMinuteStep, StartFoundStep, RequestTickStep
  DEF Next, Program
<1> QED
  BY <1>1, <1>2

-----------------------------------------------------------------------------

\* The types, for whatever the clock does.
THEOREM SchedulerTyping == Spec => []TypeOK
<1>1. Inv => TypeOK
  BY DEF Inv
<1> QED
  BY <1>1, Initially, Steps, PTL DEF Spec

\* The timer is never lost, however the clock is set and the steps interleave.
THEOREM TimerKept == Spec => []TimerNeverLost
<1>1. Inv => TimerNeverLost
  BY DEF Inv
<1> QED
  BY <1>1, Initially, Steps, PTL DEF Spec

\* No tick comes back to a minute of the tick before.
THEOREM MinutesOnce == Spec => []NoMinuteTwice
<1>1. Inv => NoMinuteTwice
  BY DEF Inv
<1> QED
  BY <1>1, Initially, Steps, PTL DEF Spec

-----------------------------------------------------------------------------
(* The order of minutes                                                    *)

LEMMA UpToIsNotAfter ==
  ASSUME NEW t \in CronTimes, NEW u \in CronTimes
  PROVE  UpTo(t, u) <=> ~Before(u, t)
  BY CronTimeFields DEF UpTo, Before, cron_time_cmp, cron_int_cmp

LEMMA BeforeGoesOn ==
  ASSUME NEW t \in CronTimes, NEW u \in CronTimes, NEW v \in CronTimes,
         Before(t, u), UpTo(u, v)
  PROVE  Before(t, v)
<1>1. ~Before(v, u)
  BY UpToIsNotAfter
<1>2. CASE Before(u, v)
  BY <1>2, BeforeIsOrder
<1>3. CASE ~Before(u, v)
  <2>1. /\ v.year = u.year /\ v.month = u.month /\ v.dom = u.dom /\ v.hour = u.hour
        /\ v.minute = u.minute
    BY <1>1, <1>3, BeforeFields, CronTimeFields
  <2> QED
    BY <2>1, BeforeFields
<1> QED
  BY <1>2, <1>3

LEMMA EarlierFields ==
  ASSUME NEW c \in Date, NEW d \in Date
  PROVE  Earlier(c, d) <=>
          \/ c.tm_year < d.tm_year
          \/ c.tm_year = d.tm_year /\ c.tm_mon < d.tm_mon
          \/ c.tm_year = d.tm_year /\ c.tm_mon = d.tm_mon /\ c.tm_mday < d.tm_mday
          \/ /\ c.tm_year = d.tm_year /\ c.tm_mon = d.tm_mon /\ c.tm_mday = d.tm_mday
             /\ c.tm_hour < d.tm_hour
          \/ /\ c.tm_year = d.tm_year /\ c.tm_mon = d.tm_mon /\ c.tm_mday = d.tm_mday
             /\ c.tm_hour = d.tm_hour /\ c.tm_min < d.tm_min
<1>1. cron_time_set(c) \in CronTimes /\ cron_time_set(d) \in CronTimes
  BY SetType
<1>2. \A e \in {c, d} :
        /\ cron_time_set(e).minute = e.tm_min /\ cron_time_set(e).hour = e.tm_hour
        /\ cron_time_set(e).dom = e.tm_mday - 1 /\ cron_time_set(e).month = e.tm_mon
        /\ cron_time_set(e).year = e.tm_year
  BY DateFields DEF cron_time_set, FIRST_DOM, FIRST_MONTH
<1> QED
  BY <1>1, <1>2, BeforeFields, DateFields DEF Earlier

\* No date lies between a minute and the next.
LEMMA NothingBetween ==
  ASSUME NEW c \in Date, NEW d \in Date, Earlier(c, d)
  PROVE  ~Earlier(d, NextMinute(c))
<1> DEFINE n == NextMinute(c)
<1>1. n \in Date
  BY NextMinuteType
<1>2. \/ /\ n.tm_year = c.tm_year /\ n.tm_mon = c.tm_mon /\ n.tm_mday = c.tm_mday
         /\ n.tm_hour = c.tm_hour /\ n.tm_min = c.tm_min + 1
      \/ /\ n.tm_year = c.tm_year /\ n.tm_mon = c.tm_mon /\ n.tm_mday = c.tm_mday
         /\ n.tm_hour = c.tm_hour + 1 /\ n.tm_min = 0 /\ c.tm_min = 59
      \/ /\ n.tm_year = c.tm_year /\ n.tm_mon = c.tm_mon /\ n.tm_mday = c.tm_mday + 1
         /\ n.tm_hour = 0 /\ n.tm_min = 0 /\ c.tm_min = 59 /\ c.tm_hour = 23
      \/ /\ n.tm_year = c.tm_year /\ n.tm_mon = c.tm_mon + 1 /\ n.tm_mday = 1
         /\ n.tm_hour = 0 /\ n.tm_min = 0 /\ c.tm_min = 59 /\ c.tm_hour = 23
         /\ c.tm_mday = LastDay(c.tm_mon, c.tm_year)
      \/ /\ n.tm_year = c.tm_year + 1 /\ n.tm_mon = 0 /\ n.tm_mday = 1
         /\ n.tm_hour = 0 /\ n.tm_min = 0 /\ c.tm_min = 59 /\ c.tm_hour = 23
         /\ c.tm_mday = LastDay(c.tm_mon, c.tm_year) /\ c.tm_mon = 11
  <2>1. CASE c.tm_min # 59
    BY <2>1, DateFields DEF NextMinute, Carry
  <2>2. CASE c.tm_min = 59 /\ c.tm_hour # 23
    BY <2>2, DateFields DEF NextMinute, Carry
  <2>3. CASE c.tm_min = 59 /\ c.tm_hour = 23 /\ c.tm_mday # LastDay(c.tm_mon, c.tm_year)
    BY <2>3, DateFields DEF NextMinute, Carry
  <2>4. CASE c.tm_min = 59 /\ c.tm_hour = 23 /\ c.tm_mday = LastDay(c.tm_mon, c.tm_year)
    BY <2>4, DateFields DEF NextMinute, Carry
  <2> QED
    BY <2>1, <2>2, <2>3, <2>4
<1>3. /\ LastDay(c.tm_mon, c.tm_year) \in 28 .. 31
      /\ c.tm_mon = d.tm_mon /\ c.tm_year = d.tm_year =>
           d.tm_mday <= LastDay(c.tm_mon, c.tm_year)
  BY DateFields, LastDayType
<1> HIDE DEF n
<1>4. ~Earlier(d, n)
  BY <1>1, <1>2, <1>3, EarlierFields, DateFields, SMTT(30)
<1> QED
  BY <1>4 DEF n

\* An arrangement of a finite set has all of it.
LEMMA ArrangementIsComplete ==
  ASSUME NEW S, IsFiniteSet(S), NEW seq \in SetToSeqs(S)
  PROVE  /\ seq \in Seq(S) /\ S = ToSet(seq)
         /\ \A i, j \in DOMAIN seq : i # j => seq[i] # seq[j]
<1>1. PICK n \in Nat : n = Cardinality(S)
  BY FS_CardinalityType
<1>2. seq \in [1 .. n -> S] /\ \A i, j \in 1 .. n : i # j => seq[i] # seq[j]
  BY <1>1 DEF SetToSeqs
<1>3. ASSUME NEW s \in S, s \notin ToSet(seq) PROVE FALSE
  <2>1. seq \in [1 .. n -> S \ {s}]
    BY <1>2, <1>3 DEF ToSet
  <2>2. IsFiniteSet(S \ {s}) /\ Cardinality(S \ {s}) = n - 1
    BY <1>1, FS_RemoveElement
  <2>3. IsFiniteSet(1 .. n) /\ Cardinality(1 .. n) = n
    <3>1. IsFiniteSet(1 .. n) /\ Cardinality(1 .. n) = IF 1 > n THEN 0 ELSE n - 1 + 1
      BY FS_Interval
    <3> QED
      BY <3>1
  <2>4. PICK i, j \in 1 .. n : i # j /\ seq[i] = seq[j]
    BY <2>1, <2>2, <2>3, FS_PigeonHole
  <2> QED
    BY <1>2, <2>4
<1> QED
  BY <1>2, <1>3 DEF ToSet

LEMMA ToSetOfConcat ==
  ASSUME NEW S, NEW p \in Seq(S), NEW q \in Seq(S)
  PROVE  ToSet(p \o q) = ToSet(p) \cup ToSet(q)
<1>1. PICK k, l \in Nat : k = Len(p) /\ l = Len(q)
  OBVIOUS
<1>2. /\ DOMAIN p = 1 .. k /\ DOMAIN q = 1 .. l /\ DOMAIN (p \o q) = 1 .. (k + l)
      /\ \A i \in 1 .. k : (p \o q)[i] = p[i]
      /\ \A i \in (k + 1) .. (k + l) : (p \o q)[i] = q[i - k]
  BY <1>1
<1>3. ASSUME NEW i \in 1 .. k PROVE (p \o q)[i] = p[i] /\ i \in 1 .. (k + l)
  BY <1>1, <1>2
<1>4. ASSUME NEW i \in 1 .. l PROVE (p \o q)[i + k] = q[i] /\ i + k \in 1 .. (k + l)
  BY <1>1, <1>2
<1>5. ASSUME NEW i \in 1 .. (k + l)
      PROVE  (p \o q)[i] \in ToSet(p) \cup ToSet(q)
  <2>1. CASE i \in 1 .. k
    BY <1>2, <2>1 DEF ToSet
  <2>2. CASE i \notin 1 .. k
    <3>1. i \in (k + 1) .. (k + l) /\ i - k \in 1 .. l
      BY <1>1, <2>2
    <3> QED
      BY <1>2, <3>1 DEF ToSet
  <2> QED
    BY <2>1, <2>2
<1>6. ToSet(p \o q) \subseteq ToSet(p) \cup ToSet(q)
  <2> SUFFICES ASSUME NEW x \in ToSet(p \o q) PROVE x \in ToSet(p) \cup ToSet(q)
    OBVIOUS
  <2>1. PICK i \in 1 .. (k + l) : x = (p \o q)[i]
    BY <1>2 DEF ToSet
  <2> QED
    BY <1>5, <2>1
<1>7. ToSet(p) \subseteq ToSet(p \o q)
  BY <1>2, <1>3 DEF ToSet
<1>8. ToSet(q) \subseteq ToSet(p \o q)
  <2> SUFFICES ASSUME NEW x \in ToSet(q) PROVE x \in ToSet(p \o q)
    OBVIOUS
  <2>1. PICK i \in 1 .. l : x = q[i]
    BY <1>2 DEF ToSet
  <2>2. i + k \in DOMAIN (p \o q) /\ x = (p \o q)[i + k]
    BY <1>2, <1>4, <2>1
  <2> QED
    BY <2>2, Zenon DEF ToSet
<1> QED
  BY <1>6, <1>7, <1>8

-----------------------------------------------------------------------------
(* The loop of CheckSchedule, against the window of Punctuality            *)

DueAt(s, m) == CheckTime(Expressions[s], cron_time_set(m))

\* The minutes this tick has to serve, and those the loop is past.
Window == {m \in Minutes : IF previous_time = None THEN m = time
                           ELSE /\ Before(previous_time, cron_time_set(m))
                                /\ UpTo(cron_time_set(m), cron_time_set(time))}

Past == {m \in Window : Before(cron_time_set(m), safe_begin)}

\* queue is what Punctuality wants of the minutes of W.
Serves(queue, W) ==
    /\ ToSet(queue) = {s \in Service : \E m \in W : DueAt(s, m)}
    /\ \A i, j \in DOMAIN queue : i < j =>
         /\ queue[i] # queue[j]
         /\ \E m \in W :
              /\ DueAt(queue[i], m)
              /\ \A n \in W :
                    DueAt(queue[j], n) => UpTo(cron_time_set(m), cron_time_set(n))

\* The loop stands at a minute of the window or is past them all, and what it has
\* found serves the minutes it is past.
Walking ==
    /\ now \in Stops
    /\ last_schedule_time = None \/ \E m \in Minutes : last_schedule_time = cron_time_set(m)
    /\ pc # "check" => fulfill_services = <<>>
    /\ pc = "check" =>
         /\ time \in Minutes /\ last_schedule_time = cron_time_set(time)
         /\ fulfill_services \in Seq(Service) /\ Serves(fulfill_services, Past)
         /\ \/ Before(last_schedule_time, safe_begin)
            \/ \E m \in Window : cron_time_set(m) = safe_begin

FollowsCalendar == \A m \in Minutes : ~CommonFebruaryEnds(m)

\* The increment of a minute of the stretch is the next, and no other between.
LEMMA IncrementInMinutes ==
  ASSUME FollowsCalendar, NEW m \in Minutes, NEW n \in Minutes, Earlier(m, n)
  PROVE  /\ NextMinute(m) \in Minutes
         /\ cron_time_inc(cron_time_set(m)) = cron_time_set(NextMinute(m))
         /\ UpTo(cron_time_inc(cron_time_set(m)), cron_time_set(n))
<1>1. m \in Date /\ n \in Date /\ NextMinute(m) \in Minutes
  BY MinutesAssumption
<1>2. cron_time_inc(cron_time_set(m)) = cron_time_set(NextMinute(m))
  BY <1>1, IncrementIsNextMinute DEF FollowsCalendar
<1>3. ~Earlier(n, NextMinute(m))
  BY <1>1, NothingBetween
<1>4. /\ cron_time_set(n) \in CronTimes
      /\ cron_time_set(NextMinute(m)) \in CronTimes
  BY <1>1, NextMinuteType, SetType
<1> QED
  BY <1>1, <1>2, <1>3, <1>4, UpToIsNotAfter DEF Earlier

\* A tick starts the loop at the first minute of its window.
LEMMA LoopBegins ==
  ASSUME Inv, Walking, FollowsCalendar, ReceiveTick
  PROVE  Walking'
<1> USE DEF Inv, TypeOK
<1>1. /\ now \in Minutes /\ now \in Date /\ cron_time_set(now) \in CronTimes
  BY MinutesAssumption, SetType DEF Walking
<1>2. /\ now' \in Stops /\ last_schedule_time' = cron_time_set(now)
      /\ previous_time' = last_schedule_time /\ time' = now
      /\ fulfill_services' = <<>>
  BY DEF ReceiveTick, Walking, clockVars
<1>3. CASE pc' # "check"
  BY <1>1, <1>2, <1>3 DEF Walking
<1>4. CASE pc' = "check"
  <2>1. Past' = {} /\ \E m \in Window' : cron_time_set(m) = safe_begin'
    <3>1. CASE last_schedule_time = None
      <4>1. safe_begin' = cron_time_set(now)
        BY <1>4, <3>1 DEF ReceiveTick
      <4> QED
        BY <4>1, <1>1, <1>2, <3>1, BeforeIsOrder DEF Window, Past
    <3>2. CASE last_schedule_time # None
      <4>1. /\ Before(last_schedule_time, cron_time_set(now))
            /\ safe_begin' = cron_time_inc(last_schedule_time)
        BY <1>4, <3>2 DEF ReceiveTick
      <4>2. PICK n \in Minutes : last_schedule_time = cron_time_set(n)
        BY <3>2 DEF Walking
      <4>3. /\ NextMinute(n) \in Minutes
            /\ safe_begin' = cron_time_set(NextMinute(n))
            /\ UpTo(safe_begin', cron_time_set(now))
        BY <1>1, <4>1, <4>2, IncrementInMinutes DEF Earlier
      <4>4. ASSUME NEW m \in Past' PROVE FALSE
        <5>1. /\ m \in Minutes /\ Before(last_schedule_time, cron_time_set(m))
              /\ Before(cron_time_set(m), safe_begin')
          BY <4>4, <1>2, <3>2 DEF Past, Window
        <5>2. UpTo(safe_begin', cron_time_set(m))
          BY <4>1, <4>2, <5>1, IncrementInMinutes DEF Earlier
        <5>3. cron_time_set(m) \in CronTimes /\ safe_begin' \in CronTimes
          BY <5>1, <4>3, MinutesAssumption, SetType
        <5> QED
          BY <5>1, <5>2, <5>3, UpToIsNotAfter
      <4>5. Before(last_schedule_time, safe_begin')
        BY <3>2, <4>1, IncrementAdvances
      <4>6. NextMinute(n) \in Window'
        BY <4>3, <4>5, <3>2, <1>2 DEF Window
      <4> QED
        BY <4>3, <4>4, <4>6
    <3> QED
      BY <3>1, <3>2
  <2>2. Serves(fulfill_services, Past)'
    BY <1>2, <2>1 DEF Serves, ToSet
  <2> QED
    BY <1>1, <1>2, <1>4, <2>1, <2>2 DEF Walking
<1> QED
  BY <1>3, <1>4

\* Two minutes of the stretch that are not one before the other are the same.
LEMMA MinutesOrdered ==
  ASSUME NEW m \in Minutes, NEW n \in Minutes, ~Earlier(m, n), ~Earlier(n, m)
  PROVE  m = n
  BY MinutesAssumption

\* A round of the loop: it passes just its own minute, and what it finds comes
\* behind all that was due before.
LEMMA LoopGoesOn ==
  ASSUME Inv, Walking, FollowsCalendar, CheckMinute
  PROVE  Walking'
<1> USE DEF Inv, TypeOK
<1>1. /\ pc = "check" /\ time \in Minutes /\ last_schedule_time = cron_time_set(time)
      /\ UpTo(safe_begin, last_schedule_time)
      /\ safe_begin \in CronTimes /\ last_schedule_time \in CronTimes
      /\ fulfill_services \in Seq(Service) /\ Serves(fulfill_services, Past)
  BY MinutesAssumption, SetType DEF CheckMinute, Walking
<1>2. /\ safe_begin' = cron_time_inc(safe_begin) /\ pc' = "check"
      /\ UNCHANGED <<now, time, last_schedule_time, previous_time>>
      /\ safe_begin' \in CronTimes /\ Before(safe_begin, safe_begin')
  BY <1>1, IncrementType, IncrementAdvances DEF CheckMinute, clockVars
<1>3. PICK b \in Window : cron_time_set(b) = safe_begin
  BY <1>1, UpToIsNotAfter DEF Walking
<1>4. /\ Window \subseteq Minutes
      /\ \A m \in Minutes : m \in Date /\ cron_time_set(m) \in CronTimes
  BY MinutesAssumption, SetType DEF Window
<1>5. Window' = Window
  BY <1>2 DEF Window
<1>6. Past' = Past \cup {b}
  <2>1. ASSUME NEW m \in Past PROVE m \in Past'
    BY <1>1, <1>2, <1>4, <1>5, <2>1, BeforeIsOrder DEF Past
  <2>2. b \in Past'
    BY <1>2, <1>3, <1>5 DEF Past
  <2>3. ASSUME NEW m \in Past', m \notin Past PROVE m = b
    <3>1. m \in Window /\ ~Earlier(m, b) /\ Before(cron_time_set(m), safe_begin')
      BY <1>3, <1>5, <2>3 DEF Past, Earlier
    <3>2. ~Earlier(b, m)
      <4> SUFFICES ASSUME Earlier(b, m) PROVE FALSE
        OBVIOUS
      <4>1. UpTo(safe_begin', cron_time_set(m))
        BY <1>2, <1>3, <1>4, <3>1, IncrementInMinutes
      <4> QED
        BY <1>2, <1>4, <3>1, <4>1, UpToIsNotAfter
    <3> QED
      BY <1>4, <3>1, <3>2, MinutesOrdered
  <2> QED
    BY <2>1, <2>2, <2>3
<1>7. PICK found \in SetToSeqs({s \in Service : DueAt(s, b)} \ ToSet(fulfill_services)) :
        fulfill_services' = fulfill_services \o found
  BY <1>3 DEF CheckMinute, DueAt
<1>8. IsFiniteSet({s \in Service : DueAt(s, b)} \ ToSet(fulfill_services))
  BY SchedulerAssumption, FS_Subset
<1>9. /\ found \in Seq({s \in Service : DueAt(s, b)} \ ToSet(fulfill_services))
      /\ ToSet(found) = {s \in Service : DueAt(s, b)} \ ToSet(fulfill_services)
      /\ \A i, j \in DOMAIN found : i # j => found[i] # found[j]
  BY <1>7, <1>8, ArrangementIsComplete
<1>10. found \in Seq(Service) /\ fulfill_services' \in Seq(Service)
  BY <1>1, <1>7, <1>9
<1>11. Serves(fulfill_services', Past \cup {b})
  <2> DEFINE q == fulfill_services
             W == Past \cup {b}
  <2>1. PICK k, l \in Nat : k = Len(q) /\ l = Len(found)
    BY <1>1, <1>10
  <2>2. /\ DOMAIN q = 1 .. k /\ DOMAIN found = 1 .. l
        /\ DOMAIN (q \o found) = 1 .. (k + l)
        /\ \A i \in 1 .. k : (q \o found)[i] = q[i]
        /\ \A i \in (k + 1) .. (k + l) : i - k \in 1 .. l /\ (q \o found)[i] = found[i - k]
    BY <1>1, <1>10, <2>1
  <2>3. ToSet(q \o found) = ToSet(q) \cup ToSet(found)
    BY <1>1, <1>10, ToSetOfConcat
  <2>4. ToSet(q) = {s \in Service : \E m \in Past : DueAt(s, m)}
    BY <1>1 DEF Serves
  <2>5. ToSet(q \o found) = {s \in Service : \E m \in W : DueAt(s, m)}
    BY <1>9, <2>3, <2>4
  <2>6. \A m \in Past : UpTo(cron_time_set(m), cron_time_set(b))
    BY <1>3, <1>4, BeforeIsOrder, UpToIsNotAfter DEF Past
  <2>7. UpTo(cron_time_set(b), cron_time_set(b))
    BY <1>4, BeforeIsOrder, UpToIsNotAfter
  <2>8. ASSUME NEW i \in 1 .. (k + l), NEW j \in 1 .. (k + l), i < j
        PROVE  LET r == q \o found
               IN  /\ r[i] # r[j]
                   /\ \E m \in W :
                        /\ DueAt(r[i], m)
                        /\ \A n \in W :
                              DueAt(r[j], n) => UpTo(cron_time_set(m), cron_time_set(n))
    <3>1. CASE j \in 1 .. k
      <4>1. i \in 1 .. k
        BY <2>1, <2>8, <3>1
      <4>2. q[i] # q[j]
        BY <1>1, <2>2, <2>8, <3>1, <4>1 DEF Serves
      <4>3. PICK m \in Past :
              /\ DueAt(q[i], m)
              /\ \A n \in Past :
                    DueAt(q[j], n) => UpTo(cron_time_set(m), cron_time_set(n))
        BY <1>1, <2>2, <2>8, <3>1, <4>1 DEF Serves
      <4> QED
        BY <2>2, <2>6, <3>1, <4>1, <4>2, <4>3
    <3>2. CASE i \in 1 .. k /\ j \in (k + 1) .. (k + l)
      <4>1. q[i] \in ToSet(q) /\ found[j - k] \in ToSet(found)
        BY <2>2, <3>2 DEF ToSet
      <4>2. q[i] # found[j - k] /\ \A n \in Past : ~DueAt(found[j - k], n)
        BY <1>9, <2>4, <4>1
      <4>3. PICK m \in Past : DueAt(q[i], m)
        BY <2>4, <4>1
      <4> QED
        BY <2>2, <2>6, <3>2, <4>2, <4>3
    <3>3. CASE i \in (k + 1) .. (k + l) /\ j \in (k + 1) .. (k + l)
      <4>1. i - k # j - k
        BY <2>1, <2>8
      <4>2. found[i - k] # found[j - k]
        BY <1>9, <2>2, <3>3, <4>1
      <4>3. found[i - k] \in ToSet(found) /\ found[j - k] \in ToSet(found)
        BY <2>2, <3>3 DEF ToSet
      <4>4. /\ DueAt(found[i - k], b)
            /\ \A n \in Past : ~DueAt(found[j - k], n)
        BY <1>9, <2>4, <4>3
      <4> QED
        BY <2>2, <2>7, <3>3, <4>2, <4>4
    <3> QED
      BY <2>1, <2>8, <3>1, <3>2, <3>3
  <2>9. Serves(q \o found, W)
    <3> HIDE DEF q, W
    <3> QED
      BY <2>2, <2>5, <2>8 DEF Serves
  <2> QED
    BY <1>7, <2>9
<1>12. Serves(fulfill_services, Past)'
  BY <1>6, <1>11 DEF Serves, DueAt, ToSet
<1>13. Before(last_schedule_time, safe_begin') \/ \E m \in Window : cron_time_set(m) = safe_begin'
  <2> SUFFICES ASSUME ~Before(last_schedule_time, safe_begin')
               PROVE  \E m \in Window : cron_time_set(m) = safe_begin'
    OBVIOUS
  <2>1. UpTo(safe_begin', last_schedule_time)
    BY <1>1, <1>2, UpToIsNotAfter
  <2>2. Before(safe_begin, last_schedule_time)
    BY <1>1, <1>2, <2>1, BeforeGoesOn
  <2>3. Earlier(b, time) /\ b # time
    BY <1>1, <1>3, <1>4, <2>2, BeforeIsOrder DEF Earlier
  <2>4. NextMinute(b) \in Minutes /\ safe_begin' = cron_time_set(NextMinute(b))
    BY <1>1, <1>2, <1>3, <1>4, <2>3, IncrementInMinutes
  <2>5. previous_time # None /\ Before(previous_time, safe_begin)
    BY <1>3, <2>3 DEF Window
  <2>6. Before(previous_time, safe_begin')
    BY <1>1, <1>2, <2>5, BeforeIsOrder
  <2> QED
    BY <1>1, <2>1, <2>4, <2>5, <2>6 DEF Window
<1> QED
  BY <1>1, <1>2, <1>5, <1>10, <1>12, <1>13 DEF Walking

\* The rest leaves the loop alone.
LEMMA LoopLeftAlone ==
  ASSUME Inv, Walking,
         \/ TimePasses \/ ClockSetBack \/ TimerExpires
         \/ StartFound \/ RequestTick \/ UNCHANGED vars
  PROVE  Walking'
<1>1. CASE StartFound \/ RequestTick
  BY <1>1 DEF Walking, StartFound, RequestTick, clockVars
<1>2. CASE TimePasses \/ ClockSetBack \/ TimerExpires \/ UNCHANGED vars
  <2>1. /\ now' \in Stops
        /\ UNCHANGED <<pc, time, last_schedule_time, previous_time, safe_begin, fulfill_services>>
    BY <1>2 DEF Walking, TimePasses, ClockSetBack, TimerExpires, vars, clockVars, tickVars
  <2>2. Past' = Past /\ Window' = Window
    BY <2>1 DEF Past, Window
  <2>3. Serves(fulfill_services, Past)' <=> Serves(fulfill_services, Past)
    BY <2>1, <2>2 DEF Serves, ToSet, DueAt
  <2> QED
    BY <2>1, <2>2, <2>3 DEF Walking
<1> QED
  BY <1>1, <1>2

LEMMA WalkingAlways == ASSUME FollowsCalendar PROVE Spec => []Walking
<1>1. Init => Walking
  BY DEF Init, Walking
<1>2. Inv /\ Walking /\ [Next]_vars => Walking'
  BY LoopBegins, LoopGoesOn, LoopLeftAlone DEF Next, Program
<1> QED
  BY <1>1, <1>2, Initially, Steps, PTL DEF Spec

-----------------------------------------------------------------------------
(* The refinement                                                          *)

LEMMA SameWords ==
  /\ \A t, u : Promise!Before(t, u) = Before(t, u)
  /\ \A t, u : Promise!UpTo(t, u) = UpTo(t, u)
  /\ \A c : Promise!cron_time_set(c) = cron_time_set(c)
  /\ Promise!Date = Date
  /\ \A s, m : Promise!Due(s, m) = DueAt(s, m)
<1>1. \A t, u : Promise!cron_time_cmp(t, u) = cron_time_cmp(t, u)
  BY DEF Promise!cron_time_cmp, cron_time_cmp, Promise!cron_int_cmp, cron_int_cmp
<1>2. \A c : Promise!cron_time_set(c) = cron_time_set(c)
  BY DEF Promise!cron_time_set, cron_time_set, Promise!FIRST_DOM, FIRST_DOM,
         Promise!FIRST_MONTH, FIRST_MONTH
<1>3. Promise!Date = Date
  BY DEF Promise!Date, Date, Promise!LastDay, LastDay, Promise!Leap, Leap
<1>4. \A entry, t : Promise!cron_expr_match(entry, t) = cron_expr_match(entry, t)
  BY DEF Promise!cron_expr_match, cron_expr_match, Promise!NoEntry, NoEntry
<1>5. \A s, m : Promise!Due(s, m) = DueAt(s, m)
  BY <1>2, <1>4 DEF Promise!Due, DueAt, Promise!CheckTime, CheckTime
<1> QED
  BY <1>1, <1>2, <1>3, <1>5 DEF Promise!Before, Before, Promise!UpTo, UpTo

LEMMA WindowIsPromised == pc = "check" => Promise!Window = Window
  BY SameWords DEF Promise!Window, Window

\* At the end of the loop all of the window is past, and is served.
LEMMA StartFoundServes ==
  ASSUME Inv, Walking, StartFound
  PROVE  Promise!Serve
<1> USE DEF Inv, TypeOK
<1>1. /\ pc = "check" /\ pc' = "request" /\ started' = fulfill_services
      /\ time \in Minutes /\ last_schedule_time = cron_time_set(time)
      /\ UNCHANGED <<now, last_schedule_time>>
      /\ safe_begin \in CronTimes /\ last_schedule_time \in CronTimes
      /\ Before(last_schedule_time, safe_begin)
      /\ Serves(fulfill_services, Past)
  BY UpToIsNotAfter, MinutesAssumption, SetType DEF StartFound, Walking, clockVars
<1>2. Past = Window
  <2> SUFFICES ASSUME NEW m \in Window PROVE Before(cron_time_set(m), safe_begin)
    BY DEF Past
  <2>1. cron_time_set(m) \in CronTimes
    BY MinutesAssumption, SetType DEF Window
  <2>2. m = time \/ ~Before(last_schedule_time, cron_time_set(m))
    BY <1>1, <2>1, UpToIsNotAfter DEF Window
  <2>3. CASE m = time
    BY <1>1, <2>3
  <2>4. CASE ~Before(last_schedule_time, cron_time_set(m))
    <3>1. CASE Before(cron_time_set(m), last_schedule_time)
      BY <1>1, <2>1, <3>1, BeforeIsOrder
    <3>2. CASE ~Before(cron_time_set(m), last_schedule_time)
      BY <1>1, <2>4, <3>2, MinutesOrdered DEF Window, Earlier
    <3> QED
      BY <3>1, <3>2
  <2> QED
    BY <2>2, <2>3, <2>4
<1>3. Promise!ServedInOrder(started')
  <2>1. Serves(started', Window) /\ Promise!Window = Window
    BY <1>1, <1>2, WindowIsPromised
  <2>2. \A s, m : Promise!Due(s, m) = DueAt(s, m)
    BY SameWords
  <2>3. \A m, n : Promise!UpTo(Promise!cron_time_set(m), Promise!cron_time_set(n))
                    = UpTo(cron_time_set(m), cron_time_set(n))
    BY SameWords
  <2>4. {started'[i] : i \in DOMAIN started'}
          = {s \in Service : \E m \in Promise!Window : Promise!Due(s, m)}
    BY <2>1, <2>2 DEF Serves, ToSet
  <2>5. ASSUME NEW i \in DOMAIN started', NEW j \in DOMAIN started', i < j
        PROVE  /\ started'[i] # started'[j]
               /\ \E m \in Promise!Window :
                    /\ Promise!Due(started'[i], m)
                    /\ \A n \in Promise!Window :
                          Promise!Due(started'[j], n)
                            => Promise!UpTo(Promise!cron_time_set(m), Promise!cron_time_set(n))
    BY <2>1, <2>2, <2>3, <2>5 DEF Serves
  <2> QED
    BY <2>4, <2>5 DEF Promise!ServedInOrder
<1>4. time # None
  BY <1>1, SchedulerAssumption, MinutesAssumption
<1> QED
  BY <1>1, <1>3, <1>4, SameWords DEF Promise!Serve

\* A tick reads the clock, or finds that it was set back.
LEMMA ReceiveTickReads ==
  ASSUME Inv, ReceiveTick
  PROVE  Promise!Read \/ Promise!BackInTime
<1>1. /\ pc = "wait" /\ time' = now /\ last_schedule_time' = cron_time_set(now)
      /\ previous_time' = last_schedule_time /\ UNCHANGED <<now, started>>
  BY DEF ReceiveTick, clockVars
<1>2. CASE last_schedule_time = None \/ Before(last_schedule_time, cron_time_set(now))
  <2>1. pc' = "check"
    BY <1>2 DEF ReceiveTick
  <2> QED
    BY <1>1, <1>2, <2>1, SameWords DEF Promise!Read
<1>3. CASE ~(last_schedule_time = None \/ Before(last_schedule_time, cron_time_set(now)))
  <2>1. pc' = "request"
    BY <1>3 DEF ReceiveTick
  <2> QED
    BY <1>1, <1>3, <2>1, SameWords DEF Promise!BackInTime
<1> QED
  BY <1>2, <1>3

LEMMA StepsArePromised ==
  ASSUME Inv, Inv', Walking, [Next]_vars
  PROVE  [Promise!Next]_(Promise!vars)
<1> USE DEF Promise!vars, Promise!Next
<1>1. CASE TimePasses \/ ClockSetBack
  <2>1. now' \in Date /\ UNCHANGED <<pc, time, last_schedule_time, previous_time, started>>
    BY <1>1 DEF Inv, TypeOK, TimePasses, ClockSetBack, tickVars
  <2> QED
    BY <2>1, SameWords DEF Promise!ClockMoves
<1>2. CASE TimerExpires \/ CheckMinute \/ UNCHANGED vars
  BY <1>2 DEF TimerExpires, CheckMinute, vars, clockVars, tickVars
<1>3. CASE RequestTick
  BY <1>3 DEF RequestTick, clockVars
<1>4. CASE ReceiveTick
  BY <1>4, ReceiveTickReads
<1>5. CASE StartFound
  BY <1>5, StartFoundServes
<1> QED
  BY <1>1, <1>2, <1>3, <1>4, <1>5 DEF Next, Program

\* Whatever the clock does, and whatever order the map has: every minute since the
\* last tick is served once, each service due is started once, the first due first;
\* but for the ends of February in years that are not leap years (MainLoop 127-156,
\* CheckSchedule).
THEOREM ScheduleIsKept == ASSUME FollowsCalendar PROVE Spec => ScheduleKept
<1>1. Init => Promise!Init
  <2> SUFFICES ASSUME Init PROVE Promise!Init
    OBVIOUS
  <2>1. now \in Date /\ pc = "wait" /\ last_schedule_time = None /\ started = <<>>
    BY SchedulerAssumption DEF Init
  <2> QED
    BY <2>1, SameWords DEF Promise!Init
<1>2. Inv /\ Inv' /\ Walking /\ [Next]_vars => [Promise!Next]_(Promise!vars)
  BY StepsArePromised
<1>3. Spec => []Inv
  BY Initially, Steps, PTL DEF Spec
<1> QED
  BY <1>1, <1>2, <1>3, WalkingAlways, PTL DEF Spec, ScheduleKept, Promise!Spec
=============================================================================
