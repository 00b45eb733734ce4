------------------------ MODULE SchedulerProperties ------------------------
(***************************************************************************)
(* What the scheduler is to do.  Minutes is the stretch of the calendar    *)
(* around the Stops of the clock, without gaps.                            *)
(***************************************************************************)
EXTENDS Scheduler

CONSTANT Minutes

\* The stretch has each of its minutes once, and all those between two of them.
ASSUME MinutesAssumption ==
    /\ Stops \subseteq Minutes /\ Minutes \subseteq Date
    /\ \A m, n \in Minutes : m = n \/ Earlier(m, n) \/ Earlier(n, m)
    /\ \A m, n \in Minutes : Earlier(m, n) => NextMinute(m) \in Minutes

\* The scheduler implements Punctuality: no minute is skipped or served twice,
\* however late the tick is handled, however long the services take to start and
\* wherever the clock is put (MainLoop 129-155, CheckSchedule).
Promise == INSTANCE Punctuality WITH
    read   <- IF pc = "check" THEN time ELSE None,
    served <- IF pc = "check" THEN previous_time ELSE last_schedule_time

ScheduleKept == Promise!Spec

\* The timer fires once, and only handling its tick arms it again: at any moment
\* it is armed, or its signal is pending, or a tick is being handled, or else the
\* scheduler would be silent for ever.  (MainLoop 152-153.)
TimerNeverLost == timer # None \/ tick \/ pc # "wait"

\* CheckSchedule never comes to a minute that the tick before came to: a service
\* that ended within its minute would be started twice for it.  (MainLoop 143-146.)
NoMinuteTwice == pc = "check" /\ previous_time # None => Before(previous_time, safe_begin)

\* Whatever minute the clock stays at, its services have been seen to.  A timer
\* set too late would leave them to the next minute.  (MainLoop 129-155.)
CaughtUp == []<>(/\ last_schedule_time # None
                 /\ UpTo(cron_time_set(now), last_schedule_time))

\* "The service will be started when one of the schedules matches the current
\* time": when CheckSchedule starts one, it is for a minute that has come since
\* the last tick.  Violated at the end of February in a year without a leap day.
StartedWhenDue ==
    [][\A i \in DOMAIN started' : started' # started =>
         \E m \in Minutes :
            /\ CheckTime(Expressions[started'[i]], cron_time_set(m))
            /\ previous_time # None => Before(previous_time, cron_time_set(m))
            /\ UpTo(cron_time_set(m), last_schedule_time)]_vars
=============================================================================
