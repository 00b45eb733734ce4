----------------------------- MODULE Scheduler -----------------------------
(***************************************************************************)
(* The scheduler: the one-shot timer on the wall clock, the tick it sends  *)
(* as a signal, what MainLoop does of a tick and the loop of CheckSchedule *)
(* over the minutes since the last one.  Between any two steps time may    *)
(* pass and the clock may be set.  How the services are then started is    *)
(* SupervisorProgram's; here they are handed over in started.              *)
(***************************************************************************)
EXTENDS CronExpression, SequencesExt

CONSTANTS
    Service,
    Expressions,  \* the entries of each service's cron expressions
    Stops,        \* bound: the minutes the clock may show
    MaxSetBacks,  \* bound: how often the clock is set back
    None

ASSUME SchedulerAssumption ==
    /\ IsFiniteSet(Service)
    /\ Stops \subseteq Date
    /\ MaxSetBacks \in Nat
    /\ None \notin Date /\ None \notin CronTimes

VARIABLES
    now,                 \* CLOCK_REALTIME, without its seconds
    setbacks,            \* how often it was set back
    timer,               \* the minute the timer is armed for, or None
    tick,                \* the scheduler's signal is pending
    order,               \* the iteration order of the unordered_map of services
    pc,                  \* "wait", "check" in CheckSchedule, "request" after it
    time,                \* the clock as read for this tick
    last_schedule_time,
    previous_time,       \* the last_schedule_time before this tick
    safe_begin,          \* the minute CheckSchedule's loop has come to
    fulfill_services,    \* the services it has found so far
    started              \* those the last CheckSchedule found, in order

clockVars == <<now, setbacks>>
tickVars  == <<time, last_schedule_time, previous_time, safe_begin, fulfill_services>>
vars == <<clockVars, timer, tick, order, pc, tickVars, started>>

\* RequestSchedulerTick(0): a nanosecond into the epoch.
Epoch == [tm_min |-> 0, tm_hour |-> 0, tm_mday |-> 1, tm_mon |-> 0,
          tm_wday |-> 4, tm_year |-> 70]

TypeOK ==
    /\ now \in Date /\ setbacks \in Nat
    /\ timer \in Date \cup {None} /\ tick \in BOOLEAN
    /\ pc \in {"wait", "check", "request"}
    /\ IF pc = "wait" THEN time = None ELSE time \in Date
    /\ {last_schedule_time, previous_time} \subseteq CronTimes \cup {None}
    /\ IF pc = "check" THEN safe_begin \in CronTimes ELSE safe_begin = None
    /\ pc # "wait" => last_schedule_time \in CronTimes

Init ==
    /\ now \in Stops /\ setbacks = 0
    /\ timer = Epoch /\ tick = FALSE
    /\ order \in SetToSeqs(Service)
    /\ pc = "wait"
    /\ time = None /\ last_schedule_time = None /\ previous_time = None
    /\ safe_begin = None /\ fulfill_services = <<>>
    /\ started = <<>>

-----------------------------------------------------------------------------
(* The clock and the timer                                                 *)

Earlier(c, d) == Before(cron_time_set(c), cron_time_set(d))

\* A minute passes, or many: the machine sleeps, the clock is put forward.
TimePasses ==
    /\ \E later \in Stops : Earlier(now, later) /\ now' = later
    /\ UNCHANGED <<setbacks, timer, tick, order, pc, tickVars, started>>

ClockSetBack ==
    /\ setbacks < MaxSetBacks /\ setbacks' = setbacks + 1
    /\ \E before \in Stops : Earlier(before, now) /\ now' = before
    /\ UNCHANGED <<timer, tick, order, pc, tickVars, started>>

TimerExpires ==
    /\ timer # None /\ ~Earlier(now, timer)
    /\ timer' = None /\ tick' = TRUE
    /\ UNCHANGED <<clockVars, order, pc, tickVars, started>>

-----------------------------------------------------------------------------
(* The thread                                                              *)

\* Mutant: the minute of the last tick is checked again.
ReceiveTick_SameMinute ==
    /\ pc = "wait" /\ tick
    /\ tick' = FALSE /\ time' = now
    /\ last_schedule_time' = cron_time_set(now)
    /\ previous_time' = last_schedule_time
    /\ IF last_schedule_time = None \/ Before(last_schedule_time, cron_time_set(now))
       THEN /\ pc' = "check"
            /\ safe_begin' = IF last_schedule_time = None THEN cron_time_set(now)
                             ELSE last_schedule_time
       ELSE pc' = "request" /\ UNCHANGED safe_begin
    /\ UNCHANGED <<clockVars, timer, order, fulfill_services, started>>

\* Mutant: a tick at an earlier minute than the last is ignored altogether.
ReceiveTick_IgnoreEarlier ==
    /\ pc = "wait" /\ tick
    /\ tick' = FALSE
    /\ IF last_schedule_time = None \/ Before(last_schedule_time, cron_time_set(now))
       THEN /\ pc' = "check" /\ time' = now
            /\ last_schedule_time' = cron_time_set(now)
            /\ previous_time' = last_schedule_time
            /\ safe_begin' = IF last_schedule_time = None THEN cron_time_set(now)
                             ELSE cron_time_inc(last_schedule_time)
       ELSE UNCHANGED <<pc, time, last_schedule_time, previous_time, safe_begin>>
    /\ UNCHANGED <<clockVars, timer, order, fulfill_services, started>>

\* The clock is read.  Nothing is checked if it has not passed the last tick.
\* (previous_time is incremented in the code, and read as safe_begin only.)
ReceiveTick ==
    /\ pc = "wait" /\ tick
    /\ tick' = FALSE /\ time' = now
    /\ last_schedule_time' = cron_time_set(now)
    /\ previous_time' = last_schedule_time
    /\ IF last_schedule_time = None \/ Before(last_schedule_time, cron_time_set(now))
       THEN /\ pc' = "check"
            /\ safe_begin' = IF last_schedule_time = None THEN cron_time_set(now)
                             ELSE cron_time_inc(last_schedule_time)
       ELSE pc' = "request" /\ UNCHANGED safe_begin
    /\ UNCHANGED <<clockVars, timer, order, fulfill_services, started>>

\* The map has s before t.
Precedes(s, t) == \E i, j \in DOMAIN order : i < j /\ order[i] = s /\ order[j] = t

\* One round of CheckSchedule's loop: the services of one minute that have not
\* been found yet, as they come in the map.
CheckMinute ==
    /\ pc = "check" /\ UpTo(safe_begin, last_schedule_time)
    /\ LET due == {s \in Service : CheckTime(Expressions[s], safe_begin)}
       IN  \E found \in SetToSeqs(due \ ToSet(fulfill_services)) :
             /\ \A i, j \in DOMAIN found : i < j => Precedes(found[i], found[j])
             /\ fulfill_services' = fulfill_services \o found
    /\ safe_begin' = cron_time_inc(safe_begin)
    /\ UNCHANGED <<clockVars, timer, tick, order, pc,
                   time, last_schedule_time, previous_time, started>>

\* The loop ends, and the services found are started.
StartFound ==
    /\ pc = "check" /\ ~UpTo(safe_begin, last_schedule_time)
    /\ started' = fulfill_services /\ pc' = "request"
    /\ safe_begin' = None /\ fulfill_services' = <<>>
    /\ UNCHANGED <<clockVars, timer, tick, order,
                   time, last_schedule_time, previous_time>>

\* Mutant: the clock is read again to set the timer.
RequestTick_FromNow ==
    /\ pc = "request" /\ pc' = "wait"
    /\ timer' = NextMinute(now)
    /\ time' = None /\ previous_time' = None
    /\ UNCHANGED <<clockVars, tick, order, last_schedule_time, safe_begin,
                   fulfill_services, started>>

\* The timer is set for the minute after the one read, passed or not by now.
RequestTick ==
    /\ pc = "request" /\ pc' = "wait"
    /\ timer' = NextMinute(time)
    /\ time' = None /\ previous_time' = None
    /\ UNCHANGED <<clockVars, tick, order, last_schedule_time, safe_begin,
                   fulfill_services, started>>

Program == ReceiveTick \/ CheckMinute \/ StartFound \/ RequestTick

Next == TimePasses \/ ClockSetBack \/ TimerExpires \/ Program

Spec == Init /\ [][Next]_vars

\* The thread and the timer go on for ever; time may stand still.
FairSpec == Spec /\ WF_vars(Program) /\ WF_vars(TimerExpires)
=============================================================================
