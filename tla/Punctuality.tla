---------------------------- MODULE Punctuality ----------------------------
(***************************************************************************)
(* What the scheduler promises, whatever timer and loop it uses: the clock *)
(* is read now and then; the minutes of the calendar since the last        *)
(* reading are served at once, each service that is due at one of them is  *)
(* started once, the first due first.  If the clock has been set back,     *)
(* minutes come round again, and are served again from there.              *)
(***************************************************************************)
EXTENDS CronExpression, FiniteSets

CONSTANTS Service, Expressions, None,
          Minutes   \* the minutes of the calendar while the model runs

VARIABLES now,      \* the clock
          read,     \* its reading, while the minutes up to it are served
          served,   \* the last minute served, or None
          started   \* the services started then

vars == <<now, read, served, started>>

Due(s, m) == CheckTime(Expressions[s], cron_time_set(m))

Init ==
    /\ now \in Date
    /\ read = None /\ served = None /\ started = <<>>

ClockMoves ==
    /\ now' \in Date
    /\ UNCHANGED <<read, served, started>>

\* The very first reading serves its own minute only.
Window == {m \in Minutes : IF served = None THEN m = read
                           ELSE /\ Before(served, cron_time_set(m))
                                /\ UpTo(cron_time_set(m), cron_time_set(read))}

\* queue has the services due at some minute of the window, each once and none
\* before one that was due earlier.
ServedInOrder(queue) ==
    /\ {queue[i] : i \in DOMAIN queue} = {s \in Service : \E m \in Window : Due(s, m)}
    /\ \A i, j \in DOMAIN queue : i < j =>
         /\ queue[i] # queue[j]
         /\ \E m \in Window :
              /\ Due(queue[i], m)
              /\ \A n \in Window :
                    Due(queue[j], n) => UpTo(cron_time_set(m), cron_time_set(n))

Read ==
    /\ read = None
    /\ served = None \/ Before(served, cron_time_set(now))
    /\ read' = now
    /\ UNCHANGED <<now, served, started>>

Serve ==
    /\ read # None
    /\ ServedInOrder(started')
    /\ served' = cron_time_set(read) /\ read' = None
    /\ UNCHANGED now

BackInTime ==
    /\ read = None /\ served # None /\ ~Before(served, cron_time_set(now))
    /\ served' = cron_time_set(now)
    /\ UNCHANGED <<now, read, started>>

Next == ClockMoves \/ Read \/ Serve \/ BackInTime

Spec == Init /\ [][Next]_vars
=============================================================================
