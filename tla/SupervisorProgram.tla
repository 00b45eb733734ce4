------------------------- MODULE SupervisorProgram -------------------------
(***************************************************************************)
(* src/src/programs/SupervisorProgram.cpp, composed with the services and  *)
(* the processes: bootstrap, the main loop, reaping, shutdown.             *)
(*                                                                         *)
(* pc names the place where the single thread of the supervisor is:        *)
(*   boot                 ServicesManager::Bootstrap                       *)
(*   wait, sched          MainLoop, ServicesManager::CheckSchedule         *)
(*   stop, stopwait       ServicesManager::Stop, in Service::Stop          *)
(*   await                the loop of StopAllServices                      *)
(*   term, termwait       TerminateAllProcess, its first kill and its loop *)
(*   reap, awaitreap, termreap   ReapProcesses, by its caller              *)
(*   final                the last ReapZombieProcess of Shutdown           *)
(*   exited, failed       main returned, normally or by an exception       *)
(***************************************************************************)
EXTENDS Services, SequencesExt

CONSTANTS
    OnBoot,    \* services whose scheduler says onBoot
    Scheduled  \* services with a cron expression

ASSUME SupervisorAssumption ==
    /\ OnBoot \cup Scheduled = Service
    /\ IsFiniteSet(Service)

VARIABLES
    pc,
    order,      \* the iteration order of the unordered_map of services
    todo,       \* services the loop in progress has yet to come to
    found,      \* the process ReapProcesses found ended, None between rounds
    timer,      \* the scheduler's timer is armed
    expired,    \* the timeout in force has passed
    ok,         \* "success" of ServicesManager::Stop so far
    gracefully, \* no SIGKILL has been sent
    exitcode    \* what Run returns, so far

programVars == <<pc, order, todo, found, timer, expired, ok, gracefully, exitcode>>
vars == <<processVars, serviceVars, programVars>>

Reaping  == {"reap", "awaitreap", "termreap"}
Shutdown == {"stop", "stopwait", "await", "awaitreap", "term", "termwait",
             "termreap", "final"}
Terminal == {"exited", "failed"}

\* Without repetition, in any order: what CheckSchedule may find to start.
Agendas == SetToAllKPermutations(Scheduled)

SupervisorTypeOK ==
    /\ pc \in {"boot", "wait", "sched", "reap"} \cup Shutdown \cup Terminal
    /\ order \in Seq(Service) /\ todo \in Seq(Service)
    /\ found \in Pid \cup {None}
    /\ {timer, expired, ok, gracefully} \subseteq BOOLEAN
    /\ exitcode \in {"success", "failure"}

TypeOK == ProcessesTypeOK /\ ServicesTypeOK /\ SupervisorTypeOK

Init ==
    /\ ProcessesInit /\ ServicesInit
    /\ pc = "boot"
    /\ order \in SetToSeqs(Service)
    /\ todo = order
    /\ found = None
    /\ timer = FALSE
    /\ expired = FALSE /\ ok = TRUE /\ gracefully = TRUE
    /\ exitcode = "success"

\* The thread is in this module's code, not in a call of Start, at the label.
At(label) == pc = label /\ callstack = <<>> /\ fault = "none"

-----------------------------------------------------------------------------
(* Bootstrap and CheckSchedule start one service after another.            *)

\* Mutant: the loop ends before its last service.
StartNext_OffByOne(label) ==
    /\ At(label)
    /\ \/ /\ Len(todo) > 1 /\ todo' = Tail(todo)
          /\ IF label = "sched" \/ Head(todo) \in OnBoot THEN Start(Head(todo))
             ELSE UNCHANGED <<callstack, fault>>
          /\ UNCHANGED <<pc, timer>>
       \/ /\ Len(todo) <= 1 /\ pc' = "wait" /\ todo' = <<>>
          /\ timer' = (timer \/ label = "sched") /\ UNCHANGED <<callstack, fault>>
    /\ UNCHANGED <<processVars, status, pid, exit_code,
                   order, found, expired, ok, gracefully, exitcode>>

\* One round of the loop, or its end: then the main loop waits for a signal,
\* after a tick with the scheduler's timer set for the next minute.
StartNext(label) ==
    /\ At(label)
    /\ \/ /\ todo # <<>> /\ todo' = Tail(todo)
          /\ IF label = "sched" \/ Head(todo) \in OnBoot THEN Start(Head(todo))
             ELSE UNCHANGED <<callstack, fault>>
          /\ UNCHANGED <<pc, timer>>
       \/ /\ todo = <<>> /\ pc' = "wait"
          /\ timer' = (timer \/ label = "sched")
          /\ UNCHANGED <<callstack, fault, todo>>
    /\ UNCHANGED <<processVars, status, pid, exit_code,
                   order, found, expired, ok, gracefully, exitcode>>

Bootstrap     == StartNext("boot")
CheckSchedule == StartNext("sched")

-----------------------------------------------------------------------------
(* MainLoop: one action per kind of signal sigwaitinfo returns.            *)

WaitSignal(label, sigs) ==
    /\ At(label) /\ pending # {}
    /\ NextSignal \in sigs
    /\ pending' = pending \ {NextSignal}
    /\ UNCHANGED <<proc, serviceVars>>

BeginShutdown ==
    /\ pc' = "stop" /\ todo' = order
    /\ UNCHANGED <<order, found, timer, expired, ok, gracefully>>

ReceiveAbort ==
    /\ WaitSignal("wait", {SIGABRT})
    /\ BeginShutdown /\ exitcode' = "failure"

ReceiveStop ==
    /\ WaitSignal("wait", {SIGINT, SIGTERM})
    /\ BeginShutdown /\ UNCHANGED exitcode

ReceiveChild ==
    /\ WaitSignal("wait", {SIGCHLD})
    /\ pc' = "reap"
    /\ UNCHANGED <<order, todo, found, timer, expired, ok, gracefully, exitcode>>

ReceiveTick ==
    /\ WaitSignal("wait", {SIGRTMAX})
    /\ pc' = "sched" /\ todo' \in Agendas
    /\ UNCHANGED <<order, found, timer, expired, ok, gracefully, exitcode>>

ReceiveOther ==
    /\ WaitSignal("wait", {SIGUSR1})
    /\ UNCHANGED programVars

-----------------------------------------------------------------------------
(* ReapProcesses: waitid finds an ended child, it is reaped and, from the  *)
(* main loop, its service restarted, until waitid finds no more.           *)

\* Mutant: waitid also returns a child that still runs.
Find_AnyChild ==
    /\ pc \in Reaping /\ At(pc) /\ found = None
    /\ found' \in Children(Atone)
    /\ UNCHANGED <<processVars, serviceVars, pc, order, todo, timer, expired,
                   ok, gracefully, exitcode>>

Find ==
    /\ pc \in Reaping /\ At(pc) /\ found = None
    /\ found' \in Children(Atone) \cap Zombies
    /\ UNCHANGED <<processVars, serviceVars, pc, order, todo, timer, expired,
                   ok, gracefully, exitcode>>

\* Mutant: one child is reaped for one SIGCHLD, as if signals were counted.
ReapingDone_OnePerSignal ==
    /\ pc \in Reaping /\ At(pc) /\ found = None
    /\ Children(Atone) # {}
    /\ pc' = CASE pc = "reap"      -> "wait"
              [] pc = "awaitreap" -> "await"
              [] pc = "termreap"  -> "termwait"
    /\ UNCHANGED <<processVars, serviceVars, order, todo, found, timer, expired,
                   ok, gracefully, exitcode>>

\* No child has ended: back to waiting for signals.
ReapingDone ==
    /\ pc \in Reaping /\ At(pc) /\ found = None
    /\ Children(Atone) # {} /\ Children(Atone) \cap Zombies = {}
    /\ pc' = CASE pc = "reap"      -> "wait"
              [] pc = "awaitreap" -> "await"
              [] pc = "termreap"  -> "termwait"
    /\ UNCHANGED <<processVars, serviceVars, order, todo, found, timer, expired,
                   ok, gracefully, exitcode>>

\* No child is left: the caller returns too.
NoChildLeft ==
    /\ pc \in Reaping /\ At(pc) /\ found = None
    /\ Children(Atone) = {}
    /\ IF pc = "reap" THEN BeginShutdown
       ELSE /\ pc' = IF pc = "awaitreap" THEN "term" ELSE "final"
            /\ UNCHANGED <<order, todo, found, timer, expired, ok, gracefully>>
    /\ UNCHANGED <<processVars, serviceVars, exitcode>>

\* Mutant: canRestart is asked before the process is collected.
ReapService_AskTooEarly(s) ==
    /\ pc \in Reaping /\ At(pc) /\ found # None
    /\ pid[s] = found
    /\ Collect(s)
    /\ IF pc = "reap" /\ canRestart(s) THEN Start(s) ELSE UNCHANGED <<callstack, fault>>
    /\ found' = None
    /\ UNCHANGED <<pending, pc, order, todo, timer, expired, ok, gracefully, exitcode>>

\* Mutant: restart_services is ignored.
ReapService_AlwaysRestart(s) ==
    /\ pc \in Reaping /\ At(pc) /\ found # None
    /\ pid[s] = found
    /\ Collect(s)
    /\ IF canRestart(s)' THEN Start(s) ELSE UNCHANGED <<callstack, fault>>
    /\ found' = None
    /\ UNCHANGED <<pending, pc, order, todo, timer, expired, ok, gracefully, exitcode>>

\* The process found is a service's, which is restarted when its policy says so.
ReapService(s) ==
    /\ pc \in Reaping /\ At(pc) /\ found # None
    /\ pid[s] = found
    /\ IF ~Collected(s)
       THEN /\ Throw("invalid service process state")
            /\ UNCHANGED <<proc, status, pid, exit_code>>
       ELSE /\ Collect(s)
            /\ IF pc = "reap" /\ canRestart(s)' THEN Start(s)
               ELSE UNCHANGED <<callstack, fault>>
    /\ found' = None
    /\ UNCHANGED <<pending, pc, order, todo, timer, expired, ok, gracefully, exitcode>>

ReapOther ==
    /\ pc \in Reaping /\ At(pc) /\ found # None
    /\ \A s \in Service : pid[s] # found
    /\ Reap(found)
    /\ found' = None
    /\ UNCHANGED <<pending, serviceVars, pc, order, todo, timer, expired, ok,
                   gracefully, exitcode>>

-----------------------------------------------------------------------------
(* Shutdown, first part: every service is told to stop, one by one.        *)

\* Service::Stop up to its wait: reap it, or send it SIGTERM, or nothing.
StopNext(s) ==
    /\ At("stop") /\ todo # <<>> /\ s = Head(todo)
    /\ \/ /\ ~isRunning(s)
          /\ todo' = Tail(todo)
          /\ UNCHANGED <<processVars, serviceVars, pc>>
       \/ /\ Collected(s) /\ Collect(s)
          /\ todo' = Tail(todo)
          /\ UNCHANGED <<pending, callstack, fault, pc>>
       \/ /\ isRunning(s) /\ StillRunning(pid[s])
          /\ proc' = [proc EXCEPT ![pid[s]].termed = TRUE]
          /\ pc' = "stopwait"
          /\ UNCHANGED <<pending, serviceVars, todo>>
    /\ UNCHANGED <<order, found, timer, expired, ok, gracefully, exitcode>>

\* The process ended within the 5 seconds of Service::Stop.
StopSucceeds(s) ==
    /\ At("stopwait") /\ todo # <<>> /\ s = Head(todo)
    /\ Collected(s) /\ Collect(s)
    /\ pc' = "stop" /\ todo' = Tail(todo)
    /\ UNCHANGED <<pending, callstack, fault, order, found, timer, expired, ok,
                   gracefully, exitcode>>

\* It did not; these 5 seconds began after those of the whole shutdown.
StopTimesOut(s) ==
    /\ At("stopwait") /\ todo # <<>> /\ s = Head(todo)
    /\ isRunning(s) /\ StillRunning(pid[s])
    /\ ok' = FALSE /\ expired' = TRUE
    /\ pc' = "stop" /\ todo' = Tail(todo)
    /\ UNCHANGED <<processVars, serviceVars, order, found, timer, gracefully, exitcode>>

AllToldToStop ==
    /\ At("stop") /\ todo = <<>>
    /\ pc' = IF ok THEN "term" ELSE "await"
    /\ UNCHANGED <<processVars, serviceVars, order, todo, found, timer, expired,
                   ok, gracefully, exitcode>>

\* The loop of StopAllServices goes on while some service runs.
AwaitSignal ==
    /\ WaitSignal("await", Signals)
    /\ \E s \in Service : isRunning(s)
    /\ pc' = IF NextSignal = SIGCHLD THEN "awaitreap" ELSE "await"
    /\ UNCHANGED <<order, todo, found, timer, expired, ok, gracefully, exitcode>>

AwaitEnds ==
    /\ At("await")
    /\ \/ \A s \in Service : ~isRunning(s)
       \/ expired /\ pending = {}
    /\ pc' = "term"
    /\ UNCHANGED <<processVars, serviceVars, order, todo, found, timer, expired,
                   ok, gracefully, exitcode>>

-----------------------------------------------------------------------------
(* Shutdown, second part: every process is terminated, then killed.        *)

TerminateAll ==
    /\ At("term")
    /\ IF Free = Pid THEN pc' = "final" /\ UNCHANGED proc
       ELSE TermAll /\ pc' = "termwait"
    /\ UNCHANGED <<pending, serviceVars, order, todo, found, timer, expired, ok,
                   gracefully, exitcode>>

\* Mutant: SIGCHLD is dropped like any other signal.
TermSignal_NoReap ==
    /\ WaitSignal("termwait", Signals)
    /\ UNCHANGED programVars

TermSignal ==
    /\ WaitSignal("termwait", Signals)
    /\ pc' = IF NextSignal = SIGCHLD THEN "termreap" ELSE "termwait"
    /\ UNCHANGED <<order, todo, found, timer, expired, ok, gracefully, exitcode>>

\* Mutant: Shutdown goes on right after SIGKILL.
TermTimesOut_NoWait ==
    /\ At("termwait") /\ expired /\ pending = {}
    /\ KillAll /\ gracefully' = FALSE /\ pc' = "final"
    /\ UNCHANGED <<pending, serviceVars, order, todo, found, timer, expired, ok, exitcode>>

\* The wait timed out: SIGKILL, and a new timeout of a millisecond.
TermTimesOut ==
    /\ At("termwait") /\ expired /\ pending = {}
    /\ IF Free = Pid
       THEN pc' = "final" /\ UNCHANGED <<proc, gracefully, expired>>
       ELSE KillAll /\ gracefully' = FALSE /\ expired' = FALSE /\ UNCHANGED pc
    /\ UNCHANGED <<pending, serviceVars, order, todo, found, timer, ok, exitcode>>

\* ReapZombieProcess(-1), one waitpid at a time, then Run returns.
FinalReap ==
    /\ At("final")
    /\ \/ \E p \in Children(Atone) \cap Zombies :
             Reap(p) /\ UNCHANGED <<pc, exitcode>>
       \/ /\ Children(Atone) \cap Zombies = {}
          /\ pc' = "exited"
          /\ exitcode' = IF gracefully THEN exitcode ELSE "failure"
          /\ UNCHANGED proc
    /\ UNCHANGED <<pending, serviceVars, order, todo, found, timer, expired, ok,
                   gracefully>>

-----------------------------------------------------------------------------
\* main catches every exception and returns EXIT_FAILURE, without Shutdown.
Abort ==
    /\ fault # "none" /\ pc # "failed"
    /\ pc' = "failed" /\ exitcode' = "failure"
    /\ UNCHANGED <<processVars, serviceVars, order, todo, found, timer, expired,
                   ok, gracefully>>

\* The passing of time: the minute of the scheduler, the timeout of Shutdown.
MinutePasses ==
    /\ timer /\ timer' = FALSE
    /\ pending' = pending \cup {SIGRTMAX}
    /\ UNCHANGED <<proc, serviceVars, pc, order, todo, found, expired, ok,
                   gracefully, exitcode>>

TimeoutPasses ==
    /\ pc \in Shutdown /\ ~expired /\ expired' = TRUE
    /\ UNCHANGED <<processVars, serviceVars, pc, order, todo, found, timer, ok,
                   gracefully, exitcode>>

Program ==
    \/ ServicesNext /\ UNCHANGED programVars
    \/ Bootstrap \/ CheckSchedule
    \/ ReceiveAbort \/ ReceiveStop \/ ReceiveChild \/ ReceiveTick \/ ReceiveOther
    \/ Find \/ ReapingDone \/ NoChildLeft \/ ReapOther
    \/ \E s \in Service :
          ReapService(s) \/ StopNext(s) \/ StopSucceeds(s) \/ StopTimesOut(s)
    \/ AllToldToStop \/ AwaitSignal \/ AwaitEnds
    \/ TerminateAll \/ TermSignal \/ TermTimesOut \/ FinalReap
    \/ Abort

Environment ==
    /\ pc \notin Terminal
    /\ \/ ProcessesNext /\ UNCHANGED <<serviceVars, programVars>>
       \/ MinutePasses \/ TimeoutPasses

\* Atone has exited, and with it the namespace it was the init process of.
Terminated == pc \in Terminal /\ UNCHANGED vars

Next == Program \/ Environment \/ Terminated

Spec == Init /\ [][Next]_vars
=============================================================================
