------------------------ MODULE SupervisorProperties ------------------------
(***************************************************************************)
(* What the supervisor promises of its services and its processes, and the *)
(* fairness under which it gets things done.                               *)
(***************************************************************************)
EXTENDS SupervisorProgram

Dependencies(s) == ToSet(DependsOn[s])

\* The step creates a process for s.
Spawned(s) == pid'[s] # None /\ pid'[s] # pid[s]

\* Children of Atone that ended and wait to be reaped.
Ended == Children(Atone) \cap Zombies

-----------------------------------------------------------------------------
(* Services                                                                *)

\* A service never has two processes and its recorded pid is never stale:
\* until the last reaping of Shutdown, state.pid is the one process of the
\* service that exists, reaped or forgotten together with it.
OneInstance ==
    pc \notin {"final"} \cup Terminal =>
        \A s \in Service, p \in Pid : pid[s] = p <=> proc[p].service = s

\* Whoever notices the end of a process (ReapProcesses, or StartProcess in the
\* middle of starting something else), when the main loop waits again no
\* service is down that the documented restart policy wants up.
PolicyApplied ==
    At("wait") => \A s \in Service : status[s] = "Broken" =>
        \/ RestartPolicy[s] = "no"
        \/ RestartPolicy[s] = "on-failure" /\ exit_code[s] = "success"

\* When the main loop first waits, every service meant for boot was started and
\* so was all it depends on (ServicesManager::Bootstrap, Service::Start).
BootComplete ==
    pc = "wait" =>
        \A s \in OnBoot \cup UNION {Dependencies(t) : t \in OnBoot} :
            status[s] # "NotStarted"

\* A process is spawned for s only while every dependency of s has a process
\* (docs/atone-configuration-file.md:33), restarts and ticks included.
DependenciesFirst ==
    [][\A s \in Service : Spawned(s) => \A d \in Dependencies(s) : isRunning(d)]_vars

\* Services with a dependency cycle or an unknown name among what they need:
\* the largest set in which each needs a member of the set or no service.
Unstartable == UNION {S \in SUBSET Service :
                        \A s \in S : Dependencies(s) \cap (S \cup (Name \ Service)) # {}}

\* Such a service is never started, whoever asks for it (Service::Start).
UnstartableNeverRun == \A s \in Unstartable : status[s] = "NotStarted" /\ ~isRunning(s)

\* The supervisor gives up only for a reason: the configuration has a cycle or
\* an unknown name, or fork failed; it never finds its own records wrong.
FaultsAreReal ==
    /\ fault \in {"circular dependency", "service not found"} => Unstartable # {}
    /\ fault \notin {"invalid dependency state", "invalid service process state"}

-----------------------------------------------------------------------------
(* Processes                                                               *)

\* Equal signals coalesce, yet no wake-up is lost: when the supervisor is in
\* sigwaitinfo or sigtimedwait and a child has ended, SIGCHLD is pending.
NoLostChild ==
    (At("wait") \/ At("await") \/ At("termwait")) /\ Ended # {} => SIGCHLD \in pending

\* Once the supervisor shuts down, no service is started any more.
NoStartInShutdown ==
    [][\A s \in Service : Spawned(s) => pc \notin Shutdown]_vars

\* SIGKILL is the last resort: a service's process was sent SIGTERM before it.
TermBeforeKill ==
    [][\A p \in Pid :
          /\ p \in Running /\ proc[p].service # None /\ proc[p].fate = "none"
          /\ proc'[p].state = "running" /\ proc'[p].fate = "signalled"
          => proc[p].termed]_vars

\* When Run returns from Shutdown no process is left, not even a zombie.
NothingLeftBehind == pc = "exited" => Free = Pid

-----------------------------------------------------------------------------
(* Liveness                                                                *)

\* The supervisor's thread keeps running, time passes, a process that was
\* killed or could not execute its program ends.  waitid returns the child
\* that has waited longest, so no ended child is passed over for ever.
Fairness ==
    /\ WF_vars(Program) /\ WF_vars(TimeoutPasses)
    /\ \A p \in Pid :
          /\ WF_vars(MustExit(p) /\ UNCHANGED <<serviceVars, programVars>>)
          /\ SF_vars(Find /\ found' = p)

FairSpec == Spec /\ Fairness

\* Others stop sending signals and creating processes.  A storm of either can
\* keep sigtimedwait from ever timing out.
QuietInTheEnd ==
    <>[][~(\/ \E sig \in Signals : OutsideSignal(sig)
           \/ \E p \in Pid : Fork(p))]_vars

\* Shutdown ends, with processes that ignore SIGTERM and whatever happens while
\* it waits: SIGKILL is sent in the end and its victims are reaped.
ShutdownCompletes == QuietInTheEnd => (pc \in Shutdown ~> pc = "exited")

\* Every child that ended, orphans included, is reaped (README.md:12).
ZombiesReaped ==
    QuietInTheEnd => \A p \in Pid : p \in Ended ~> p \notin Ended \/ pc \in Terminal

\* The process of a service with policy "always" ends: it is spawned again,
\* unless the supervisor shuts down.
AlwaysRestarted ==
    QuietInTheEnd =>
        \A s \in Service : RestartPolicy[s] = "always" =>
            (isRunning(s) /\ ~StillRunning(pid[s])
                ~> (isRunning(s) /\ StillRunning(pid[s])) \/ pc \in Shutdown \cup Terminal)

-----------------------------------------------------------------------------
(* What the documentation says and the code does not do.                   *)

\* docs/atone-configuration-file.md:45: a service with policy "no" is not
\* restarted once it has run; only its schedule may start it again.
NeverRestarted ==
    [][\A s \in Service \ Scheduled :
          RestartPolicy[s] = "no" /\ status[s] = "Broken" => ~Spawned(s)]_vars

\* docs/atone-configuration-file.md:52: a scheduled service is started when its
\* time comes, so the main loop does not end for want of processes before.
WaitsForSchedule == [][NoChildLeft /\ pc = "reap" => Scheduled = {}]_vars

\* SupervisorProgram.cpp:110: SIGTERM makes the main loop end.
StopHonoured ==
    QuietInTheEnd => (SIGTERM \in pending ~> pc \in Shutdown \cup Terminal)
=============================================================================
