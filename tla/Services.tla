------------------------------ MODULE Services ------------------------------
(***************************************************************************)
(* src/src/service: the state of each service and the operations that      *)
(* start it, with its dependencies, and observe the end of its process.    *)
(* A step of an operation ends at each system call, where processes and    *)
(* signals may get ahead of the supervisor; steps in memory are atomic.    *)
(***************************************************************************)
EXTENDS Processes, Sequences

CONSTANTS
    Name,          \* names that may be written in depends_on
    DependsOn,     \* Service -> its depends_on, in the order of the file
    RestartPolicy, \* Service -> "no", "always", "on-failure", "unless-stopped"
    ExecMayFail    \* services whose command execvp may refuse

ASSUME ServicesAssumption ==
    /\ Service \subseteq Name
    /\ DependsOn \in [Service -> Seq(Name)]
    /\ RestartPolicy \in [Service -> {"no", "always", "on-failure", "unless-stopped"}]
    /\ ExecMayFail \subseteq Service

VARIABLES
    status,     \* Service -> ServiceStatus
    pid,        \* Service -> its process, None for the 0 of the code
    exit_code,  \* Service -> how its last process ended; "unset" before any
    callstack,  \* the calls of Start in progress, outermost first
    fault       \* the exception on its way to main, "none" if there is none

serviceVars == <<status, pid, exit_code, callstack, fault>>

ServiceStatus == {"NotStarted", "Running", "Stopped", "Broken"}

Faults == {"none", "circular dependency", "service not found", "fork failed",
           "invalid dependency state", "invalid service process state"}

\* A call of Start: the service and the dependencies it has yet to look at.
Frame == [service: Service, deps: Seq(Service)]

ServicesTypeOK ==
    /\ status \in [Service -> ServiceStatus]
    /\ pid \in [Service -> Pid \cup {None}]
    /\ exit_code \in [Service -> ExitStatus \cup {"unset"}]
    /\ callstack \in Seq(Frame)
    /\ fault \in Faults

ServicesInit ==
    /\ status = [s \in Service |-> "NotStarted"]
    /\ pid = [s \in Service |-> None]
    /\ exit_code = [s \in Service |-> "unset"]
    /\ callstack = <<>>
    /\ fault = "none"

-----------------------------------------------------------------------------
isRunning(s) == pid[s] # None

canRestart(s) ==
    /\ ~isRunning(s)
    /\ CASE RestartPolicy[s] = "no"             -> FALSE
         [] RestartPolicy[s] = "always"         -> TRUE
         [] RestartPolicy[s] = "on-failure"     -> exit_code[s] # "success"
         [] RestartPolicy[s] = "unless-stopped" -> status[s] # "Stopped"

\* CheckProcessState finds a process that ended: it is reaped, its service Broken.
Collected(s) == isRunning(s) /\ ~StillRunning(pid[s])

Collect(s) ==
    /\ Reap(pid[s])
    /\ pid' = [pid EXCEPT ![s] = None]
    /\ status' = [status EXCEPT ![s] = "Broken"]
    /\ exit_code' = [exit_code EXCEPT ![s] = WaitStatus(pid[s])]

Throw(exception) == fault' = exception /\ callstack' = <<>>

-----------------------------------------------------------------------------
(* Service::Start                                                          *)

Callers(stack) == {stack[i].service : i \in DOMAIN stack}

\* Mutant: names in depends_on are not looked up.
StartError_NoLookup(s, stack) ==
    IF s \in Callers(stack) THEN "circular dependency" ELSE "none"

\* The exception Start(s) raises at once when called from stack, or "none".
StartError(s, stack) ==
    IF s \in Callers(stack) THEN "circular dependency"
    ELSE IF \E i \in DOMAIN DependsOn[s] : DependsOn[s][i] \notin Service
         THEN "service not found"
    ELSE "none"

Enter(s, stack) == Append(stack, [service |-> s, deps |-> DependsOn[s]])

\* Start(s), called with nothing on the stack.
Start(s) ==
    IF StartError(s, <<>>) # "none" THEN Throw(StartError(s, <<>>))
    ELSE callstack' = Enter(s, <<>>) /\ UNCHANGED fault

Top    == callstack[Len(callstack)]
Caller == SubSeq(callstack, 1, Len(callstack) - 1)
Return == callstack' = Caller

\* The innermost call goes on to its next dependency.
NextDependency == [callstack EXCEPT ![Len(callstack)].deps = Tail(@)]

Executing == callstack # <<>> /\ fault = "none"

\* Mutant: a dependency already being started counts as started.
StartDependency_SkipCycle ==
    /\ Executing /\ Top.deps # <<>>
    /\ LET d    == Head(Top.deps)
           rest == NextDependency
       IN  IF status[d] = "Running" \/ d \in Callers(callstack)
           THEN callstack' = rest ELSE callstack' = Enter(d, rest)
    /\ UNCHANGED <<processVars, status, pid, exit_code, fault>>

\* Mutant: a dependency is started once; one that broke is left as it is.
StartDependency_OnlyNew ==
    /\ Executing /\ Top.deps # <<>>
    /\ LET d    == Head(Top.deps)
           rest == NextDependency
       IN  IF status[d] # "NotStarted" THEN callstack' = rest
           ELSE callstack' = Enter(d, rest)
    /\ UNCHANGED <<processVars, status, pid, exit_code, fault>>

\* One round of the loop over the dependencies of the innermost call.
StartDependency ==
    /\ Executing /\ Top.deps # <<>>
    /\ LET d     == Head(Top.deps)
           rest  == NextDependency
           error == IF status[d] = "Stopped" /\ ~canRestart(d)
                    THEN "invalid dependency state" ELSE StartError(d, rest)
       IN  \/ status[d] = "Running" /\ callstack' = rest /\ UNCHANGED fault
           \/ status[d] # "Running" /\ error = "none"
              /\ callstack' = Enter(d, rest) /\ UNCHANGED fault
           \/ status[d] # "Running" /\ error # "none" /\ Throw(error)
    /\ UNCHANGED <<processVars, status, pid, exit_code>>

\* StartProcess begins when every dependency of the innermost call is done.
StartingProcess(s) == Executing /\ Top.deps = <<>> /\ Top.service = s

\* The service's process still runs: nothing to do.
AlreadyRunning(s) ==
    /\ StartingProcess(s)
    /\ isRunning(s) /\ StillRunning(pid[s])
    /\ Return
    /\ UNCHANGED <<processVars, status, pid, exit_code, fault>>

\* The service's process ended unnoticed: it is reaped before the spawn.
CollectBeforeSpawn(s) ==
    /\ StartingProcess(s)
    /\ Collected(s) /\ Collect(s)
    /\ UNCHANGED <<pending, callstack, fault>>

\* Mutant: a process is spawned although the service has one.
Spawn_Unchecked(s) ==
    /\ StartingProcess(s)
    /\ \E p \in Free : /\ pid' = [pid EXCEPT ![s] = p]
                       /\ proc' = [proc EXCEPT ![p] = NewProcess(s, Atone, "none")]
    /\ status' = [status EXCEPT ![s] = "Running"]
    /\ exit_code' = [exit_code EXCEPT ![s] = "success"]
    /\ Return
    /\ UNCHANGED <<pending, fault>>

\* vfork and execvp.  The supervisor goes on when the child has executed its
\* program or is about to exit, having sent SIGABRT to Atone, because it could not.
Spawn(s) ==
    /\ StartingProcess(s) /\ ~isRunning(s)
    /\ \E p \in Free :
          /\ pid' = [pid EXCEPT ![s] = p]
          /\ \/ /\ proc' = [proc EXCEPT ![p] = NewProcess(s, Atone, "none")]
                /\ UNCHANGED pending
             \/ /\ s \in ExecMayFail
                /\ proc' = [proc EXCEPT ![p] = NewProcess(s, Atone, "failure")]
                /\ pending' = pending \cup {SIGABRT}
    /\ status' = [status EXCEPT ![s] = "Running"]
    /\ exit_code' = [exit_code EXCEPT ![s] = "success"]
    /\ Return
    /\ UNCHANGED fault

\* vfork fails at the process limit.
SpawnFails(s) ==
    /\ StartingProcess(s) /\ ~isRunning(s)
    /\ Free = {}
    /\ status' = [status EXCEPT ![s] = "Broken"]
    /\ Throw("fork failed")
    /\ UNCHANGED <<processVars, pid, exit_code>>

ServicesNext ==
    \/ StartDependency
    \/ \E s \in Service :
          AlreadyRunning(s) \/ CollectBeforeSpawn(s) \/ Spawn(s) \/ SpawnFails(s)
=============================================================================
