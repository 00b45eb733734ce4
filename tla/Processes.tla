----------------------------- MODULE Processes -----------------------------
(***************************************************************************)
(* The process table and the pending signals Atone works on: what the      *)
(* kernel does between and during the supervisor's system calls.  None of  *)
(* it is code of the repository; it is what src/src/system/Supervisor.cpp  *)
(* relies on.  Atone is the init process of its pid namespace, so every    *)
(* process here descends from it and orphans become its children.          *)
(***************************************************************************)
EXTENDS Naturals, FiniteSets

CONSTANTS
    Service,         \* the services of the configuration
    Pid,             \* process ids; its size is the process limit
    None,            \* no process (pid 0) or no service
    Atone,           \* the supervisor, as the parent of a process
    Forking,         \* services whose processes fork; None: whose descendants do
    OutsideSignals   \* signals that others may send to Atone at any time

\* Signals by number, the order in which sigwaitinfo dequeues them.  SIGINT
\* stands for SIGHUP, SIGINT and SIGQUIT, which the code treats alike, SIGUSR1
\* for every signal the code ignores, SIGRTMAX is ATONE_SCHEDULER_SIGNAL.
SIGINT   == 2
SIGABRT  == 6
SIGUSR1  == 10
SIGTERM  == 15
SIGCHLD  == 17
SIGRTMAX == 64
Signals  == {SIGINT, SIGABRT, SIGUSR1, SIGTERM, SIGCHLD, SIGRTMAX}

ASSUME ProcessesAssumption ==
    /\ None \notin Pid \cup Service
    /\ Atone \notin Pid
    /\ IsFiniteSet(Pid)
    /\ Forking \subseteq Service \cup {None}
    /\ OutsideSignals \subseteq Signals

VARIABLES
    proc,     \* Pid -> the process with that id
    pending   \* signals pending for Atone; a set, as equal signals coalesce

processVars == <<proc, pending>>

\* How a process ends: WIFEXITED with status 0, with another one, WIFSIGNALED.
ExitStatus == {"success", "failure", "signalled"}

\* service: the service Atone spawned it for.  fate: its wait status once that
\* is decided, "none" before.  termed: it has been sent SIGTERM by Atone.
Process == [state: {"free", "running", "zombie"}, service: Service \cup {None},
            parent: Pid \cup {Atone}, fate: ExitStatus \cup {"none"},
            termed: BOOLEAN]

NoProcess == [state |-> "free", service |-> None, parent |-> Atone,
              fate |-> "none", termed |-> FALSE]

NewProcess(s, parent, fate) ==
    [state |-> "running", service |-> s, parent |-> parent, fate |-> fate,
     termed |-> FALSE]

Free        == {p \in Pid : proc[p].state = "free"}
Running     == {p \in Pid : proc[p].state = "running"}
Zombies     == {p \in Pid : proc[p].state = "zombie"}
Children(q) == {p \in Pid \ Free : proc[p].parent = q}

NextSignal == CHOOSE sig \in pending : \A other \in pending : sig <= other

ProcessesTypeOK ==
    /\ proc \in [Pid -> Process]
    /\ \A p \in Zombies : proc[p].fate # "none"
    /\ pending \subseteq Signals

ProcessesInit ==
    /\ proc = [p \in Pid |-> NoProcess]
    /\ pending = {SIGRTMAX}

-----------------------------------------------------------------------------
(* System calls of the supervisor, as the kernel executes them.            *)

\* waitpid(p, WNOHANG) returns 0: p is a child that has not ended.
StillRunning(p) == p \in Children(Atone) \cap Running

\* The status waitpid stores.  When p is no child (ECHILD) the caller's 0 stays.
WaitStatus(p) == IF p \in Children(Atone) THEN proc[p].fate ELSE "success"

\* waitpid(p, WNOHANG) when p is not running; nothing happens when p is no child.
Reap(p) ==
    proc' = IF p \in Children(Atone) THEN [proc EXCEPT ![p] = NoProcess] ELSE proc

\* kill(-1, SIGTERM) and kill(-1, SIGKILL) reach every process, never fork in between.
TermAll == proc' = [p \in Pid |-> IF p \in Running
                                  THEN [proc[p] EXCEPT !.termed = TRUE]
                                  ELSE proc[p]]

KillAll == proc' = [p \in Pid |-> IF p \in Running /\ proc[p].fate = "none"
                                  THEN [proc[p] EXCEPT !.fate = "signalled"]
                                  ELSE proc[p]]

-----------------------------------------------------------------------------
(* What the processes and the outside world do on their own.               *)

\* A running process creates a child, which is no service's process.
Fork(p) ==
    /\ p \in Running /\ proc[p].fate = "none" /\ proc[p].service \in Forking
    /\ \E q \in Free : proc' = [proc EXCEPT ![q] = NewProcess(None, p, "none")]
    /\ UNCHANGED pending

\* p ends and becomes a zombie.  Its children, zombies included, go to Atone,
\* which is told of its own child's end and of every zombie it inherits.  Only
\* the wait status of a service's process is ever looked at.
Exit(p) ==
    /\ p \in Running
    /\ \E fate \in ExitStatus :
          /\ proc[p].fate # "none" => fate = proc[p].fate
          /\ proc[p].service = None /\ proc[p].fate = "none" => fate = "success"
          /\ proc' = [q \in Pid |->
                        IF q = p THEN [proc[p] EXCEPT !.state = "zombie", !.fate = fate]
                        ELSE IF q \in Children(p) THEN [proc[q] EXCEPT !.parent = Atone]
                        ELSE proc[q]]
    /\ pending' = IF proc[p].parent = Atone \/ Children(p) \cap Zombies # {}
                  THEN pending \cup {SIGCHLD} ELSE pending

\* A process other than Atone waits for its own child p.
CollectElsewhere(p) ==
    /\ p \in Zombies /\ proc[p].parent # Atone
    /\ proc' = [proc EXCEPT ![p] = NoProcess]
    /\ UNCHANGED pending

OutsideSignal(sig) ==
    /\ sig \in OutsideSignals \ pending
    /\ pending' = pending \cup {sig}
    /\ UNCHANGED proc

ProcessesNext ==
    \/ \E p \in Pid : Fork(p) \/ Exit(p) \/ CollectElsewhere(p)
    \/ \E sig \in Signals : OutsideSignal(sig)

\* A process whose end is decided (SIGKILL, failed exec) does end.
MustExit(p) == proc[p].fate # "none" /\ Exit(p)
=============================================================================
