-------------------------- MODULE SupervisorProofs --------------------------
(***************************************************************************)
(* Theorems about the supervisor and its processes, for every              *)
(* configuration of services and every number of processes: pids never go  *)
(* stale, no ended child is overlooked, Shutdown starts nothing, sends     *)
(* SIGTERM before SIGKILL and leaves nothing behind.                       *)
(***************************************************************************)
EXTENDS SupervisorProperties, SequenceTheorems, FiniteSetTheorems, TLAPS

-----------------------------------------------------------------------------
(* The callstack                                                           *)

\* The innermost frame of a callstack, and the callers below it.
LEMMA TopFrame ==
  ASSUME callstack \in Seq(Frame), callstack # <<>>
  PROVE  /\ Len(callstack) \in Nat \ {0}
         /\ DOMAIN callstack = 1 .. Len(callstack)
         /\ Top \in Frame
         /\ Caller \in Seq(Frame)
<1>1. Len(callstack) \in Nat \ {0} /\ DOMAIN callstack = 1 .. Len(callstack)
  BY EmptySeq, LenProperties
<1>2. \A i \in 1 .. Len(callstack) : callstack[i] \in Frame
  BY ElementOfSeq
<1>3. Caller \in Seq(Frame)
  <2>1. \A i \in 1 .. Len(callstack) - 1 : callstack[i] \in Frame
    BY <1>1, <1>2
  <2> QED  BY <1>1, <2>1, SubSeqProperties DEF Caller
<1> QED  BY <1>1, <1>2, <1>3 DEF Top

\* Going on to the next dependency leaves a callstack.
LEMMA NextDependencyType ==
  ASSUME callstack \in Seq(Frame), callstack # <<>>, Top.deps # <<>>
  PROVE  /\ Head(Top.deps) \in Service
         /\ NextDependency \in Seq(Frame)
<1>1. Len(callstack) \in 1 .. Len(callstack) /\ Top \in Frame
  BY TopFrame
<1>2. Head(Top.deps) \in Service /\ Tail(Top.deps) \in Seq(Service)
  BY <1>1, HeadTailProperties DEF Frame
<1>3. [Top EXCEPT !.deps = Tail(Top.deps)] \in Frame
  BY <1>1, <1>2 DEF Frame
<1>4. NextDependency = [callstack EXCEPT ![Len(callstack)] = [Top EXCEPT !.deps = Tail(Top.deps)]]
  BY DEF NextDependency, Top
<1> QED  BY <1>1, <1>2, <1>3, <1>4, ExceptSeq

\* A service whose dependencies are all configured can be entered.
LEMMA EnterType ==
  ASSUME NEW s \in Service, NEW stack \in Seq(Frame), StartError(s, stack) = "none"
  PROVE  Enter(s, stack) \in Seq(Frame)
<1>1. DependsOn[s] \in Seq(Name)
  BY ServicesAssumption
<1>2. \A i \in 1 .. Len(DependsOn[s]) : DependsOn[s][i] \in Service
  BY <1>1, LenProperties DEF StartError
<1>3. DependsOn[s] \in Seq(Service)
  BY <1>1, <1>2, LenProperties
<1>4. [service |-> s, deps |-> DependsOn[s]] \in Frame
  BY <1>3 DEF Frame
<1> QED  BY <1>4, AppendProperties DEF Enter

\* What Start leaves: a callstack and perhaps an exception.
LEMMA StartType ==
  ASSUME NEW s \in Service, Start(s), fault \in Faults
  PROVE  callstack' \in Seq(Frame) /\ fault' \in Faults
<1>1. StartError(s, <<>>) \in Faults
  BY DEF StartError, Faults
<1>2. <<>> \in Seq(Frame)
  BY EmptySeq
<1> QED  BY <1>1, <1>2, EnterType DEF Start, Throw

\* Any arrangement of services without repetition is a sequence of services.
LEMMA ArrangementType ==
  ASSUME NEW S \in SUBSET Service, NEW seq \in SetToSeqs(S)
  PROVE  seq \in Seq(Service)
<1>1. Cardinality(S) \in Nat
  BY SupervisorAssumption, FS_Subset, FS_CardinalityType
<1>2. seq \in [1 .. Cardinality(S) -> S]
  BY DEF SetToSeqs
<1> QED  BY <1>1, <1>2

-----------------------------------------------------------------------------
(* Types                                                                   *)

LEMMA TypeInit == Init => TypeOK
<1> SUFFICES ASSUME Init PROVE TypeOK
  OBVIOUS
<1>1. ProcessesTypeOK
  BY DEF Init, ProcessesInit, ProcessesTypeOK, Process, NoProcess, Zombies, Signals,
         SIGRTMAX, ExitStatus
<1>2. ServicesTypeOK
  BY EmptySeq DEF Init, ServicesInit, ServicesTypeOK, ServiceStatus, Faults
<1>3. order \in Seq(Service)
  BY ArrangementType DEF Init
<1> QED  BY <1>1, <1>2, <1>3 DEF Init, TypeOK, SupervisorTypeOK

\* What the processes do keeps the process table and the signals well formed.
LEMMA ProcessesTypeNext ==
  ASSUME ProcessesTypeOK, ProcessesNext
  PROVE  ProcessesTypeOK'
<1> USE DEF ProcessesTypeOK, Zombies
<1>1. CASE \E p \in Pid : Fork(p)
  BY <1>1 DEF Fork, NewProcess, Process, Free, Running, ExitStatus
<1>2. CASE \E p \in Pid : Exit(p)
  <2> PICK p \in Pid : Exit(p)
    BY <1>2
  <2> PICK fate \in ExitStatus :
          proc' = [q \in Pid |->
                    IF q = p THEN [proc[p] EXCEPT !.state = "zombie", !.fate = fate]
                    ELSE IF q \in Children(p) THEN [proc[q] EXCEPT !.parent = Atone]
                    ELSE proc[q]]
    BY DEF Exit
  <2>1. [proc[p] EXCEPT !.state = "zombie", !.fate = fate] \in Process
    BY DEF Process
  <2>2. \A q \in Pid : [proc[q] EXCEPT !.parent = Atone] \in Process
    BY DEF Process
  <2>3. proc' \in [Pid -> Process]
    BY <2>1, <2>2
  <2>4. \A q \in Zombies' : proc'[q].fate # "none"
    BY DEF Process, ExitStatus
  <2>5. pending' \subseteq Signals
    BY DEF Exit, Signals
  <2> QED  BY <2>3, <2>4, <2>5
<1>3. CASE \E p \in Pid : CollectElsewhere(p)
  BY <1>3 DEF CollectElsewhere, NoProcess, Process, ExitStatus
<1>4. CASE \E sig \in Signals : OutsideSignal(sig)
  BY <1>4 DEF OutsideSignal
<1> QED  BY <1>1, <1>2, <1>3, <1>4 DEF ProcessesNext

\* Freeing a pid keeps the process table well formed.
LEMMA ReapType ==
  ASSUME ProcessesTypeOK, NEW p \in Pid, Reap(p), pending' \subseteq Signals
  PROVE  ProcessesTypeOK'
<1>1. NoProcess \in Process
  BY DEF NoProcess, Process, ExitStatus
<1> QED  BY <1>1 DEF Reap, ProcessesTypeOK, Zombies, NoProcess

\* Collecting an ended process keeps the types of all it changes.
LEMMA CollectType ==
  ASSUME ProcessesTypeOK, ServicesTypeOK, NEW s \in Service, Collected(s), Collect(s),
         pending' \subseteq Signals
  PROVE  /\ ProcessesTypeOK'
         /\ pid' \in [Service -> Pid \cup {None}]
         /\ status' \in [Service -> ServiceStatus]
         /\ exit_code' \in [Service -> ExitStatus \cup {"unset"}]
<1>1. pid[s] \in Pid
  BY DEF Collected, isRunning, ServicesTypeOK
<1>2. ProcessesTypeOK'
  BY <1>1, ReapType DEF Collect
<1>3. WaitStatus(pid[s]) \in ExitStatus
  BY <1>1 DEF Collected, WaitStatus, StillRunning, Children, Running, Zombies, Free,
              ProcessesTypeOK, Process, ExitStatus
<1> QED  BY <1>2, <1>3 DEF Collect, ServicesTypeOK, ServiceStatus

\* The operations of the services.
LEMMA ServicesTypeNext ==
  ASSUME ProcessesTypeOK, ServicesTypeOK, ServicesNext
  PROVE  ProcessesTypeOK' /\ ServicesTypeOK'
<1>1. CASE StartDependency
  <2>1. /\ Head(Top.deps) \in Service
        /\ NextDependency \in Seq(Frame)
    BY <1>1, NextDependencyType DEF StartDependency, Executing, ServicesTypeOK
  <2>2. <<>> \in Seq(Frame)
    BY EmptySeq
  <2>3. StartError(Head(Top.deps), NextDependency) \in Faults
    BY DEF StartError, Faults
  <2>4. callstack' \in Seq(Frame) /\ fault' \in Faults
    BY <1>1, <2>1, <2>2, <2>3, EnterType
       DEF StartDependency, Throw, ServicesTypeOK, Faults
  <2> QED  BY <1>1, <2>4 DEF StartDependency, ServicesTypeOK, processVars, ProcessesTypeOK, Zombies
<1>2. ASSUME NEW s \in Service, AlreadyRunning(s) PROVE ProcessesTypeOK' /\ ServicesTypeOK'
  BY <1>2, TopFrame DEF AlreadyRunning, StartingProcess, Executing, Return,
     ServicesTypeOK, processVars, ProcessesTypeOK, Zombies
<1>3. ASSUME NEW s \in Service, CollectBeforeSpawn(s) PROVE ProcessesTypeOK' /\ ServicesTypeOK'
  <2>1. pending' \subseteq Signals
    BY <1>3 DEF CollectBeforeSpawn, ProcessesTypeOK
  <2> QED  BY <1>3, <2>1, CollectType DEF CollectBeforeSpawn, ServicesTypeOK
<1>4. ASSUME NEW s \in Service, Spawn(s) PROVE ProcessesTypeOK' /\ ServicesTypeOK'
  <2>1. callstack' \in Seq(Frame)
    BY <1>4, TopFrame DEF Spawn, StartingProcess, Executing, Return, ServicesTypeOK
  <2>2. PICK p \in Pid, fate \in {"none", "failure"} :
            proc' = [proc EXCEPT ![p] = NewProcess(s, Atone, fate)]
    BY <1>4 DEF Spawn, Free
  <2>3. NewProcess(s, Atone, fate) \in Process /\ NewProcess(s, Atone, fate).state = "running"
    BY DEF NewProcess, Process, ExitStatus
  <2>4. pending' \subseteq Signals
    BY <1>4 DEF Spawn, ProcessesTypeOK, Signals
  <2>5. ProcessesTypeOK'
    BY <2>2, <2>3, <2>4 DEF ProcessesTypeOK, Zombies
  <2> QED  BY <1>4, <2>1, <2>5 DEF Spawn, ServicesTypeOK, ServiceStatus, ExitStatus, Free
<1>5. ASSUME NEW s \in Service, SpawnFails(s) PROVE ProcessesTypeOK' /\ ServicesTypeOK'
  BY <1>5, EmptySeq DEF SpawnFails, Throw, ServicesTypeOK, ServiceStatus, Faults,
     processVars, ProcessesTypeOK, Zombies
<1> QED  BY <1>1, <1>2, <1>3, <1>4, <1>5 DEF ServicesNext

\* The steps of SupervisorProgram.cpp, by the part of the program they belong to.
Starting  == Bootstrap \/ CheckSchedule
Receiving == ReceiveAbort \/ ReceiveStop \/ ReceiveChild \/ ReceiveTick \/ ReceiveOther
Stopping(s) == StopNext(s) \/ StopSucceeds(s) \/ StopTimesOut(s)
Awaiting  == AllToldToStop \/ AwaitSignal \/ AwaitEnds
Terminating == TerminateAll \/ TermSignal \/ TermTimesOut \/ FinalReap

LEMMA StartingType ==
  ASSUME TypeOK, Starting
  PROVE  TypeOK'
<1> PICK label \in {"boot", "sched"} : StartNext(label)
  BY DEF Starting, Bootstrap, CheckSchedule
<1> USE DEF TypeOK
<1>1. ProcessesTypeOK'
  BY DEF StartNext, processVars, ProcessesTypeOK, Zombies
<1>2. CASE todo # <<>> /\ todo' = Tail(todo)
  <2>1. Head(todo) \in Service /\ todo' \in Seq(Service)
    BY <1>2, HeadTailProperties DEF SupervisorTypeOK
  <2>2. callstack' \in Seq(Frame) /\ fault' \in Faults
    BY <1>2, <2>1, StartType DEF StartNext, ServicesTypeOK
  <2> QED  BY <1>1, <1>2, <2>1, <2>2 DEF StartNext, ServicesTypeOK, SupervisorTypeOK
<1>3. CASE todo = <<>> /\ UNCHANGED todo
  BY <1>1, <1>3 DEF StartNext, ServicesTypeOK, SupervisorTypeOK
<1> QED  BY <1>2, <1>3 DEF StartNext

LEMMA ReceivingType ==
  ASSUME TypeOK, Receiving
  PROVE  TypeOK'
<1> USE DEF TypeOK
<1>1. PICK label, sigs : WaitSignal(label, sigs)
  BY DEF Receiving, ReceiveAbort, ReceiveStop, ReceiveChild, ReceiveTick, ReceiveOther
<1>2. ProcessesTypeOK' /\ ServicesTypeOK'
  BY <1>1 DEF WaitSignal, serviceVars, ProcessesTypeOK, Zombies, ServicesTypeOK
<1>3. CASE ReceiveAbort \/ ReceiveStop \/ ReceiveChild \/ ReceiveOther
  BY <1>2, <1>3 DEF ReceiveAbort, ReceiveStop, ReceiveChild, ReceiveOther, BeginShutdown,
     Shutdown, SupervisorTypeOK, programVars
<1>4. CASE ReceiveTick
  <2>1. Scheduled \subseteq Service
    BY SupervisorAssumption
  <2>2. todo' \in Seq(Service)
    BY <1>4, <2>1, ArrangementType DEF ReceiveTick, Agendas, SetToAllKPermutations
  <2> QED  BY <1>2, <1>4, <2>2 DEF ReceiveTick, SupervisorTypeOK
<1> QED  BY <1>3, <1>4 DEF Receiving

LEMMA ReapingType ==
  ASSUME TypeOK,
         Find \/ ReapingDone \/ NoChildLeft \/ ReapOther \/ (\E s \in Service : ReapService(s))
  PROVE  TypeOK'
<1> USE DEF TypeOK
<1>1. CASE Find
  BY <1>1 DEF Find, processVars, serviceVars, Zombies, ProcessesTypeOK, ServicesTypeOK,
     SupervisorTypeOK
<1>2. CASE ReapingDone \/ NoChildLeft
  <2>1. ProcessesTypeOK' /\ ServicesTypeOK'
    BY <1>2 DEF ReapingDone, NoChildLeft, processVars, serviceVars, Zombies,
       ProcessesTypeOK, ServicesTypeOK
  <2>2. pc' \in {"wait"} \cup Shutdown
    BY <1>2 DEF ReapingDone, NoChildLeft, BeginShutdown, Reaping, Shutdown
  <2>3. todo' \in {todo, order}
    BY <1>2 DEF ReapingDone, NoChildLeft, BeginShutdown
  <2> QED  BY <1>2, <2>1, <2>2, <2>3 DEF ReapingDone, NoChildLeft, BeginShutdown, SupervisorTypeOK
<1>3. CASE ReapOther
  <2>1. found \in Pid /\ pending' \subseteq Signals
    BY <1>3 DEF ReapOther, SupervisorTypeOK, ProcessesTypeOK
  <2>2. ProcessesTypeOK'
    BY <1>3, <2>1, ReapType DEF ReapOther
  <2> QED  BY <1>3, <2>2 DEF ReapOther, serviceVars, ServicesTypeOK, SupervisorTypeOK
<1>4. ASSUME NEW s \in Service, ReapService(s) PROVE TypeOK'
  <2>1. pending' \subseteq Signals /\ SupervisorTypeOK'
    BY <1>4 DEF ReapService, SupervisorTypeOK, ProcessesTypeOK
  <2>2. CASE ~Collected(s)
    BY <1>4, <2>1, <2>2, EmptySeq DEF ReapService, Throw, Zombies, ProcessesTypeOK,
       ServicesTypeOK, Faults
  <2>3. CASE Collected(s)
    <3>1. callstack' \in Seq(Frame) /\ fault' \in Faults
      BY <1>4, <2>3, StartType DEF ReapService, ServicesTypeOK
    <3> QED  BY <1>4, <2>1, <2>3, <3>1, CollectType DEF ReapService, ServicesTypeOK
  <2> QED  BY <2>2, <2>3
<1> QED  BY <1>1, <1>2, <1>3, <1>4

\* A process that was sent SIGTERM.
LEMMA ChangeTermed ==
  ASSUME NEW process \in Process
  PROVE  [process EXCEPT !.termed = TRUE] \in Process
  BY DEF Process

LEMMA StoppingType ==
  ASSUME TypeOK, NEW s \in Service, Stopping(s)
  PROVE  TypeOK'
<1> USE DEF TypeOK
<1>1. pc' \in {"stop", "stopwait"}
  BY DEF Stopping, StopNext, StopSucceeds, StopTimesOut, At
<1>2. todo' \in Seq(Service)
  <2>1. todo # <<>> => Tail(todo) \in Seq(Service)
    BY HeadTailProperties DEF SupervisorTypeOK
  <2> QED  BY <2>1 DEF Stopping, StopNext, StopSucceeds, StopTimesOut, SupervisorTypeOK
<1>3. SupervisorTypeOK'
  BY <1>1, <1>2 DEF Stopping, StopNext, StopSucceeds, StopTimesOut, Shutdown, SupervisorTypeOK
<1>4. pending' = pending /\ callstack' = callstack /\ fault' = fault
  BY DEF Stopping, StopNext, StopSucceeds, StopTimesOut, processVars, serviceVars
<1>5. CASE Collected(s) /\ Collect(s)
  BY <1>3, <1>4, <1>5, CollectType DEF ProcessesTypeOK, ServicesTypeOK
<1>6. CASE UNCHANGED <<proc, status, pid, exit_code>>
  BY <1>3, <1>4, <1>6 DEF ProcessesTypeOK, ServicesTypeOK, Zombies
<1>7. CASE /\ isRunning(s) /\ proc' = [proc EXCEPT ![pid[s]].termed = TRUE]
           /\ UNCHANGED <<status, pid, exit_code>>
  <2>1. pid[s] \in Pid
    BY <1>7 DEF isRunning, ServicesTypeOK
  <2>2. [proc[pid[s]] EXCEPT !.termed = TRUE] \in Process
    BY <2>1, ChangeTermed DEF ProcessesTypeOK
  <2>3. proc' = [proc EXCEPT ![pid[s]] = [proc[pid[s]] EXCEPT !.termed = TRUE]]
    BY <1>7
  <2> QED  BY <1>3, <1>4, <1>7, <2>1, <2>2, <2>3 DEF ProcessesTypeOK, ServicesTypeOK, Zombies
<1> QED  BY <1>5, <1>6, <1>7 DEF Stopping, StopNext, StopSucceeds, StopTimesOut,
            processVars, serviceVars

LEMMA TerminatingType ==
  ASSUME TypeOK, Awaiting \/ Terminating \/ Abort \/ MinutePasses \/ TimeoutPasses
  PROVE  TypeOK'
<1> USE DEF TypeOK
<1>1. CASE Awaiting
  BY <1>1 DEF Awaiting, AllToldToStop, AwaitSignal, AwaitEnds, WaitSignal, Shutdown,
     processVars, serviceVars, ProcessesTypeOK, Zombies, ServicesTypeOK, SupervisorTypeOK
<1>2. CASE TermSignal \/ Abort \/ MinutePasses \/ TimeoutPasses
  BY <1>2 DEF TermSignal, Abort, MinutePasses, TimeoutPasses, WaitSignal, Shutdown, Terminal,
     processVars, serviceVars, ProcessesTypeOK, Zombies, Signals, ServicesTypeOK,
     SupervisorTypeOK
<1>3. CASE TerminateAll \/ TermTimesOut
  <2>1. \A p \in Pid : /\ [proc[p] EXCEPT !.termed = TRUE] \in Process
                       /\ [proc[p] EXCEPT !.fate = "signalled"] \in Process
    BY DEF ProcessesTypeOK, Process, ExitStatus
  <2>2. ProcessesTypeOK'
    <3>1. CASE UNCHANGED proc
      BY <1>3, <3>1 DEF TerminateAll, TermTimesOut, ProcessesTypeOK, Zombies
    <3>2. CASE TermAll \/ KillAll
      <4>1. proc' \in [Pid -> Process]
        BY <2>1, <3>2 DEF TermAll, KillAll, ProcessesTypeOK
      <4>2. \A p \in Zombies' : proc'[p] = proc[p] /\ p \in Zombies
        BY <3>2 DEF TermAll, KillAll, Zombies, Running, ProcessesTypeOK, Process
      <4> QED  BY <1>3, <4>1, <4>2 DEF TerminateAll, TermTimesOut, ProcessesTypeOK
    <3> QED  BY <1>3, <3>1, <3>2 DEF TerminateAll, TermTimesOut
  <2> QED  BY <1>3, <2>2 DEF TerminateAll, TermTimesOut, Shutdown, serviceVars,
              ServicesTypeOK, SupervisorTypeOK
<1>4. CASE FinalReap
  <2>1. pending' \subseteq Signals
    BY <1>4 DEF FinalReap, ProcessesTypeOK
  <2>2. ProcessesTypeOK'
    BY <1>4, <2>1, ReapType DEF FinalReap, ProcessesTypeOK, Zombies
  <2> QED  BY <1>4, <2>2 DEF FinalReap, Terminal, serviceVars, ServicesTypeOK, SupervisorTypeOK
<1> QED  BY <1>1, <1>2, <1>3, <1>4 DEF Terminating

\* Every step keeps every variable's type.
LEMMA TypeNext ==
  ASSUME TypeOK, [Next]_vars
  PROVE  TypeOK'
<1>1. CASE ServicesNext /\ UNCHANGED programVars
  BY <1>1, ServicesTypeNext DEF TypeOK, SupervisorTypeOK, programVars
<1>2. CASE ProcessesNext /\ UNCHANGED <<serviceVars, programVars>>
  BY <1>2, ProcessesTypeNext DEF TypeOK, ServicesTypeOK, SupervisorTypeOK, serviceVars,
     programVars
<1>3. CASE UNCHANGED vars
  BY <1>3 DEF vars, processVars, serviceVars, programVars, TypeOK, ProcessesTypeOK, Zombies,
     ServicesTypeOK, SupervisorTypeOK
<1>4. ASSUME NEW s \in Service, Stopping(s) PROVE TypeOK'
  BY <1>4, StoppingType
<1> QED  BY <1>1, <1>2, <1>3, <1>4, StartingType, ReceivingType, ReapingType, TerminatingType
         DEF Next, Program, Environment, Terminated, Starting, Receiving, Stopping, Awaiting,
             Terminating

\* Every variable keeps its type in every behaviour of the supervisor.
THEOREM Typing == Spec => []TypeOK
<1>1. TypeOK /\ [Next]_vars => TypeOK'
  BY TypeNext
<1> QED  BY <1>1, TypeInit, PTL DEF Spec

-----------------------------------------------------------------------------
(* One instance of each service                                            *)

\* Services' processes are children of Atone, and a free pid is nobody's.
ServiceProcesses ==
    \A p \in Pid : /\ p \in Free => proc[p].service = None
                   /\ proc[p].service # None => proc[p].parent = Atone

\* Every recorded pid is the one process of its service.
PidsOwned == \A s \in Service, p \in Pid : pid[s] = p <=> proc[p].service = s

\* Past the point where pids are kept up to date.
Gone == {"final"} \cup Terminal

InstanceInv == TypeOK /\ ServiceProcesses /\ OneInstance

\* What the processes do changes neither who a process belongs to nor, for a
\* service's process, whose child it is.
LEMMA ProcessesKeepInstances ==
  ASSUME ProcessesTypeOK, ServiceProcesses, ProcessesNext
  PROVE  /\ ServiceProcesses'
         /\ \A p \in Pid : proc'[p].service = proc[p].service
<1> USE DEF ProcessesTypeOK, ServiceProcesses, Free
<1>1. CASE \E p \in Pid : Fork(p)
  BY <1>1, ProcessesAssumption DEF Fork, NewProcess
<1>2. CASE \E p \in Pid : Exit(p)
  <2> PICK p \in Pid, fate \in ExitStatus :
          /\ p \in Running
          /\ proc' = [q \in Pid |->
                       IF q = p THEN [proc[p] EXCEPT !.state = "zombie", !.fate = fate]
                       ELSE IF q \in Children(p) THEN [proc[q] EXCEPT !.parent = Atone]
                       ELSE proc[q]]
    BY <1>2 DEF Exit
  <2>1. \A q \in Pid : /\ proc'[q].service = proc[q].service
                       /\ proc'[q].parent \in {proc[q].parent, Atone}
                       /\ q \in Free' => q \in Free
    BY DEF Process, Running
  <2> QED  BY <2>1
<1>3. CASE \E p \in Pid : CollectElsewhere(p)
  BY <1>3 DEF CollectElsewhere, NoProcess, Zombies
<1>4. CASE \E sig \in Signals : OutsideSignal(sig)
  BY <1>4 DEF OutsideSignal
<1> QED  BY <1>1, <1>2, <1>3, <1>4 DEF ProcessesNext

\* Collecting a service's process gives up its pid and its record together.
LEMMA CollectKeepsInstances ==
  ASSUME ProcessesTypeOK, ServicesTypeOK, ServiceProcesses,
         NEW s \in Service, Collected(s), Collect(s)
  PROVE  /\ ServiceProcesses'
         /\ PidsOwned => PidsOwned'
<1> USE ProcessesAssumption DEF ProcessesTypeOK, ServicesTypeOK, ServiceProcesses, PidsOwned,
        Free
<1>1. pid[s] \in Pid
  BY DEF Collected, isRunning
<1>2. ServiceProcesses'
  BY <1>1 DEF Collect, Reap, NoProcess
<1>3. ASSUME PidsOwned PROVE PidsOwned'
  <2>1. pid[s] \in Children(Atone)
    BY <1>1, <1>3 DEF Children
  <2>2. proc' = [proc EXCEPT ![pid[s]] = NoProcess] /\ pid' = [pid EXCEPT ![s] = None]
    BY <2>1 DEF Collect, Reap
  <2> QED  BY <1>1, <1>3, <2>2 DEF NoProcess
<1> QED  BY <1>2, <1>3

\* Starting services keeps it so: a process is spawned only without a pid.
LEMMA ServicesKeepInstances ==
  ASSUME ProcessesTypeOK, ServicesTypeOK, ServiceProcesses, ServicesNext
  PROVE  /\ ServiceProcesses'
         /\ PidsOwned => PidsOwned'
<1>1. CASE UNCHANGED <<proc, pid>>
  BY <1>1 DEF ServiceProcesses, PidsOwned, Free
<1>2. ASSUME NEW s \in Service, CollectBeforeSpawn(s)
      PROVE  ServiceProcesses' /\ (PidsOwned => PidsOwned')
  BY <1>2, CollectKeepsInstances DEF CollectBeforeSpawn
<1>3. ASSUME NEW s \in Service, Spawn(s)
      PROVE  ServiceProcesses' /\ (PidsOwned => PidsOwned')
  <2>1. PICK p \in Free, fate \in {"none", "failure"} :
          /\ pid' = [pid EXCEPT ![s] = p]
          /\ proc' = [proc EXCEPT ![p] = NewProcess(s, Atone, fate)]
    BY <1>3 DEF Spawn
  <2>2. pid[s] = None
    BY <1>3 DEF Spawn, isRunning
  <2> QED  BY <2>1, <2>2, ProcessesAssumption DEF ServiceProcesses, PidsOwned, Free,
              ProcessesTypeOK, ServicesTypeOK, NewProcess
<1> QED  BY <1>1, <1>2, <1>3 DEF ServicesNext, StartDependency, AlreadyRunning, SpawnFails,
            processVars

\* A process that no service records is reaped without touching any service.
LEMMA ReapOtherKeepsInstances ==
  ASSUME TypeOK, ServiceProcesses, ReapOther
  PROVE  /\ ServiceProcesses'
         /\ PidsOwned => PidsOwned'
<1> USE DEF TypeOK, SupervisorTypeOK, ProcessesTypeOK, ServicesTypeOK
<1>1. found \in Pid /\ pid' = pid
  BY DEF ReapOther, serviceVars
<1>2. ServiceProcesses'
  BY <1>1 DEF ReapOther, Reap, NoProcess, ServiceProcesses, Free
<1>3. ASSUME PidsOwned PROVE PidsOwned'
  <2>1. proc[found].service \notin Service
    BY <1>1, <1>3 DEF ReapOther, PidsOwned
  <2> QED  BY <1>1, <1>3, <2>1, ProcessesAssumption DEF ReapOther, Reap, NoProcess, PidsOwned
<1> QED  BY <1>2, <1>3

\* The remaining steps of the supervisor leave pids and their owners alone,
\* but for the reaping of "final".
LEMMA ProgramKeepsInstances ==
  ASSUME TypeOK, ServiceProcesses, Program
  PROVE  /\ ServiceProcesses'
         /\ PidsOwned /\ pc \notin Gone => PidsOwned'
<1> USE DEF TypeOK
<1>1. CASE UNCHANGED <<proc, pid>>
  BY <1>1 DEF ServiceProcesses, PidsOwned, Free
<1>2. CASE ServicesNext
  BY <1>2, ServicesKeepInstances
<1>3. CASE ReapOther
  BY <1>3, ReapOtherKeepsInstances
<1>4. CASE \E s \in Service : Collected(s) /\ Collect(s)
  BY <1>4, CollectKeepsInstances
<1>5. ASSUME NEW s \in Service, isRunning(s), UNCHANGED pid,
             proc' = [proc EXCEPT ![pid[s]].termed = TRUE]
      PROVE  ServiceProcesses' /\ (PidsOwned => PidsOwned')
  <2>1. pid[s] \in Pid
    BY <1>5 DEF isRunning, ServicesTypeOK
  <2>2. \A p \in Pid : /\ proc'[p].service = proc[p].service
                       /\ proc'[p].parent = proc[p].parent
                       /\ proc'[p].state = proc[p].state
    BY <1>5, <2>1 DEF ProcessesTypeOK, Process
  <2> QED  BY <1>5, <2>2 DEF ServiceProcesses, PidsOwned, Free
<1>6. CASE (TermAll \/ KillAll) /\ UNCHANGED pid
  <2>1. \A p \in Pid : /\ proc'[p].service = proc[p].service
                       /\ proc'[p].parent = proc[p].parent
                       /\ proc'[p].state = proc[p].state
    BY <1>6 DEF TermAll, KillAll, ProcessesTypeOK, Process
  <2> QED  BY <1>6, <2>1 DEF ServiceProcesses, PidsOwned, Free
<1>7. CASE FinalReap
  <2>1. CASE UNCHANGED proc
    BY <1>7, <2>1 DEF FinalReap, At, Gone, ServiceProcesses, Free
  <2>2. CASE \E p \in Pid : Reap(p)
    BY <1>7, <2>2 DEF FinalReap, At, Gone, ServiceProcesses, Free, Reap, NoProcess,
       ProcessesTypeOK
  <2> QED  BY <1>7, <2>1, <2>2 DEF FinalReap, Zombies
<1>8. CASE \E s \in Service : ReapService(s) \/ StopNext(s) \/ StopSucceeds(s) \/ StopTimesOut(s)
  BY <1>1, <1>4, <1>5, <1>8 DEF ReapService, StopNext, StopSucceeds, StopTimesOut, processVars,
     serviceVars
<1>9. CASE TerminateAll \/ TermTimesOut
  BY <1>1, <1>6, <1>9 DEF TerminateAll, TermTimesOut, serviceVars
<1> QED  BY <1>1, <1>2, <1>3, <1>7, <1>8, <1>9
         DEF Program, Bootstrap, CheckSchedule, StartNext, ReceiveAbort, ReceiveStop,
             ReceiveChild, ReceiveTick, ReceiveOther, Find, ReapingDone, NoChildLeft,
             AllToldToStop, AwaitSignal, AwaitEnds, TermSignal, Abort, WaitSignal,
             processVars, serviceVars

\* Nothing leads back from the end of Shutdown.
LEMMA GoneForGood ==
  ASSUME Next, pc \in Gone
  PROVE  pc' \in Gone
<1> USE DEF Gone, Terminal
<1>1. CASE Program
  BY <1>1 DEF Program, programVars, Bootstrap, CheckSchedule, StartNext, ReceiveAbort,
     ReceiveStop, ReceiveChild, ReceiveTick, ReceiveOther, WaitSignal, Find, ReapingDone,
     NoChildLeft, ReapService, ReapOther, StopNext, StopSucceeds, StopTimesOut, AllToldToStop,
     AwaitSignal, AwaitEnds, TerminateAll, TermSignal, TermTimesOut, FinalReap, Abort, At,
     Reaping
<1>2. CASE Environment \/ Terminated
  BY <1>2 DEF Environment, MinutePasses, TimeoutPasses, Terminated, programVars, vars
<1> QED  BY <1>1, <1>2 DEF Next

\* A service never has two processes, and its recorded pid is never stale.
THEOREM InstancesUnique == Spec => []OneInstance
<1>1. Init => InstanceInv
  <2> SUFFICES ASSUME Init PROVE InstanceInv
    OBVIOUS
  <2>1. ServiceProcesses /\ PidsOwned
    BY ProcessesAssumption
       DEF Init, ProcessesInit, ServicesInit, NoProcess, ServiceProcesses, PidsOwned, Free
  <2> QED  BY <2>1, TypeInit DEF InstanceInv, OneInstance, PidsOwned
<1>2. InstanceInv /\ [Next]_vars => InstanceInv'
  <2> SUFFICES ASSUME InstanceInv, TypeOK', [Next]_vars PROVE ServiceProcesses' /\ OneInstance'
    BY TypeNext DEF InstanceInv
  <2> USE DEF InstanceInv
  <2>1. OneInstance <=> (pc \notin Gone => PidsOwned)
    BY DEF OneInstance, Gone, PidsOwned
  <2>2. OneInstance' <=> (pc' \notin Gone => PidsOwned')
    BY DEF OneInstance, Gone, PidsOwned
  <2>3. CASE Program
    BY <2>1, <2>2, <2>3, ProgramKeepsInstances, GoneForGood DEF Next
  <2>4. CASE ProcessesNext /\ UNCHANGED <<serviceVars, programVars>>
    <3>1. ServiceProcesses' /\ \A p \in Pid : proc'[p].service = proc[p].service
      BY <2>4, ProcessesKeepInstances DEF TypeOK
    <3> QED  BY <2>1, <2>2, <2>4, <3>1 DEF PidsOwned, serviceVars, programVars
  <2>5. CASE UNCHANGED <<proc, pid, pc>>
    BY <2>1, <2>2, <2>5 DEF ServiceProcesses, PidsOwned, Free
  <2> QED  BY <2>3, <2>4, <2>5 DEF Next, Environment, MinutePasses, TimeoutPasses, Terminated,
              vars, processVars, serviceVars, programVars
<1>3. InstanceInv => OneInstance
  BY DEF InstanceInv
<1> QED  BY <1>1, <1>2, <1>3, PTL DEF Spec

-----------------------------------------------------------------------------
(* Nothing is started in Shutdown                                          *)

\* Start is only being called where services are started, and an exception
\* leaves no call in progress.
CallsPlaced == callstack # <<>> => pc \in {"boot", "sched", "reap"} /\ fault = "none"

LEMMA CallsPlacedNext ==
  ASSUME CallsPlaced, [Next]_vars
  PROVE  CallsPlaced'
<1> USE DEF CallsPlaced
<1>1. CASE UNCHANGED <<pc, callstack, fault>>
  BY <1>1
<1>2. CASE ServicesNext /\ UNCHANGED programVars
  BY <1>2 DEF ServicesNext, StartDependency, AlreadyRunning, CollectBeforeSpawn, Spawn,
     SpawnFails, StartingProcess, Executing, Throw, Return, programVars
<1>3. CASE Bootstrap \/ CheckSchedule
  BY <1>3 DEF Bootstrap, CheckSchedule, StartNext, Start, Throw, At
<1>4. CASE \E s \in Service : ReapService(s)
  BY <1>4 DEF ReapService, Start, Throw, At
<1>5. CASE Abort
  BY <1>5 DEF Abort, serviceVars
<1>6. CASE Receiving
  BY <1>6 DEF Receiving, ReceiveAbort, ReceiveStop, ReceiveChild, ReceiveTick, ReceiveOther,
     WaitSignal, At, serviceVars
<1>7. CASE Find \/ ReapingDone \/ NoChildLeft \/ ReapOther
  BY <1>7 DEF Find, ReapingDone, NoChildLeft, ReapOther, At, serviceVars
<1>8. CASE \E s \in Service : Stopping(s)
  BY <1>8 DEF Stopping, StopNext, StopSucceeds, StopTimesOut, At, serviceVars
<1>9. CASE Awaiting \/ Terminating
  BY <1>9 DEF Awaiting, Terminating, AllToldToStop, AwaitSignal, AwaitEnds, TerminateAll,
     TermSignal, TermTimesOut, FinalReap, WaitSignal, At, serviceVars
<1> QED
  BY <1>1, <1>2, <1>3, <1>4, <1>5, <1>6, <1>7, <1>8, <1>9
     DEF Next, Program, Environment, Terminated, MinutePasses, TimeoutPasses, Receiving, Stopping,
         Awaiting, Terminating, vars, serviceVars, programVars

LEMMA CallsPlacedAlways == Spec => []CallsPlaced
<1>1. Init => CallsPlaced
  BY DEF Init, ServicesInit, CallsPlaced
<1>2. CallsPlaced /\ [Next]_vars => CallsPlaced'
  BY CallsPlacedNext
<1> QED  BY <1>1, <1>2, PTL DEF Spec

\* Of all steps only that of Spawn gives a service a process.
LEMMA OnlySpawnSpawns ==
  ASSUME ServicesTypeOK, Next, NEW s \in Service, Spawned(s)
  PROVE  Spawn(s) /\ UNCHANGED programVars
<1> USE DEF Spawned
<1>1. ~UNCHANGED pid
  OBVIOUS
<1>2. ~(\E t \in Service : Collect(t))
  BY DEF Collect, ServicesTypeOK
<1>3. Program
  BY <1>1 DEF Next, Environment, Terminated, MinutePasses, TimeoutPasses, vars, serviceVars
<1>4. ServicesNext /\ UNCHANGED programVars
  BY <1>1, <1>2, <1>3
     DEF Program, Bootstrap, CheckSchedule, StartNext, ReceiveAbort, ReceiveStop, ReceiveChild,
         ReceiveTick, ReceiveOther, WaitSignal, Find, ReapingDone, NoChildLeft, ReapService,
         ReapOther, StopNext, StopSucceeds, StopTimesOut, AllToldToStop, AwaitSignal, AwaitEnds,
         TerminateAll, TermSignal, TermTimesOut, FinalReap, Abort, serviceVars
<1>5. PICK t \in Service : Spawn(t)
  BY <1>1, <1>2, <1>4
     DEF ServicesNext, StartDependency, AlreadyRunning, CollectBeforeSpawn, SpawnFails
<1>6. t = s
  BY <1>5 DEF Spawn, ServicesTypeOK
<1> QED  BY <1>4, <1>5, <1>6

\* Once the supervisor shuts down, no service is started any more.
THEOREM ShutdownStartsNothing == Spec => NoStartInShutdown
<1>1. TypeOK /\ CallsPlaced /\ [Next]_vars
        => [\A s \in Service : Spawned(s) => pc \notin Shutdown]_vars
  <2> SUFFICES ASSUME TypeOK, CallsPlaced, Next, NEW s \in Service, Spawned(s)
               PROVE  pc \notin Shutdown
    BY DEF Spawned, vars, serviceVars
  <2>1. callstack # <<>>
    BY OnlySpawnSpawns DEF TypeOK, Spawn, StartingProcess, Executing
  <2> QED  BY <2>1 DEF CallsPlaced, Shutdown
<1> QED  BY <1>1, Typing, CallsPlacedAlways, PTL DEF Spec, NoStartInShutdown

-----------------------------------------------------------------------------
(* No ended child is overlooked                                            *)

\* Wherever ended children are not being looked for, their signal is pending.
ChildSignalled == pc \notin Reaping \cup Gone /\ Ended # {} => SIGCHLD \in pending

\* What the processes do lets no child end without its signal.
LEMMA ProcessesSignal ==
  ASSUME ProcessesTypeOK, ProcessesNext
  PROVE  pending \subseteq pending' /\ (SIGCHLD \in pending' \/ Ended' \subseteq Ended)
<1> USE DEF ProcessesTypeOK, Ended, Children, Zombies, Free
<1>1. CASE \E p \in Pid : Fork(p)
  BY <1>1 DEF Fork, NewProcess
<1>2. ASSUME NEW p \in Pid, Exit(p), SIGCHLD \notin pending' PROVE Ended' \subseteq Ended
  <2>1. PICK fate \in ExitStatus :
          proc' = [q \in Pid |->
                    IF q = p THEN [proc[p] EXCEPT !.state = "zombie", !.fate = fate]
                    ELSE IF q \in Children(p) THEN [proc[q] EXCEPT !.parent = Atone]
                    ELSE proc[q]]
    BY <1>2 DEF Exit
  <2>2. proc[p].parent # Atone /\ Children(p) \cap Zombies = {}
    BY <1>2 DEF Exit
  <2>3. proc'[p].parent = proc[p].parent
    <3>1. proc'[p] = [proc[p] EXCEPT !.state = "zombie", !.fate = fate] /\ proc[p] \in Process
      BY <2>1
    <3> QED  BY <3>1 DEF Process
  <2>4. ASSUME NEW q \in Pid \ {p} PROVE proc'[q].state = proc[q].state
    <3>1. CASE q \in Children(p)
      <4>1. proc'[q] = [proc[q] EXCEPT !.parent = Atone] /\ proc[q] \in Process
        BY <2>1, <3>1
      <4> QED  BY <4>1 DEF Process
    <3>2. CASE q \notin Children(p)
      BY <2>1, <3>2
    <3> QED  BY <3>1, <3>2
  <2>5. \A q \in Pid \ {p} : q \notin Children(p) => proc'[q] = proc[q]
    BY <2>1
  <2> QED  BY <2>2, <2>3, <2>4, <2>5
<1>3. CASE \E p \in Pid : CollectElsewhere(p)
  BY <1>3 DEF CollectElsewhere, NoProcess
<1>4. ASSUME NEW p \in Pid, Exit(p) PROVE pending \subseteq pending'
  BY <1>4 DEF Exit
<1>5. CASE \E sig \in Signals : OutsideSignal(sig)
  BY <1>5 DEF OutsideSignal
<1> QED  BY <1>1, <1>2, <1>3, <1>4, <1>5 DEF ProcessesNext, Fork, CollectElsewhere

\* No step of the supervisor's thread makes a process end.
LEMMA ProgramEndsNothing ==
  ASSUME TypeOK, Program
  PROVE  Ended' \subseteq Ended
<1> USE DEF TypeOK, ProcessesTypeOK, Ended, Children, Zombies, Free
<1>1. CASE UNCHANGED proc
  BY <1>1
<1>2. CASE \E p : Reap(p)
  BY <1>2 DEF Reap, NoProcess
<1>3. CASE \E s \in Service : Spawn(s)
  BY <1>3 DEF Spawn, NewProcess
<1>4. CASE TermAll \/ KillAll
  BY <1>4 DEF TermAll, KillAll, Process
<1>5. ASSUME NEW p, proc' = [proc EXCEPT ![p].termed = TRUE] PROVE Ended' \subseteq Ended
  BY <1>5 DEF Process
<1>6. CASE ServicesNext
  BY <1>1, <1>2, <1>3, <1>6 DEF ServicesNext, StartDependency, AlreadyRunning,
     CollectBeforeSpawn, SpawnFails, Collect, processVars
<1>7. CASE \E s \in Service : ReapService(s) \/ StopNext(s) \/ StopSucceeds(s) \/ StopTimesOut(s)
  BY <1>1, <1>2, <1>5, <1>7 DEF ReapService, StopNext, StopSucceeds, StopTimesOut, Collect,
     processVars
<1>8. CASE TerminateAll \/ TermTimesOut \/ FinalReap \/ ReapOther
  BY <1>1, <1>2, <1>4, <1>8 DEF TerminateAll, TermTimesOut, FinalReap, ReapOther
<1> QED  BY <1>1, <1>6, <1>7, <1>8
         DEF Program, Bootstrap, CheckSchedule, StartNext, ReceiveAbort, ReceiveStop, ReceiveChild,
             ReceiveTick, ReceiveOther, WaitSignal, Find, ReapingDone, NoChildLeft, AllToldToStop,
             AwaitSignal, AwaitEnds, TermSignal, Abort, processVars

\* SIGCHLD is taken from the pending signals only to look for ended children.
LEMMA ProgramKeepsSignal ==
  ASSUME Program, SIGCHLD \in pending, pc' \notin Reaping
  PROVE  SIGCHLD \in pending'
<1> USE DEF SIGCHLD, SIGINT, SIGABRT, SIGUSR1, SIGTERM, SIGRTMAX, Reaping
<1>1. CASE pending \subseteq pending'
  BY <1>1
<1>2. CASE ReceiveAbort \/ ReceiveStop \/ ReceiveChild \/ ReceiveTick \/ ReceiveOther
  BY <1>2 DEF ReceiveAbort, ReceiveStop, ReceiveChild, ReceiveTick, ReceiveOther, WaitSignal
<1>3. CASE AwaitSignal \/ TermSignal
  BY <1>3 DEF AwaitSignal, TermSignal, WaitSignal
<1> QED
  BY <1>1, <1>2, <1>3
     DEF Program, ServicesNext, StartDependency, AlreadyRunning, CollectBeforeSpawn, Spawn,
         SpawnFails, Bootstrap, CheckSchedule, StartNext, Find, ReapingDone, NoChildLeft,
         ReapService, ReapOther, StopNext, StopSucceeds, StopTimesOut, AllToldToStop, AwaitEnds,
         TerminateAll, TermTimesOut, FinalReap, Abort, processVars

\* ReapProcesses returns when there is no ended child, or not at all.
LEMMA ReapingIsComplete ==
  ASSUME Program, pc \in Reaping, pc' \notin Reaping \cup Gone
  PROVE  Ended = {}
<1>1. ReapingDone \/ NoChildLeft
  BY DEF Program, programVars, Bootstrap, CheckSchedule, StartNext, ReceiveAbort, ReceiveStop,
     ReceiveChild, ReceiveTick, ReceiveOther, WaitSignal, Find, ReapService, ReapOther, StopNext,
     StopSucceeds, StopTimesOut, AllToldToStop, AwaitSignal, AwaitEnds, TerminateAll, TermSignal,
     TermTimesOut, FinalReap, Abort, At, Reaping, Gone, Terminal
<1> QED  BY <1>1 DEF ReapingDone, NoChildLeft, Ended

\* Whenever the supervisor waits and a child has ended, SIGCHLD is pending.
THEOREM NoChildLost == Spec => []NoLostChild
<1>1. Init => ChildSignalled
  BY DEF Init, ProcessesInit, NoProcess, ChildSignalled, Ended, Children, Free
<1>2. TypeOK /\ ChildSignalled /\ [Next]_vars => ChildSignalled'
  <2> SUFFICES ASSUME TypeOK, ChildSignalled, [Next]_vars, pc' \notin Reaping \cup Gone,
                      Ended' # {}
               PROVE  SIGCHLD \in pending'
    BY DEF ChildSignalled
  <2>1. CASE Program
    <3>1. pc \notin Gone
      BY <2>1, GoneForGood DEF Next
    <3>2. Ended # {} /\ pc \notin Reaping
      BY <2>1, ProgramEndsNothing, ReapingIsComplete
    <3> QED  BY <2>1, <3>1, <3>2, ProgramKeepsSignal DEF ChildSignalled
  <2>2. CASE ProcessesNext /\ UNCHANGED <<serviceVars, programVars>>
    BY <2>2, ProcessesSignal DEF ChildSignalled, TypeOK, programVars
  <2>3. CASE pending \subseteq pending' /\ UNCHANGED <<proc, pc>>
    BY <2>3 DEF ChildSignalled, Ended, Children, Zombies, Free
  <2> QED  BY <2>1, <2>2, <2>3 DEF Next, Environment, Terminated, MinutePasses, TimeoutPasses,
              vars, processVars, programVars
<1>3. ChildSignalled => NoLostChild
  BY DEF ChildSignalled, NoLostChild, At, Reaping, Gone, Terminal
<1> QED  BY <1>1, <1>2, <1>3, Typing, PTL DEF Spec

-----------------------------------------------------------------------------
(* SIGTERM before SIGKILL                                                  *)

\* A service's process that p may still decide the end of.
Deciding == {p \in Running : proc[p].service # None /\ proc[p].fate = "none"}

\* Once every process was sent SIGTERM, no service gets another one.
AllTermed == pc \in {"termwait", "termreap"} => \A p \in Deciding : proc[p].termed

LEMMA ProcessesKeepTermed ==
  ASSUME ProcessesTypeOK, ProcessesNext
  PROVE  \A p \in Deciding' : p \in Deciding /\ proc'[p].termed = proc[p].termed
<1> USE DEF ProcessesTypeOK, Deciding, Running
<1>1. CASE \E p \in Pid : Fork(p)
  <2>1. \A p \in Deciding' : proc'[p] = proc[p]
    BY <1>1 DEF Fork, NewProcess, Free
  <2> QED  BY <2>1
<1>2. CASE \E p \in Pid : Exit(p)
  <2> PICK p \in Pid, fate \in ExitStatus :
          proc' = [q \in Pid |->
                    IF q = p THEN [proc[p] EXCEPT !.state = "zombie", !.fate = fate]
                    ELSE IF q \in Children(p) THEN [proc[q] EXCEPT !.parent = Atone]
                    ELSE proc[q]]
    BY <1>2 DEF Exit
  <2>1. proc'[p].state = "zombie"
    BY DEF Process
  <2>2. \A q \in Pid \ {p} : /\ proc'[q].state = proc[q].state
                             /\ proc'[q].service = proc[q].service
                             /\ proc'[q].fate = proc[q].fate
                             /\ proc'[q].termed = proc[q].termed
    BY DEF Process
  <2> QED  BY <2>1, <2>2
<1>3. CASE \E p \in Pid : CollectElsewhere(p)
  <2>1. \A p \in Deciding' : proc'[p] = proc[p]
    BY <1>3 DEF CollectElsewhere, NoProcess
  <2> QED  BY <2>1
<1>4. CASE \E sig \in Signals : OutsideSignal(sig)
  BY <1>4 DEF OutsideSignal
<1> QED  BY <1>1, <1>2, <1>3, <1>4 DEF ProcessesNext

\* The steps of TerminateAllProcess, which come from the part of Shutdown before
\* it by sending SIGTERM to every process.
LEMMA TerminatingSteps ==
  ASSUME Program, CallsPlaced, pc' \in {"termwait", "termreap"}
  PROVE  \/ TermAll
         \/ pc \in {"termwait", "termreap"} /\ (UNCHANGED proc \/ KillAll \/ \E p : Reap(p))
<1>1. ~(ServicesNext /\ UNCHANGED programVars)
  BY DEF ServicesNext, StartDependency, AlreadyRunning, CollectBeforeSpawn, Spawn, SpawnFails,
     StartingProcess, Executing, CallsPlaced, programVars
<1> QED
  BY <1>1 DEF Program, programVars, Bootstrap, CheckSchedule, StartNext, ReceiveAbort,
     ReceiveStop, ReceiveChild, ReceiveTick, ReceiveOther, WaitSignal, Find, ReapingDone,
     NoChildLeft, BeginShutdown, ReapService, ReapOther, StopNext, StopSucceeds, StopTimesOut,
     AllToldToStop, AwaitSignal, AwaitEnds, TerminateAll, TermSignal, TermTimesOut, FinalReap,
     Abort, At, Reaping, Collect, processVars

LEMMA AllTermedNext ==
  ASSUME TypeOK, CallsPlaced, AllTermed, [Next]_vars
  PROVE  AllTermed'
<1> SUFFICES ASSUME pc' \in {"termwait", "termreap"}, NEW p \in Deciding'
             PROVE  proc'[p].termed
  BY DEF AllTermed
<1> USE DEF TypeOK, ProcessesTypeOK, Deciding, Running
<1>1. CASE Program /\ TermAll
  BY <1>1 DEF TermAll, Process
<1>2. CASE Program /\ ~TermAll
  <2>1. pc \in {"termwait", "termreap"} /\ (UNCHANGED proc \/ KillAll \/ \E q : Reap(q))
    BY <1>2, TerminatingSteps
  <2>2. p \in Deciding /\ proc'[p] = proc[p]
    BY <2>1 DEF KillAll, Reap, NoProcess, Process
  <2> QED  BY <2>1, <2>2 DEF AllTermed
<1>3. CASE ProcessesNext /\ UNCHANGED <<serviceVars, programVars>>
  BY <1>3, ProcessesKeepTermed DEF AllTermed, programVars
<1>4. CASE UNCHANGED <<proc, pc>>
  BY <1>4 DEF AllTermed
<1> QED  BY <1>1, <1>2, <1>3, <1>4 DEF Next, Environment, Terminated, MinutePasses, TimeoutPasses,
            vars, processVars, programVars

\* Only SIGKILL leaves a process running that is about to be signalled to death.
LEMMA OnlyKillAllKills ==
  ASSUME TypeOK, Next, NEW p \in Running,
         proc[p].fate = "none", proc'[p].state = "running", proc'[p].fate = "signalled"
  PROVE  TermTimesOut
<1> USE DEF TypeOK, ProcessesTypeOK, Running
<1>1. ~UNCHANGED proc
  OBVIOUS
<1>2. ~TermAll /\ ~(\E q : Reap(q)) /\ ~(\E q : proc' = [proc EXCEPT ![q].termed = TRUE])
  BY DEF TermAll, Reap, NoProcess, Process
<1>3. ~(\E s \in Service : Spawn(s))
  BY DEF Spawn, NewProcess, Free
<1>4. ~ProcessesNext
  <2>1. ~(\E q \in Pid : Fork(q))
    BY DEF Fork, Free
  <2>2. ASSUME NEW q \in Pid, Exit(q) PROVE FALSE
    <3>1. CASE q = p
      BY <2>2, <3>1 DEF Exit, Process
    <3>2. CASE q # p
      BY <2>2, <3>2 DEF Exit, Process
    <3> QED  BY <3>1, <3>2
  <2>3. ~(\E q \in Pid : CollectElsewhere(q))
    BY DEF CollectElsewhere, NoProcess, Process
  <2> QED  BY <1>1, <2>1, <2>2, <2>3 DEF ProcessesNext, OutsideSignal
<1>5. Program
  BY <1>1, <1>4 DEF Next, Environment, Terminated, MinutePasses, TimeoutPasses, vars, processVars
<1> QED
  BY <1>1, <1>2, <1>3, <1>5
     DEF Program, ServicesNext, StartDependency, AlreadyRunning, CollectBeforeSpawn, SpawnFails,
         Collect, Bootstrap, CheckSchedule, StartNext, ReceiveAbort, ReceiveStop, ReceiveChild,
         ReceiveTick, ReceiveOther, WaitSignal, Find, ReapingDone, NoChildLeft, ReapService,
         ReapOther, StopNext, StopSucceeds, StopTimesOut, AllToldToStop, AwaitSignal, AwaitEnds,
         TerminateAll, TermSignal, FinalReap, Abort, processVars

\* SIGKILL is the last resort: a service's process was sent SIGTERM before it.
THEOREM TermComesFirst == Spec => TermBeforeKill
<1> DEFINE Kills(p) == /\ p \in Running /\ proc[p].service # None /\ proc[p].fate = "none"
                       /\ proc'[p].state = "running" /\ proc'[p].fate = "signalled"
<1>1. Init => AllTermed
  BY DEF Init, AllTermed
<1>2. TypeOK /\ CallsPlaced /\ AllTermed /\ [Next]_vars => AllTermed'
  BY AllTermedNext
<1>3. TypeOK /\ AllTermed /\ [Next]_vars => [\A p \in Pid : Kills(p) => proc[p].termed]_vars
  <2> SUFFICES ASSUME TypeOK, AllTermed, Next, NEW p \in Pid, Kills(p)
               PROVE  proc[p].termed
    BY DEF vars, processVars
  <2>1. pc = "termwait"
    BY OnlyKillAllKills DEF TermTimesOut, At
  <2> QED  BY <2>1 DEF AllTermed, Deciding
<1> QED  BY <1>1, <1>2, <1>3, Typing, CallsPlacedAlways, PTL DEF Spec, TermBeforeKill

-----------------------------------------------------------------------------
(* The process ReapProcesses found                                         *)

\* What waitid found is an ended child until it is reaped.
FoundEnded == found # None => /\ pc \in Reaping /\ callstack = <<>> /\ fault = "none"
                              /\ found \in Ended

\* An ended child of Atone's waits for Atone.
LEMMA ProcessesKeepEnded ==
  ASSUME ProcessesTypeOK, ProcessesNext
  PROVE  Ended \subseteq Ended'
<1> USE DEF ProcessesTypeOK, Ended, Children, Zombies, Free
<1>1. CASE \E p \in Pid : Fork(p)
  BY <1>1 DEF Fork
<1>2. ASSUME NEW p \in Pid, Exit(p) PROVE Ended \subseteq Ended'
  <2>1. \A q \in Ended : q # p /\ proc'[q].state = proc[q].state /\ proc'[q].parent = Atone
    BY <1>2 DEF Exit, Running, Process
  <2> QED  BY <2>1
<1>3. CASE \E p \in Pid : CollectElsewhere(p)
  BY <1>3 DEF CollectElsewhere
<1>4. CASE \E sig \in Signals : OutsideSignal(sig)
  BY <1>4 DEF OutsideSignal
<1> QED  BY <1>1, <1>2, <1>3, <1>4 DEF ProcessesNext

\* While a process that was found waits to be reaped, the thread reaps it.
LEMMA FoundIsNext ==
  ASSUME Program, FoundEnded, found # None
  PROVE  found' = None
BY DEF Program, FoundEnded, ServicesNext, StartDependency, AlreadyRunning, CollectBeforeSpawn,
   Spawn, SpawnFails, StartingProcess, Executing, Bootstrap, CheckSchedule, StartNext,
   ReceiveAbort, ReceiveStop, ReceiveChild, ReceiveTick, ReceiveOther, WaitSignal, Find,
   ReapingDone, NoChildLeft, ReapService, ReapOther, StopNext, StopSucceeds, StopTimesOut,
   AllToldToStop, AwaitSignal, AwaitEnds, TerminateAll, TermSignal, TermTimesOut, FinalReap,
   Abort, At, Reaping

LEMMA OnlyFindFinds ==
  ASSUME Program, found = None, found' # None
  PROVE  Find
BY DEF Program, programVars, Bootstrap, CheckSchedule, StartNext, ReceiveAbort, ReceiveStop,
   ReceiveChild, ReceiveTick, ReceiveOther, WaitSignal, ReapingDone, NoChildLeft, BeginShutdown,
   ReapService, ReapOther, StopNext, StopSucceeds, StopTimesOut, AllToldToStop, AwaitSignal,
   AwaitEnds, TerminateAll, TermSignal, TermTimesOut, FinalReap, Abort

LEMMA FoundEndedNext ==
  ASSUME TypeOK, FoundEnded, [Next]_vars
  PROVE  FoundEnded'
<1> USE DEF FoundEnded
<1>1. CASE Program
  <2>1. CASE found # None
    BY <1>1, <2>1, FoundIsNext
  <2>2. CASE found = None /\ found' # None
    BY <1>1, <2>2, OnlyFindFinds
       DEF Find, At, processVars, serviceVars, Ended, Children, Zombies, Free
  <2> QED  BY <2>1, <2>2
<1>2. CASE ProcessesNext /\ UNCHANGED <<serviceVars, programVars>>
  BY <1>2, ProcessesKeepEnded DEF TypeOK, serviceVars, programVars
<1>3. CASE UNCHANGED <<proc, callstack, fault, pc, found>>
  BY <1>3 DEF Ended, Children, Zombies, Free
<1> QED  BY <1>1, <1>2, <1>3 DEF Next, Environment, Terminated, MinutePasses, TimeoutPasses,
            vars, processVars, serviceVars, programVars

LEMMA FoundEndedAlways == Spec => []FoundEnded
<1>1. Init => FoundEnded
  BY DEF Init, FoundEnded
<1> QED  BY <1>1, FoundEndedNext, Typing, PTL DEF Spec

-----------------------------------------------------------------------------
(* Nothing is left behind                                                  *)

\* Every process descends from Atone: its parent runs, and no set of processes
\* contains the parents of all its members.
ParentsLive == \A p \in Pid \ Free : proc[p].parent \in Running \cup {Atone}
Rooted == \A S \in SUBSET (Pid \ Free) : S # {} => \E p \in S : proc[p].parent \notin S
OneFamily == ParentsLive /\ Rooted

\* Without a child Atone has no descendant, and there is nobody else.
LEMMA ChildlessAlone ==
  ASSUME ProcessesTypeOK, OneFamily, Children(Atone) = {}
  PROVE  Free = Pid
<1> SUFFICES ASSUME Pid \ Free # {} PROVE FALSE
  BY DEF Free
<1>1. PICK p \in Pid \ Free : proc[p].parent \notin Pid \ Free
  BY DEF OneFamily, Rooted
<1>2. proc[p].parent = Atone
  BY <1>1 DEF OneFamily, ParentsLive, Running, Free
<1> QED  BY <1>1, <1>2 DEF Children

\* The family stays one when a process goes whose children are Atone's already.
LEMMA FamilyShrinks ==
  ASSUME OneFamily,
         \A p \in Pid \ Free' :
            /\ p \notin Free
            /\ \/ proc'[p].parent = Atone
               \/ proc'[p].parent = proc[p].parent /\ proc[p].parent \in Running'
  PROVE  OneFamily'
<1>1. ParentsLive'
  BY DEF ParentsLive
<1>2. ASSUME NEW S \in SUBSET (Pid \ Free'), S # {} PROVE \E p \in S : proc'[p].parent \notin S
  <2>1. PICK p \in S : proc[p].parent \notin S
    BY <1>2 DEF OneFamily, Rooted
  <2>2. Atone \notin S
    BY ProcessesAssumption
  <2> QED  BY <2>1, <2>2
<1> QED  BY <1>1, <1>2 DEF OneFamily, Rooted

\* It stays one when a running process, or Atone, has a child.
LEMMA FamilyGrows ==
  ASSUME ProcessesTypeOK, OneFamily, NEW q \in Free, NEW parent \in Running \cup {Atone},
         NEW s, NEW fate, proc' = [proc EXCEPT ![q] = NewProcess(s, parent, fate)]
  PROVE  OneFamily'
<1> USE DEF ProcessesTypeOK, Free, Running
<1>1. q \in Pid /\ proc'[q].parent = parent /\ proc'[q].state = "running"
  BY DEF NewProcess
<1>2. \A p \in Pid \ {q} : proc'[p] = proc[p]
  OBVIOUS
<1>3. ParentsLive'
  BY <1>1, <1>2, ProcessesAssumption DEF OneFamily, ParentsLive
<1>4. ASSUME NEW S \in SUBSET (Pid \ Free'), S # {} PROVE \E p \in S : proc'[p].parent \notin S
  <2>1. CASE S \subseteq {q}
    BY <1>1, <1>4, <2>1, ProcessesAssumption
  <2>2. CASE ~(S \subseteq {q})
    <3>1. S \ {q} \in SUBSET (Pid \ Free) /\ S \ {q} # {}
      BY <1>2, <2>2
    <3>2. PICK p \in S \ {q} : proc[p].parent \notin S \ {q}
      BY <3>1 DEF OneFamily, Rooted
    <3>3. proc[p].parent # q
      BY <1>1, <3>1, <3>2, ProcessesAssumption DEF OneFamily, ParentsLive
    <3> QED  BY <1>2, <3>2, <3>3
  <2> QED  BY <2>1, <2>2
<1> QED  BY <1>3, <1>4 DEF OneFamily, Rooted

\* Reaping a child that does not run leaves no orphan.
LEMMA ReapKeepsFamily ==
  ASSUME ProcessesTypeOK, OneFamily, NEW p \in Pid, ~StillRunning(p), Reap(p)
  PROVE  OneFamily'
<1>1. CASE UNCHANGED proc
  BY <1>1 DEF OneFamily, ParentsLive, Rooted, Free, Running
<1>2. CASE p \in Children(Atone) /\ proc' = [proc EXCEPT ![p] = NoProcess]
  <2>1. p \in Free' /\ \A q \in Pid \ {p} : proc'[q] = proc[q]
    BY <1>2 DEF ProcessesTypeOK, Free, NoProcess
  <2>2. Running \subseteq Running'
    BY <1>2, <2>1 DEF StillRunning, Running
  <2> QED  BY <2>1, <2>2, FamilyShrinks DEF OneFamily, ParentsLive, Free
<1> QED  BY <1>1, <1>2 DEF Reap

\* Marking processes changes neither who lives nor whose child it is.
LEMMA MarksKeepFamily ==
  ASSUME OneFamily,
         \A p \in Pid : proc'[p].state = proc[p].state /\ proc'[p].parent = proc[p].parent
  PROVE  OneFamily' /\ Free' = Free
<1>1. Free' = Free /\ Running' = Running
  BY DEF Free, Running
<1> QED  BY <1>1, FamilyShrinks DEF OneFamily, ParentsLive

LEMMA ProcessesKeepFamily ==
  ASSUME ProcessesTypeOK, OneFamily, ProcessesNext
  PROVE  OneFamily' /\ (Free = Pid => Free' = Pid)
<1> USE DEF ProcessesTypeOK
<1>1. ASSUME NEW p \in Pid, Fork(p) PROVE OneFamily' /\ Free # Pid
  <2>1. p \in Running /\ p \notin Free
    BY <1>1 DEF Fork, Running, Free
  <2>2. PICK q \in Free : proc' = [proc EXCEPT ![q] = NewProcess(None, p, "none")]
    BY <1>1 DEF Fork
  <2>3. OneFamily'
    BY <2>1, <2>2, FamilyGrows DEF ProcessesTypeOK
  <2> QED  BY <2>1, <2>3, <1>1 DEF Fork, Running
<1>2. ASSUME NEW p \in Pid, Exit(p) PROVE OneFamily' /\ Free # Pid
  <2>1. p \in Running
    BY <1>2 DEF Exit
  <2>2. \A q \in Pid : q \in Free' <=> q \in Free
    BY <1>2 DEF Exit, Running, Free, Process
  <2>3. \A q \in Pid \ {p} : q \in Running => q \in Running'
    BY <1>2 DEF Exit, Running, Process
  <2>4. \A q \in Pid \ Free : proc'[q].parent = IF q # p /\ proc[q].parent = p THEN Atone
                                               ELSE proc[q].parent
    BY <1>2 DEF Exit, Children, Process
  <2>5. proc[p].parent # p
    <3>1. {p} \in SUBSET (Pid \ Free)
      BY <2>1 DEF Running, Free
    <3> QED  BY <3>1 DEF OneFamily, Rooted
  <2>6. \A q \in Pid \ Free : \/ proc'[q].parent = Atone
                              \/ proc'[q].parent = proc[q].parent /\ proc[q].parent \in Running'
    BY <2>3, <2>4, <2>5 DEF OneFamily, ParentsLive, Running
  <2> QED  BY <2>1, <2>2, <2>6, FamilyShrinks DEF Running, Free
<1>3. ASSUME NEW p \in Pid, CollectElsewhere(p) PROVE OneFamily' /\ Free # Pid
  <2>1. p \in Free' /\ \A q \in Pid \ {p} : proc'[q] = proc[q]
    BY <1>3 DEF CollectElsewhere, Free, NoProcess
  <2>2. Running \subseteq Running' /\ Free # Pid
    BY <1>3, <2>1 DEF CollectElsewhere, Running, Zombies, Free
  <2> QED  BY <2>1, <2>2, FamilyShrinks DEF OneFamily, ParentsLive, Free
<1>4. ASSUME NEW sig \in Signals, OutsideSignal(sig) PROVE OneFamily' /\ Free' = Free
  BY <1>4 DEF OutsideSignal, OneFamily, ParentsLive, Rooted, Free, Running
<1> QED  BY <1>1, <1>2, <1>3, <1>4 DEF ProcessesNext

LEMMA ProgramKeepsFamily ==
  ASSUME TypeOK, FoundEnded, OneFamily, Program
  PROVE  OneFamily'
<1> USE DEF TypeOK, ProcessesTypeOK
<1>1. CASE UNCHANGED proc
  BY <1>1 DEF OneFamily, ParentsLive, Rooted, Free, Running
<1>2. ASSUME NEW s \in Service, Collected(s), Collect(s) PROVE OneFamily'
  BY <1>2, ReapKeepsFamily DEF Collected, Collect, isRunning, ServicesTypeOK
<1>3. ASSUME NEW s \in Service, Spawn(s) PROVE OneFamily'
  <2>1. PICK p \in Free, fate \in {"none", "failure"} :
            proc' = [proc EXCEPT ![p] = NewProcess(s, Atone, fate)]
    BY <1>3 DEF Spawn
  <2> QED  BY <2>1, FamilyGrows
<1>4. CASE TermAll \/ KillAll
  <2>1. \A p \in Pid : proc'[p].state = proc[p].state /\ proc'[p].parent = proc[p].parent
    BY <1>4 DEF TermAll, KillAll, Process
  <2> QED  BY <2>1, MarksKeepFamily
<1>5. ASSUME NEW s \in Service, isRunning(s), proc' = [proc EXCEPT ![pid[s]].termed = TRUE]
      PROVE  OneFamily'
  <2>1. \A p \in Pid : proc'[p].state = proc[p].state /\ proc'[p].parent = proc[p].parent
    BY <1>5 DEF isRunning, ServicesTypeOK, Process
  <2> QED  BY <2>1, MarksKeepFamily
<1>6. CASE ReapOther
  BY <1>6, ReapKeepsFamily DEF ReapOther, FoundEnded, Ended, Zombies, StillRunning, Running
<1>7. CASE FinalReap
  <2>1. ASSUME NEW p \in Zombies, Reap(p) PROVE OneFamily'
    BY <2>1, ReapKeepsFamily DEF Zombies, StillRunning, Running
  <2> QED  BY <1>1, <1>7, <2>1 DEF FinalReap
<1>8. CASE \E s \in Service : ReapService(s) \/ StopNext(s) \/ StopSucceeds(s) \/ StopTimesOut(s)
  BY <1>1, <1>2, <1>5, <1>8 DEF ReapService, StopNext, StopSucceeds, StopTimesOut, processVars
<1>9. CASE ServicesNext \/ TerminateAll \/ TermTimesOut
  BY <1>1, <1>2, <1>3, <1>4, <1>9 DEF ServicesNext, StartDependency, AlreadyRunning,
     CollectBeforeSpawn, SpawnFails, TerminateAll, TermTimesOut, processVars
<1> QED
  BY <1>1, <1>6, <1>7, <1>8, <1>9
     DEF Program, Bootstrap, CheckSchedule, StartNext, ReceiveAbort, ReceiveStop, ReceiveChild,
         ReceiveTick, ReceiveOther, WaitSignal, Find, ReapingDone, NoChildLeft, AllToldToStop,
         AwaitSignal, AwaitEnds, TermSignal, Abort, processVars

\* Shutdown ends where nothing lives.
Alone == pc \in {"final", "exited"} => Free = Pid

LEMMA ProgramKeepsAlone ==
  ASSUME TypeOK, CallsPlaced, OneFamily, Alone, Program
  PROVE  Alone'
<1> SUFFICES ASSUME pc' \in {"final", "exited"} PROVE Free' = Pid
  BY DEF Alone
<1>1. ~(ServicesNext /\ UNCHANGED programVars)
  BY DEF ServicesNext, StartDependency, AlreadyRunning, CollectBeforeSpawn, Spawn, SpawnFails,
     StartingProcess, Executing, CallsPlaced, programVars
<1>2. NoChildLeft \/ TerminateAll \/ TermTimesOut \/ FinalReap
  BY <1>1 DEF Program, programVars, Bootstrap, CheckSchedule, StartNext, ReceiveAbort,
     ReceiveStop, ReceiveChild, ReceiveTick, ReceiveOther, WaitSignal, BeginShutdown, Find,
     ReapingDone, ReapService, ReapOther, StopNext, StopSucceeds, StopTimesOut, AllToldToStop,
     AwaitSignal, AwaitEnds, TermSignal, Abort, At, Reaping
<1>3. Free = Pid /\ UNCHANGED proc
  <2>1. CASE NoChildLeft
    BY <2>1, ChildlessAlone DEF NoChildLeft, TypeOK, processVars
  <2>2. CASE TerminateAll \/ TermTimesOut
    BY <2>2 DEF TerminateAll, TermTimesOut, At
  <2>3. CASE FinalReap
    BY <2>3 DEF FinalReap, At, Alone, Children
  <2> QED  BY <1>2, <2>1, <2>2, <2>3
<1> QED  BY <1>3 DEF Free

\* When Run returns from Shutdown no process is left, not even a zombie.
THEOREM NobodyLeftBehind == Spec => []NothingLeftBehind
<1>1. Init => OneFamily /\ Alone
  BY DEF Init, ProcessesInit, NoProcess, OneFamily, ParentsLive, Rooted, Alone, Free
<1>2. TypeOK /\ CallsPlaced /\ FoundEnded /\ OneFamily /\ Alone /\ [Next]_vars
        => OneFamily' /\ Alone'
  <2> SUFFICES ASSUME TypeOK, CallsPlaced, FoundEnded, OneFamily, Alone, [Next]_vars
               PROVE  OneFamily' /\ Alone'
    OBVIOUS
  <2>1. CASE Program
    BY <2>1, ProgramKeepsFamily, ProgramKeepsAlone
  <2>2. CASE ProcessesNext /\ UNCHANGED <<serviceVars, programVars>>
    BY <2>2, ProcessesKeepFamily DEF TypeOK, Alone, programVars
  <2>3. CASE UNCHANGED <<proc, pc>>
    BY <2>3 DEF OneFamily, ParentsLive, Rooted, Alone, Free, Running
  <2> QED  BY <2>1, <2>2, <2>3 DEF Next, Environment, Terminated, MinutePasses, TimeoutPasses,
              vars, processVars, programVars
<1>3. Alone => NothingLeftBehind
  BY DEF Alone, NothingLeftBehind
<1> QED  BY <1>1, <1>2, <1>3, Typing, CallsPlacedAlways, FoundEndedAlways, PTL DEF Spec
=============================================================================
