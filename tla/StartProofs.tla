----------------------------- MODULE StartProofs -----------------------------
(***************************************************************************)
(* Theorems about starting services: dependencies run first, services that *)
(* need a cycle or an unknown name never run, and whoever notices the end  *)
(* of a service applies its policy.  They rest on an invariant of the      *)
(* calls of Service::Start in progress.                                    *)
(***************************************************************************)
EXTENDS SupervisorProofs

-----------------------------------------------------------------------------
(* Services that cannot be started                                         *)

\* Each of them needs another one of them or an unknown name.
LEMMA UnstartableNeeds ==
  /\ Unstartable \subseteq Service
  /\ \A s \in Unstartable : Dependencies(s) \cap (Unstartable \cup (Name \ Service)) # {}
<1>1. Unstartable \subseteq Service
  BY DEF Unstartable
<1>2. ASSUME NEW s \in Unstartable
      PROVE  Dependencies(s) \cap (Unstartable \cup (Name \ Service)) # {}
  <2>1. PICK S \in SUBSET Service :
            s \in S /\ \A t \in S : Dependencies(t) \cap (S \cup (Name \ Service)) # {}
    BY DEF Unstartable
  <2>2. S \subseteq Unstartable
    BY <2>1 DEF Unstartable
  <2> QED  BY <2>1, <2>2
<1> QED  BY <1>1, <1>2

\* Any set of services closed in that way consists of such services.
LEMMA UnstartableSet ==
  ASSUME NEW S \in SUBSET Service,
         \A s \in S : Dependencies(s) \cap (S \cup (Name \ Service)) # {}
  PROVE  S \subseteq Unstartable
BY DEF Unstartable

\* Start throws for them only: for a name that is not configured.
LEMMA NotFoundIsReal ==
  ASSUME NEW s \in Service, NEW stack, StartError(s, stack) = "service not found"
  PROVE  s \in Unstartable
<1>1. PICK i \in DOMAIN DependsOn[s] : DependsOn[s][i] \notin Service
  BY DEF StartError
<1>2. DependsOn[s][i] \in Name
  BY <1>1, ServicesAssumption, ElementOfSeq, LenProperties
<1>3. DependsOn[s][i] \in Dependencies(s)
  BY <1>1 DEF Dependencies, ToSet
<1> QED  BY <1>1, <1>2, <1>3, UnstartableSet, {s} \in SUBSET Service

-----------------------------------------------------------------------------
(* The calls of Start in progress                                          *)

\* A service has the status Running as long as it has a process; the status
\* Stopped is never given.
StatusKept ==
    \A s \in Service : (status[s] = "Running" <=> isRunning(s)) /\ status[s] # "Stopped"

\* All a service depends on is configured, and each dependency is still to be
\* looked at, or runs, or is what the next call starts.
DependenciesAt(i) ==
    /\ Dependencies(callstack[i].service) \subseteq Service
    /\ ToSet(callstack[i].deps) \subseteq Dependencies(callstack[i].service)
    /\ \A d \in Dependencies(callstack[i].service) :
          \/ d \in ToSet(callstack[i].deps)
          \/ isRunning(d)
          \/ i < Len(callstack) /\ d = callstack[i + 1].service

\* A call is made for a dependency of its caller's.  Only the outermost is made
\* for a service that may be running, and no two are for the same.
ChainAt(i) ==
    /\ i < Len(callstack) => callstack[i + 1].service \in Dependencies(callstack[i].service)
    /\ i > 1 => ~isRunning(callstack[i].service)
    /\ \A j \in 1 .. Len(callstack) : callstack[j].service = callstack[i].service => j = i

CallsOK == \A i \in 1 .. Len(callstack) : DependenciesAt(i) /\ ChainAt(i)

StartInv == StatusKept /\ CallsOK /\ UnstartableNeverRun /\ FaultsAreReal

\* The number of calls.
LEMMA Depth ==
  ASSUME callstack \in Seq(Frame), callstack # <<>>
  PROVE  \E n \in Nat : n = Len(callstack) /\ n > 0
<1>1. Len(callstack) \in Nat \ {0}
  BY TopFrame
<1> QED  BY <1>1, SMT

\* The next dependency, and the rest of them.
LEMMA HeadAndTail ==
  ASSUME NEW S, NEW seq \in Seq(S), seq # <<>>
  PROVE  ToSet(seq) = {Head(seq)} \cup ToSet(Tail(seq))
<1>1. Len(seq) \in Nat /\ Len(seq) > 0 /\ DOMAIN seq = 1 .. Len(seq) /\ Head(seq) = seq[1]
  BY EmptySeq, LenProperties, HeadTailProperties
<1>2. /\ Len(Tail(seq)) = Len(seq) - 1
      /\ DOMAIN Tail(seq) = 1 .. (Len(seq) - 1)
      /\ \A i \in 1 .. (Len(seq) - 1) : Tail(seq)[i] = seq[i + 1]
  BY <1>1, HeadTailProperties, LenProperties
<1>3. \A i \in 2 .. Len(seq) : i - 1 \in 1 .. (Len(seq) - 1) /\ seq[i] = Tail(seq)[i - 1]
  BY <1>1, <1>2
<1>4. ToSet(Tail(seq)) \subseteq ToSet(seq)
  BY <1>1, <1>2 DEF ToSet
<1>5. Head(seq) \in ToSet(seq)
  BY <1>1 DEF ToSet
<1>6. ToSet(seq) \subseteq {Head(seq)} \cup ToSet(Tail(seq))
  <2> SUFFICES ASSUME NEW i \in 2 .. Len(seq) PROVE seq[i] \in ToSet(Tail(seq))
    BY <1>1 DEF ToSet
  <2> QED  BY <1>2, <1>3 DEF ToSet
<1> QED  BY <1>4, <1>5, <1>6

LEMMA EmptyToSet == ToSet(<<>>) = {}
BY EmptySeq DEF ToSet

\* What going on to the next dependency changes.
LEMMA NextDependencyShape ==
  ASSUME callstack \in Seq(Frame), callstack # <<>>
  PROVE  /\ Len(NextDependency) = Len(callstack)
         /\ \A i \in 1 .. Len(callstack) - 1 : NextDependency[i] = callstack[i]
         /\ NextDependency[Len(callstack)].service = Top.service
         /\ NextDependency[Len(callstack)].deps = Tail(Top.deps)
         /\ \A i \in 1 .. Len(callstack) : NextDependency[i].service = callstack[i].service
<1>1. Len(callstack) \in Nat \ {0} /\ DOMAIN callstack = 1 .. Len(callstack) /\ Top \in Frame
  BY TopFrame
<1>2. NextDependency = [callstack EXCEPT ![Len(callstack)] = [Top EXCEPT !.deps = Tail(Top.deps)]]
  BY DEF NextDependency, Top
<1>3. NextDependency[Len(callstack)] = [Top EXCEPT !.deps = Tail(Top.deps)]
  BY <1>1, <1>2
<1>4. \A i \in 1 .. Len(callstack) - 1 : NextDependency[i] = callstack[i]
  BY <1>1, <1>2
<1>5. DOMAIN NextDependency = 1 .. Len(callstack)
  BY <1>1, <1>2
<1>6. Len(NextDependency) = Len(callstack)
  BY <1>1, <1>5
<1>7. /\ NextDependency[Len(callstack)].service = Top.service
      /\ NextDependency[Len(callstack)].deps = Tail(Top.deps)
  BY <1>1, <1>3 DEF Frame
<1>8. \A i \in 1 .. Len(callstack) : i = Len(callstack) \/ i \in 1 .. Len(callstack) - 1
  <2>1. Len(callstack) \in Nat
    BY <1>1
  <2> QED  BY <2>1, SMT
<1> QED  BY <1>4, <1>6, <1>7, <1>8 DEF Top

\* What entering a call adds.
LEMMA EnterShape ==
  ASSUME NEW d, NEW stack \in Seq(Frame)
  PROVE  /\ Len(Enter(d, stack)) = Len(stack) + 1
         /\ \A i \in 1 .. Len(stack) : Enter(d, stack)[i] = stack[i]
         /\ Enter(d, stack)[Len(stack) + 1] = [service |-> d, deps |-> DependsOn[d]]
BY DEF Enter

\* What returning leaves.
LEMMA ReturnShape ==
  ASSUME callstack \in Seq(Frame), callstack # <<>>
  PROVE  /\ Len(Caller) = Len(callstack) - 1
         /\ \A i \in 1 .. Len(callstack) - 1 : Caller[i] = callstack[i]
<1>1. Len(callstack) \in Nat /\ Len(callstack) > 0
  BY Depth
<1>2. \A i \in 1 .. Len(callstack) - 1 : callstack[i] \in Frame
  BY <1>1, ElementOfSeq
<1>3. /\ Len(Caller) = IF 1 <= Len(callstack) - 1 THEN Len(callstack) - 1 - 1 + 1 ELSE 0
      /\ \A i \in 1 .. Len(callstack) - 1 - 1 + 1 : Caller[i] = callstack[1 + i - 1]
  BY <1>1, <1>2, SubSeqProperties DEF Caller
<1>4. Len(Caller) = Len(callstack) - 1
  <2>1. \A n \in Nat : n > 0 => (IF 1 <= n - 1 THEN n - 1 - 1 + 1 ELSE 0) = n - 1
    BY SMT
  <2> QED  BY <1>1, <1>3, <2>1
<1> QED  BY <1>1, <1>3, <1>4

\* What Start looks at before it enters a call.
LEMMA StartErrorNone ==
  ASSUME NEW s \in Service, NEW stack, StartError(s, stack) = "none"
  PROVE  /\ \A i \in DOMAIN stack : stack[i].service # s
         /\ Dependencies(s) \subseteq Service
<1>1. \A i \in DOMAIN stack : stack[i].service # s
  BY DEF StartError, Callers
<1>2. \A i \in DOMAIN DependsOn[s] : DependsOn[s][i] \in Service
  BY DEF StartError
<1> QED  BY <1>1, <1>2 DEF Dependencies, ToSet

LEMMA StartErrorCircular ==
  ASSUME NEW s, NEW stack, StartError(s, stack) = "circular dependency"
  PROVE  s \in Callers(stack)
BY DEF StartError

\* The first call.
LEMMA FirstCall ==
  ASSUME NEW s \in Service, StartError(s, <<>>) = "none", callstack' = Enter(s, <<>>)
  PROVE  CallsOK'
<1>1. /\ Len(callstack') = Len(<<>>) + 1
      /\ callstack'[Len(<<>>) + 1] = [service |-> s, deps |-> DependsOn[s]]
  BY EnterShape, EmptySeq
<1>2. Len(callstack') = 1 /\ callstack'[1].service = s /\ callstack'[1].deps = DependsOn[s]
  BY <1>1, EmptySeq
<1>3. Dependencies(s) \subseteq Service /\ ToSet(DependsOn[s]) = Dependencies(s)
  BY StartErrorNone DEF Dependencies
<1>4. DependenciesAt(1)'
  BY <1>2, <1>3 DEF DependenciesAt
<1>5. ChainAt(1)'
  BY <1>2 DEF ChainAt
<1> QED
  <2> SUFFICES ASSUME NEW i \in 1 .. 1 PROVE DependenciesAt(i)' /\ ChainAt(i)'
    BY <1>2 DEF CallsOK
  <2>1. i = 1
    OBVIOUS
  <2> QED  BY <1>4, <1>5, <2>1

\* The innermost call goes on to its next dependency, which runs.
LEMMA NextCall ==
  ASSUME callstack \in Seq(Frame), callstack # <<>>, Top.deps # <<>>, CallsOK,
         isRunning(Head(Top.deps)), callstack' = NextDependency, UNCHANGED pid
  PROVE  CallsOK'
<1>1. PICK n \in Nat : n = Len(callstack) /\ n > 0
  BY Depth
<1>2. /\ Len(callstack') = n
      /\ \A i \in 1 .. n : callstack'[i].service = callstack[i].service
      /\ \A i \in 1 .. n - 1 : callstack'[i] = callstack[i]
      /\ callstack'[n].deps = Tail(Top.deps)
  BY <1>1, NextDependencyShape
<1>3. ToSet(Top.deps) = {Head(Top.deps)} \cup ToSet(Tail(Top.deps))
  <2>1. Top.deps \in Seq(Service)
    BY TopFrame DEF Frame
  <2> QED  BY <2>1, HeadAndTail
<1>4. \A i \in 1 .. n : DependenciesAt(i) /\ ChainAt(i)
  BY <1>1 DEF CallsOK
<1>5. ASSUME NEW i \in 1 .. n - 1 PROVE DependenciesAt(i)'
  <2>1. DependenciesAt(i) /\ i + 1 \in 1 .. n
    BY <1>1, <1>4
  <2> QED  BY <1>1, <1>2, <1>5, <2>1 DEF DependenciesAt, isRunning
<1>6. DependenciesAt(n)'
  <2>1. DependenciesAt(n) /\ n \in 1 .. n
    BY <1>1, <1>4
  <2>2. callstack[n].deps = Top.deps
    BY <1>1 DEF Top
  <2> QED  BY <1>1, <1>2, <1>3, <2>1, <2>2 DEF DependenciesAt, isRunning
<1>7. ASSUME NEW i \in 1 .. n PROVE ChainAt(i)'
  <2>1. ChainAt(i) /\ (i < n => i + 1 \in 1 .. n)
    BY <1>1, <1>4
  <2> QED  BY <1>1, <1>2, <1>7, <2>1 DEF ChainAt, isRunning
<1> QED
  <2> SUFFICES ASSUME NEW i \in 1 .. n PROVE DependenciesAt(i)' /\ ChainAt(i)'
    BY <1>2 DEF CallsOK
  <2>1. i = n \/ i \in 1 .. n - 1
    BY <1>1
  <2> QED  BY <1>5, <1>6, <1>7, <2>1

\* The innermost call starts its next dependency, which does not run.
LEMMA DeeperCall ==
  ASSUME callstack \in Seq(Frame), callstack # <<>>, Top.deps # <<>>, CallsOK,
         ~isRunning(Head(Top.deps)), StartError(Head(Top.deps), NextDependency) = "none",
         callstack' = Enter(Head(Top.deps), NextDependency), UNCHANGED pid
  PROVE  CallsOK'
<1>1. PICK n \in Nat : n = Len(callstack) /\ n > 0
  BY Depth
<1>2. PICK d \in Service : d = Head(Top.deps)
  BY NextDependencyType
<1>3. NextDependency \in Seq(Frame) /\ Len(NextDependency) = n
  BY <1>1, NextDependencyType, NextDependencyShape
<1>4. /\ Len(callstack') = n + 1
      /\ \A i \in 1 .. n : callstack'[i] = NextDependency[i]
      /\ callstack'[n + 1] = [service |-> d, deps |-> DependsOn[d]]
  <2>1. callstack' = Enter(d, NextDependency)
    BY <1>2
  <2>2. /\ Len(Enter(d, NextDependency)) = n + 1
        /\ \A i \in 1 .. n : Enter(d, NextDependency)[i] = NextDependency[i]
        /\ Enter(d, NextDependency)[n + 1] = [service |-> d, deps |-> DependsOn[d]]
    BY <1>3 DEF Enter
  <2> QED  BY <2>1, <2>2
<1>5. /\ \A i \in 1 .. n : callstack'[i].service = callstack[i].service
      /\ \A i \in 1 .. n - 1 : callstack'[i] = callstack[i]
      /\ callstack'[n].deps = Tail(Top.deps)
      /\ callstack'[n + 1].service = d /\ callstack'[n + 1].deps = DependsOn[d]
  <2>1. /\ \A i \in 1 .. n : NextDependency[i].service = callstack[i].service
        /\ \A i \in 1 .. n - 1 : NextDependency[i] = callstack[i]
        /\ NextDependency[n].deps = Tail(Top.deps)
    BY <1>1, NextDependencyShape
  <2>2. n \in 1 .. n /\ \A i \in 1 .. n - 1 : i \in 1 .. n
    BY <1>1
  <2> QED  BY <1>4, <2>1, <2>2
<1>6. /\ ToSet(Top.deps) = {d} \cup ToSet(Tail(Top.deps))
      /\ callstack[n].deps = Top.deps
  <2>1. Top.deps \in Seq(Service)
    BY TopFrame DEF Frame
  <2> QED  BY <1>1, <1>2, <2>1, HeadAndTail DEF Top
<1>7. /\ \A i \in 1 .. n : callstack[i].service # d
      /\ Dependencies(d) \subseteq Service
  <2>1. DOMAIN NextDependency = 1 .. n
    BY <1>3, LenProperties
  <2> QED  BY <1>1, <1>2, <2>1, StartErrorNone, NextDependencyShape
<1>8. \A i \in 1 .. n : DependenciesAt(i) /\ ChainAt(i)
  BY <1>1 DEF CallsOK
<1>9. ASSUME NEW i \in 1 .. n - 1 PROVE DependenciesAt(i)'
  <2>1. DependenciesAt(i) /\ i + 1 \in 1 .. n
    BY <1>1, <1>8
  <2> QED  BY <1>1, <1>4, <1>5, <1>9, <2>1 DEF DependenciesAt, isRunning
<1>10. DependenciesAt(n)'
  <2>1. DependenciesAt(n) /\ n \in 1 .. n
    BY <1>1, <1>8
  <2> QED  BY <1>1, <1>4, <1>5, <1>6, <2>1 DEF DependenciesAt, isRunning
<1>11. DependenciesAt(n + 1)'
  BY <1>5, <1>7 DEF DependenciesAt, Dependencies
<1>12. ASSUME NEW i \in 1 .. n PROVE ChainAt(i)'
  <2>1. ChainAt(i) /\ (i < n => i + 1 \in 1 .. n)
    BY <1>1, <1>8
  <2>2. d \in Dependencies(callstack[n].service)
    <3>1. n \in 1 .. n
      BY <1>1
    <3> QED  BY <1>6, <1>8, <3>1 DEF DependenciesAt
  <2>3. \A j \in 1 .. n + 1 : j \in 1 .. n \/ j = n + 1
    BY <1>1
  <2> QED  BY <1>1, <1>4, <1>5, <1>7, <1>12, <2>1, <2>2, <2>3 DEF ChainAt, isRunning
<1>13. ChainAt(n + 1)'
  <2>1. \A j \in 1 .. n + 1 : j \in 1 .. n \/ j = n + 1
    BY <1>1
  <2> QED  BY <1>1, <1>2, <1>4, <1>5, <1>7, <2>1 DEF ChainAt, isRunning
<1> QED
  <2> SUFFICES ASSUME NEW i \in 1 .. n + 1 PROVE DependenciesAt(i)' /\ ChainAt(i)'
    BY <1>4 DEF CallsOK
  <2>1. i = n + 1 \/ i = n \/ i \in 1 .. n - 1
    BY <1>1
  <2>2. i = n + 1 \/ i \in 1 .. n
    BY <1>1
  <2> QED  BY <1>9, <1>10, <1>11, <1>12, <1>13, <2>1, <2>2

\* The innermost call returns, and its service runs.
LEMMA CallReturns ==
  ASSUME callstack \in Seq(Frame), callstack # <<>>, CallsOK, callstack' = Caller,
         pid'[Top.service] # None,
         \A s \in Service : s # Top.service => pid'[s] = pid[s]
  PROVE  CallsOK'
<1>1. PICK n \in Nat : n = Len(callstack) /\ n > 0
  BY Depth
<1>2. PICK t \in Service : t = Top.service /\ t = callstack[n].service /\ pid'[t] # None
  <2>1. Top \in Frame
    BY TopFrame
  <2>2. Top.service \in Service
    BY <2>1 DEF Frame
  <2> QED  BY <1>1, <2>2 DEF Top
<1>3. \A s \in Service : s # t => pid'[s] = pid[s]
  BY <1>1, <1>2
<1>4. Len(callstack') = n - 1 /\ \A i \in 1 .. n - 1 : callstack'[i] = callstack[i]
  BY <1>1, ReturnShape
<1>5. \A i \in 1 .. n : /\ DependenciesAt(i) /\ ChainAt(i)
                        /\ callstack[i].service \in Service
  <2>1. \A i \in 1 .. n : callstack[i] \in Frame
    BY <1>1, ElementOfSeq
  <2> QED  BY <1>1, <2>1 DEF CallsOK, Frame
<1>6. SUFFICES ASSUME NEW i \in 1 .. n - 1 PROVE DependenciesAt(i)' /\ ChainAt(i)'
  BY <1>4 DEF CallsOK
<1>7. i \in 1 .. n /\ i + 1 \in 1 .. n /\ n \in 1 .. n /\ i # n
  BY <1>1
<1>8. DependenciesAt(i)'
  <2>1. DependenciesAt(i)
    BY <1>5, <1>7
  <2>2. ASSUME NEW d \in Dependencies(callstack[i].service)
        PROVE  \/ d \in ToSet(callstack[i].deps)
               \/ pid'[d] # None
               \/ i < n - 1 /\ d = callstack[i + 1].service
    <3>1. d \in Service
      BY <2>1, <2>2 DEF DependenciesAt
    <3>2. CASE isRunning(d)
      BY <1>2, <1>3, <3>1, <3>2 DEF isRunning
    <3>3. CASE d = callstack[i + 1].service
      BY <1>1, <1>2, <1>7, <3>3
    <3> QED  BY <2>1, <2>2, <3>2, <3>3 DEF DependenciesAt
  <2>3. callstack'[i] = callstack[i] /\ Len(callstack') = n - 1
    BY <1>4
  <2>4. i < n - 1 => callstack'[i + 1] = callstack[i + 1]
    BY <1>1, <1>4
  <2>5. /\ Dependencies(callstack'[i].service) \subseteq Service
        /\ ToSet(callstack'[i].deps) \subseteq Dependencies(callstack'[i].service)
    BY <2>1, <2>3 DEF DependenciesAt
  <2>6. \A d \in Dependencies(callstack'[i].service) :
           \/ d \in ToSet(callstack'[i].deps)
           \/ isRunning(d)'
           \/ i < Len(callstack') /\ d = callstack'[i + 1].service
    BY <2>2, <2>3, <2>4 DEF isRunning
  <2> QED  BY <2>5, <2>6 DEF DependenciesAt
<1>9. ChainAt(i)'
  <2>1. ChainAt(i)
    BY <1>5, <1>7
  <2>2. callstack[i].service # t
    BY <1>1, <1>2, <1>7, <2>1 DEF ChainAt
  <2>3. pid'[callstack[i].service] = pid[callstack[i].service]
    BY <1>3, <1>5, <1>7, <2>2
  <2>4. \A j \in 1 .. n - 1 : j \in 1 .. n
    BY <1>1
  <2>5. i < n - 1 => i < n /\ i + 1 \in 1 .. n - 1
    BY <1>1
  <2> QED  BY <1>1, <1>4, <2>1, <2>3, <2>4, <2>5 DEF ChainAt, isRunning
<1> QED  BY <1>8, <1>9

\* When the innermost call has looked at all its dependencies they all run.
LEMMA DependenciesRun ==
  ASSUME callstack \in Seq(Frame), callstack # <<>>, CallsOK, Top.deps = <<>>
  PROVE  /\ Dependencies(Top.service) \subseteq Service
         /\ \A d \in Dependencies(Top.service) : isRunning(d)
         /\ ChainAt(Len(callstack))
<1>1. PICK n \in Nat : n = Len(callstack) /\ n > 0
  BY Depth
<1>2. n \in 1 .. n
  BY <1>1
<1>3. DependenciesAt(n) /\ ChainAt(n)
  BY <1>1, <1>2 DEF CallsOK
<1> QED  BY <1>1, <1>3, EmptyToSet DEF DependenciesAt, Top

\* Its process having ended is noticed there only for the outermost call.
LEMMA CallCollects ==
  ASSUME ServicesTypeOK, callstack # <<>>, CallsOK, Top.deps = <<>>, isRunning(Top.service),
         Top.service \notin Dependencies(Top.service),
         pid' = [pid EXCEPT ![Top.service] = None], UNCHANGED callstack
  PROVE  CallsOK'
<1> USE DEF ServicesTypeOK
<1>1. PICK n \in Nat : n = Len(callstack) /\ n > 0
  BY Depth
<1>2. ChainAt(n) /\ Top.service = callstack[n].service
  BY <1>1, DependenciesRun DEF Top
<1>3. n = 1
  BY <1>1, <1>2 DEF ChainAt
<1>4. /\ Dependencies(Top.service) \subseteq Service
      /\ \A d \in Dependencies(Top.service) : pid'[d] # None
  BY DependenciesRun DEF isRunning
<1>5. DependenciesAt(1)'
  BY <1>1, <1>2, <1>3, <1>4, EmptyToSet DEF DependenciesAt, isRunning, Top
<1>6. ChainAt(1)'
  BY <1>1, <1>3 DEF ChainAt
<1> QED
  <2> SUFFICES ASSUME NEW i \in 1 .. 1 PROVE DependenciesAt(i)' /\ ChainAt(i)'
    BY <1>1, <1>3 DEF CallsOK
  <2>1. i = 1
    OBVIOUS
  <2> QED  BY <1>5, <1>6, <2>1

-----------------------------------------------------------------------------
(* The invariant is kept                                                   *)

\* An exception that Start raises is about a service that cannot be started.
LEMMA CircularIsReal ==
  ASSUME callstack \in Seq(Frame), callstack # <<>>, Top.deps # <<>>, CallsOK,
         Head(Top.deps) \in Callers(NextDependency)
  PROVE  Unstartable # {}
<1>1. PICK n \in Nat : n = Len(callstack) /\ n > 0
  BY Depth
<1>2. \A i \in 1 .. n : /\ DependenciesAt(i) /\ ChainAt(i)
                        /\ callstack[i].service \in Service
  <2>1. \A i \in 1 .. n : callstack[i] \in Frame
    BY <1>1, ElementOfSeq
  <2> QED  BY <1>1, <2>1 DEF CallsOK, Frame
<1> DEFINE S == {callstack[i].service : i \in 1 .. n}
<1>0. \A i \in 1 .. n : callstack[i].service \in S
  OBVIOUS
<1>3. Head(Top.deps) \in S
  <2>1. DOMAIN NextDependency = 1 .. n
    BY <1>1, NextDependencyType, NextDependencyShape, LenProperties
  <2>2. \A i \in 1 .. n : NextDependency[i].service = callstack[i].service
    BY <1>1, NextDependencyShape
  <2> QED  BY <2>1, <2>2 DEF Callers
<1>4. Head(Top.deps) \in Dependencies(callstack[n].service)
  <2>1. Top.deps \in Seq(Service) /\ Top = callstack[n]
    BY <1>1, TopFrame DEF Frame, Top
  <2>2. Head(Top.deps) \in ToSet(Top.deps)
    BY <2>1, HeadAndTail
  <2>3. n \in 1 .. n
    BY <1>1
  <2> QED  BY <1>2, <2>1, <2>2, <2>3 DEF DependenciesAt
<1>5. ASSUME NEW s \in S PROVE Dependencies(s) \cap S # {}
  <2>1. PICK i \in 1 .. n : s = callstack[i].service
    OBVIOUS
  <2>2. CASE i = n
    BY <1>3, <1>4, <2>1, <2>2
  <2>3. CASE i # n
    <3>1. i < n /\ i + 1 \in 1 .. n
      BY <1>1, <2>3
    <3>2. callstack[i + 1].service \in Dependencies(s)
      BY <1>1, <1>2, <2>1, <3>1 DEF ChainAt
    <3>3. callstack[i + 1].service \in S
      BY <1>0, <3>1
    <3> QED  BY <3>2, <3>3
  <2> QED  BY <2>2, <2>3
<1>6. S \in SUBSET Service /\ S # {}
  BY <1>2, <1>3
<1> HIDE DEF S
<1>7. \A s \in S : Dependencies(s) \cap (S \cup (Name \ Service)) # {}
  BY <1>5
<1>8. S \subseteq Unstartable
  BY <1>6, <1>7, UnstartableSet
<1> QED  BY <1>6, <1>8

LEMMA NoCalls ==
  ASSUME callstack' = <<>>
  PROVE  CallsOK'
<1>1. Len(callstack') = 0
  BY EmptySeq
<1> QED  BY <1>1 DEF CallsOK

\* Start called from the program: it enters its first call or throws for a reason.
LEMMA StartKeeps ==
  ASSUME NEW s \in Service, Start(s), FaultsAreReal
  PROVE  CallsOK' /\ FaultsAreReal'
<1>1. CASE StartError(s, <<>>) = "none"
  BY <1>1, FirstCall DEF Start, FaultsAreReal
<1>2. CASE StartError(s, <<>>) # "none"
  <2>1. callstack' = <<>> /\ fault' = StartError(s, <<>>)
    BY <1>2 DEF Start, Throw
  <2>2. StartError(s, <<>>) # "circular dependency"
    <3>1. Callers(<<>>) = {}
      BY EmptySeq DEF Callers
    <3> QED  BY <3>1, StartErrorCircular
  <2>3. fault' = "service not found"
    BY <1>2, <2>1, <2>2 DEF StartError
  <2>4. s \in Unstartable
    BY <2>1, <2>3, NotFoundIsReal
  <2>5. FaultsAreReal'
    BY <2>3, <2>4 DEF FaultsAreReal
  <2> QED  BY <2>1, <2>5, NoCalls
<1> QED  BY <1>1, <1>2

\* A service that runs does not depend on itself.
LEMMA RunningNotSelfDependent ==
  ASSUME UnstartableNeverRun, NEW s \in Service, isRunning(s)
  PROVE  s \notin Dependencies(s)
<1> SUFFICES ASSUME s \in Dependencies(s) PROVE FALSE
  OBVIOUS
<1>1. {s} \subseteq Unstartable
  BY UnstartableSet, {s} \in SUBSET Service
<1> QED  BY <1>1 DEF UnstartableNeverRun

\* A service all of whose dependencies run can be started.
LEMMA StartingIsStartable ==
  ASSUME ServicesTypeOK, CallsOK, UnstartableNeverRun, NEW s \in Service, StartingProcess(s)
  PROVE  s \notin Unstartable
<1>1. /\ Dependencies(s) \subseteq Service
      /\ \A d \in Dependencies(s) : isRunning(d)
  BY DependenciesRun DEF ServicesTypeOK, StartingProcess, Executing
<1> QED  BY <1>1, UnstartableNeeds DEF UnstartableNeverRun

LEMMA StartDependencyKeepsInv ==
  ASSUME ServicesTypeOK, StartInv, StartDependency
  PROVE  StartInv'
<1> USE DEF StartInv
<1>1. callstack # <<>> /\ Top.deps # <<>> /\ callstack \in Seq(Frame) /\ fault = "none"
  BY DEF StartDependency, Executing, ServicesTypeOK
<1>2. UNCHANGED <<pid, status>>
  BY DEF StartDependency
<1>3. StatusKept' /\ UnstartableNeverRun'
  BY <1>2 DEF StatusKept, UnstartableNeverRun, isRunning
<1>4. PICK d \in Service : d = Head(Top.deps) /\ (status[d] = "Running" <=> isRunning(d))
                           /\ status[d] # "Stopped"
  BY <1>1, NextDependencyType DEF StatusKept
<1>5. CASE isRunning(d)
  <2>1. callstack' = NextDependency /\ fault' = fault
    BY <1>4, <1>5 DEF StartDependency
  <2>2. CallsOK'
    BY <1>1, <1>2, <1>4, <1>5, <2>1, NextCall
  <2> QED  BY <1>3, <2>1, <2>2 DEF FaultsAreReal
<1>6. CASE ~isRunning(d) /\ StartError(d, NextDependency) = "none"
  <2>1. callstack' = Enter(d, NextDependency) /\ fault' = fault
    BY <1>4, <1>6 DEF StartDependency
  <2>2. CallsOK'
    BY <1>1, <1>2, <1>4, <1>6, <2>1, DeeperCall
  <2> QED  BY <1>3, <2>1, <2>2 DEF FaultsAreReal
<1>7. CASE ~isRunning(d) /\ StartError(d, NextDependency) # "none"
  <2>1. callstack' = <<>> /\ fault' = StartError(d, NextDependency)
    BY <1>4, <1>7 DEF StartDependency, Throw
  <2>2. fault' \in {"circular dependency", "service not found"}
    BY <1>7, <2>1 DEF StartError
  <2>3. Unstartable # {}
    <3>1. CASE fault' = "circular dependency"
      <4>1. d \in Callers(NextDependency)
        BY <2>1, <3>1, StartErrorCircular
      <4> QED  BY <1>1, <1>4, <4>1, CircularIsReal
    <3>2. CASE fault' = "service not found"
      BY <2>1, <3>2, NotFoundIsReal
    <3> QED  BY <2>2, <3>1, <3>2
  <2>4. FaultsAreReal'
    BY <2>2, <2>3 DEF FaultsAreReal
  <2> QED  BY <1>3, <2>1, <2>4, NoCalls
<1> QED  BY <1>5, <1>6, <1>7

LEMMA StartProcessKeepsInv ==
  ASSUME ServicesTypeOK, StartInv, NEW s \in Service,
         AlreadyRunning(s) \/ CollectBeforeSpawn(s) \/ Spawn(s) \/ SpawnFails(s)
  PROVE  StartInv'
<1> USE DEF StartInv
<1>1. callstack # <<>> /\ callstack \in Seq(Frame) /\ Top.deps = <<>> /\ Top.service = s
  BY DEF AlreadyRunning, CollectBeforeSpawn, Spawn, SpawnFails, StartingProcess, Executing,
     ServicesTypeOK
<1>2. CASE AlreadyRunning(s)
  <2>1. UNCHANGED <<pid, status, fault>> /\ callstack' = Caller /\ pid[s] # None
    BY <1>2 DEF AlreadyRunning, Return, isRunning
  <2>2. CallsOK'
    BY <1>1, <2>1, CallReturns
  <2> QED  BY <2>1, <2>2 DEF StatusKept, UnstartableNeverRun, FaultsAreReal, isRunning
<1>3. CASE CollectBeforeSpawn(s)
  <2>1. /\ isRunning(s) /\ pid' = [pid EXCEPT ![s] = None]
        /\ status' = [status EXCEPT ![s] = "Broken"]
        /\ UNCHANGED <<callstack, fault>>
    BY <1>3 DEF CollectBeforeSpawn, Collected, Collect
  <2>2. CallsOK'
    BY <1>1, <2>1, RunningNotSelfDependent, CallCollects
  <2>3. StatusKept'
    BY <2>1 DEF StatusKept, isRunning, ServicesTypeOK
  <2>4. UnstartableNeverRun'
    BY <2>1, UnstartableNeeds DEF UnstartableNeverRun, isRunning, ServicesTypeOK
  <2> QED  BY <2>1, <2>2, <2>3, <2>4 DEF FaultsAreReal
<1>4. CASE Spawn(s)
  <2>1. PICK p \in Pid : /\ pid' = [pid EXCEPT ![s] = p]
                         /\ status' = [status EXCEPT ![s] = "Running"]
                         /\ callstack' = Caller /\ UNCHANGED fault
    BY <1>4 DEF Spawn, Return, Free
  <2>2. p # None
    BY ProcessesAssumption
  <2>3. s \notin Unstartable
    BY <1>4, StartingIsStartable DEF Spawn
  <2>4. pid'[s] # None /\ \A t \in Service : t # s => pid'[t] = pid[t]
    BY <2>1, <2>2 DEF ServicesTypeOK
  <2>5. CallsOK'
    BY <1>1, <2>1, <2>4, CallReturns
  <2>6. StatusKept'
    BY <2>1, <2>4 DEF StatusKept, isRunning, ServicesTypeOK
  <2>7. UnstartableNeverRun'
    BY <2>1, <2>3, <2>4, UnstartableNeeds DEF UnstartableNeverRun, isRunning, ServicesTypeOK
  <2> QED  BY <2>1, <2>5, <2>6, <2>7 DEF FaultsAreReal
<1>5. CASE SpawnFails(s)
  <2>1. /\ UNCHANGED pid /\ ~isRunning(s) /\ status' = [status EXCEPT ![s] = "Broken"]
        /\ fault' = "fork failed" /\ callstack' = <<>>
    BY <1>5 DEF SpawnFails, Throw
  <2>2. s \notin Unstartable
    BY <1>5, StartingIsStartable DEF SpawnFails
  <2>3. StatusKept' /\ UnstartableNeverRun'
    BY <2>1, <2>2, UnstartableNeeds DEF StatusKept, UnstartableNeverRun, isRunning, ServicesTypeOK
  <2> QED  BY <2>1, <2>3, NoCalls DEF FaultsAreReal
<1> QED  BY <1>2, <1>3, <1>4, <1>5

\* Collecting a process that ended.
LEMMA CollectKeepsInv ==
  ASSUME ServicesTypeOK, StartInv, NEW s \in Service, Collected(s), Collect(s)
  PROVE  StatusKept' /\ UnstartableNeverRun'
BY UnstartableNeeds
   DEF StartInv, Collected, Collect, StatusKept, UnstartableNeverRun, isRunning, ServicesTypeOK

\* What was found can be collected, so that ReapProcesses never finds its own
\* records wrong.
LEMMA FoundIsCollected ==
  ASSUME FoundEnded, NEW s \in Service, ReapService(s)
  PROVE  /\ Collected(s) /\ Collect(s)
         /\ Start(s) \/ UNCHANGED <<callstack, fault>>
<1>1. found \in Zombies /\ pid[s] = found /\ found # None
  BY DEF ReapService, FoundEnded, Ended
<1>2. Collected(s)
  BY <1>1 DEF Collected, isRunning, StillRunning, Zombies, Running
<1> QED  BY <1>2 DEF ReapService

LEMMA StartInvNext ==
  ASSUME TypeOK, FoundEnded, StartInv, [Next]_vars
  PROVE  StartInv'
<1> USE DEF TypeOK
<1>1. CASE UNCHANGED <<pid, status, callstack, fault>>
  BY <1>1 DEF StartInv, StatusKept, CallsOK, DependenciesAt, ChainAt, UnstartableNeverRun,
     FaultsAreReal, isRunning
<1>2. CASE ServicesNext
  BY <1>2, StartDependencyKeepsInv, StartProcessKeepsInv DEF ServicesNext
<1>3. CASE Bootstrap \/ CheckSchedule
  <2>1. UNCHANGED <<pid, status>> /\ todo \in Seq(Service)
    BY <1>3 DEF Bootstrap, CheckSchedule, StartNext, SupervisorTypeOK
  <2>2. CASE UNCHANGED <<callstack, fault>>
    BY <1>1, <2>1, <2>2
  <2>3. CASE todo # <<>> /\ Start(Head(todo))
    <3>1. CallsOK' /\ FaultsAreReal'
      BY <2>1, <2>3, HeadTailProperties, StartKeeps DEF StartInv
    <3> QED  BY <2>1, <3>1 DEF StartInv, StatusKept, UnstartableNeverRun, isRunning
  <2> QED  BY <1>3, <2>2, <2>3 DEF Bootstrap, CheckSchedule, StartNext
<1>4. ASSUME NEW s \in Service, ReapService(s) PROVE StartInv'
  <2>1. StatusKept' /\ UnstartableNeverRun'
    BY <1>4, FoundIsCollected, CollectKeepsInv
  <2>2. CASE Start(s)
    BY <2>1, <2>2, StartKeeps DEF StartInv
  <2>3. CASE UNCHANGED <<callstack, fault>>
    BY <1>4, <2>1, <2>3, NoCalls DEF StartInv, FaultsAreReal, ReapService, At
  <2> QED  BY <1>4, <2>2, <2>3, FoundIsCollected
<1>5. ASSUME NEW s \in Service, Stopping(s) PROVE StartInv'
  <2>1. CASE UNCHANGED <<pid, status>>
    BY <1>1, <1>5, <2>1 DEF Stopping, StopNext, StopSucceeds, StopTimesOut, serviceVars
  <2>2. CASE Collected(s) /\ Collect(s) /\ callstack = <<>> /\ UNCHANGED <<callstack, fault>>
    BY <2>2, CollectKeepsInv, NoCalls DEF StartInv, FaultsAreReal
  <2> QED  BY <1>5, <2>1, <2>2 DEF Stopping, StopNext, StopSucceeds, StopTimesOut, At, serviceVars
<1>6. CASE UNCHANGED serviceVars
  BY <1>1, <1>6 DEF serviceVars
<1> QED
  BY <1>2, <1>3, <1>4, <1>5, <1>6
     DEF Next, Program, Environment, Terminated, MinutePasses, TimeoutPasses, ReceiveAbort,
         ReceiveStop, ReceiveChild, ReceiveTick, ReceiveOther, WaitSignal, Find, ReapingDone,
         NoChildLeft, ReapOther, Stopping, AllToldToStop, AwaitSignal, AwaitEnds, TerminateAll,
         TermSignal, TermTimesOut, FinalReap, Abort, vars

\* A process is spawned for a service only while each of its dependencies has one.
LEMMA SpawnedAfterDependencies ==
  ASSUME ServicesTypeOK, CallsOK, Next, NEW s \in Service, Spawned(s)
  PROVE  \A d \in Dependencies(s) : isRunning(d)
<1>1. StartingProcess(s)
  BY OnlySpawnSpawns DEF Spawn
<1> QED  BY <1>1, DependenciesRun DEF StartingProcess, Executing, ServicesTypeOK

LEMMA StartInvAlways == Spec => []StartInv
<1>1. Init => StartInv
  <2> SUFFICES ASSUME Init PROVE StartInv
    OBVIOUS
  <2>1. CallsOK
    BY EmptySeq DEF Init, ServicesInit, CallsOK
  <2> QED  BY <2>1, UnstartableNeeds
           DEF Init, ServicesInit, StartInv, StatusKept, UnstartableNeverRun, FaultsAreReal, isRunning
<1> QED  BY <1>1, StartInvNext, Typing, FoundEndedAlways, PTL DEF Spec

\* A service that needs a cycle or an unknown name is never started.
THEOREM UnstartableStayDown == Spec => []UnstartableNeverRun
<1>1. StartInv => UnstartableNeverRun
  BY DEF StartInv
<1> QED  BY <1>1, StartInvAlways, PTL

\* The supervisor gives up only over such a service or because fork failed.
THEOREM FaultsHaveReasons == Spec => []FaultsAreReal
<1>1. StartInv => FaultsAreReal
  BY DEF StartInv
<1> QED  BY <1>1, StartInvAlways, PTL

\* Whoever starts a service, all it depends on runs by then.
THEOREM DependenciesStartFirst == Spec => DependenciesFirst
<1>1. TypeOK /\ StartInv /\ [Next]_vars
        => [\A s \in Service : Spawned(s) => \A d \in Dependencies(s) : isRunning(d)]_vars
  BY SpawnedAfterDependencies DEF TypeOK, StartInv
<1> QED  BY <1>1, Typing, StartInvAlways, PTL DEF Spec, DependenciesFirst

-----------------------------------------------------------------------------
(* Restart policies                                                        *)

\* The restart policy leaves a service that ended as it is.
LeftDown(s) == \/ RestartPolicy[s] = "no"
               \/ RestartPolicy[s] = "on-failure" /\ exit_code[s] = "success"

Called(s) == \E i \in 1 .. Len(callstack) : callstack[i].service = s

\* Outside Shutdown a service that ended and is not left down is being started.
PolicyKept ==
    fault = "none" /\ pc \notin Shutdown \cup Terminal =>
        \A s \in Service : status[s] = "Broken" => LeftDown(s) \/ Called(s)

\* Nothing leads back from Shutdown.
LEMMA ShutdownForGood ==
  ASSUME Next, pc' \notin Shutdown \cup Terminal
  PROVE  pc \notin Shutdown \cup Terminal
<1> USE DEF Shutdown, Terminal
<1>1. CASE Program
  BY <1>1 DEF Program, programVars, Bootstrap, CheckSchedule, StartNext, ReceiveAbort,
     ReceiveStop, ReceiveChild, ReceiveTick, ReceiveOther, WaitSignal, Find, ReapingDone,
     NoChildLeft, ReapService, ReapOther, StopNext, StopSucceeds, StopTimesOut, AllToldToStop,
     AwaitSignal, AwaitEnds, TerminateAll, TermSignal, TermTimesOut, FinalReap, Abort, At,
     Reaping
<1>2. CASE Environment \/ Terminated
  BY <1>2 DEF Environment, MinutePasses, TimeoutPasses, Terminated, programVars, vars
<1> QED  BY <1>1, <1>2 DEF Next

\* A service that Start is called for is being started, unless Start throws.
LEMMA StartCalls ==
  ASSUME NEW s \in Service, Start(s), fault' = "none"
  PROVE  Called(s)' /\ callstack'[1].service = s
<1>1. StartError(s, <<>>) = "none" /\ callstack' = Enter(s, <<>>)
  BY DEF Start, Throw
<1>2. /\ Len(callstack') = Len(<<>>) + 1
      /\ callstack'[Len(<<>>) + 1] = [service |-> s, deps |-> DependsOn[s]]
  BY <1>1, EnterShape, EmptySeq
<1>3. Len(callstack') = 1 /\ callstack'[1].service = s /\ 1 \in 1 .. 1
  BY <1>2, EmptySeq
<1> QED  BY <1>3 DEF Called

\* Looking at a dependency ends no call, unless it throws.
LEMMA CallsGoOn ==
  ASSUME ServicesTypeOK, StartDependency, fault' = "none"
  PROVE  /\ \A s \in Service : Called(s) => Called(s)'
         /\ callstack'[1].service = callstack[1].service /\ callstack' # <<>>
<1>1. callstack # <<>> /\ Top.deps # <<>> /\ callstack \in Seq(Frame) /\ fault = "none"
  BY DEF StartDependency, Executing, ServicesTypeOK
<1>2. PICK n \in Nat : n = Len(callstack) /\ n > 0
  BY <1>1, Depth
<1>3. /\ NextDependency \in Seq(Frame) /\ Len(NextDependency) = n
      /\ \A i \in 1 .. n : NextDependency[i].service = callstack[i].service
  BY <1>1, <1>2, NextDependencyType, NextDependencyShape
<1>4. /\ Len(callstack') \in {n, n + 1}
      /\ \A i \in 1 .. n : callstack'[i].service = callstack[i].service
  <2>1. CASE callstack' = NextDependency
    BY <1>3, <2>1
  <2>2. CASE callstack' = Enter(Head(Top.deps), NextDependency)
    <3>1. /\ Len(Enter(Head(Top.deps), NextDependency)) = n + 1
          /\ \A i \in 1 .. n :
                Enter(Head(Top.deps), NextDependency)[i] = NextDependency[i]
      BY <1>3 DEF Enter
    <3> QED  BY <1>3, <2>2, <3>1
  <2>3. callstack' = NextDependency \/ callstack' = Enter(Head(Top.deps), NextDependency)
    BY DEF StartDependency, Throw
  <2> QED  BY <2>1, <2>2, <2>3
<1>5. 1 \in 1 .. n /\ Len(callstack') # 0 /\ \A i \in 1 .. n : i \in 1 .. Len(callstack')
  <2>1. CASE Len(callstack') = n
    BY <1>2, <2>1
  <2>2. CASE Len(callstack') = n + 1
    BY <1>2, <2>2
  <2> QED  BY <1>4, <2>1, <2>2
<1>6. callstack' # <<>>
  BY <1>5, EmptySeq
<1> QED  BY <1>2, <1>4, <1>5, <1>6 DEF Called

\* Returning ends the innermost call only.
LEMMA CallsReturn ==
  ASSUME callstack \in Seq(Frame), callstack # <<>>, callstack' = Caller
  PROVE  /\ \A s : Called(s) => Called(s)' \/ s = Top.service
         /\ callstack[1].service # Top.service
              => callstack' # <<>> /\ callstack'[1].service = callstack[1].service
<1>1. PICK n \in Nat : n = Len(callstack) /\ n > 0
  BY Depth
<1>2. Len(callstack') = n - 1 /\ \A i \in 1 .. n - 1 : callstack'[i] = callstack[i]
  BY <1>1, ReturnShape
<1>3. \A i \in 1 .. n : i = n \/ i \in 1 .. n - 1
  BY <1>1
<1>4. \A s : Called(s) => Called(s)' \/ s = Top.service
  BY <1>1, <1>2, <1>3 DEF Called, Top
<1>5. n = 1 => callstack[1].service = Top.service
  BY <1>1 DEF Top
<1>6. n # 1 => callstack' # <<>> /\ callstack'[1].service = callstack[1].service
  <2> SUFFICES ASSUME n # 1
               PROVE  callstack' # <<>> /\ callstack'[1].service = callstack[1].service
    OBVIOUS
  <2>1. 1 \in 1 .. n - 1 /\ n - 1 # 0
    BY <1>1
  <2>2. callstack' # <<>>
    BY <1>2, <2>1, EmptySeq
  <2> QED  BY <1>2, <2>1, <2>2
<1> QED  BY <1>4, <1>5, <1>6

LEMMA CollectEnds ==
  ASSUME ServicesTypeOK, NEW s \in Service, Collect(s)
  PROVE  /\ pid'[s] = None /\ status'[s] = "Broken"
         /\ \A t \in Service \ {s} : status'[t] = status[t] /\ exit_code'[t] = exit_code[t]
BY DEF Collect, ServicesTypeOK

LEMMA ServicesKeepPolicy ==
  ASSUME ServicesTypeOK, StatusKept, PolicyKept, fault' = "none",
         pc \notin Shutdown \cup Terminal, ServicesNext
  PROVE  \A s \in Service : status'[s] = "Broken" => LeftDown(s)' \/ Called(s)'
<1>1. fault = "none" /\ callstack \in Seq(Frame)
  BY DEF ServicesNext, StartDependency, AlreadyRunning, CollectBeforeSpawn, Spawn, SpawnFails,
     StartingProcess, Executing, ServicesTypeOK
<1>2. \A s \in Service : status[s] = "Broken" => LeftDown(s) \/ Called(s)
  BY <1>1 DEF PolicyKept
<1>3. CASE StartDependency
  <2>1. \A s \in Service : Called(s) => Called(s)'
    BY <1>3, CallsGoOn
  <2>2. UNCHANGED <<status, exit_code>>
    BY <1>3 DEF StartDependency
  <2> QED  BY <1>2, <2>1, <2>2 DEF LeftDown
<1>4. ASSUME NEW t \in Service, AlreadyRunning(t)
      PROVE  \A s \in Service : status'[s] = "Broken" => LeftDown(s)' \/ Called(s)'
  <2>1. callstack # <<>> /\ callstack' = Caller /\ Top.service = t /\ status[t] = "Running"
        /\ UNCHANGED <<status, exit_code>>
    BY <1>4 DEF AlreadyRunning, StartingProcess, Executing, Return, StatusKept
  <2>2. \A s : Called(s) => Called(s)' \/ s = t
    BY <1>1, <2>1, CallsReturn
  <2> QED  BY <1>2, <2>1, <2>2 DEF LeftDown
<1>5. ASSUME NEW t \in Service, CollectBeforeSpawn(t)
      PROVE  \A s \in Service : status'[s] = "Broken" => LeftDown(s)' \/ Called(s)'
  <2>1. \A s \in Service \ {t} : status'[s] = status[s] /\ exit_code'[s] = exit_code[s]
    BY <1>5, CollectEnds DEF CollectBeforeSpawn
  <2>2. callstack # <<>> /\ Top.service = t /\ UNCHANGED callstack
    BY <1>5 DEF CollectBeforeSpawn, StartingProcess, Executing
  <2>3. Called(t)
    <3>1. PICK n \in Nat : n = Len(callstack) /\ n > 0
      BY <1>1, <2>2, Depth
    <3>2. n \in 1 .. Len(callstack)
      BY <3>1
    <3> QED  BY <2>2, <3>1, <3>2 DEF Called, Top
  <2>4. \A s \in Service : Called(s) => Called(s)'
    BY <2>2 DEF Called
  <2> QED  BY <1>2, <2>1, <2>3, <2>4 DEF LeftDown
<1>6. ASSUME NEW t \in Service, Spawn(t)
      PROVE  \A s \in Service : status'[s] = "Broken" => LeftDown(s)' \/ Called(s)'
  <2>1. /\ callstack # <<>> /\ callstack' = Caller /\ Top.service = t
        /\ status' = [status EXCEPT ![t] = "Running"]
        /\ exit_code' = [exit_code EXCEPT ![t] = "success"]
    BY <1>6 DEF Spawn, StartingProcess, Executing, Return
  <2>2. status'[t] = "Running"
        /\ \A s \in Service \ {t} : status'[s] = status[s] /\ exit_code'[s] = exit_code[s]
    BY <2>1 DEF ServicesTypeOK
  <2>3. \A s : Called(s) => Called(s)' \/ s = t
    BY <1>1, <2>1, CallsReturn
  <2> QED  BY <1>2, <2>2, <2>3 DEF LeftDown
<1>7. ~(\E t \in Service : SpawnFails(t))
  BY DEF SpawnFails, Throw
<1> QED  BY <1>3, <1>4, <1>5, <1>6, <1>7 DEF ServicesNext

\* A service that was collected by the main loop is called for or left down.
LEMMA ReapKeepsPolicy ==
  ASSUME ServicesTypeOK, FoundEnded, PolicyKept, fault' = "none",
         pc \notin Shutdown \cup Terminal, NEW t \in Service, ReapService(t)
  PROVE  \A s \in Service : status'[s] = "Broken" => LeftDown(s)' \/ Called(s)'
<1>1. /\ pc = "reap" /\ callstack = <<>> /\ fault = "none" /\ Collect(t)
      /\ IF canRestart(t)' THEN Start(t) ELSE UNCHANGED <<callstack, fault>>
  BY FoundIsCollected DEF ReapService, At, Reaping, Shutdown
<1>2. /\ pid'[t] = None /\ status'[t] = "Broken"
      /\ \A s \in Service \ {t} : status'[s] = status[s] /\ exit_code'[s] = exit_code[s]
  BY <1>1, CollectEnds
<1>3. \A s \in Service : ~Called(s)
  BY <1>1, EmptySeq DEF Called
<1>4. \A s \in Service \ {t} : status'[s] = "Broken" => LeftDown(s)'
  BY <1>1, <1>2, <1>3 DEF PolicyKept, LeftDown
<1>5. CASE canRestart(t)'
  BY <1>1, <1>4, <1>5, StartCalls
<1>6. CASE ~canRestart(t)'
  <2>1. RestartPolicy[t] \in {"no", "always", "on-failure", "unless-stopped"}
    BY ServicesAssumption
  <2>2. LeftDown(t)'
    BY <1>2, <1>6, <2>1 DEF canRestart, isRunning, LeftDown
  <2> QED  BY <1>4, <2>2
<1> QED  BY <1>5, <1>6

\* When the main loop waits no service is down that its policy wants up.
THEOREM PolicyIsApplied == Spec => []PolicyApplied
<1>1. Init => PolicyKept
  BY DEF Init, ServicesInit, PolicyKept
<1>2. TypeOK /\ FoundEnded /\ StartInv /\ PolicyKept /\ [Next]_vars => PolicyKept'
  <2> SUFFICES ASSUME TypeOK, FoundEnded, StartInv, PolicyKept, [Next]_vars,
                      fault' = "none", pc' \notin Shutdown \cup Terminal
               PROVE  \A s \in Service : status'[s] = "Broken" => LeftDown(s)' \/ Called(s)'
    BY DEF PolicyKept
  <2> USE DEF TypeOK
  <2>1. pc \notin Shutdown \cup Terminal
    BY ShutdownForGood DEF vars, programVars
  <2>2. CASE UNCHANGED <<status, exit_code, callstack, fault>>
    BY <2>1, <2>2 DEF PolicyKept, LeftDown, Called
  <2>3. CASE ServicesNext
    BY <2>1, <2>3, ServicesKeepPolicy DEF StartInv
  <2>4. CASE Bootstrap \/ CheckSchedule
    <3>1. UNCHANGED <<status, exit_code>> /\ callstack = <<>> /\ fault = "none"
      BY <2>4 DEF Bootstrap, CheckSchedule, StartNext, At
    <3>2. \A s \in Service : ~Called(s)
      BY <3>1, EmptySeq DEF Called
    <3> QED  BY <2>1, <3>1, <3>2 DEF PolicyKept, LeftDown
  <2>5. CASE \E s \in Service : ReapService(s)
    BY <2>1, <2>5, ReapKeepsPolicy
  <2>6. ~(\E s \in Service : Stopping(s))
    BY <2>1 DEF Stopping, StopNext, StopSucceeds, StopTimesOut, At, Shutdown
  <2>7. CASE UNCHANGED serviceVars
    BY <2>2, <2>7 DEF serviceVars
  <2> QED
    BY <2>3, <2>4, <2>5, <2>6, <2>7
       DEF Next, Program, Environment, Terminated, MinutePasses, TimeoutPasses, ReceiveAbort,
           ReceiveStop, ReceiveChild, ReceiveTick, ReceiveOther, WaitSignal, Find, ReapingDone,
           NoChildLeft, ReapOther, Stopping, AllToldToStop, AwaitSignal, AwaitEnds, TerminateAll,
           TermSignal, TermTimesOut, FinalReap, Abort, vars
<1>3. PolicyKept => PolicyApplied
  <2> SUFFICES ASSUME PolicyKept, At("wait") PROVE PolicyApplied
    BY DEF PolicyApplied
  <2>1. \A s \in Service : ~Called(s)
    BY EmptySeq DEF Called, At
  <2> QED  BY <2>1 DEF PolicyKept, PolicyApplied, LeftDown, At, Shutdown, Terminal
<1> QED  BY <1>1, <1>2, <1>3, Typing, FoundEndedAlways, StartInvAlways, PTL DEF Spec

-----------------------------------------------------------------------------
(* Bootstrap                                                               *)

\* s and all it depends on were started.
Prepared(s) == /\ status[s] # "NotStarted"
               /\ Dependencies(s) \subseteq Service
               /\ \A d \in Dependencies(s) : status[d] # "NotStarted"

\* While Bootstrap lasts, a service for boot is still to come, or is what is
\* being started, or was.
Booting ==
    /\ fault # "none" => pc \in {"boot", "sched", "reap", "failed"}
    /\ fault = "none" =>
          \A s \in OnBoot :
             \/ Prepared(s)
             \/ pc = "boot" /\ s \in ToSet(todo)
             \/ pc = "boot" /\ callstack # <<>> /\ callstack[1].service = s

\* Whatever order the map has, it holds every service.
LEMMA ArrangementIsComplete ==
  ASSUME NEW seq \in SetToSeqs(Service)
  PROVE  Service \subseteq ToSet(seq)
<1>1. PICK n \in Nat : n = Cardinality(Service)
  BY SupervisorAssumption, FS_CardinalityType
<1>2. seq \in [1 .. n -> Service] /\ \A i, j \in 1 .. n : i # j => seq[i] # seq[j]
  BY <1>1 DEF SetToSeqs
<1> SUFFICES ASSUME NEW s \in Service, s \notin ToSet(seq) PROVE FALSE
  OBVIOUS
<1>3. seq \in [1 .. n -> Service \ {s}]
  BY <1>2 DEF ToSet
<1>4. IsFiniteSet(Service \ {s}) /\ Cardinality(Service \ {s}) = n - 1
  BY <1>1, SupervisorAssumption, FS_RemoveElement
<1>5. IsFiniteSet(1 .. n) /\ Cardinality(1 .. n) = n
  <2>1. /\ IsFiniteSet(1 .. n)
        /\ Cardinality(1 .. n) = IF 1 > n THEN 0 ELSE n - 1 + 1
    BY FS_Interval
  <2> QED  BY <2>1
<1>6. Cardinality(Service \ {s}) < Cardinality(1 .. n)
  BY <1>4, <1>5
<1>7. \E i, j \in 1 .. n : i # j /\ seq[i] = seq[j]
  BY <1>3, <1>4, <1>5, <1>6, FS_PigeonHole
<1> QED  BY <1>2, <1>7

\* A service that was started stays a service that was started.
LEMMA StartedForGood ==
  ASSUME ServicesTypeOK, [Next]_vars, NEW s \in Service, status[s] # "NotStarted"
  PROVE  status'[s] # "NotStarted"
<1>1. CASE UNCHANGED status
  BY <1>1
<1>2. CASE \E t \in Service, v \in {"Running", "Broken"} : status' = [status EXCEPT ![t] = v]
  BY <1>2 DEF ServicesTypeOK
<1>3. CASE \E t \in Service : Collect(t)
  BY <1>2, <1>3 DEF Collect
<1>4. CASE \E t \in Service : Spawn(t) \/ SpawnFails(t)
  BY <1>2, <1>4 DEF Spawn, SpawnFails
<1> QED
  BY <1>1, <1>3, <1>4
     DEF Next, Program, Environment, Terminated, MinutePasses, TimeoutPasses, ServicesNext,
         StartDependency, AlreadyRunning, CollectBeforeSpawn, Bootstrap, CheckSchedule,
         StartNext, ReceiveAbort, ReceiveStop, ReceiveChild, ReceiveTick, ReceiveOther,
         WaitSignal, Find, ReapingDone, NoChildLeft, ReapService, ReapOther, StopNext,
         StopSucceeds, StopTimesOut, AllToldToStop, AwaitSignal, AwaitEnds, TerminateAll,
         TermSignal, TermTimesOut, FinalReap, Abort, vars, serviceVars

\* The end of a call of Start leaves its service prepared.
LEMMA ReturnPrepares ==
  ASSUME ServicesTypeOK, StatusKept, CallsOK, NEW s \in Service,
         AlreadyRunning(s) \/ Spawn(s)
  PROVE  Prepared(s)'
<1>1. /\ Dependencies(s) \subseteq Service
      /\ \A d \in Dependencies(s) : isRunning(d)
  BY DependenciesRun DEF AlreadyRunning, Spawn, StartingProcess, Executing, ServicesTypeOK
<1>2. \A d \in Dependencies(s) : d \in Service /\ status[d] = "Running"
  BY <1>1 DEF StatusKept
<1>3. CASE AlreadyRunning(s)
  BY <1>1, <1>2, <1>3 DEF AlreadyRunning, StatusKept, Prepared
<1>4. CASE Spawn(s)
  BY <1>1, <1>2, <1>4 DEF Spawn, ServicesTypeOK, Prepared
<1> QED  BY <1>3, <1>4

\* While services are started, the outermost call stays or its service is prepared.
LEMMA OutermostCall ==
  ASSUME ServicesTypeOK, StatusKept, CallsOK, ServicesNext, fault' = "none",
         NEW s, callstack[1].service = s
  PROVE  Prepared(s)' \/ (callstack' # <<>> /\ callstack'[1].service = s)
<1>1. CASE StartDependency
  BY <1>1, CallsGoOn
<1>2. ASSUME NEW t \in Service, AlreadyRunning(t) \/ Spawn(t)
      PROVE  Prepared(s)' \/ (callstack' # <<>> /\ callstack'[1].service = s)
  <2>1. callstack # <<>> /\ callstack' = Caller /\ Top.service = t /\ callstack \in Seq(Frame)
    BY <1>2 DEF AlreadyRunning, Spawn, StartingProcess, Executing, Return, ServicesTypeOK
  <2> QED  BY <1>2, <2>1, CallsReturn, ReturnPrepares
<1>3. CASE \E t \in Service : CollectBeforeSpawn(t)
  BY <1>3 DEF CollectBeforeSpawn, StartingProcess, Executing
<1>4. ~(\E t \in Service : SpawnFails(t))
  BY DEF SpawnFails, Throw
<1> QED  BY <1>1, <1>2, <1>3, <1>4 DEF ServicesNext

\* An exception stays, and is thrown only where services are started.
LEMMA FaultStays ==
  ASSUME CallsPlaced, FoundEnded, Booting, [Next]_vars, fault' # "none"
  PROVE  pc' \in {"boot", "sched", "reap", "failed"}
<1>1. CASE fault # "none"
  <2>1. pc' \in {pc, "failed"}
    BY <1>1 DEF Next, Program, Environment, Terminated, MinutePasses, TimeoutPasses, ServicesNext,
       StartDependency, AlreadyRunning, CollectBeforeSpawn, Spawn, SpawnFails, StartingProcess,
       Executing, Bootstrap, CheckSchedule, StartNext, ReceiveAbort, ReceiveStop, ReceiveChild,
       ReceiveTick, ReceiveOther, WaitSignal, Find, ReapingDone, NoChildLeft, ReapService,
       ReapOther, StopNext, StopSucceeds, StopTimesOut, AllToldToStop, AwaitSignal, AwaitEnds,
       TerminateAll, TermSignal, TermTimesOut, FinalReap, Abort, At, vars, programVars
  <2> QED  BY <1>1, <2>1 DEF Booting
<1>2. CASE fault = "none"
  <2>1. CASE ServicesNext /\ UNCHANGED programVars
    BY <2>1 DEF ServicesNext, StartDependency, AlreadyRunning, CollectBeforeSpawn, Spawn,
       SpawnFails, StartingProcess, Executing, CallsPlaced, programVars
  <2>2. CASE Bootstrap \/ CheckSchedule
    BY <1>2, <2>2 DEF Bootstrap, CheckSchedule, StartNext, At
  <2>3. ASSUME NEW s \in Service, ReapService(s)
        PROVE  pc' \in {"boot", "sched", "reap", "failed"}
    BY <1>2, <2>3, FoundIsCollected DEF ReapService
  <2>4. UNCHANGED fault \/ (ServicesNext /\ UNCHANGED programVars) \/ Bootstrap \/ CheckSchedule
        \/ \E s \in Service : ReapService(s)
    BY DEF Next, Program, Environment, Terminated, MinutePasses, TimeoutPasses, ReceiveAbort,
       ReceiveStop, ReceiveChild, ReceiveTick, ReceiveOther, WaitSignal, Find, ReapingDone,
       NoChildLeft, ReapOther, StopNext, StopSucceeds, StopTimesOut, AllToldToStop, AwaitSignal,
       AwaitEnds, TerminateAll, TermSignal, TermTimesOut, FinalReap, Abort, vars, serviceVars
  <2> QED  BY <1>2, <2>1, <2>2, <2>3, <2>4
<1> QED  BY <1>1, <1>2

\* Bootstrap passes over no service for boot.
LEMMA BootGoesOn ==
  ASSUME TypeOK, StartInv, Booting, [Next]_vars, fault' = "none", fault = "none",
         NEW s \in OnBoot, ~Prepared(s)
  PROVE  \/ Prepared(s)'
         \/ pc' = "boot" /\ s \in ToSet(todo')
         \/ pc' = "boot" /\ callstack' # <<>> /\ callstack'[1].service = s
<1> USE DEF TypeOK
<1>1. /\ pc = "boot"
      /\ s \in ToSet(todo) \/ (callstack # <<>> /\ callstack[1].service = s)
  BY DEF Booting
<1>2. CASE UNCHANGED <<callstack, todo, pc>>
  BY <1>1, <1>2
<1>3. CASE ServicesNext /\ UNCHANGED programVars
  <2>1. UNCHANGED <<pc, todo>>
    BY <1>3 DEF programVars
  <2> QED  BY <1>1, <1>3, <2>1, OutermostCall DEF StartInv
<1>4. CASE Bootstrap
  <2>1. callstack = <<>> /\ s \in ToSet(todo)
    BY <1>1, <1>4 DEF Bootstrap, StartNext, At
  <2>2. todo # <<>> /\ todo \in Seq(Service)
    BY <2>1, EmptyToSet DEF SupervisorTypeOK
  <2>3. todo' = Tail(todo) /\ UNCHANGED pc /\ (Head(todo) \in OnBoot => Start(Head(todo)))
    BY <1>4, <2>2 DEF Bootstrap, StartNext
  <2>4. s = Head(todo) \/ s \in ToSet(todo')
    BY <2>1, <2>2, <2>3, HeadAndTail
  <2>5. CASE s = Head(todo)
    <3>1. s \in Service /\ Start(s)
      BY <2>2, <2>3, <2>5, HeadTailProperties
    <3>2. Called(s)' /\ callstack'[1].service = s
      BY <3>1, StartCalls
    <3>3. callstack' # <<>>
      BY <3>2, EmptySeq DEF Called
    <3> QED  BY <1>1, <2>3, <3>2, <3>3
  <2> QED  BY <1>1, <2>3, <2>4, <2>5
<1> QED
  BY <1>1, <1>2, <1>3, <1>4
     DEF Next, Program, Environment, Terminated, MinutePasses, TimeoutPasses, CheckSchedule,
         StartNext, ReceiveAbort, ReceiveStop, ReceiveChild, ReceiveTick, ReceiveOther,
         WaitSignal, Find, ReapingDone, NoChildLeft, ReapService, ReapOther, StopNext,
         StopSucceeds, StopTimesOut, AllToldToStop, AwaitSignal, AwaitEnds, TerminateAll,
         TermSignal, TermTimesOut, FinalReap, Abort, At, Reaping, vars, serviceVars, programVars

\* When the main loop first waits, the services for boot were started with all
\* they depend on.
THEOREM BootIsComplete == Spec => []BootComplete
<1>1. Init => Booting
  BY ArrangementIsComplete, SupervisorAssumption DEF Init, ServicesInit, Booting
<1>2. TypeOK /\ CallsPlaced /\ FoundEnded /\ StartInv /\ Booting /\ [Next]_vars => Booting'
  <2> SUFFICES ASSUME TypeOK, CallsPlaced, FoundEnded, StartInv, Booting, [Next]_vars
               PROVE  Booting'
    OBVIOUS
  <2>1. CASE fault' # "none"
    BY <2>1, FaultStays DEF Booting
  <2>2. CASE fault' = "none"
    <3>1. fault = "none"
      BY <2>2 DEF Next, Program, Environment, Terminated, MinutePasses, TimeoutPasses,
         ServicesNext, StartDependency, AlreadyRunning, CollectBeforeSpawn, Spawn, SpawnFails,
         StartingProcess, Executing, Bootstrap, CheckSchedule, StartNext, ReceiveAbort,
         ReceiveStop, ReceiveChild, ReceiveTick, ReceiveOther, WaitSignal, Find, ReapingDone,
         NoChildLeft, ReapService, ReapOther, StopNext, StopSucceeds, StopTimesOut,
         AllToldToStop, AwaitSignal, AwaitEnds, TerminateAll, TermSignal, TermTimesOut,
         FinalReap, Abort, At, vars, serviceVars
    <3>2. ASSUME NEW s \in OnBoot, Prepared(s) PROVE Prepared(s)'
      <4>1. s \in Service
        BY SupervisorAssumption
      <4> QED  BY <3>2, <4>1, StartedForGood DEF Prepared, TypeOK
    <3> QED  BY <2>2, <3>1, <3>2, BootGoesOn DEF Booting
  <2> QED  BY <2>1, <2>2
<1>3. Booting => BootComplete
  BY DEF Booting, Prepared, BootComplete
<1> QED  BY <1>1, <1>2, <1>3, Typing, CallsPlacedAlways, FoundEndedAlways, StartInvAlways,
            PTL DEF Spec
=============================================================================
