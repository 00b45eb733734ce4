# Atone in TLA+

Atone is an init-like process supervisor for containers: it runs as PID 1,
starts the services of a YAML file (or one service from its command line),
restarts them by policy, starts others on cron schedules, reaps orphans, and
on a signal shuts everything down.  This directory holds TLA+ modules that
model it, the TLC configurations that check them on small instances, and
proofs checked by TLAPS.

## Inventory

Atone is one thread; all concurrency is between that thread and the kernel,
the processes it started, their descendants, whoever sends signals, and the
clock.

| Component | State | Operations | What is hard | Properties |
|---|---|---|---|---|
| Kernel (external) | process table, pending signals, timer, clock | fork, exit, reparenting, wait, kill, signal delivery | equal signals coalesce; pids are reused; orphans arrive at any time; the clock is set | - |
| `system/Supervisor.cpp` | signal mask, scheduler timer | Spawn, ReapZombieProcess, CheckForExitedProcess, SendSignal, WaitSignal (plain, timed), RequestSchedulerTick | vfork/exec failure is reported as SIGABRT; a timed wait prefers pending signals | NoLostChild, TimerNeverLost |
| `service/Service.cpp` | status, pid, exit code per service | Start (recursive over dependencies), StartProcess, Stop, CheckProcessState, canRestart | an end is noticed in two places; cycles; a service may be started from four places | OneInstance, DependenciesFirst, UnstartableNeverRun |
| `service/ServicesManager.cpp` | the services by name | AddService, Bootstrap, Stop, CheckService, CheckSchedule, lookups | order of an unordered_map; several starts in one call, any of which may throw | BootComplete, PolicyApplied, ScheduleKept |
| `programs/SupervisorProgram.cpp` | place in the program, timeouts | Bootstrap, MainLoop, ReapProcesses, Shutdown, StopAllServices, TerminateAllProcess | reaping while more children end; timeouts against late exits; storms | NothingLeftBehind, ShutdownCompletes, TermBeforeKill |
| Scheduler: `MainLoop` 127-156, `CheckSchedule`, the timer | last tick, timer | tick, catch-up over the minutes missed | ticks late, the clock set forward and back, boundaries | ScheduleKept, NoMinuteTwice, CaughtUp |
| `service/ServiceScheduler.cpp`, `3rd-party/cron/src/cron/entry.c` | expressions, onBoot | constructor, CheckTime; the parser of expressions | several texts of which one fails; ends of fields; two kinds of days | RefusedUnlessOverlooked, FiresWhenMeant |
| `3rd-party/cron/src/cronutils.c`, `utils/CronTime.cpp` | a broken-down time | set, compare, increment | the calendar | TypeOK, ScheduleKept |
| `utils/time.cpp` | - | add, diff, compare | carry at the second, results written over operands | proved |
| `config/AtoneOptions.cpp`, `3rd-party/optparse` | options, position in argv | FromArgs, CreateProgram | options forbid each other in any order; where the command begins | ModeOfOptions, CommandIntact |
| `3rd-party/yaml-cpp/src`: stream, scanner, parser, node builder | characters, tokens, simple keys, indents, flows; the open calls; the open nodes, keys and anchors | YAML::LoadFile | tokens are decided after they are queued; blocks end by columns; the builder counts along with the parser; encodings are guessed | LoadsWhatIsWritten, KeysPending, DeliveredStands, BlocksClosed, BuilderFollowsParser, AnchorsRegistered, EncodingIrrelevant, LoadEnds |
| `config/` | the document, the services loaded | Context::FromOptions, YamlConfigParser, AddService | one field or entry of many is invalid; defaults; equal names; looking up a key adds it | RefusedIfInvalid, LoadedAsWritten, ReadAsWritten |
| yaml-cpp: emitter, events, editing of nodes | - | - | never called | not modelled |
| logging, help and version | - | - | text out | not modelled |

How they interact: `main` reads the options, loads a `Context` and runs
`SupervisorProgram::Run`, which calls `ServicesManager`, which calls `Service`,
which calls `Supervisor`; nothing calls back.  The processes act on Atone only
through signals (SIGCHLD when a child ends, SIGABRT from a child that could not
execute its program, the timer's SIGRTMAX, anything an operator sends) and
through what `waitid` and `waitpid` return.  An exception anywhere unwinds to
`main`, which returns EXIT_FAILURE without Shutdown.

## Modules

The supervisor:

* `Processes` - the kernel as far as Atone sees it; external.  `proc` maps each
  pid to a process (free, running or zombie; parent; for which service it was
  spawned; its wait status once decided), `pending` is the set of pending
  signals.  Processes fork, end, are orphaned and reaped by their own parents
  at any time; others send any of `OutsideSignals` at any time.
* `Services` - `Service.cpp`: `status`, `pid`, `exit_code`; the recursion of
  `Start` is the variable `callstack`, a sequence of frames with the
  dependencies still to be looked at; an exception in flight is `fault`.
* `SupervisorProgram` - `SupervisorProgram.cpp` and `ServicesManager.cpp`: the
  variable `pc` names where the thread is, the loops over services are `todo`.
  `Next` is `Program` (the thread), `Environment` (processes, signals, time) or
  `Terminated`.
* `SupervisorProperties`, `MCSupervisor`, and the proofs: `SupervisorProofs`
  (of processes), `StartProofs` (of services).

The scheduler:

* `CronTime` - cron times and their increment (`cronutils.c`), beside the
  calendar they are meant to follow (`Date`, `NextMinute`: libc's).
* `CronExpression` - the parser `entry.c` on texts whose fields are sequences
  of ranges, and `cron_expr_match`.
* `ServiceScheduler` - the constructor, one text after another; and, to compare,
  what a text means by the documents (`Meant`, `Abbreviated` for shortcuts), which
  texts are cron expressions (`WellFormed`), and which others the parser lets
  through (`Overlooked`).
* `Scheduler` - clock, one-shot timer, pending tick, and the thread from the
  tick's signal through CheckSchedule's loop to the next request.
* `Punctuality` - the abstract specification: the minutes since the last
  reading of the clock are served at once, each service due is started once,
  the first due first.  `Scheduler` implements it (`ScheduleKept`), with its
  own clock, order and starts, and the tick handled as the reading.
* `SchedulerProperties`, `CronTexts`, `MCServiceScheduler`, `MCScheduler`, and the
  proofs: `SchedulerProofs` (also of cron times), `ServiceSchedulerProofs`.

Around them:

* `Options` - the command line: `optparse_long` finds one option at a time
  (`ShortOption`, `LongOption`, `RemainingArgs`), `FromArgs` handles it, and
  main creates the program of the mode.  An argument is a sequence of dashes,
  names, letters and words.  A line carries what it was written for: the options
  and their arguments, the command, and the places at which they begin.
  `IsWritten` says, spelling by spelling and without reference to the code's loop,
  what these have to do with the arguments; the properties speak of them.
* `Configuration` - behind `Options`: Context::FromOptions and
  YamlConfigParser on YAML documents, and AddService, which runs the steps of
  `ServiceScheduler` for each service, one after another.  What it yields is
  what the supervisor's constants stand for: names, dependencies, policies,
  OnBoot and Scheduled.
* `MCConfiguration` - command lines and documents.
* `ConfigurationProofs` - theorems about a load and about the command line.

The loading of a file, yaml-cpp as Atone calls it:

* `YamlStream` - the bytes of a file into characters: the state machine that
  guesses the encoding (`Intro`), UTF-8, UTF-16 and UTF-32 of either byte order.
* `YamlText` - the expressions of `exp.h` at a position of the text, and the one
  function that scans scalars of all styles (`ScanScalar`).
* `YamlTokens` - the tokens, and the queue in which the scanner leaves them and from
  which the parser takes them.
* `YamlScanner` - the text into tokens: `scanner` is the Scanner's own state.  A
  ScanNextToken is a series of steps: line by line to the next token, the indents that
  end there popped one by one, then the one handler for what stands there, before which
  all indents may be popped; the field `branch` says where it is.  A token that may
  belong to a simple key is UNVERIFIED until `Decide` has settled it.  `ScannerSpec` is
  the scanner by itself, with a reader that takes the front token whenever it is decided
  or the text has ended (`TakeToken`).
* `YamlParser` - the tokens into events: the recursion of SingleDocParser is the
  variable `frames`, and a step handles one token or asks the scanner for more.
* `NodeBuilder`, `Nodes` - the events into nodes, which are known by number so
  that an alias is the node itself.
* `YamlFile` - LoadFile, all of these together.
* `ConfigFile` - what YamlConfigParser looks up in the loaded nodes, down to the
  list of services.  From there on `Configuration` goes on with documents as
  values: `ReadAsWritten` is what allows it to.
* `MCYamlFile` - files: documents written out in every style, texts, encodings.
* `YamlParserProofs` - theorems about parser and builder; `YamlScannerProofs` - theorems
  about the scanner, and that the parser is such a reader.

And below them:

* `Timespec`, `TimespecProofs` - the arithmetic of `utils/time.cpp`, on cells
  so that a result may overwrite an operand.

A step of the supervisor's thread ends at each system call that observes or
changes processes or signals; steps in memory are merged into their
neighbours, since nothing else can see them.  Two calls are merged where the
kernel makes the difference invisible: `waitpid` returning 0 and the `kill` of
the same pid after it in `Service::Stop` (the process may end in between, but
nobody else can reap it, so the pid stays taken and the signal does nothing).

The tick is in two models.  `Scheduler` decides which services a tick hands
over, and lets the clock move between any two of its steps; `SupervisorProgram`
takes any non-empty sequence of scheduled services as what CheckSchedule found
(`Agendas`) and starts them among all the other events.

What is left out:

* The signal mask and its restoration in the child, process groups (Atone never
  uses them), stopped processes, errors of system calls that the code answers
  with an exception and that cannot happen here (EINTR, EPERM to init).
* `ServiceStatus::Stopped` is in the model as in the code, where nothing ever
  assigns it.  `ServicesManager::CheckAllServices` is never called.
* Time in the supervisor is only what it lets happen: a minute passes, a timeout
  passes; 5 s and 1 ms are not distinguished except by order.  In the scheduler
  it is minutes; seconds only decide within a minute.
* In cron expressions, names of months and days stand for their numbers; the
  characters the parser skips unread (behind a star, or behind a number's blank)
  and numbers too long for its buffer are left out, as are the flags of stars
  in minutes and hours, which nothing reads.
* In `Configuration`, the words `wordexp` makes of a command, paths, and keys
  that are no scalars.  Every service of the supervisor's model has a command
  that can at least be tried.
* Of YAML texts, the escapes that name a character by its number (`\x`, `\u`,
  `\U`) and those of a letter other than `n` and `t`; the byte 4, which the
  stream takes for the end; tags' effect on nodes, marks and styles, which
  Atone does not read.  A word stands for a run of letters: it takes one column
  and, in an encoding, one letter.  The stream reads ahead as far as it is asked
  to, which nothing can see, so a text is decoded as a whole.
* Of nodes, the containers that are told when a value is defined later (none
  is), and everything only a program that edits nodes would call.
* Logging, whose output nothing in Atone depends on.

Signals are their numbers, because sigwaitinfo returns the lowest first:
SIGINT stands for SIGHUP, SIGINT and SIGQUIT, SIGUSR1 for all that are ignored.

## Runs

| Run | Asks | Bounds |
|---|---|---|
| `services` | Do pids and policies stay right when services end at any moment, are restarted, cannot be executed and are shut down; do dependencies come first, whoever starts a service? `OneInstance`, `PolicyApplied`, `NoStartInShutdown`, `BootComplete`, `DependenciesFirst`; is no cycle, unknown name or wrong record reported where there is none? `FaultsAreReal` | web (on-failure) needs db (unless-stopped, exec may fail), job (no), at boot and scheduled, needs both, booted in every order of the map; 4 pids; SIGINT, spurious SIGCHLD |
| `descendants` | Are orphans reaped, is nothing left at the end, what happens at the process limit, to a cycle and to an unknown name? `TypeOK`, `NoLostChild`, `NothingLeftBehind`, `TermBeforeKill`, `UnstartableNeverRun` | one service whose family forks beside two scheduled ones that cannot be started (one needs itself, one an unknown name), 3 pids |
| `liveness` | Does shutdown end, are children reaped, are services restarted? `ShutdownCompletes`, `ZombiesReaped`, `AlwaysRestarted` | one forking service, 3 pids, no symmetry |
| `year_end` | Is every minute served once, whatever the clock does? `TypeOK`, `TimerNeverLost`, `NoMinuteTwice`, `ScheduleKept`, `CaughtUp` | three services (@hourly, 59 23 * * *, @monthly) in every order of the map; the last three minutes of 2022 and the first three of 2023; the clock is set back twice and forward at will |
| `configuration` | What do options select, what is refused, what is loaded, when does it fire? `ModeOfOptions`, `CommandIntact`, `RefusedUnlessOverlooked`, `FiresWhenMeant`, `RefusedIfInvalid`, `LoadedAsWritten`, `StartedSomehow` | command lines of up to three options in every order and spelling, with and without a command; every combination of 5 commands, 5 policies, 7 schedules and 6 lists of dependencies, alone and behind another service of the same name or not; every sequence of up to two of 28 texts of expressions, shortcuts and the empty text among them, at 504 minutes |
| `yaml` | Is what is written in a file what its services are read from; does every load end? `LoadsWhatIsWritten`, `EncodingIrrelevant`, `BuilderFollowsParser`, `AnchorsRegistered`, `KeysPending`, `BlocksClosed`, `DeliveredStands`, `ScannerSpec`, `LoadEnds`, `ReadAsWritten`, `RefusedForServices` | 9 documents in up to 198 styles (block and flow, four placings of sequences, five kinds of scalars, simple and explicit keys, comments, document marks, breaks); all texts of up to three of 18 symbols and up to four of 6 and of 8 symbols; five encodings with and without mark; keys of at most 16 columns, 6 levels |
| `run_once` | violated: `NeverRestarted` | web needs db (policy no) |
| `scheduled_exit` | violated: `WaitsForSchedule` | one boot service, one scheduled, both run once |
| `crash_loop` | violated: `StopHonoured` | one service, always restarted, exec may fail |
| `day_of_week` | violated: `CronSyntaxHonoured` | a service with two texts, Fridays at midnight and a word for a day with a sixth field behind it |
| `no_leap_day` | violated: `StartedWhenDue` | two minutes on either side of midnight after February 28th, 2023 |
| `as_documented` | violated: `AsDocumented` | a file whose only service has no command, a dependency and a schedule left empty; a line with the name of a service and no command |

The bounds suffice for the interesting cases.  Two services give every order of
dependent and dependency; a third one sharing the dependency lets a dependency
be running, broken or new when it is looked at.  The number of pids is the
process limit: with one pid more than services, pids are reused and every
spawn succeeds; in `descendants` it is reached.  Three pids hold a service, its
child and its grandchild at once, or a child left behind, the successor of its
service and that one's child.  Pids are
symmetric in the safety runs.  Six minutes around the end of a year carry every
field of a cron time at once, and let a tick be late by nothing, one minute or
several, on either side of the boundary; twice set back is once back and once
more before that was noticed.  Of each field of a cron expression the texts
have the bounds and the first numbers outside them.  Three symbols of YAML's
indicators are enough for a key that turns out to be one, a block in a flow
collection, a collection as a key and every pair of brackets that do not match;
what takes more (directives, tags, headers of block scalars, keys too long,
collections too deep) is written out.  The limits on keys and levels are
constants, far smaller than the code's 1024 and 500, so that texts on either
side of them are short.

Deadlock is not checked in the scheduler's runs, where time ends at the last
minute of the bound, and in the configuration's, where a load ends.  In `yaml` it is: every
load that stops anywhere but at an end is a deadlock.

Fairness of the supervisor (`FairSpec`): its thread is never stopped for ever
(weak fairness of `Program`); time passes; a process that was sent SIGKILL or
whose exec failed ends; waitid returns the oldest ended child, so none is
passed over for ever.  Nothing else is assumed of processes: they may ignore
SIGTERM.  The liveness properties are stated under `QuietInTheEnd`: since a
timed wait returns pending signals before it looks at its timeout, an endless
storm of signals or of forks keeps Shutdown from ever reaching SIGKILL.
Fairness of the scheduler: its thread and the kernel's timer go on; the clock
may stand still, so `CaughtUp` does not rest on later minutes.
That a load of a YAML file ends is no liveness property but a stronger one,
`LoadEnds`: its steps are bounded by the length of the text (five for each symbol and 13
more), and deadlock is checked.

Of blocks, `BlocksClosed` says no more than the code does.  Where a document or the text
ends, the keys still open are dropped with their tokens undecided: the scanner reads on
to the end of the text, where such tokens are handed out as they are, and a block whose
start is one of them (within a flow collection) has no end.  And a text may end within a
flow collection, which the parser then refuses; the blocks around it are left open.

## Disagreements between the code and its documents

* `run_once`: policy `no` ("Do not automatically restart") does not keep a
  service that has ended from being started again by the boot loop or by a
  dependent.
* `scheduled_exit`: Atone exits when no child is left, although services wait
  for their schedule.
* `crash_loop`: restarts happen inside the reaping loop; a service that always
  fails to execute is found ended again each time round, and SIGTERM waits for
  ever.
* `day_of_week`: the parser ends a text after the fifth field but takes no
  number without a terminator, so the last number of the day of the week is
  dropped unless a blank follows: `0 0 * * 5` never fires.  `FiresWhenMeant`
  shows that nothing else is wrong with cron expressions.  And what it takes for
  the end of the text may be anything it cannot read as a day of the week: such a
  text is accepted, with a sixth field and more behind it, and so is an empty one.
  `RefusedUnlessOverlooked` shows that these (`Overlooked`) are all.
* `no_leap_day`: cron_time_inc gives every February a 29th, so the first tick of
  March starts the services of a day that never was, and walks through March
  1st with the next day's weekday.
* `as_documented`: three things at once, each a part of `AsDocumented`.  A
  `schedule:` with nothing behind it clears `depends_on` (`DependenciesLoaded`).  A
  service without the key `command` is loaded, where a null one is refused with
  "service must have a command", and so is one of a line like `atone --name=web`,
  against the usage (`HaveCommands`).  The level of the log is "information" unless
  one is given, as the help prints, where README.md:86 has "trace"
  (`LevelAsDocumented`).  TLC's trace is that of the file; with `-continue` it also
  shows the line.

## Proofs

`SupervisorProofs` proves for every configuration, every number of services
and every finite set of pids:

* `Typing`: `Spec => []TypeOK`.  Not only sets of values: a zombie has a wait
  status, so what CheckProcessState stores is one; and the callstack only ever
  holds services, because names are looked up before a frame is entered.
* `InstancesUnique`: `Spec => []OneInstance`.  `OneInstance` is not inductive:
  collecting a process presumes that it is Atone's child (or waitpid answers
  ECHILD and the record is given up while the process lives), and spawning
  presumes that a free pid belongs to nobody.  The inductive invariant
  `InstanceInv` adds both (`ServiceProcesses`) and the types; past "final",
  where Shutdown reaps without telling the services, nothing is promised and
  nothing leads back (`GoneForGood`).

It goes on with what the supervisor does with processes:

* `ShutdownStartsNothing`: `Spec => NoStartInShutdown`.  Only Spawn gives a
  service a process, and calls of Start are in progress only while services are
  booted, ticked or reaped (`CallsPlaced`).
* `NoChildLost`: `Spec => []NoLostChild`.  Stronger and inductive is
  `ChildSignalled`: wherever the thread is not looking for ended children,
  SIGCHLD is pending if there is one.  SIGCHLD is consumed only to start
  looking, and looking stops only when there is none.
* `TermComesFirst`: `Spec => TermBeforeKill`.  Between SIGTERM to all and
  SIGKILL to all no service gets a new process (`AllTermed`).
* `NobodyLeftBehind`: `Spec => []NothingLeftBehind`.  That Atone has no child
  must mean that there is nobody at all.  So every process descends from Atone,
  which is said of sets, without a closure: no set of living processes contains
  the parents of all its members (`Rooted`, with `ParentsLive`).

`StartProofs` proves what is promised of services, for every graph of
dependencies:

* `UnstartableStayDown`, `FaultsHaveReasons`, `DependenciesStartFirst` rest on an
  invariant of the calls of Start in progress (`CallsOK`): each dependency of a
  call is still to be looked at, or runs, or is what the next call starts
  (`DependenciesAt`); each call is for a dependency of its caller's, only the
  outermost may be for a service that runs already, and no two are for the same
  (`ChainAt`).  So when Start throws over a cycle, the services of the calls are
  a set each of which needs another of the set, and when a process is spawned
  all its dependencies run.  `StatusKept` relates the status to the pid.
* `PolicyIsApplied`: `Spec => []PolicyApplied`.  `PolicyKept` adds the places
  where the main loop does not wait: a service that ended and is not left down is
  being started.
* `BootIsComplete`: `Spec => []BootComplete`.  `Booting` says what Bootstrap has
  still to do, and the map's order holds every service (`ArrangementIsComplete`,
  by the pigeonhole principle).

`SchedulerProofs` proves of the increment, for every cron time of every year:
it gives a later time (`IncrementAdvances`, so that CheckSchedule's loop makes
progress), it gives the calendar's next minute except in the last minute of
February 28th of an ordinary year (`IncrementIsNextMinute`), and there it gives
a 29th (`EveryFebruaryHas29Days`).  Each carry (minute, hour, day, month,
weekday) is a lemma.

It goes on with the scheduler, for every set of services and expressions and every
movement of the clock: `SchedulerTyping`, `TimerKept` and `MinutesOnce`, from
one inductive invariant: the types, `TimerNeverLost` and `NoMinuteTwice`
themselves.  The types are needed because the increment advances only cron
times, and `IncrementAdvances` for the step of the loop.

The rest of the module is the refinement: `ScheduleIsKept`, that `Spec`
implies `ScheduleKept`, for every set of services, every schedule, every order of
the map and every movement of the clock, in a stretch of the calendar where the
increment follows it (`FollowsCalendar`: no February ends with a 28th).  That
condition is needed: `no_leap_day` shows what happens without it.  The invariant
`Walking` says that CheckSchedule's loop stands at a minute of the calendar or
is past its window, and that what it has found so far is what `Punctuality`
wants of the minutes it is past (`Serves`).  A round of the loop passes one
minute (`IncrementIsNextMinute`) and none between (`NothingBetween`).  At the end
of the loop the minutes passed are the window.

`ServiceSchedulerProofs` proves of the parser of cron expressions and of the
constructor of ServiceScheduler, for every sequence of texts of any length:

* `FieldRead`: `get_list` accepts the ranges of a field, up to the one whose end it
  does not find, if and only if they are numbers of the field's bounds, in order and
  with a step that is not zero; what it sets are the numbers meant (`RangeRead`,
  `ListRead`).  `EntryLoaded` puts five fields together; `TextAccepted` says that
  the parser reports no error for exactly the cron expressions and what is
  `Overlooked`.  `MatchIsMeant` shows that `cron_expr_match` combines the days of the
  month and of the week as the documents say, `ShortcutIsMeant` that the entry of
  each shortcut matches what the fields it stands for mean.
* `TextsRefused`: `ConstructorSpec => []RefusedUnlessOverlooked`, and `ServicesFire`:
  `ConstructorSpec => []FiresWhenMeant`.  The invariant `TextsRead` says of the texts
  behind the constructor that each was read without an error, that `expressions`
  are the entries of those that are no @reboot, and that `on_boot` is set if and
  only if there was such a one or there are no texts at all.

`ConfigurationProofs` proves of every command line and every document:

* `FilesRefused`: `Spec => []RefusedIfInvalid`.  That a service is parsed if and
  only if its fields are valid is a lemma (`ServiceParsed`), by the setters in
  the order they are called; it also says what was parsed (`Describes`).
* `ServicesAsWritten`: `Spec => []LoadedAsWritten`.  The invariant `LoadInv` says
  where a load stands (`Stages`): of the entries of the file the first n are parsed
  and the first k of these are added (`Progress`), each service added is the first
  of its name among the first k and has what was written for it (`Added`).
* `EveryServiceStarts`: `Spec => []StartedSomehow`.  A schedule that is constructed
  without an error and holds no @reboot has an expression.
* `SchedulesRefused` and `SchedulesFire`: the two theorems about the constructor
  hold for each service in turn, since AddService starts it afresh (`TextsRead` is
  part of `LoadInv`).
* `ModeAgreed`: `Spec => []ModeOfOptions`, and `CommandKept`: `Spec => []CommandIntact`,
  of every line that IsWritten (neither says anything of a single service without
  a command, nor of the level of the log if none is given: there the documents
  disagree, see `as_documented`), with any number of options in any order and spelling.
  The invariant `OptionsInv` says how far a line has been read (`ReadUpTo`): optparse
  stands where the next option begins, those before were allowed, the mode is the one
  they have in common and each value is the last given (`LastUpTo`).  Two lemmas say
  that optparse finds the option that was written and its argument (`LetterRead`,
  `LongNameRead`), two what ends a line (`NoOptionRefused`, `CommandRead`), and one what
  FromArgs makes of an option (`OptionHandled`).

`TimespecProofs` proves that timespecs count nanoseconds: `timespec_cmp` is
their order, `timespec_add` and `timespec_diff` are normalised sums and
differences whichever operand they overwrite, and the rest of a timeout that
WaitSignal gives to sigtimedwait ends exactly at it.

`YamlParserProofs` proves of the parser of YAML and the builder of nodes, for all
tokens in whatever order and for every limit on the depth:

* `TheBuilderFollows`: `ParserSpec => []BuilderFollowsParser`, and `TheAnchorsAgree`:
  `ParserSpec => []AnchorsRegistered`.  `ParserSpec` is the parser by itself, with
  anything at all for a scanner; `YamlFile`'s `Spec` implies it, as its other steps
  leave the parser's variables alone.
* The inductive invariant is `ParserInv`.  The open calls stand for phases of the open
  collections (`CallsOf`: an item, a key, the end of a key, a value), and the builder's
  stack, types, keys and count of maps are what these phases say (`Follows`).  That
  needs more than the property: the fields' types, the shape of the calls
  (`GoodFrames`: a node only on top, a document only at the bottom), and that no map
  but the last can be without a key, for it is only by having fewer keys than maps that
  the builder knows that the next node is a key (`KeyNeeded`).  Between the two
  halves of an event the builder holds a node that is no collection's yet (`Holds`).
* Each event of the builder is a lemma (`LeafFollows`, `AliasFollows`, `StartFollows`,
  `EndFollows`), and so is each way the calls go on (`NodeReturned`,
  `CollectionCalled`, `CollectionGoesOn`, ...); both change the phases alike.

`YamlScannerProofs` proves of the scanner, for every text and whenever its reader takes
a token:

* `OpenKeysPending`: `ScannerSpec => []KeysPending`; `DeliveredIsFinal`: `ScannerSpec =>
  DeliveredStands`; `BlocksNested`: `ScannerSpec => []BlocksClosed`.
* `ParserTakesDecided`: the parser, whatever it has called, takes nothing but the
  front token, and only when it is decided or the text has ended, so the scanner in a
  load behaves as `ScannerSpec` says (`YamlFile`'s other steps leave it alone; the run
  `yaml` checks `ScannerSpec` of all of them).
* `ScannerInvariant`: `ScannerSpec => []ScannerInv`.  None of the properties is inductive:
  deciding a key changes the status of a token far back in the queue, and that the blocks
  begun and ended since are still nested afterwards depends on what the indents say.  The
  invariant relates the four stacks of the scanner.  The tokens of an open key are not
  handed out, not decided and in the order of the flows (`KeysOpen`).  Indents are in
  the order of the tokens that start them, and valid just when these are (`Indented`).
  What the tokens leave open, computed after each of them (`IsOpen`), is at the end the
  valid indents and the open flow collections, the latter behind the former (`Nested`).
  And whatever has ended behind the start of a block that a key is still to begin has
  also begun behind it (`CanBegin`, `EndedBehind`), so that this start can become valid
  in between.
* Each thing done to tokens, indents, flows and keys is a lemma about the four of them
  (`SoundIndent`, `SoundKey`, `SoundDecide`, `SoundPop`, `SoundDropIndent`,
  `SoundFlowStart`, `SoundFlowEnd`, `SoundDropKeys`, `SoundTake`), and each handler is
  put together from these (`Scalars`, `Entries`, `KeysAndValues`, `FlowEnds`, ...).
  Where in the text the scanner stands is left open: the theorems rest on no property of
  the expressions in `YamlText`.

Every safety property of the supervisor, of the scheduler, of the command line, of the
loading of services, of YAML's scanner, its parser and its builder that a run checks is
also proved.

The assumptions are the named ASSUMEs of the modules: names of services are
names, `None` and `Atone` are neither pids nor services, services and pids are
finite, every service is started at boot or by a schedule (what
`EveryServiceStarts` proves of a configuration), the clock shows dates of a
stretch of the calendar without gaps, command lines are written as options and a
command (`LinesAssumption`; lines that are malformed at some option are among them,
and no line is kept from ending there), what a document lists are sequences, and a
text of a schedule has fields of ranges of numbers (`TextsAssumption`; what is not a
number is the range "word").
Seconds of timespecs are taken to be unbounded integers.

Only model-checked: liveness (`ShutdownCompletes`, `ZombiesReaped`, `AlwaysRestarted`,
`CaughtUp`), and what a whole file is loaded as: how its bytes are decoded
(`EncodingIrrelevant`), what documents, scalars and services come out of it
(`LoadsWhatIsWritten`, `ReadAsWritten`, `RefusedForServices`) and in how many steps
(`LoadEnds`).  Liveness under fairness is beyond the prover.  What the stream, the
scalars and the trees of nodes amount to for every text is computed by folds and
recursive operators, and would need induction over the text.

## Not modelled

* yaml-cpp's emitter, its events for other handlers, and what edits nodes; the
  logger; the help and version texts: nothing Atone decides depends on them.
* The single characters of cron expressions (`get_number`, `load_entry`'s
  skipping of blanks and comments): the model's texts begin at ranges.  In YAML,
  the escapes named above.
* The setup of signal masks and of the child's side of `vfork` up to `execvp`.
* The composition of the models in one behaviour.  They meet in values:
  `ConfigFile` ends with the list of services with which `Configuration` begins
  (`ReadAsWritten`), `Configuration` ends with what the constants of the
  supervisor and the scheduler stand for, and `Scheduler` hands over sequences
  of services, of which `SupervisorProgram` takes any (`Agendas`).  Checking
  them together would multiply their states and add no step: none of them acts
  on one before it, but for the time a start takes, which `Scheduler` leaves open.
