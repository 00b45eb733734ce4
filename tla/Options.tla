------------------------------- MODULE Options -------------------------------
(***************************************************************************)
(* The command line: AtoneOptions::FromArgs, one option at a time as       *)
(* optparse_long finds it, and the program main creates for the mode.  An  *)
(* argument is a sequence of the dashes it begins with, names or letters,  *)
(* "=" and words; argv[0] is left out.                                     *)
(***************************************************************************)
EXTENDS Naturals, Sequences, SequencesExt, FiniteSets

VARIABLES
    line,       \* args, and what they were written for
    optind, subopt,
    options,
    program     \* "none" while the options are read, what is run, or "refused"

reading == <<line, optind, subopt, options, program>>

Definitions ==
    [config  |-> [letter |-> "c", takes |-> "OPTIONAL", mode |-> "MultiServices"],
     help    |-> [letter |-> "h", takes |-> "NONE",     mode |-> "Help"],
     log     |-> [letter |-> "l", takes |-> "REQUIRED", mode |-> "Undefined"],
     logger  |-> [letter |-> "L", takes |-> "REQUIRED", mode |-> "Undefined"],
     name    |-> [letter |-> "n", takes |-> "REQUIRED", mode |-> "SingleService"],
     version |-> [letter |-> "v", takes |-> "NONE",     mode |-> "Version"]]

DefaultOptions ==
    [mode |-> "Undefined", configFile |-> <<"/etc/atone.yaml">>, serviceName |-> <<"main">>,
     command |-> <<>>, logger |-> "default", logLevel |-> "information"]

args == line.args
HasArg(i) == i \in DOMAIN args

OptionsInit ==
    /\ optind = 1 /\ subopt = 0
    /\ options = DefaultOptions
    /\ program = "none"

Refuse == program' = "refused" /\ UNCHANGED <<line, optind, subopt, options>>

-----------------------------------------------------------------------------
(* The handling of one option.  Its argument is a sequence: empty for NULL. *)

Lowercase == [DEBUG |-> "debug", Syslog |-> "syslog"]
Lower(text) == [i \in DOMAIN text |-> IF text[i] \in DOMAIN Lowercase THEN Lowercase[text[i]] ELSE text[i]]

LogLevels == {"critical", "debug", "emergency", "error", "fatal", "information", "notice",
              "trace", "warning"}
Loggers == {"null", "output", "simple", "syslog", "terminal"}

\* ParseLogLevel and ParseLogger throw for anything else.
ValueAllowed(option, optarg) ==
    CASE option = "log"    -> Lower(optarg[1]) \in {<<level>> : level \in LogLevels}
      [] option = "logger" -> Lower(optarg[1]) \in {<<logger>> : logger \in Loggers}
      [] OTHER             -> TRUE

WithValue(option, optarg) ==
    CASE option = "config" /\ optarg # <<>> -> [options EXCEPT !.configFile = optarg[1]]
      [] option = "log"                     -> [options EXCEPT !.logLevel = Lower(optarg[1])[1]]
      [] option = "logger"                  -> [options EXCEPT !.logger = Lower(optarg[1])[1]]
      [] option = "name"                    -> [options EXCEPT !.serviceName = optarg[1]]
      [] OTHER                              -> options

\* Mutant: the last option that has a mode sets it.
ModeAllowed_Last(mode) == TRUE

\* The first option that has a mode sets it, and no other mode may follow.
ModeAllowed(mode) == mode = "Undefined" \/ options.mode \in {"Undefined", mode}

Handle(option, optarg) ==
    LET mode == Definitions[option].mode
        set  == WithValue(option, optarg)
    IN  IF ValueAllowed(option, optarg) /\ ModeAllowed(mode)
        THEN /\ options' = IF mode = "Undefined" THEN set ELSE [set EXCEPT !.mode = mode]
             /\ UNCHANGED <<line, program>>
        ELSE program' = "refused" /\ UNCHANGED <<line, options>>

-----------------------------------------------------------------------------
(* optparse                                                                *)

IsDashDash(arg)    == arg = <<"--">>
IsShortOption(arg) == Len(arg) > 1 /\ arg[1] = "-"
IsLongOption(arg)  == Len(arg) > 1 /\ arg[1] = "--"

OfLetter(letter) == {option \in DOMAIN Definitions : Definitions[option].letter = letter}

\* A letter of an argument: with an argument of its own it is the last one.
ShortOption ==
    LET arg    == args[optind]
        letter == arg[subopt + 2]
        rest   == SubSeq(arg, subopt + 3, Len(arg))
        last   == rest = <<>>
    IN  /\ program = "none" /\ HasArg(optind) /\ IsShortOption(arg)
        /\ \/ OfLetter(letter) = {} /\ Refuse
           \/ \E option \in OfLetter(letter) :
                \/ /\ Definitions[option].takes = "NONE"
                   /\ Handle(option, <<>>)
                   /\ subopt' = IF last THEN 0 ELSE subopt + 1
                   /\ optind' = IF last THEN optind + 1 ELSE optind
                \/ /\ Definitions[option].takes = "OPTIONAL"
                   /\ Handle(option, IF last THEN <<>> ELSE <<rest>>)
                   /\ subopt' = 0 /\ optind' = optind + 1
                \/ /\ Definitions[option].takes = "REQUIRED"
                   /\ IF ~last
                      THEN Handle(option, <<rest>>) /\ subopt' = 0 /\ optind' = optind + 1
                      ELSE IF HasArg(optind + 1)
                      THEN Handle(option, <<args[optind + 1]>>) /\ subopt' = 0 /\ optind' = optind + 2
                      ELSE Refuse

\* The first equals sign of an argument, or the place behind its end.
Equals(arg) == Min({i \in 1 .. (Len(arg) + 1) : i = Len(arg) + 1 \/ arg[i] = "="})

\* optparse_longopts_match: the whole name, up to an equals sign.
NameOf(arg) == SubSeq(arg, 2, Equals(arg) - 1)

\* optparse_longopts_arg: what is behind the first equals sign.
ValueOf(arg) == IF Equals(arg) > Len(arg) THEN <<>> ELSE <<SubSeq(arg, Equals(arg) + 1, Len(arg))>>

OfName(name) == {option \in DOMAIN Definitions : <<option>> = name}

\* Mutant: the argument of a long option is not skipped.
LongOption_ReadsAgain ==
    LET arg   == args[optind]
        value == ValueOf(arg)
    IN  /\ program = "none" /\ HasArg(optind) /\ IsLongOption(arg)
        /\ \/ OfName(NameOf(arg)) = {} /\ Refuse
           \/ \E option \in OfName(NameOf(arg)) :
                IF Definitions[option].takes = "NONE" /\ value # <<>> THEN Refuse
                ELSE IF Definitions[option].takes = "REQUIRED" /\ value = <<>> /\ ~HasArg(optind + 1) THEN Refuse
                ELSE /\ Handle(option, IF Definitions[option].takes = "REQUIRED" /\ value = <<>>
                                       THEN <<args[optind + 1]>> ELSE value)
                     /\ optind' = optind + 1 /\ UNCHANGED subopt

LongOption ==
    LET arg   == args[optind]
        value == ValueOf(arg)
    IN  /\ program = "none" /\ HasArg(optind) /\ IsLongOption(arg)
        /\ \/ OfName(NameOf(arg)) = {} /\ Refuse
           \/ \E option \in OfName(NameOf(arg)) :
                \/ /\ Definitions[option].takes # "REQUIRED" \/ value # <<>>
                   /\ IF Definitions[option].takes = "NONE" /\ value # <<>> THEN Refuse
                      ELSE Handle(option, value) /\ optind' = optind + 1 /\ UNCHANGED subopt
                \/ /\ Definitions[option].takes = "REQUIRED" /\ value = <<>>
                   /\ IF HasArg(optind + 1)
                      THEN Handle(option, <<args[optind + 1]>>) /\ optind' = optind + 2 /\ UNCHANGED subopt
                      ELSE Refuse

\* CreateProgram.
Programs ==
    [Help |-> "HelpProgram", Version |-> "VersionProgram",
     SingleService |-> "SupervisorProgram", MultiServices |-> "SupervisorProgram"]

\* The first argument that is no option, or the one behind "--", begins the command;
\* then the program is created for the mode.
RemainingArgs ==
    LET first   == IF HasArg(optind) /\ IsDashDash(args[optind]) THEN optind + 1 ELSE optind
        command == SubSeq(args, first, Len(args))
        mode    == IF options.mode = "Undefined" /\ command # <<>> THEN "SingleService" ELSE options.mode
    IN  /\ program = "none"
        /\ HasArg(optind) => ~IsShortOption(args[optind]) /\ ~IsLongOption(args[optind])
        /\ \/ /\ command = <<>> \/ mode = "SingleService"
              /\ mode # "Undefined"
              /\ options' = [options EXCEPT !.mode = mode, !.command = command]
              /\ program' = Programs[mode]
           \/ /\ mode = "Undefined" \/ (command # <<>> /\ mode # "SingleService")
              /\ program' = "refused" /\ UNCHANGED options
        /\ optind' = first /\ UNCHANGED <<line, subopt>>

FromArgs == ShortOption \/ LongOption \/ RemainingArgs

-----------------------------------------------------------------------------
(* Lines as they are written: for a sequence of options, each with its     *)
(* argument if it has one, and a command, in any spelling.  starts are the *)
(* places at which the options and, last, the command begin: the argument, *)
(* and how many letters of it are before.                                  *)

\* A letter: among others, with its argument in the same or in the next one.
AsLetter(l, given, p, q) ==
    LET arg   == l.args[p[1]]
        rest  == SubSeq(arg, p[2] + 3, Len(arg))
        takes == Definitions[given.option].takes
    IN  /\ IsShortOption(arg)
        /\ p[2] + 2 \in DOMAIN arg /\ arg[p[2] + 2] = Definitions[given.option].letter
        /\ \/ /\ takes = "NONE" /\ rest # <<>>
              /\ given.optarg = <<>> /\ q = <<p[1], p[2] + 1>>
           \/ /\ takes # "REQUIRED" /\ rest = <<>>
              /\ given.optarg = <<>> /\ q = <<p[1] + 1, 0>>
           \/ /\ takes # "NONE" /\ rest # <<>>
              /\ given.optarg = <<rest>> /\ q = <<p[1] + 1, 0>>
           \/ /\ takes = "REQUIRED" /\ rest = <<>> /\ p[1] + 1 \in DOMAIN l.args
              /\ given.optarg = <<l.args[p[1] + 1]>> /\ q = <<p[1] + 2, 0>>

\* A name, with its argument behind an equals sign or in the next one.
AsName(l, given, p, q) ==
    LET arg   == l.args[p[1]]
        takes == Definitions[given.option].takes
    IN  /\ p[2] = 0
        /\ \/ /\ arg = <<"--", given.option>> /\ takes # "REQUIRED"
              /\ given.optarg = <<>> /\ q = <<p[1] + 1, 0>>
           \/ /\ arg = <<"--", given.option>> /\ takes = "REQUIRED" /\ p[1] + 1 \in DOMAIN l.args
              /\ given.optarg = <<l.args[p[1] + 1]>> /\ q = <<p[1] + 2, 0>>
           \/ /\ Len(arg) > 2 /\ SubSeq(arg, 1, 3) = <<"--", given.option, "=">>
              /\ given.optarg = <<SubSeq(arg, 4, Len(arg))>> /\ q = <<p[1] + 1, 0>>

\* What is no option, or one without the argument it needs.
NoOption(l, p) ==
    /\ p[1] \in DOMAIN l.args
    /\ LET arg  == l.args[p[1]]
           lone == p[1] + 1 \notin DOMAIN l.args
       IN  \/ /\ IsShortOption(arg) /\ p[2] + 2 \in DOMAIN arg
              /\ \A option \in DOMAIN Definitions : Definitions[option].letter = arg[p[2] + 2] =>
                    Definitions[option].takes = "REQUIRED" /\ p[2] + 2 = Len(arg) /\ lone
           \/ /\ IsLongOption(arg) /\ p[2] = 0
              /\ \A option \in DOMAIN Definitions :
                    /\ arg = <<"--", option>> => Definitions[option].takes = "REQUIRED" /\ lone
                    /\ ~(Len(arg) > 2 /\ arg[2] = option /\ arg[3] = "=")

\* The command, behind "--" or not.
IsCommand(l, p) ==
    /\ p[2] = 0 /\ p[1] \in 1 .. (Len(l.args) + 1)
    /\ \/ /\ p[1] \in DOMAIN l.args /\ IsDashDash(l.args[p[1]])
          /\ l.command = SubSeq(l.args, p[1] + 1, Len(l.args))
       \/ /\ p[1] \in DOMAIN l.args =>
                LET arg == l.args[p[1]]
                IN  ~IsDashDash(arg) /\ ~IsShortOption(arg) /\ ~IsLongOption(arg)
          /\ l.command = SubSeq(l.args, p[1], Len(l.args))

ArgumentAllowed(given) ==
    /\ Definitions[given.option].takes = "NONE" => given.optarg = <<>>
    /\ ValueAllowed(given.option, given.optarg)

IsWritten(l) ==
    LET n == Len(l.given)
    IN  /\ l.args \in Seq(ToSet(l.args)) /\ \A i \in DOMAIN l.args : l.args[i] \in Seq(ToSet(l.args[i]))
        /\ l.given \in Seq(ToSet(l.given))
        /\ l.starts \in Seq(Nat \X Nat) /\ Len(l.starts) = n + 1 /\ l.starts[1] = <<1, 0>>
        /\ \A i \in 1 .. n :
              LET given == l.given[i]
              IN  /\ given.option \in DOMAIN Definitions
                  /\ given.optarg = <<>> \/ given.optarg = <<given.optarg[1]>>
                  /\ l.starts[i][1] \in DOMAIN l.args
                  /\ \/ AsLetter(l, given, l.starts[i], l.starts[i + 1])
                     \/ AsName(l, given, l.starts[i], l.starts[i + 1])
        /\ \/ /\ IsCommand(l, l.starts[n + 1])
              /\ l.valid <=> \A i \in 1 .. n : ArgumentAllowed(l.given[i])
           \/ NoOption(l, l.starts[n + 1]) /\ ~l.valid

-----------------------------------------------------------------------------
(* Properties                                                              *)

ModesGiven == {Definitions[line.given[i].option].mode : i \in DOMAIN line.given} \ {"Undefined"}

\* The mode does not depend on the order or the spelling of the options: it is the one
\* that all options that have a mode agree on, a single service if there is only a
\* command, and the line is refused if there is none, if there are two, if a command
\* goes with another mode, or if an option or its argument is none that exists.  No
\* other line is refused but one for a single service that has no command, of which
\* nothing is said here: the usage asks for <cmd>, the code does not (AsDocumented).
ModeOfOptions ==
    program # "none" =>
        LET modes == IF ModesGiven = {} /\ line.command # <<>> THEN {"SingleService"} ELSE ModesGiven
            valid == /\ line.valid /\ Cardinality(modes) = 1
                     /\ line.command # <<>> => modes = {"SingleService"}
            lacking == modes = {"SingleService"} /\ line.command = <<>>
        IN  /\ ~valid => program = "refused"
            /\ program = "refused" => ~valid \/ lacking
            /\ program # "refused" => modes = {options.mode}

GivenAt(option) ==
    {i \in DOMAIN line.given : line.given[i].option = option /\ line.given[i].optarg # <<>>}

\* The last argument that was given to an option, or the default.
LastGiven(option, default) ==
    IF GivenAt(option) = {} THEN default ELSE line.given[Max(GivenAt(option))].optarg[1]

\* The service gets the command as it stands on the line: no option before it takes one
\* of its arguments, none of its own options is taken by Atone, and "--" is removed once.
\* The name, the file, the logger and its level are those given last, or the defaults
\* (but of the level, for which the documents have two: AsDocumented).
CommandIntact ==
    program \notin {"none", "refused"} =>
        /\ options.command = line.command
        /\ options.serviceName = LastGiven("name", DefaultOptions.serviceName)
        /\ options.configFile = LastGiven("config", DefaultOptions.configFile)
        /\ GivenAt("log") # {} => <<options.logLevel>> = Lower(LastGiven("log", <<>>))
        /\ <<options.logger>> = Lower(LastGiven("logger", <<DefaultOptions.logger>>))
=============================================================================
