-------------------------- MODULE MCConfiguration --------------------------
(***************************************************************************)
(* Documents and command lines for TLC: every combination of fields of one *)
(* service, some of them with a second service of the same name or         *)
(* another, one service with each schedule of CronTexts, and up to three   *)
(* options in every order and spelling, with and without a command.        *)
(***************************************************************************)
EXTENDS Configuration

CronText == INSTANCE CronTexts
MCConfigurations == CronText!AllConfigurations
MCTimes == CronText!SomeTimes

Reboot    == Scalar(CronText!Shortcut("reboot"))
Fortnightly == Scalar(CronText!Shortcut("fortnightly"))
Fridays   == Scalar(CHOOSE text \in CronText!ValidTexts : TRUE)

\* A map with those of the fields that are present.
Present(fields) == Map(SelectSeq(fields, LAMBDA entry : entry[2].kind # "Absent"))
Absent == [kind |-> "Absent"]

ServiceNodes ==
    {Null, Sequence(<<Scalar("run")>>), Scalar("run"), Scalar("unbalanced")} \cup
    {Present(<<Pair("command", command), Pair("restart", restart),
               Pair("schedule", schedule), Pair("depends_on", depends_on)>>) :
        command    \in {Absent, Null, Scalar("run"), Scalar("unbalanced"), Sequence(<<>>)},
        restart    \in {Absent, Null, Scalar("always"), Scalar("sometimes"), Map(<<>>)},
        schedule   \in {Absent, Null, Fridays, Fortnightly, Sequence(<<Fridays, Reboot>>),
                        Sequence(<<Null>>), Map(<<>>)},
        depends_on \in {Absent, Null, Scalar("b"), Sequence(<<Scalar("b"), Scalar("a")>>),
                        Sequence(<<Map(<<>>)>>), Map(<<>>)}}

\* The first service of a pair.
FirstNodes ==
    {Scalar("other"), Null,
     Present(<<Pair("restart", Scalar("always")), Pair("schedule", Sequence(<<Fridays>>))>>)}

Document(settings, section) ==
    Present(<<Pair("settings", settings), Pair("services", section)>>)

OddDocuments ==
    {Null, Scalar("text"), Document(Absent, Null), Document(Absent, Map(<<>>)),
     Document(Map(<<Pair("workdir", Scalar("srv"))>>), Map(<<Pair("a", Scalar("run"))>>)),
     Document(Map(<<Pair("workdir", Null)>>), Map(<<Pair("a", Scalar("run"))>>)),
     Document(Absent, Map(<<Pair("a", Scalar("one")), Pair("b", Scalar("two")),
                            Pair("a", Scalar("three"))>>)),
     Document(Absent, Map(<<<<Null, Scalar("run")>>, Pair("null", Scalar("other"))>>)),
     Document(Absent, Map(<<Pair("a", Scalar("run")), <<Sequence(<<>>), Scalar("run")>>>>))}

OneService == {Document(Absent, Map(<<Pair("a", node)>>)) : node \in ServiceNodes}

TwoServices ==
    {Document(Absent, Map(<<Pair(name, first), Pair("a", node)>>)) :
        name \in {"a", "b"}, first \in FirstNodes, node \in ServiceNodes}

Scheduled(texts) ==
    Map(<<Pair("command", Scalar("run")),
          Pair("schedule", Sequence([i \in DOMAIN texts |-> Scalar(texts[i])]))>>)

OneSchedule == {Document(Absent, Map(<<Pair("a", Scheduled(texts))>>)) : texts \in MCConfigurations}

-----------------------------------------------------------------------------
(* Command lines                                                           *)

With(option, optarg)  == [option |-> option, optarg |-> <<optarg>>, valid |-> TRUE]
Without(option)       == [option |-> option, optarg |-> <<>>, valid |-> TRUE]
Wrong(option, optarg) == [option |-> option, optarg |-> <<optarg>>, valid |-> FALSE]

OptionChoices ==
    {With("config", <<"a.yaml">>), Without("config"), Without("help"), Without("version"),
     With("name", <<"web">>), With("name", <<"--">>), With("log", <<"DEBUG">>), With("logger", <<"null">>),
     Wrong("log", <<"loud">>), Wrong("help", <<"x">>)}

\* Two options: every pair; three: those that have a mode, and their repetition.
Moded == {choice \in OptionChoices : Definitions[choice.option].mode # "Undefined" /\ choice.valid}
Given3 == {<<>>} \cup {<<c>> : c \in OptionChoices} \cup {<<c1, c2>> : c1, c2 \in OptionChoices}
          \cup {<<c1, c2, c3>> : c1, c2, c3 \in Moded}

\* The spellings of an option that keep it apart from what follows.
Long(choice) ==
    IF choice.optarg = <<>> THEN <<<<"--", choice.option>>>>
    ELSE <<<<"--", choice.option, "=">> \o choice.optarg[1]>>
LongApart(choice) ==
    IF choice.optarg = <<>> \/ choice.option \in {"config", "help"} THEN Long(choice)
    ELSE <<<<"--", choice.option>>, choice.optarg[1]>>
Short(choice) ==
    IF choice.optarg = <<>> THEN <<<<"-", Definitions[choice.option].letter>>>>
    ELSE IF choice.option = "help" THEN Long(choice)
    ELSE <<<<"-", Definitions[choice.option].letter>> \o choice.optarg[1]>>
ShortApart(choice) ==
    IF choice.optarg = <<>> \/ choice.option \in {"config", "help"} THEN Short(choice)
    ELSE <<<<"-", Definitions[choice.option].letter>>, choice.optarg[1]>>

Spelled(choice, spelling) ==
    CASE spelling = "long" -> Long(choice) [] spelling = "long apart" -> LongApart(choice)
      [] spelling = "short" -> Short(choice) [] spelling = "short apart" -> ShortApart(choice)

\* Letters without an argument are put in front of the letter that follows.
Clustered(spelled) ==
    FoldLeft(LAMBDA written, arg :
                IF /\ written # <<>> /\ arg[1] = "-" /\ Last(written)[1] = "-"
                   /\ ToSet(Tail(Last(written))) \subseteq {"h", "v"}
                THEN Append(Front(written), Last(written) \o Tail(arg)) ELSE Append(written, arg),
             <<>>, spelled)

Commands == {<<>>, <<<<"run">>>>, <<<<"run">>, <<"-", "n", "x">>, <<"--">>>>, <<<<"-">>, <<"--", "help">>>>}
DashedCommands == Commands \cup {<<<<"-", "h">>, <<"run">>>>, <<<<"--", "config">>>>}

\* Where each option begins, and the command.
Starts(given, spelling, clustered) ==
    LET Behind(p, i) ==
            IF /\ clustered /\ i < Len(given)
               /\ Spelled(given[i], spelling) \in {<<<<"-", "h">>>>, <<<<"-", "v">>>>}
               /\ Spelled(given[i + 1], spelling)[1][1] = "-"
            THEN <<p[1], p[2] + 1>> ELSE <<p[1] + Len(Spelled(given[i], spelling)), 0>>
    IN  FoldLeft(LAMBDA starts, i : Append(starts, Behind(Last(starts), i)),
                 <<<<1, 0>>>>, [i \in DOMAIN given |-> i])

Line(given, command, spelling, dashed, clustered) ==
    LET spelled == FlattenSeq([i \in DOMAIN given |-> Spelled(given[i], spelling)])
    IN  [given |-> given, command |-> command, valid |-> \A i \in DOMAIN given : given[i].valid,
         starts |-> Starts(given, spelling, clustered),
         args |-> (IF clustered THEN Clustered(spelled) ELSE spelled)
                  \o (IF dashed THEN <<<<"--">>>> ELSE <<>>) \o command]

MalformedLine(written, given, starts) ==
    [given |-> given, command |-> <<>>, valid |-> FALSE, starts |-> starts, args |-> written]

MalformedLines ==
    {MalformedLine(<<arg>>, <<>>, <<<<1, 0>>>>) :
        arg \in {<<"-", "x">>, <<"--", "nothing">>, <<"-", "n">>, <<"--", "log">>, <<"--", "=", "x">>}}
    \cup {MalformedLine(<<<<"-", "h", "x">>>>, <<Without("help")>>, <<<<1, 0>>, <<1, 1>>>>),
          MalformedLine(<<<<"-", "l", "DEBUG">>, <<"-", "L">>>>, <<With("log", <<"DEBUG">>)>>,
                    <<<<1, 0>>, <<2, 0>>>>)}

CommandLines ==
    {Line(given, command, spelling, FALSE, FALSE) : given \in Given3, command \in Commands,
        spelling \in {"long", "long apart", "short", "short apart"}}

DashedLines ==
    {Line(given, command, spelling, TRUE, TRUE) : given \in Given3, command \in DashedCommands,
        spelling \in {"short", "short apart"}}

AFile == Document(Absent, Map(<<Pair("a", Scalar("run"))>>))

Loads(documents) ==
    {[line |-> Line(<<With("config", <<"a.yaml">>)>>, <<>>, "long", FALSE, FALSE),
      files |-> <<"a.yaml">> :> document1] : document1 \in documents}

Typed(lines) == {[line |-> line1, files |-> <<"a.yaml">> :> AFile] : line1 \in lines}

\* In several sets, as TLC is slow to unite large ones.
MCInvocations ==
    {Loads(OddDocuments), Loads(OneService), Loads(TwoServices), Loads(OneSchedule),
     Typed(CommandLines), Typed(DashedLines), Typed(MalformedLines)}

\* A file with a service that has no command and whose schedule is left empty; and a
\* line with a name and no command, long enough for the file to be loaded first.
Uncommanded ==
    Document(Absent, Map(<<Pair("a", Map(<<Pair("depends_on", Scalar("b")), Pair("schedule", Null)>>))>>))
NameOnly ==
    Line(<<With("name", <<"web">>), With("log", <<"DEBUG">>), With("logger", <<"null">>),
           With("name", <<"web">>)>>, <<>>, "long", FALSE, FALSE)

MCDisagreements == {Loads({Uncommanded}), Typed({NameOnly})}
=============================================================================
