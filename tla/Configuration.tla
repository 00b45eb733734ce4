--------------------------- MODULE Configuration ---------------------------
(***************************************************************************)
(* Loading of the configuration.  Once the options are read (Options),     *)
(* Context::FromOptions takes one service from the command line or the     *)
(* YAML document of a file.  All services of the document are parsed       *)
(* before the first is added, and adding a service runs the constructor of *)
(* its scheduler (ServiceScheduler).  An exception anywhere ends the load, *)
(* and with it Atone.                                                      *)
(***************************************************************************)
EXTENDS Options, ServiceScheduler

CONSTANTS
    Invocations,      \* sets of [line, files]: a command line, and the document in each file
    Unexpandable      \* the commands wordexp refuses

\* YAML nodes.  A map is a sequence of entries, in the order of the file.
Null            == [kind |-> "Null"]
Scalar(value)   == [kind |-> "Scalar", value |-> value]
Sequence(items) == [kind |-> "Sequence", items |-> items]
Map(entries)    == [kind |-> "Map", entries |-> entries]
Pair(key, node) == <<Scalar(key), node>>

Unread == [kind |-> "Unread"]

\* node[key]: the first entry of that key; a key that is no scalar equals none.
Position(node, key) == SelectInSeq(node.entries, LAMBDA entry : entry[1] = Scalar(key))
Defined(node, key) == node.kind = "Map" /\ Position(node, key) # 0
Get(node, key) == node.entries[Position(node, key)][2]

ServicesGiven(node) == Defined(node, "services") /\ Get(node, "services").kind = "Map"

\* A scalar under a schedule is a text.
ReadsText(node) == node.kind = "Scalar" => node.value \in Texts

\* The entries of the services and the items of their schedules are sequences.
IsDocument(node) ==
    ServicesGiven(node) =>
        LET given == Get(node, "services").entries
        IN  /\ given \in Seq(ToSet(given))
            /\ \A i \in DOMAIN given :
                  LET schedule == Get(given[i][2], "schedule")
                  IN  Defined(given[i][2], "schedule") =>
                         /\ ReadsText(schedule)
                         /\ schedule.kind = "Sequence" =>
                               /\ schedule.items \in Seq(ToSet(schedule.items))
                               /\ \A j \in DOMAIN schedule.items : ReadsText(schedule.items[j])

ASSUME LinesAssumption ==
    \A invocations \in Invocations : \A invocation \in invocations : IsWritten(invocation.line)

ASSUME DocumentsAssumption ==
    \A invocations \in Invocations : \A invocation \in invocations :
        \A name \in DOMAIN invocation.files : IsDocument(invocation.files[name])

VARIABLES
    files,      \* the documents, by file name
    document,   \* of the file that was read
    stage,      \* "closed", "open", "loading" or "failed"
    entries,    \* of the services node, those not yet parsed
    configs,    \* parsed, not yet added
    adding,     \* AddService constructs the service of the first of configs
    services,   \* ServicesManager::services
    workdir

loading  == <<files, document, stage, entries, configs, adding, services, workdir>>
vars == <<reading, loading, building>>

NoCommand == "none"

ServiceConfig(name) ==
    [name |-> name, command |-> NoCommand, depends_on |-> <<>>, restart |-> "no",
     schedule |-> <<>>, error |-> "none"]

Throw(service, what) == [service EXCEPT !.error = what]

IsStrings(node) ==
    \/ node.kind \in {"Null", "Scalar"}
    \/ node.kind = "Sequence" /\ \A i \in DOMAIN node.items : node.items[i].kind = "Scalar"

Strings(node) ==
    CASE node.kind = "Null" -> <<>>
      [] node.kind = "Scalar" -> <<node.value>>
      [] node.kind = "Sequence" -> [i \in DOMAIN node.items |-> node.items[i].value]

SetCommandArgs(service, node) ==
    IF node.kind = "Null" THEN Throw(service, "missing_command")
    ELSE IF node.kind # "Scalar" \/ node.value \in Unexpandable
    THEN Throw(service, "invalid_command")
    ELSE [service EXCEPT !.command = node.value]

SetDependsOn(service, node) ==
    IF IsStrings(node) THEN [service EXCEPT !.depends_on = Strings(node)]
    ELSE Throw(service, "invalid_depends_on")

RestartPolicies == {"no", "always", "on-failure", "unless-stopped"}

\* Mutant: what is no policy is taken for the default.
SetRestartPolicy_Defaults(service, node) ==
    IF node.kind = "Scalar" /\ node.value \in RestartPolicies
    THEN [service EXCEPT !.restart = node.value]
    ELSE [service EXCEPT !.restart = "no"]

SetRestartPolicy(service, node) ==
    IF node.kind = "Null" THEN [service EXCEPT !.restart = "no"]
    ELSE IF node.kind = "Scalar" /\ node.value \in RestartPolicies
    THEN [service EXCEPT !.restart = node.value]
    ELSE Throw(service, "invalid_restart")

\* A null schedule clears depends_on.
SetSchedule(service, node) ==
    IF node.kind = "Null" THEN [service EXCEPT !.depends_on = <<>>]
    ELSE IF IsStrings(node) THEN [service EXCEPT !.schedule = Strings(node)]
    ELSE Throw(service, "invalid_schedule")

ParseField(service, node, field) ==
    IF service.error # "none" \/ ~Defined(node, field) THEN service
    ELSE LET value == Get(node, field)
         IN  CASE field = "command"    -> SetCommandArgs(service, value)
               [] field = "depends_on" -> SetDependsOn(service, value)
               [] field = "restart"    -> SetRestartPolicy(service, value)
               [] field = "schedule"   -> SetSchedule(service, value)

\* The fields in the order they are looked up, wherever they stand in the file.
ParseService(name, node) ==
    CASE node.kind = "Scalar" -> SetCommandArgs(ServiceConfig(name), node)
      [] node.kind = "Map" ->
            LET commanded == ParseField(ServiceConfig(name), node, "command")
                dependent == ParseField(commanded, node, "depends_on")
                restarted == ParseField(dependent, node, "restart")
            IN  ParseField(restarted, node, "schedule")
      [] OTHER -> Throw(ServiceConfig(name), "invalid_service")

-----------------------------------------------------------------------------

Init ==
    /\ \E invocations \in Invocations : \E invocation \in invocations :
          line = invocation.line /\ files = invocation.files
    /\ OptionsInit
    /\ document = Unread
    /\ stage = "closed"
    /\ entries = <<>> /\ configs = <<>> /\ services = <<>>
    /\ adding = FALSE
    /\ workdir = "none"
    /\ schedules = <<>> /\ todo = <<>> /\ expressions = <<>> /\ on_boot = TRUE /\ error = "none"

Fail == stage' = "failed"

ReadOptions == FromArgs /\ UNCHANGED <<loading, building>>

\* One service and its arguments, which the shell has expanded; or a file.
FromOptions ==
    /\ stage = "closed" /\ program = "SupervisorProgram"
    /\ \/ /\ options.mode = "SingleService"
          /\ stage' = "loading"
          /\ configs' = <<[ServiceConfig(options.serviceName) EXCEPT !.command = options.command]>>
          /\ UNCHANGED document
       \/ /\ options.mode = "MultiServices"
          /\ IF options.configFile \in DOMAIN files
             THEN stage' = "open" /\ document' = files[options.configFile]
             ELSE Fail /\ UNCHANGED document
          /\ UNCHANGED configs
    /\ UNCHANGED <<reading, files, entries, adding, services, workdir, building>>

SettingsWorkdir ==
    IF /\ Defined(document, "settings") /\ Defined(Get(document, "settings"), "workdir")
       /\ Get(Get(document, "settings"), "workdir").kind = "Scalar"
    THEN Get(Get(document, "settings"), "workdir").value
    ELSE "none"

ParseDocument ==
    /\ stage = "open"
    /\ workdir' = SettingsWorkdir
    /\ IF ServicesGiven(document)
       THEN stage' = "loading" /\ entries' = Get(document, "services").entries
       ELSE Fail /\ UNCHANGED entries
    /\ UNCHANGED <<reading, files, document, configs, adding, services, building>>

\* as<std::string> of the key; it throws for a collection.
ServiceName(key) ==
    CASE key.kind = "Null" -> "null" [] key.kind = "Scalar" -> key.value [] OTHER -> "none"

ParseServices ==
    LET service == ParseService(ServiceName(Head(entries)[1]), Head(entries)[2])
    IN  /\ stage = "loading" /\ entries # <<>>
        /\ IF service.error = "none" /\ Head(entries)[1].kind \in {"Null", "Scalar"}
           THEN /\ entries' = Tail(entries) /\ configs' = Append(configs, service)
                /\ UNCHANGED stage
           ELSE Fail /\ UNCHANGED <<entries, configs>>
        /\ UNCHANGED <<reading, files, document, adding, services, workdir, building>>

AddService ==
    /\ stage = "loading" /\ entries = <<>> /\ configs # <<>> /\ ~adding
    /\ adding' = TRUE
    /\ schedules' = Head(configs).schedule /\ todo' = schedules'
    /\ on_boot' = (schedules' = <<>>)
    /\ expressions' = <<>> /\ error' = "none"
    /\ UNCHANGED <<reading, files, document, stage, entries, configs, services, workdir>>

Construct == adding /\ ConstructorNext /\ UNCHANGED <<reading, loading>>

ConstructorThrows ==
    /\ stage = "loading" /\ adding /\ error # "none"
    /\ Fail
    /\ UNCHANGED <<reading, files, document, entries, configs, adding, services, workdir, building>>

\* The service that is inserted, with its scheduler.
Built ==
    [command |-> Head(configs).command, depends_on |-> Head(configs).depends_on,
     restart |-> Head(configs).restart, on_boot |-> on_boot, expressions |-> expressions]

\* Mutant: services[name] = service, where insert keeps what is there.
InsertService_Overwrites ==
    /\ adding /\ todo = <<>> /\ error = "none"
    /\ services' = [name \in DOMAIN services \cup {Head(configs).name} |->
                       IF name = Head(configs).name THEN Built ELSE services[name]]
    /\ configs' = Tail(configs)
    /\ adding' = FALSE
    /\ UNCHANGED <<reading, files, document, stage, entries, workdir, building>>

InsertService ==
    /\ adding /\ todo = <<>> /\ error = "none"
    /\ services' = [name \in DOMAIN services \cup {Head(configs).name} |->
                       IF name \in DOMAIN services THEN services[name] ELSE Built]
    /\ configs' = Tail(configs)
    /\ adding' = FALSE
    /\ UNCHANGED <<reading, files, document, stage, entries, workdir, building>>

Next ==
    \/ ReadOptions \/ FromOptions \/ ParseDocument \/ ParseServices
    \/ AddService \/ Construct \/ ConstructorThrows \/ InsertService

Spec == Init /\ [][Next]_vars

-----------------------------------------------------------------------------
(* Properties                                                              *)

Loaded == stage = "loading" /\ entries = <<>> /\ configs = <<>>

FromFile == document # Unread
Written == Get(document, "services").entries

Listed(node, key) == IF Defined(node, key) THEN Strings(Get(node, key)) ELSE <<>>

Given(node, key, default) ==
    IF Listed(node, key) = <<>> THEN default ELSE Listed(node, key)[1]

NullSchedule(node) == Defined(node, "schedule") /\ Get(node, "schedule").kind = "Null"

FieldAllowed(node, field) ==
    Defined(node, field) =>
        LET value == Get(node, field)
        IN  CASE field = "command" -> value.kind = "Scalar" /\ value.value \notin Unexpandable
              [] field = "restart" -> \/ value.kind = "Null"
                                      \/ value.kind = "Scalar" /\ value.value \in RestartPolicies
              [] field \in {"depends_on", "schedule"} -> IsStrings(value)

ServiceFields == {"command", "depends_on", "restart", "schedule"}

ValidFields(node) ==
    \/ node.kind = "Scalar" /\ node.value \notin Unexpandable
    \/ node.kind = "Map" /\ \A field \in ServiceFields : FieldAllowed(node, field)

\* No text of its schedule is one the constructor throws for (RefusedUnlessOverlooked).
ValidTexts(node) ==
    \A i \in DOMAIN Listed(node, "schedule") :
        LET text == Listed(node, "schedule")[i] IN WellFormed(text) \/ Overlooked(text)

ValidService(node) == ValidFields(node) /\ ValidTexts(node)

ValidEntry(entry) == entry[1].kind \in {"Null", "Scalar"} /\ ValidService(entry[2])

\* A file is refused if and only if it has no services or any entry under services
\* is invalid, an entry whose name is taken by an earlier one too; no service
\* is added if one cannot be parsed (ParseDocument parses all before AddService).
\* A service without the key "command" is not taken for invalid (see AsDocumented).
RefusedIfInvalid ==
    FromFile =>
    /\ Loaded => \A i \in DOMAIN Written : ValidEntry(Written[i])
    /\ stage = "failed" =>
          \/ ~ServicesGiven(document)
          \/ \E i \in DOMAIN Written : ~ValidEntry(Written[i])
    /\ entries # <<>> => services = <<>>

\* The first service that gets that name; a null key is the name "null".
WrittenFor(name) ==
    Written[SelectInSeq(Written, LAMBDA entry : ServiceName(entry[1]) = name)][2]

\* What is loaded is the first entry of each name, with the documented defaults:
\* no restarts, no dependencies, and started at boot unless a schedule is set
\* that does not have @reboot.  A null schedule is the exception.
LoadedAsWritten ==
    Loaded /\ FromFile =>
    /\ DOMAIN services = {ServiceName(Written[i][1]) : i \in DOMAIN Written}
    /\ \A name \in DOMAIN services :
          LET node    == WrittenFor(name)
              service == services[name]
              texts   == Listed(node, "schedule")
          IN  /\ service.command =
                    IF node.kind = "Scalar" THEN node.value ELSE Given(node, "command", NoCommand)
              /\ service.restart = Given(node, "restart", "no")
              /\ NullSchedule(node) \/ service.depends_on = Listed(node, "depends_on")
              /\ service.on_boot <=>
                    texts = <<>> \/ \E i \in DOMAIN texts : texts[i].shortcut = "reboot"

\* Every loaded service is started at boot or has an expression to wait for: what
\* the supervisor's model assumes of its services.
StartedSomehow ==
    \A name \in DOMAIN services : services[name].on_boot \/ services[name].expressions # <<>>

\* "service must have a command" (YamlConfigParser), "[--] <cmd> <args...>" (usage).
HaveCommands ==
    \A name \in DOMAIN services :
        services[name].command # IF FromFile THEN NoCommand ELSE <<>>

\* "The service will be started after all the services listed here are started."
DependenciesLoaded ==
    FromFile => \A name \in DOMAIN services :
        services[name].depends_on = Listed(WrittenFor(name), "depends_on")

\* "Defines the minimum log level. (default: trace)" (README.md).
LevelAsDocumented == <<options.logLevel>> = Lower(LastGiven("log", <<"trace">>))

\* What is loaded is what the documents and the messages say of it.  Violated in each
\* part: a service without the key "command" and a line with only a name are loaded,
\* a schedule left empty clears depends_on (SetSchedule), and the level is
\* "information" unless one is given, as the help says and README.md does not.
AsDocumented == Loaded => HaveCommands /\ DependenciesLoaded /\ LevelAsDocumented
=============================================================================
