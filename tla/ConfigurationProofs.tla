------------------------ MODULE ConfigurationProofs ------------------------
(***************************************************************************)
(* Theorems about the loading of a configuration, for every command line   *)
(* and every file: a file is refused if and only if it is invalid, what is *)
(* loaded is what is written, every service that is loaded starts somehow, *)
(* and what ServiceSchedulerProofs proves of the schedules of one service  *)
(* holds for each of them.  The second half is about the command line      *)
(* itself: its mode, its values and the command.                           *)
(***************************************************************************)
EXTENDS Configuration, ServiceSchedulerProofs, SequenceTheorems, FiniteSetTheorems,
        WellFoundedInduction

-----------------------------------------------------------------------------
(* The parsing of one service                                              *)

\* The members of a service while it is parsed.
Keys == {"name", "command", "depends_on", "restart", "schedule", "error"}

\* What one field of a service leaves in it.
LEMMA FieldParsed ==
    ASSUME NEW service, DOMAIN service = Keys, service.error = "none",
           NEW node, NEW field \in ServiceFields,
           NEW read, read = ParseField(service, node, field)
    PROVE  /\ DOMAIN read = Keys /\ read.name = service.name
           /\ read.error = "none" <=> FieldAllowed(node, field)
           /\ field # "command" => read.command = service.command
           /\ field = "command" /\ read.error = "none" =>
                 read.command = Given(node, "command", service.command)
           /\ field \notin {"depends_on", "schedule"} => read.depends_on = service.depends_on
           /\ field = "schedule" /\ ~NullSchedule(node) => read.depends_on = service.depends_on
           /\ field = "depends_on" /\ service.depends_on = <<>> /\ read.error = "none" =>
                 read.depends_on = Listed(node, "depends_on")
           /\ field # "restart" => read.restart = service.restart
           /\ field = "restart" /\ service.restart = "no" /\ read.error = "none" =>
                 read.restart = Given(node, "restart", "no")
           /\ field # "schedule" => read.schedule = service.schedule
           /\ field = "schedule" /\ service.schedule = <<>> /\ read.error = "none" =>
                 read.schedule = Listed(node, "schedule")
<1> DEFINE value == Get(node, field)
<1>0. ASSUME NEW default
      PROVE  /\ ~Defined(node, field) => Given(node, field, default) = default
             /\ Defined(node, field) /\ value.kind = "Scalar" =>
                   Given(node, field, default) = value.value
             /\ Defined(node, field) /\ value.kind = "Null" => Given(node, field, default) = default
  BY DEF Given, Listed, Strings
<1>1. CASE ~Defined(node, field)
  <2>1. read = service
    BY <1>1 DEF ParseField
  <2>2. Listed(node, field) = <<>> /\ FieldAllowed(node, field)
    BY <1>1 DEF FieldAllowed, Listed
  <2> QED
    BY <1>0, <1>1, <2>1, <2>2
<1>2. CASE Defined(node, field) /\ field = "command"
  <2>1. read = SetCommandArgs(service, value)
    BY <1>2 DEF ParseField
  <2>2. FieldAllowed(node, field) <=> value.kind = "Scalar" /\ value.value \notin Unexpandable
    BY <1>2 DEF FieldAllowed
  <2> HIDE DEF value
  <2> QED
    BY <1>0, <1>2, <2>1, <2>2 DEF SetCommandArgs, Throw, Keys
<1>3. CASE Defined(node, field) /\ field = "depends_on"
  <2>1. read = SetDependsOn(service, value)
    BY <1>3 DEF ParseField
  <2>2. (FieldAllowed(node, field) <=> IsStrings(value)) /\ Listed(node, "depends_on") = Strings(value)
    BY <1>3 DEF FieldAllowed, Listed
  <2> HIDE DEF value
  <2> QED
    BY <1>3, <2>1, <2>2 DEF SetDependsOn, Throw, Keys
<1>4. CASE Defined(node, field) /\ field = "restart"
  <2>1. read = SetRestartPolicy(service, value)
    BY <1>4 DEF ParseField
  <2>2. FieldAllowed(node, field) <=>
          \/ value.kind = "Null"
          \/ value.kind = "Scalar" /\ value.value \in RestartPolicies
    BY <1>4 DEF FieldAllowed
  <2> HIDE DEF value
  <2> QED
    BY <1>0, <1>4, <2>1, <2>2 DEF SetRestartPolicy, Throw, Keys
<1>5. CASE Defined(node, field) /\ field = "schedule"
  <2>1. read = SetSchedule(service, value)
    BY <1>5 DEF ParseField
  <2>2. (FieldAllowed(node, field) <=> IsStrings(value)) /\ Listed(node, "schedule") = Strings(value)
    BY <1>5 DEF FieldAllowed, Listed
  <2>3. value.kind = "Null" => IsStrings(value) /\ Strings(value) = <<>>
    BY DEF IsStrings, Strings
  <2>4. NullSchedule(node) <=> value.kind = "Null"
    BY <1>5 DEF NullSchedule
  <2> HIDE DEF value
  <2> QED
    BY <1>5, <2>1, <2>2, <2>3, <2>4 DEF SetSchedule, Throw, Keys
<1> QED
  BY <1>1, <1>2, <1>3, <1>4, <1>5 DEF ServiceFields

\* What the configuration of a service should be, by its entry in the file.
Describes(name, node, service) ==
    /\ service.name = name
    /\ service.command = IF node.kind = "Scalar" THEN node.value ELSE Given(node, "command", NoCommand)
    /\ service.restart = Given(node, "restart", "no")
    /\ NullSchedule(node) \/ service.depends_on = Listed(node, "depends_on")
    /\ service.schedule = Listed(node, "schedule")

\* A service is parsed if and only if its fields are valid, and then it is as described.
LEMMA ServiceParsed ==
    ASSUME NEW name, NEW node, NEW service, service = ParseService(name, node)
    PROVE  /\ service.error = "none" <=> ValidFields(node)
           /\ service.error = "none" => Describes(name, node, service)
<1> DEFINE fresh == ServiceConfig(name)
<1>1. /\ DOMAIN fresh = Keys /\ fresh.error = "none" /\ fresh.name = name
      /\ fresh.command = NoCommand /\ fresh.restart = "no"
      /\ fresh.depends_on = <<>> /\ fresh.schedule = <<>>
  BY DEF ServiceConfig, Keys
<1>2. CASE node.kind = "Scalar"
  <2>1. service = SetCommandArgs(fresh, node)
    BY <1>2 DEF ParseService
  <2>2. /\ Listed(node, "schedule") = <<>> /\ Listed(node, "depends_on") = <<>>
        /\ Given(node, "restart", "no") = "no"
    BY <1>2 DEF Given, Listed, Defined
  <2>3. ValidFields(node) <=> node.value \notin Unexpandable
    BY <1>2 DEF ValidFields
  <2> HIDE DEF fresh
  <2> QED
    BY <1>1, <1>2, <2>1, <2>2, <2>3 DEF SetCommandArgs, Throw, Keys, Describes
<1>3. CASE node.kind = "Map"
  <2> DEFINE commanded == ParseField(fresh, node, "command")
             dependent == ParseField(commanded, node, "depends_on")
             restarted == ParseField(dependent, node, "restart")
             scheduled == ParseField(restarted, node, "schedule")
             command   == Given(node, "command", NoCommand)
             listed    == Listed(node, "depends_on")
             restart   == Given(node, "restart", "no")
             texts     == Listed(node, "schedule")
  <2>1. service = scheduled
    BY <1>3 DEF ParseService
  <2>2. ValidFields(node) <=> \A field \in ServiceFields : FieldAllowed(node, field)
    BY <1>3 DEF ValidFields
  <2>3. \A s : s.error # "none" => \A field : ParseField(s, node, field) = s
    BY DEF ParseField
  <2>4. /\ commanded.error = "none" <=> FieldAllowed(node, "command")
        /\ DOMAIN commanded = Keys /\ commanded.name = name
        /\ commanded.error = "none" => commanded.command = command
        /\ commanded.depends_on = <<>> /\ commanded.restart = "no" /\ commanded.schedule = <<>>
    <3> HIDE DEF fresh
    <3> QED
      BY <1>1, FieldParsed DEF ServiceFields
  <2> HIDE DEF commanded, command, listed, restart, texts
  <2>5. commanded.error = "none" =>
          /\ dependent.error = "none" <=> FieldAllowed(node, "depends_on")
          /\ DOMAIN dependent = Keys /\ dependent.name = name /\ dependent.command = command
          /\ dependent.error = "none" => dependent.depends_on = listed
          /\ dependent.restart = "no" /\ dependent.schedule = <<>>
    BY <2>4, FieldParsed DEF ServiceFields, listed
  <2>6. commanded.error # "none" => dependent.error # "none"
    BY <2>3
  <2> HIDE DEF dependent
  <2>7. dependent.error = "none" =>
          /\ restarted.error = "none" <=> FieldAllowed(node, "restart")
          /\ DOMAIN restarted = Keys /\ restarted.name = name /\ restarted.command = command
          /\ restarted.error = "none" => restarted.restart = restart
          /\ restarted.depends_on = listed /\ restarted.schedule = <<>>
    BY <2>5, <2>6, FieldParsed DEF ServiceFields, restart
  <2>8. dependent.error # "none" => restarted.error # "none"
    BY <2>3
  <2> HIDE DEF restarted
  <2>9. restarted.error = "none" =>
          /\ scheduled.error = "none" <=> FieldAllowed(node, "schedule")
          /\ scheduled.name = name /\ scheduled.command = command /\ scheduled.restart = restart
          /\ NullSchedule(node) \/ scheduled.depends_on = listed
          /\ scheduled.error = "none" => scheduled.schedule = texts
    BY <2>7, <2>8, FieldParsed DEF ServiceFields, texts
  <2>10. restarted.error # "none" => scheduled.error # "none"
    BY <2>3
  <2> HIDE DEF scheduled
  <2>11. (\A field \in ServiceFields : FieldAllowed(node, field)) <=>
            /\ FieldAllowed(node, "command") /\ FieldAllowed(node, "depends_on")
            /\ FieldAllowed(node, "restart") /\ FieldAllowed(node, "schedule")
    BY DEF ServiceFields
  <2>12. service.error = "none" <=> ValidFields(node)
    BY <2>1, <2>2, <2>4, <2>5, <2>6, <2>7, <2>8, <2>9, <2>10, <2>11
  <2>13. service.error = "none" => Describes(name, node, service)
    BY <1>3, <2>1, <2>9, <2>10 DEF Describes, command, listed, restart, texts
  <2> QED
    BY <2>12, <2>13
<1>4. CASE node.kind \notin {"Scalar", "Map"}
  <2>1. service = Throw(fresh, "invalid_service")
    BY <1>4 DEF ParseService
  <2>2. ~ValidFields(node)
    BY <1>4 DEF ValidFields
  <2> HIDE DEF fresh
  <2> QED
    BY <1>1, <2>1, <2>2 DEF Throw, Keys
<1> QED
  BY <1>2, <1>3, <1>4

\* What a service lists under its schedule are texts, in a document.
LEMMA ListedTexts ==
    ASSUME NEW node, ServicesGiven(node), IsDocument(node),
           NEW i \in DOMAIN Get(node, "services").entries,
           ValidFields(Get(node, "services").entries[i][2])
    PROVE  Listed(Get(node, "services").entries[i][2], "schedule") \in Seq(Texts)
<1> DEFINE service == Get(node, "services").entries[i][2]
           value == Get(service, "schedule")
<1>1. Defined(service, "schedule") =>
         /\ ReadsText(value)
         /\ value.kind = "Sequence" =>
               /\ value.items \in Seq(ToSet(value.items))
               /\ \A j \in DOMAIN value.items : ReadsText(value.items[j])
  BY DEF IsDocument
<1>2. Defined(service, "schedule") => IsStrings(value)
  BY DEF ValidFields, FieldAllowed, ServiceFields, Defined
<1> DEFINE texts == Listed(service, "schedule")
<1> SUFFICES texts \in Seq(Texts)
  OBVIOUS
<1> HIDE DEF service, value
<1>0. <<>> \in Seq(Texts)
  OBVIOUS
<1>3. CASE ~Defined(service, "schedule")
  BY <1>0, <1>3 DEF Listed
<1>4. CASE Defined(service, "schedule") /\ value.kind = "Null"
  BY <1>0, <1>4 DEF Listed, Strings, value
<1>5. CASE Defined(service, "schedule") /\ value.kind = "Scalar"
  <2>1. texts = <<value.value>>
    BY <1>5 DEF Listed, Strings, value
  <2>2. value.value \in Texts
    BY <1>1, <1>5 DEF ReadsText
  <2> HIDE DEF texts
  <2> QED
    BY <2>1, <2>2
<1>6. CASE Defined(service, "schedule") /\ value.kind = "Sequence"
  <2>1. texts = [j \in DOMAIN value.items |-> value.items[j].value]
    BY <1>6 DEF Listed, Strings, value
  <2>2. \A j \in DOMAIN value.items : value.items[j].value \in Texts
    BY <1>1, <1>2, <1>6 DEF IsStrings, ReadsText
  <2>3. value.items \in Seq(ToSet(value.items))
    BY <1>1, <1>6
  <2>4. PICK n \in Nat : DOMAIN value.items = 1..n
    BY <2>3
  <2>5. [j \in DOMAIN value.items |-> value.items[j].value] \in [1..n -> Texts]
    BY <2>2, <2>4
  <2>6. [j \in DOMAIN value.items |-> value.items[j].value] \in Seq(Texts)
    BY <2>5
  <2> HIDE DEF texts
  <2> QED
    BY <2>1, <2>6
<1> QED
  BY <1>2, <1>3, <1>4, <1>5, <1>6 DEF IsStrings

-----------------------------------------------------------------------------
(* The invariant of a load                                                 *)

Parsable(entry) == entry[1].kind \in {"Null", "Scalar"} /\ ValidFields(entry[2])

NameAt(i) == ServiceName(Written[i][1])

\* What is loaded of an entry.
LoadedFrom(node, service) ==
    /\ service.command = IF node.kind = "Scalar" THEN node.value ELSE Given(node, "command", NoCommand)
    /\ service.restart = Given(node, "restart", "no")
    /\ NullSchedule(node) \/ service.depends_on = Listed(node, "depends_on")
    /\ service.on_boot <=>
          \/ Listed(node, "schedule") = <<>>
          \/ \E i \in DOMAIN Listed(node, "schedule") : Listed(node, "schedule")[i].shortcut = "reboot"

\* The services are those of the names of the first k entries, each as the first entry
\* of its name has it.
Added(k) ==
    /\ DOMAIN services = {NameAt(i) : i \in 1 .. k}
    /\ \A name \in DOMAIN services : \E i \in 1 .. k :
          /\ NameAt(i) = name
          /\ \A j \in 1 .. i - 1 : NameAt(j) # name
          /\ LoadedFrom(Written[i][2], services[name])

\* The first n services of the file are parsed and the first k of these are added.
Progress(n, k) ==
    /\ n \in Nat /\ k \in Nat /\ k <= n /\ n <= Len(Written)
    /\ Len(entries) = Len(Written) - n
    /\ \A i \in 1 .. Len(entries) : entries[i] = Written[n + i]
    /\ Len(configs) = n - k
    /\ \A i \in 1 .. Len(configs) : Describes(NameAt(k + i), Written[k + i][2], configs[i])
    /\ \A i \in 1 .. n : Parsable(Written[i])
    /\ \A i \in 1 .. k : ValidTexts(Written[i][2])
    /\ Added(k)

\* Where a load from a file stands.
FileRead ==
    FromFile =>
    /\ IsDocument(document)
    /\ stage = "loading" =>
          /\ ServicesGiven(document)
          /\ \E n, k : Progress(n, k)
    /\ stage = "failed" =>
          ~ServicesGiven(document) \/ \E i \in DOMAIN Written : ~ValidEntry(Written[i])

\* The service that is constructed is the first of those parsed, and all are parsed.
Stages ==
    /\ \A name \in DOMAIN files : IsDocument(files[name])
    /\ stage \in {"closed", "open"} =>
          /\ entries = <<>> /\ configs = <<>> /\ services = <<>> /\ ~adding
    /\ stage = "closed" => document = Unread
    /\ entries # <<>> => services = <<>> /\ ~adding /\ FromFile
    /\ IsSequence(entries) /\ IsSequence(configs)
    /\ \A i \in 1 .. Len(configs) : configs[i].schedule \in Seq(Texts)
    /\ adding => configs # <<>> /\ schedules = Head(configs).schedule
    /\ adding /\ error = "none" => stage = "loading"

LoadInv == FileRead /\ TextsRead /\ Stages

\* What belongs to the service that is constructed stays while nothing is constructed.
LEMMA TextsKept == TextsRead /\ UNCHANGED building => TextsRead'
  BY TextsStep

\* So does what belongs to the file while nothing is parsed or added.
LEMMA FileKept ==
    FileRead /\ UNCHANGED <<document, stage, entries, configs, services>> => FileRead'
<1> SUFFICES ASSUME FileRead, UNCHANGED <<document, stage, entries, configs, services>>
             PROVE  FileRead'
  OBVIOUS
<1>1. Written' = Written /\ (\A i : NameAt(i)' = NameAt(i))
  BY DEF Written, NameAt
<1>2. ASSUME NEW k, Added(k) PROVE Added(k)'
  BY <1>1, <1>2 DEF Added
<1>3. ASSUME NEW n, NEW k, Progress(n, k) PROVE Progress(n, k)'
  BY <1>1, <1>2, <1>3 DEF Progress
<1> QED
  BY <1>1, <1>3 DEF FileRead, FromFile

\* Nothing is read, parsed or added at first.
LEMMA LoadInit == Init => LoadInv
<1> SUFFICES ASSUME Init PROVE LoadInv
  OBVIOUS
<1>1. /\ document = Unread /\ stage = "closed" /\ entries = <<>> /\ configs = <<>>
      /\ services = <<>> /\ ~adding /\ schedules = <<>> /\ todo = <<>> /\ error = "none"
      /\ expressions = <<>> /\ on_boot = TRUE
  BY DEF Init
<1>2. \A name \in DOMAIN files : IsDocument(files[name])
  BY DocumentsAssumption DEF Init
<1>3. FileRead
  BY <1>1 DEF FileRead, FromFile
<1>4. TextsRead
  <2>1. schedules \in Seq(Texts)
    BY <1>1
  <2>2. on_boot = (schedules = <<>>)
    BY <1>1, Zenon
  <2> QED
    BY <1>1, <2>1, <2>2, TextsUnread, Zenon
<1>5. Stages
  BY <1>1, <1>2, EmptySequence DEF Stages
<1> QED
  BY <1>3, <1>4, <1>5 DEF LoadInv

\* The steps before the services are parsed.
LEMMA LoadReading ==
    LoadInv /\ (ReadOptions \/ UNCHANGED vars \/ FromOptions \/ ParseDocument) => LoadInv'
<1> SUFFICES ASSUME LoadInv, ReadOptions \/ UNCHANGED vars \/ FromOptions \/ ParseDocument
             PROVE  LoadInv'
  OBVIOUS
<1>1. UNCHANGED building
  BY DEF ReadOptions, vars, FromOptions, ParseDocument
<1>2. TextsRead'
  BY <1>1, TextsKept DEF LoadInv
<1>3. CASE ReadOptions \/ UNCHANGED vars
  <2>1. UNCHANGED loading
    BY <1>3 DEF ReadOptions, vars
  <2>2. FileRead'
    BY <2>1, FileKept DEF LoadInv, loading
  <2>3. Stages'
    BY <1>1, <2>1 DEF LoadInv, Stages, loading, building, FromFile
  <2> QED
    BY <1>2, <2>2, <2>3 DEF LoadInv
<1>4. CASE FromOptions
  <2>1. /\ stage = "closed" /\ UNCHANGED <<files, entries, adding, services>>
        /\ stage' \in {"loading", "open", "failed"}
        /\ stage' \in {"loading", "failed"} => document' = document
        /\ stage' # "loading" => configs' = configs
        /\ stage' = "open" => document' = files[options.configFile] /\ options.configFile \in DOMAIN files
    BY <1>4 DEF FromOptions, Fail
  <2>2. entries = <<>> /\ configs = <<>> /\ services = <<>> /\ ~adding /\ document = Unread
    BY <2>1 DEF LoadInv, Stages
  <2>3. FileRead'
    BY <2>1, <2>2 DEF LoadInv, Stages, FileRead, FromFile
  <2>4. IsSequence(configs') /\ \A i \in 1 .. Len(configs') : configs'[i].schedule \in Seq(Texts)
    <3>1. CASE stage' # "loading"
      BY <2>1, <2>2, <3>1, EmptySequence
    <3>2. CASE stage' = "loading"
      <4> DEFINE service == [ServiceConfig(options.serviceName) EXCEPT !.command = options.command]
      <4>1. configs' = <<service>>
        BY <1>4, <3>2 DEF FromOptions, Fail
      <4>2. service.schedule = <<>> /\ <<>> \in Seq(Texts)
        BY DEF ServiceConfig
      <4> HIDE DEF service
      <4>3. <<service>> \in Seq({service}) /\ Len(<<service>>) = 1 /\ <<service>>[1] = service
        OBVIOUS
      <4>4. IsSequence(configs')
        BY <4>1, <4>3 DEF IsSequence
      <4>5. \A i \in 1 .. Len(configs') : configs'[i] = service
        <5>1. \A i \in 1 .. 1 : i = 1
          OBVIOUS
        <5> QED
          BY <4>1, <4>3, <5>1
      <4> QED
        BY <4>2, <4>4, <4>5
    <3> QED
      BY <3>1, <3>2
  <2>5. Stages'
    BY <2>1, <2>2, <2>4 DEF LoadInv, Stages
  <2> QED
    BY <1>2, <2>3, <2>5 DEF LoadInv
<1>5. CASE ParseDocument
  <2>1. /\ stage = "open" /\ UNCHANGED <<files, document, configs, adding, services>>
        /\ IF ServicesGiven(document)
           THEN stage' = "loading" /\ entries' = Written
           ELSE stage' = "failed" /\ entries' = entries
    BY <1>5 DEF ParseDocument, Fail, Written
  <2>2. entries = <<>> /\ configs = <<>> /\ services = <<>> /\ ~adding
    BY <2>1 DEF LoadInv, Stages
  <2>3. FromFile /\ ServicesGiven(document) => Written \in Seq(ToSet(Written))
    BY DEF LoadInv, FileRead, IsDocument, Written
  <2>4. CASE ~ServicesGiven(document)
    <3>1. FileRead'
      BY <2>1, <2>4 DEF LoadInv, FileRead, FromFile
    <3>2. Stages'
      BY <2>1, <2>2, <2>4 DEF LoadInv, Stages
    <3> QED
      BY <1>2, <3>1, <3>2 DEF LoadInv
  <2>5. CASE ServicesGiven(document)
    <3>1. FromFile
      BY <2>5 DEF FromFile, Unread, ServicesGiven, Defined
    <3>2. /\ stage' = "loading" /\ entries' = Written /\ IsSequence(Written)
          /\ Written' = Written /\ Len(Written) \in Nat
      BY <2>1, <2>3, <2>5, <3>1 DEF IsSequence, Written
    <3>3. Progress(0, 0)'
      <4>1. Added(0)'
        <5>1. DOMAIN services' = {}
          BY <2>1, <2>2
        <5> QED
          BY <5>1 DEF Added
      <4> QED
        BY <2>1, <2>2, <3>2, <4>1, EmptySequence DEF Progress
    <3>4. FileRead'
      BY <2>1, <2>5, <3>2, <3>3 DEF LoadInv, FileRead, FromFile
    <3>5. Stages'
      <4>1. FromFile'
        BY <2>1, <3>1 DEF FromFile
      <4> QED
        BY <2>1, <2>2, <3>2, <4>1 DEF LoadInv, Stages
    <3> QED
      BY <1>2, <3>4, <3>5 DEF LoadInv
  <2> QED
    BY <2>4, <2>5
<1> QED
  BY <1>3, <1>4, <1>5

\* In a load from a file, the services are a sequence of entries.
LEMMA WrittenEntries ==
    ASSUME FileRead, FromFile, stage = "loading"
    PROVE  /\ ServicesGiven(document) /\ IsDocument(document)
           /\ Len(Written) \in Nat /\ DOMAIN Written = 1 .. Len(Written)
<1>1. ServicesGiven(document) /\ IsDocument(document)
  BY DEF FileRead
<1>2. Written \in Seq(ToSet(Written))
  BY <1>1 DEF IsDocument, Written
<1> QED
  BY <1>1, <1>2

\* One more entry is parsed, or it is invalid and the load fails.
LEMMA LoadParsing == LoadInv /\ ParseServices => LoadInv'
<1> SUFFICES ASSUME LoadInv, ParseServices PROVE LoadInv'
  OBVIOUS
<1> DEFINE entry == Head(entries)
           name == ServiceName(entry[1])
           service == ParseService(name, entry[2])
<1>1. /\ stage = "loading" /\ entries # <<>>
      /\ UNCHANGED <<files, document, adding, services, building>>
      /\ IF service.error = "none" /\ entry[1].kind \in {"Null", "Scalar"}
         THEN entries' = Tail(entries) /\ configs' = Append(configs, service) /\ stage' = stage
         ELSE stage' = "failed" /\ entries' = entries /\ configs' = configs
  BY DEF ParseServices, Fail
<1>2. /\ service.error = "none" <=> ValidFields(entry[2])
      /\ service.error = "none" => Describes(name, entry[2], service)
  BY ServiceParsed
<1> HIDE DEF service
<1>3. TextsRead'
  BY <1>1, TextsKept DEF LoadInv
<1>4. Written' = Written /\ (\A i : NameAt(i)' = NameAt(i)) /\ (\A k : Added(k) => Added(k)')
  BY <1>1 DEF Written, NameAt, Added
<1>5. /\ ~adding /\ services = <<>>
      /\ IsSequence(Tail(entries)) /\ Len(Tail(entries)) = Len(entries) - 1
      /\ Len(entries) \in Nat \ {0} /\ entry = entries[1]
      /\ \A i \in 1 .. Len(entries) - 1 : Tail(entries)[i] = entries[i + 1]
  BY <1>1, TailOf DEF LoadInv, Stages
<1>6. CASE service.error = "none" /\ entry[1].kind \in {"Null", "Scalar"}
  <2>1. entries' = Tail(entries) /\ configs' = Append(configs, service) /\ stage' = stage
    BY <1>1, <1>6
  <2>2. Parsable(entry) /\ Describes(name, entry[2], service)
    BY <1>2, <1>6 DEF Parsable
  <2>3. /\ IsSequence(configs') /\ Len(configs') = Len(configs) + 1 /\ Len(configs) \in Nat
        /\ \A i \in 1 .. Len(configs) : configs'[i] = configs[i]
        /\ configs'[Len(configs) + 1] = service
    BY <2>1, AppendOf DEF LoadInv, Stages
  <2> HIDE DEF entry
  <2>4. FromFile => (\E n, k : Progress(n, k))' /\ service.schedule \in Seq(Texts)
    <3> SUFFICES ASSUME FromFile PROVE (\E n, k : Progress(n, k))' /\ service.schedule \in Seq(Texts)
      OBVIOUS
    <3>1. PICK n, k : Progress(n, k)
      BY <1>1 DEF LoadInv, FileRead
    <3>2. /\ ServicesGiven(document) /\ IsDocument(document)
          /\ Len(Written) \in Nat /\ DOMAIN Written = 1 .. Len(Written)
      BY <1>1, WrittenEntries DEF LoadInv
    <3>3. /\ n \in Nat /\ k \in Nat /\ k <= n /\ n + 1 <= Len(Written)
          /\ entry = Written[n + 1] /\ Len(configs) = n - k
      BY <1>5, <3>1, <3>2 DEF Progress
    <3>4. service.schedule \in Seq(Texts)
      <4>1. n + 1 \in DOMAIN Get(document, "services").entries
        BY <3>2, <3>3 DEF Written
      <4>2. ValidFields(Get(document, "services").entries[n + 1][2])
        BY <2>2, <3>3 DEF Parsable, Written
      <4>3. Listed(Get(document, "services").entries[n + 1][2], "schedule") \in Seq(Texts)
        BY <3>2, <4>1, <4>2, ListedTexts
      <4> QED
        BY <2>2, <3>3, <4>3 DEF Written, Describes
    <3>5. /\ Len(entries') = Len(Written) - (n + 1)
          /\ \A i \in 1 .. Len(entries') : entries'[i] = Written[n + 1 + i]
      BY <1>5, <2>1, <3>1, <3>2, <3>3 DEF Progress
    <3>6. /\ Len(configs') = n + 1 - k
          /\ \A i \in 1 .. Len(configs') : Describes(NameAt(k + i), Written[k + i][2], configs'[i])
      <4>1. \A i \in 1 .. n - k : Describes(NameAt(k + i), Written[k + i][2], configs'[i])
        BY <2>3, <3>1, <3>3 DEF Progress
      <4>2. k + (n - k + 1) = n + 1 /\ configs'[n - k + 1] = service
        BY <2>3, <3>3
      <4>3. Describes(NameAt(n + 1), Written[n + 1][2], service)
        BY <2>2, <3>3 DEF NameAt
      <4>4. Len(configs') = n + 1 - k
        BY <2>3, <3>3
      <4>5. \A i \in 1 .. n + 1 - k : i \in 1 .. n - k \/ i = n - k + 1
        BY <3>3
      <4> QED
        BY <4>1, <4>2, <4>3, <4>4, <4>5
    <3>7. \A i \in 1 .. n + 1 : Parsable(Written[i])
      <4>1. \A i \in 1 .. n + 1 : i \in 1 .. n \/ i = n + 1
        BY <3>3
      <4>2. \A i \in 1 .. n : Parsable(Written[i])
        BY <3>1 DEF Progress
      <4>3. Parsable(Written[n + 1])
        BY <2>2, <3>3
      <4> QED
        BY <4>1, <4>2, <4>3
    <3>8. (\A i \in 1 .. k : ValidTexts(Written[i][2])) /\ Added(k)
      BY <3>1 DEF Progress
    <3>9. Progress(n + 1, k)'
      BY <1>4, <3>3, <3>5, <3>6, <3>7, <3>8 DEF Progress
    <3> QED
      BY <3>4, <3>9
  <2>5. FileRead'
    BY <1>1, <2>1, <2>4 DEF LoadInv, FileRead, FromFile
  <2>6. FromFile
    BY <1>1 DEF LoadInv, Stages
  <2>7. Stages'
    BY <1>1, <1>5, <2>1, <2>3, <2>4, <2>6 DEF LoadInv, Stages, FromFile
  <2> QED
    BY <1>3, <2>5, <2>7 DEF LoadInv
<1>7. CASE ~(service.error = "none" /\ entry[1].kind \in {"Null", "Scalar"})
  <2>1. stage' = "failed" /\ UNCHANGED <<entries, configs>>
    BY <1>1, <1>7
  <2>2. FromFile => \E i \in DOMAIN Written : ~ValidEntry(Written[i])
    <3> SUFFICES ASSUME FromFile PROVE \E i \in DOMAIN Written : ~ValidEntry(Written[i])
      OBVIOUS
    <3>1. PICK n, k : Progress(n, k)
      BY <1>1 DEF LoadInv, FileRead
    <3>2. Len(Written) \in Nat /\ DOMAIN Written = 1 .. Len(Written)
      BY <1>1, WrittenEntries DEF LoadInv
    <3> HIDE DEF entry
    <3>3. n + 1 \in DOMAIN Written /\ entry = Written[n + 1]
      BY <1>5, <3>1, <3>2 DEF Progress
    <3>4. ~ValidEntry(entry)
      BY <1>2, <1>7 DEF ValidEntry, ValidService
    <3> QED
      BY <3>3, <3>4
  <2>3. FileRead'
    BY <1>1, <1>4, <2>1, <2>2 DEF LoadInv, FileRead, FromFile
  <2>4. Stages'
    BY <1>1, <1>5, <2>1 DEF LoadInv, Stages, FromFile
  <2> QED
    BY <1>3, <2>3, <2>4 DEF LoadInv
<1> QED
  BY <1>6, <1>7

\* The constructor begins with all texts of the first service still to be read.
LEMMA LoadAdding == LoadInv /\ AddService => LoadInv'
<1> SUFFICES ASSUME LoadInv, AddService PROVE LoadInv'
  OBVIOUS
<1>1. /\ stage = "loading" /\ configs # <<>> /\ entries = <<>> /\ adding'
      /\ schedules' = Head(configs).schedule /\ todo' = schedules' /\ error' = "none"
      /\ on_boot' = (schedules' = <<>>) /\ expressions' = <<>>
      /\ UNCHANGED <<files, document, stage, entries, configs, services>>
  BY DEF AddService
<1>2. Head(configs) = configs[1] /\ Len(configs) \in Nat \ {0}
  BY <1>1, TailOf DEF LoadInv, Stages
<1>3. schedules' \in Seq(Texts)
  BY <1>1, <1>2 DEF LoadInv, Stages
<1>4. TextsRead'
  <2>1. (/\ schedules \in Seq(Texts) /\ todo = schedules /\ expressions = <<>>
         /\ on_boot = (schedules = <<>>) /\ error = "none")'
    BY <1>1, <1>3
  <2> QED
    BY <2>1, TextsUnread, PTL
<1>5. FileRead'
  BY <1>1, FileKept DEF LoadInv
<1>6. Stages'
  BY <1>1 DEF LoadInv, Stages, FromFile
<1> QED
  BY <1>4, <1>5, <1>6 DEF LoadInv

\* It reads one more text, or throws for it.
LEMMA LoadConstructing == LoadInv /\ Construct => LoadInv'
<1> SUFFICES ASSUME LoadInv, Construct PROVE LoadInv'
  OBVIOUS
<1>1. ConstructorNext /\ UNCHANGED loading /\ UNCHANGED schedules /\ adding /\ error = "none"
  BY DEF Construct, ConstructorNext, ParseFails, AddReboot, AddExpression, Constructing
<1>2. TextsRead'
  BY <1>1, TextsStep DEF LoadInv
<1>3. FileRead'
  BY <1>1, FileKept DEF LoadInv, loading
<1>4. Stages'
  BY <1>1 DEF LoadInv, Stages, FromFile, loading
<1> QED
  BY <1>2, <1>3, <1>4 DEF LoadInv

\* All texts of the first service were read, so one more entry is added, unless its name
\* is taken.
LEMMA LoadAdded == LoadInv /\ InsertService => LoadInv'
<1> SUFFICES ASSUME LoadInv, InsertService PROVE LoadInv'
  OBVIOUS
<1> DEFINE config == configs[1]
<1>1. /\ adding /\ todo = <<>> /\ error = "none" /\ configs' = Tail(configs) /\ ~adding'
      /\ UNCHANGED <<files, document, stage, entries, building>>
  BY DEF InsertService
<1>2. /\ entries = <<>> /\ configs # <<>> /\ stage = "loading"
      /\ Head(configs) = config /\ schedules = config.schedule
      /\ IsSequence(configs') /\ Len(configs') = Len(configs) - 1 /\ Len(configs) \in Nat \ {0}
      /\ \A i \in 1 .. Len(configs) - 1 : configs'[i] = configs[i + 1]
  BY <1>1, TailOf DEF LoadInv, Stages
<1>3. TextsRead'
  BY <1>1, TextsKept DEF LoadInv
<1>4. Stages'
  BY <1>1, <1>2 DEF LoadInv, Stages
<1>5. services' = [name \in DOMAIN services \cup {config.name} |->
                      IF name \in DOMAIN services THEN services[name] ELSE Built]
  BY <1>2 DEF InsertService
<1>6. /\ Built.command = config.command /\ Built.depends_on = config.depends_on
      /\ Built.restart = config.restart /\ Built.on_boot = on_boot
  BY <1>2 DEF Built
<1>7. /\ schedules \in Seq(Texts) /\ DOMAIN schedules = 1 .. Len(schedules)
      /\ \A i \in DOMAIN schedules : Read(i).error = "none"
      /\ on_boot <=> schedules = <<>> \/ \E i \in DOMAIN schedules : schedules[i].shortcut = "reboot"
  <2>1. schedules \in Seq(Texts) /\ DOMAIN schedules = 1 .. Len(schedules)
        /\ Len(schedules) \in Nat /\ \A i \in DOMAIN schedules : schedules[i] \in Texts
    BY DEF LoadInv, TextsRead
  <2>2. Behind = DOMAIN schedules
    BY <1>1, <2>1, EmptySequence DEF Behind
  <2>3. \A i \in DOMAIN schedules : Read(i).error = "none"
    BY <2>2 DEF LoadInv, TextsRead
  <2>4. \A i \in DOMAIN schedules :
           cron_expr_match_reboot(Read(i).entry) <=> schedules[i].shortcut = "reboot"
    BY <2>1, <2>3, RebootText DEF Read
  <2> QED
    BY <2>1, <2>2, <2>3, <2>4 DEF LoadInv, TextsRead
<1> HIDE DEF config
<1>8. ASSUME FromFile PROVE (\E n, k : Progress(n, k))'
  <2>1. PICK n, k : Progress(n, k)
    BY <1>2, <1>8 DEF LoadInv, FileRead
  <2>2. n \in Nat /\ k \in Nat /\ k + 1 <= n /\ Len(configs) = n - k
    BY <1>2, <2>1 DEF Progress
  <2> DEFINE node == Written[k + 1][2]
  <2>3. Describes(NameAt(k + 1), node, config)
    BY <1>2, <2>1 DEF Progress, config
  <2>4. schedules = Listed(node, "schedule")
    BY <1>2, <2>3 DEF Describes
  <2>5. ValidTexts(node)
    <3>1. \A i \in DOMAIN schedules : schedules[i] \in Texts /\ load_entry(schedules[i]).error = "none"
      BY <1>7 DEF Read
    <3> HIDE DEF node
    <3>2. \A i \in DOMAIN schedules : WellFormed(schedules[i]) \/ Overlooked(schedules[i])
      BY <3>1, TextAccepted
    <3> QED
      BY <2>4, <3>2 DEF ValidTexts
  <2>6. \A i : i \in 1 .. k + 1 <=> i \in 1 .. k \/ i = k + 1
    BY <2>2
  <2>7. \A i \in 1 .. k + 1 : ValidTexts(Written[i][2])
    BY <2>1, <2>5, <2>6 DEF Progress
  <2>8. \A i \in 1 .. Len(configs') :
            Describes(NameAt(k + 1 + i), Written[k + 1 + i][2], configs'[i])
    <3> SUFFICES ASSUME NEW i \in 1 .. Len(configs')
                 PROVE  Describes(NameAt(k + 1 + i), Written[k + 1 + i][2], configs'[i])
      OBVIOUS
    <3>1. i \in 1 .. Len(configs) - 1 /\ i + 1 \in 1 .. Len(configs) /\ k + (i + 1) = k + 1 + i
      BY <1>2, <2>2
    <3>2. configs'[i] = configs[i + 1]
      BY <1>2, <3>1
    <3>3. Describes(NameAt(k + (i + 1)), Written[k + (i + 1)][2], configs[i + 1])
      BY <2>1, <3>1 DEF Progress
    <3> QED
      BY <3>1, <3>2, <3>3
  <2>9. LoadedFrom(node, Built)
    <3>1. on_boot <=> \/ Listed(node, "schedule") = <<>>
                      \/ \E i \in DOMAIN Listed(node, "schedule") :
                            Listed(node, "schedule")[i].shortcut = "reboot"
      BY <1>7, <2>4
    <3> HIDE DEF node
    <3> QED
      BY <1>6, <2>3, <3>1 DEF LoadedFrom, Describes
  <2>10. Added(k + 1)'
    <3> DEFINE new == NameAt(k + 1)
    <3>1. config.name = new
      BY <2>3 DEF Describes
    <3>2. /\ DOMAIN services = {NameAt(i) : i \in 1 .. k}
          /\ \A name \in DOMAIN services : \E i \in 1 .. k :
                /\ NameAt(i) = name
                /\ \A j \in 1 .. i - 1 : NameAt(j) # name
                /\ LoadedFrom(Written[i][2], services[name])
      BY <2>1 DEF Progress, Added
    <3>3. Written' = Written /\ \A i : NameAt(i)' = NameAt(i)
      BY <1>1 DEF Written, NameAt
    <3>4. DOMAIN services' = {NameAt(i) : i \in 1 .. k + 1}
      BY <1>5, <2>6, <3>1, <3>2
    <3>5. ASSUME NEW name \in DOMAIN services'
          PROVE  \E i \in 1 .. k + 1 :
                    /\ NameAt(i) = name
                    /\ \A j \in 1 .. i - 1 : NameAt(j) # name
                    /\ LoadedFrom(Written[i][2], services'[name])
      <4>1. CASE name \in DOMAIN services
        <5>1. services'[name] = services[name]
          BY <1>5, <4>1
        <5>2. PICK i \in 1 .. k : /\ NameAt(i) = name
                                  /\ \A j \in 1 .. i - 1 : NameAt(j) # name
                                  /\ LoadedFrom(Written[i][2], services[name])
          BY <3>2, <4>1
        <5> QED
          BY <2>6, <5>1, <5>2
      <4>2. CASE name \notin DOMAIN services
        <5>1. services'[name] = Built /\ name = new
          BY <1>5, <3>1, <4>2
        <5>2. \A j \in 1 .. k : NameAt(j) # name
          BY <3>2, <4>2
        <5>3. 1 .. (k + 1) - 1 = 1 .. k
          BY <2>2
        <5> QED
          BY <2>6, <2>9, <5>1, <5>2, <5>3
      <4> QED
        BY <4>1, <4>2
    <3> QED
      BY <3>3, <3>4, <3>5 DEF Added
  <2>11. Written' = Written /\ \A i : NameAt(i)' = NameAt(i)
    BY <1>1 DEF Written, NameAt
  <2>12. Len(configs') = n - (k + 1) /\ k + 1 \in Nat
    BY <1>2, <2>2
  <2> HIDE DEF node
  <2>13. Progress(n, k + 1)'
    BY <1>1, <2>1, <2>2, <2>7, <2>8, <2>10, <2>11, <2>12 DEF Progress
  <2> QED
    BY <2>13
<1>9. FileRead'
  BY <1>1, <1>2, <1>8 DEF LoadInv, FileRead, FromFile
<1> QED
  BY <1>3, <1>4, <1>9 DEF LoadInv

\* An entry of the file has the text the constructor throws for.
LEMMA LoadThrown == LoadInv /\ ConstructorThrows => LoadInv'
<1> SUFFICES ASSUME LoadInv, ConstructorThrows PROVE LoadInv'
  OBVIOUS
<1>1. /\ stage = "loading" /\ adding /\ error # "none" /\ stage' = "failed"
      /\ UNCHANGED <<files, document, entries, configs, adding, services, building>>
  BY DEF ConstructorThrows, Fail
<1>2. TextsRead'
  BY <1>1, TextsKept DEF LoadInv
<1>3. Stages'
  BY <1>1 DEF LoadInv, Stages, FromFile, building
<1>4. ASSUME FromFile PROVE \E i \in DOMAIN Written : ~ValidEntry(Written[i])
  <2>1. PICK n, k : Progress(n, k)
    BY <1>1, <1>4 DEF LoadInv, FileRead
  <2>2. Len(Written) \in Nat /\ DOMAIN Written = 1 .. Len(Written)
    BY <1>1, <1>4, WrittenEntries DEF LoadInv
  <2>3. Len(configs) \in Nat \ {0} /\ schedules = configs[1].schedule
    BY <1>1, TailOf DEF LoadInv, Stages
  <2>4. k + 1 \in DOMAIN Written /\ 1 \in 1 .. Len(configs)
    BY <2>1, <2>2, <2>3 DEF Progress
  <2>5. schedules = Listed(Written[k + 1][2], "schedule")
    BY <2>1, <2>3, <2>4 DEF Progress, Describes
  <2>6. \E i \in DOMAIN schedules : load_entry(schedules[i]).error # "none"
    <3>1. DOMAIN schedules = 1 .. Len(schedules)
      BY DEF LoadInv, TextsRead
    <3> QED
      BY <1>1, <3>1 DEF LoadInv, TextsRead, Read
  <2>7. ~ValidTexts(Written[k + 1][2])
    <3>1. \A i \in DOMAIN schedules : schedules[i] \in Texts
      BY DEF LoadInv, TextsRead
    <3>2. \E i \in DOMAIN schedules : ~WellFormed(schedules[i]) /\ ~Overlooked(schedules[i])
      BY <2>6, <3>1, TextAccepted
    <3> QED
      BY <2>5, <3>2 DEF ValidTexts
  <2> QED
    BY <2>4, <2>7 DEF ValidEntry, ValidService
<1>5. FileRead'
  BY <1>1, <1>4 DEF LoadInv, FileRead, FromFile, Written
<1> QED
  BY <1>2, <1>3, <1>5 DEF LoadInv

\* The invariant of a load.
LEMMA LoadProceeds == Spec => []LoadInv
<1>1. LoadInv /\ [Next]_vars => LoadInv'
  BY LoadReading, LoadParsing, LoadAdding, LoadConstructing, LoadAdded, LoadThrown DEF Next
<1> QED
  BY <1>1, LoadInit, PTL DEF Spec

-----------------------------------------------------------------------------
(* What is promised of a load                                              *)

\* When a file is loaded, all its entries were parsed and added.
LEMMA AllAdded ==
    ASSUME LoadInv, Loaded, FromFile
    PROVE  /\ ServicesGiven(document)
           /\ Len(Written) \in Nat /\ DOMAIN Written = 1 .. Len(Written)
           /\ Progress(Len(Written), Len(Written))
<1>1. stage = "loading" /\ entries = <<>> /\ configs = <<>>
  BY DEF Loaded
<1>2. PICK n, k : Progress(n, k)
  BY <1>1 DEF LoadInv, FileRead
<1>3. /\ ServicesGiven(document)
      /\ Len(Written) \in Nat /\ DOMAIN Written = 1 .. Len(Written)
  BY <1>1, WrittenEntries DEF LoadInv
<1>4. n = Len(Written) /\ k = n
  BY <1>1, <1>2, <1>3, EmptySequence DEF Progress
<1> QED
  BY <1>2, <1>3, <1>4

\* Whatever the file says, it is refused if and only if it has no services or
\* one of its entries is invalid, and no service is added before all are parsed.
THEOREM FilesRefused == Spec => []RefusedIfInvalid
<1>1. LoadInv => RefusedIfInvalid
  <2> SUFFICES ASSUME LoadInv, FromFile PROVE RefusedIfInvalid
    BY DEF RefusedIfInvalid
  <2>1. ASSUME Loaded, NEW i \in DOMAIN Written PROVE ValidEntry(Written[i])
    <3>1. Parsable(Written[i]) /\ ValidTexts(Written[i][2])
      BY <2>1, AllAdded DEF Progress
    <3> QED
      BY <3>1 DEF Parsable, ValidEntry, ValidService
  <2>2. entries # <<>> => services = <<>>
    BY DEF LoadInv, Stages
  <2>3. stage = "failed" => ~ServicesGiven(document) \/ \E i \in DOMAIN Written : ~ValidEntry(Written[i])
    BY DEF LoadInv, FileRead
  <2> QED
    BY <2>1, <2>2, <2>3 DEF RefusedIfInvalid
<1> QED
  BY <1>1, LoadProceeds, PTL

\* The first entry of a name is the one that is looked for.
LEMMA FirstOfName ==
    ASSUME NEW name, Len(Written) \in Nat, NEW i \in 1 .. Len(Written), NameAt(i) = name,
           \A j \in 1 .. i - 1 : NameAt(j) # name
    PROVE  WrittenFor(name) = Written[i][2]
<1> DEFINE I == {j \in 1 .. Len(Written) : NameAt(j) = name}
<1>1. WrittenFor(name) = Written[IF I # {} THEN CHOOSE x \in I : \A y \in I : x <= y ELSE 0][2]
  BY DEF WrittenFor, SelectInSeq, Min, NameAt
<1>2. i \in I /\ \A y \in I : i <= y
  OBVIOUS
<1>3. \A x \in I : (\A y \in I : x <= y) => x = i
  BY <1>2
<1>4. (CHOOSE x \in I : \A y \in I : x <= y) = i
  BY <1>2, <1>3
<1> QED
  BY <1>1, <1>2, <1>4

\* Whatever a valid file says, the services loaded are those of its names, each as the
\* first entry of its name has it: command, policy, dependencies and start at boot.
THEOREM ServicesAsWritten == Spec => []LoadedAsWritten
<1>1. LoadInv => LoadedAsWritten
  <2> SUFFICES ASSUME LoadInv, Loaded, FromFile PROVE LoadedAsWritten
    BY DEF LoadedAsWritten
  <2>1. Len(Written) \in Nat /\ DOMAIN Written = 1 .. Len(Written) /\ Added(Len(Written))
    BY AllAdded DEF Progress
  <2>2. DOMAIN services = {ServiceName(Written[i][1]) : i \in DOMAIN Written}
    BY <2>1 DEF Added, NameAt
  <2>3. ASSUME NEW name \in DOMAIN services PROVE LoadedFrom(WrittenFor(name), services[name])
    <3>1. PICK i \in 1 .. Len(Written) : /\ NameAt(i) = name
                                         /\ \A j \in 1 .. i - 1 : NameAt(j) # name
                                         /\ LoadedFrom(Written[i][2], services[name])
      BY <2>1 DEF Added
    <3>2. WrittenFor(name) = Written[i][2]
      BY <2>1, <3>1, FirstOfName
    <3> QED
      BY <3>1, <3>2
  <2> QED
    BY <2>2, <2>3 DEF LoadedAsWritten, LoadedFrom
<1> QED
  BY <1>1, LoadProceeds, PTL

\* Every service that is loaded is started at boot or waits for an expression.
THEOREM EveryServiceStarts == Spec => []StartedSomehow
<1>1. Init => StartedSomehow
  <2> SUFFICES ASSUME Init PROVE StartedSomehow
    OBVIOUS
  <2>1. DOMAIN services = {}
    BY DEF Init
  <2> QED
    BY <2>1 DEF StartedSomehow
<1>2. LoadInv /\ StartedSomehow /\ [Next]_vars => StartedSomehow'
  <2> SUFFICES ASSUME LoadInv, StartedSomehow, [Next]_vars PROVE StartedSomehow'
    OBVIOUS
  <2>1. CASE InsertService
    <3>1. /\ todo = <<>> /\ error = "none"
          /\ services' = [name \in DOMAIN services \cup {Head(configs).name} |->
                             IF name \in DOMAIN services THEN services[name] ELSE Built]
      BY <2>1 DEF InsertService
    <3>2. on_boot \/ expressions # <<>>
      <4> SUFFICES ASSUME ~on_boot PROVE expressions # <<>>
        OBVIOUS
      <4>1. schedules # <<>> /\ \A i \in Behind : ~cron_expr_match_reboot(Read(i).entry)
        BY DEF LoadInv, TextsRead
      <4>2. 1 \in Behind
        <5>1. Len(schedules) \in Nat \ {0}
          BY <4>1 DEF LoadInv, TextsRead
        <5> QED
          BY <3>1, <5>1, EmptySequence DEF Behind
      <4>3. Read(1).entry \in Range(expressions)
        BY <4>1, <4>2 DEF LoadInv, TextsRead
      <4> QED
        BY <4>3 DEF Range
    <3>3. Built.on_boot = on_boot /\ Built.expressions = expressions
      BY DEF Built
    <3>4. ASSUME NEW name \in DOMAIN services'
          PROVE  services'[name].on_boot \/ services'[name].expressions # <<>>
      <4>1. CASE name \in DOMAIN services
        <5>1. services'[name] = services[name]
          BY <3>1, <4>1
        <5> QED
          BY <4>1, <5>1 DEF StartedSomehow
      <4>2. CASE name \notin DOMAIN services
        <5>1. services'[name] = Built
          BY <3>1, <4>2
        <5> QED
          BY <3>2, <3>3, <5>1
      <4> QED
        BY <4>1, <4>2
    <3> QED
      BY <3>4 DEF StartedSomehow
  <2>2. CASE ReadOptions \/ Construct \/ UNCHANGED vars
    <3>1. UNCHANGED services
      BY <2>2 DEF ReadOptions, Construct, vars, loading
    <3> QED
      BY <3>1 DEF StartedSomehow
  <2>3. CASE FromOptions \/ ParseDocument \/ ParseServices \/ AddService \/ ConstructorThrows
    <3>1. UNCHANGED services
      BY <2>3 DEF FromOptions, ParseDocument, ParseServices, AddService, ConstructorThrows
    <3> QED
      BY <3>1 DEF StartedSomehow
  <2> QED
    BY <2>1, <2>2, <2>3 DEF Next
<1> QED
  BY <1>1, <1>2, LoadProceeds, PTL DEF Spec

\* In a load of any number of services the constructor of each of their schedulers
\* throws if and only if one of its texts is neither a cron expression nor overlooked.
THEOREM SchedulesRefused == Spec => []RefusedUnlessOverlooked
<1>1. LoadInv => RefusedUnlessOverlooked
  BY TextsReadRight DEF LoadInv
<1> QED
  BY <1>1, LoadProceeds, PTL

\* In a load of any number of services each of them is scheduled for exactly the
\* minutes its cron expressions mean, shortcuts or fields.
THEOREM SchedulesFire == Spec => []FiresWhenMeant
<1>1. LoadInv => FiresWhenMeant
  BY TextsReadRight DEF LoadInv
<1> QED
  BY <1>1, LoadProceeds, PTL

-----------------------------------------------------------------------------
(* The command line                                                        *)

\* Of numbers there is a least.
LEMMA LeastNumber ==
    ASSUME NEW T \in SUBSET Nat, T # {}
    PROVE  \E n \in T : \A m \in T : n <= m
<1> DEFINE R == OpToRel(<, Nat)
<1>1. IsWellFoundedOn(R, Nat)
  BY NatLessThanWellFounded
<1>2. \A x, y \in Nat : <<x, y>> \in R <=> x < y
  BY DEF OpToRel
<1> HIDE DEF R
<1>3. PICK n \in T : \A y \in T : ~(<<y, n>> \in R)
  BY <1>1, WFMin
<1>4. ASSUME NEW m \in T PROVE n <= m
  <2>1. ~(<<m, n>> \in R) /\ m \in Nat /\ n \in Nat
    BY <1>3
  <2>2. ~(m < n)
    BY <1>2, <2>1, Zenon
  <2> QED
    BY <2>1, <2>2
<1> QED
  BY <1>4

\* The equals sign of an argument is where the first one is.
LEMMA EqualsIs ==
    ASSUME NEW S, NEW arg \in Seq(S), NEW n \in 1 .. (Len(arg) + 1),
           n = Len(arg) + 1 \/ arg[n] = "=", \A i \in 1 .. n - 1 : arg[i] # "="
    PROVE  Equals(arg) = n
<1> DEFINE T == {i \in 1 .. (Len(arg) + 1) : i = Len(arg) + 1 \/ arg[i] = "="}
<1>1. n \in T /\ \A i \in T : n <= i /\ i \in Int
  <2>1. ASSUME NEW i \in T PROVE n <= i /\ i \in Int
    <3>1. i \in 1 .. (Len(arg) + 1) /\ (i = Len(arg) + 1 \/ arg[i] = "=")
      OBVIOUS
    <3>2. CASE i < n
      <4>1. i \in 1 .. n - 1
        BY <3>1, <3>2
      <4>2. arg[i] # "="
        BY <4>1
      <4>3. i # Len(arg) + 1
        BY <3>1, <3>2
      <4> QED
        BY <3>1, <4>2, <4>3
    <3> QED
      BY <3>1, <3>2
  <2> QED
    BY <2>1
<1> HIDE DEF T
<1> DEFINE m == Min(T)
<1>2. m \in T /\ \A i \in T : m <= i
  BY <1>1 DEF Min
<1>3. n <= m /\ m <= n /\ m \in Int /\ n \in Int
  BY <1>1, <1>2
<1>4. m = n
  <2> HIDE DEF m
  <2> QED
    BY <1>3
<1> QED
  BY <1>4 DEF T, Equals

\* It is one of the places.
LEMMA EqualsSomewhere ==
    ASSUME NEW S, NEW arg \in Seq(S)
    PROVE  /\ Equals(arg) \in 1 .. (Len(arg) + 1)
           /\ Equals(arg) <= Len(arg) => arg[Equals(arg)] = "="
<1> DEFINE T == {i \in 1 .. (Len(arg) + 1) : i = Len(arg) + 1 \/ arg[i] = "="}
<1>1. T \in SUBSET Nat /\ Len(arg) + 1 \in T
  OBVIOUS
<1> HIDE DEF T
<1>2. \E n \in T : \A i \in T : n <= i
  BY <1>1, LeastNumber
<1>3. Min(T) \in T
  BY <1>2 DEF Min
<1> QED
  BY <1>3 DEF T, Equals

\* The table of options: letters tell them apart.
LEMMA OptionTable ==
    /\ DOMAIN Definitions = {"config", "help", "log", "logger", "name", "version"}
    /\ \A option \in DOMAIN Definitions :
          /\ Definitions[option].takes \in {"NONE", "OPTIONAL", "REQUIRED"}
          /\ Definitions[option].takes = "NONE" <=> option \in {"help", "version"}
          /\ Definitions[option].takes = "OPTIONAL" <=> option = "config"
          /\ Definitions[option].mode \in
                {"Undefined", "Help", "Version", "SingleService", "MultiServices"}
          /\ option # "="
    /\ \A option1, option2 \in DOMAIN Definitions :
          Definitions[option1].letter = Definitions[option2].letter => option1 = option2
BY DEF Definitions

\* A part of one element.
LEMMA OneElement ==
    ASSUME NEW s, NEW m \in Nat
    PROVE  SubSeq(s, m, m) = <<s[m]>>
<1> DEFINE part == SubSeq(s, m, m)
           S == {s[m]}
<1>1. \A i \in m .. m : s[i] \in S
  OBVIOUS
<1>2. m <= m /\ m - m + 1 = 1 /\ m + 1 - 1 = m /\ m \in Int
  OBVIOUS
<1> HIDE DEF S
<1>3. part \in Seq(S) /\ Len(part) = 1 /\ \A i \in 1 .. 1 : part[i] = s[m + i - 1]
  BY <1>1, <1>2, SubSeqProperties
<1> HIDE DEF part
<1>4. part[1] = s[m]
  BY <1>2, <1>3
<1>5. part = <<s[m]>>
  BY <1>3, <1>4
<1> QED
  BY <1>5 DEF part

\* A long option is read as its name and what is behind the equals sign, if there is one.
LEMMA NameRead ==
    ASSUME NEW S, NEW arg \in Seq(S), NEW option, option # "=",
           Len(arg) > 1, arg[1] = "--", arg[2] = option, Len(arg) = 2 \/ arg[3] = "="
    PROVE  /\ NameOf(arg) = <<option>>
           /\ ValueOf(arg) = IF Len(arg) = 2 THEN <<>> ELSE <<SubSeq(arg, 4, Len(arg))>>
<1>1. \A i \in 1 .. 2 : arg[i] # "="
  <2>1. "--" # "="
    OBVIOUS
  <2>2. \A i \in 1 .. 2 : i = 1 \/ i = 2
    OBVIOUS
  <2> QED
    BY <2>1, <2>2, Zenon
<1>2. Len(arg) \in Nat /\ 3 - 1 = 2 /\ 3 + 1 = 4
  OBVIOUS
<1>3. 3 \in 1 .. (Len(arg) + 1) /\ (3 = Len(arg) + 1 \/ arg[3] = "=")
  BY <1>2
<1>4. Equals(arg) = 3
  BY <1>1, <1>2, <1>3, EqualsIs
<1>5. NameOf(arg) = <<option>>
  BY <1>2, <1>4, OneElement DEF NameOf
<1>6. Len(arg) = 2 <=> 3 > Len(arg)
  <2>1. \A n \in Nat : n > 1 => (n = 2 <=> 3 > n)
    OBVIOUS
  <2> QED
    BY <1>2, <2>1, Zenon
<1>7. ValueOf(arg) = IF Len(arg) = 2 THEN <<>> ELSE <<SubSeq(arg, 4, Len(arg))>>
  BY <1>2, <1>4, <1>6 DEF ValueOf
<1> QED
  BY <1>5, <1>7

\* Conversely, an argument that is read as a name has an equals sign or nothing behind it.
LEMMA NameWritten ==
    ASSUME NEW S, NEW arg \in Seq(S), NEW option, NameOf(arg) = <<option>>
    PROVE  /\ Len(arg) > 1 /\ arg[2] = option
           /\ \/ Len(arg) = 2 /\ ValueOf(arg) = <<>>
              \/ Len(arg) > 2 /\ arg[3] = "="
<1> DEFINE e == Equals(arg)
           name == SubSeq(arg, 2, e - 1)
<1>1. Len(arg) \in Nat /\ e \in 1 .. (Len(arg) + 1) /\ (e <= Len(arg) => arg[e] = "=")
  BY EqualsSomewhere
<1>2. name = <<option>>
  BY DEF NameOf
<1>3. Len(name) = 1 /\ name[1] = option
  <2> HIDE DEF name
  <2> QED
    BY <1>2
<1> HIDE DEF e
<1>4. \A i \in 2 .. e - 1 : arg[i] \in S
  BY <1>1
<1>5. /\ Len(name) = IF 2 <= e - 1 THEN (e - 1) - 2 + 1 ELSE 0
      /\ \A i \in 1 .. (e - 1) - 2 + 1 : name[i] = arg[2 + i - 1]
  BY <1>1, <1>4, SubSeqProperties
<1> HIDE DEF name
<1>6. e = 3
  <2>1. e \in Nat /\ Len(name) = 1
    BY <1>1, <1>3
  <2>2. CASE 2 <= e - 1
    <3>1. 1 = (e - 1) - 2 + 1
      BY <1>5, <2>1, <2>2, Zenon
    <3> QED
      BY <2>1, <3>1
  <2>3. CASE ~(2 <= e - 1)
    BY <1>5, <2>1, <2>3
  <2> QED
    BY <2>2, <2>3
<1>7. arg[2] = option
  <2>1. name[1] = arg[2 + 1 - 1]
    BY <1>5, <1>6
  <2> QED
    BY <1>3, <2>1
<1>8. Len(arg) > 1 /\ (Len(arg) = 2 \/ (Len(arg) > 2 /\ arg[3] = "="))
  <2>1. Len(arg) \in Nat /\ 3 <= Len(arg) + 1 /\ (3 <= Len(arg) => arg[3] = "=")
    BY <1>1, <1>6
  <2>2. CASE Len(arg) = 2
    BY <2>2
  <2>3. CASE Len(arg) > 2
    <3>1. 3 <= Len(arg) /\ Len(arg) > 1
      BY <2>1, <2>3
    <3> QED
      BY <2>1, <2>3, <3>1, Zenon
  <2>4. Len(arg) = 2 \/ Len(arg) > 2
    <3> DEFINE n == Len(arg)
    <3>1. n \in Nat /\ 3 <= n + 1
      BY <2>1
    <3> HIDE DEF n
    <3>2. n = 2 \/ n > 2
      BY <3>1
    <3> QED
      BY <3>2 DEF n
  <2> QED
    BY <2>2, <2>3, <2>4, Zenon
<1>9. ASSUME Len(arg) = 2 PROVE ValueOf(arg) = <<>>
  BY <1>6, <1>9 DEF ValueOf, e
<1> QED
  BY <1>7, <1>8, <1>9

\* The only option of a letter, and of a name.
LEMMA OnlyOption ==
    ASSUME NEW option \in DOMAIN Definitions
    PROVE  /\ OfLetter(Definitions[option].letter) = {option}
           /\ OfName(<<option>>) = {option}
<1>1. OfLetter(Definitions[option].letter) = {option}
  BY OptionTable DEF OfLetter
<1>2. \A other : <<other>> = <<option>> <=> other = option
  OBVIOUS
<1>3. OfName(<<option>>) = {option}
  BY <1>2, Zenon DEF OfName
<1> QED
  BY <1>1, <1>3

\* Only one of the three steps reads an argument.
LEMMA KindsOfArguments ==
    /\ HasArg(optind) /\ IsShortOption(args[optind]) => ~LongOption /\ ~RemainingArgs
    /\ HasArg(optind) /\ IsLongOption(args[optind]) => ~ShortOption /\ ~RemainingArgs
<1>1. \A arg : ~(IsShortOption(arg) /\ IsLongOption(arg))
  BY DEF IsShortOption, IsLongOption
<1>2. ShortOption => IsShortOption(args[optind])
  BY DEF ShortOption
<1>3. LongOption => IsLongOption(args[optind])
  BY DEF LongOption
<1>4. RemainingArgs => (HasArg(optind) => ~IsShortOption(args[optind]) /\ ~IsLongOption(args[optind]))
  BY DEF RemainingArgs
<1> QED
  BY <1>1, <1>2, <1>3, <1>4, Zenon

\* An option written as a letter is handled with the argument it was given.
LEMMA LetterRead ==
    ASSUME NEW given, NEW q, given.option \in DOMAIN Definitions, HasArg(optind),
           AsLetter(line, given, <<optind, subopt>>, q), FromArgs
    PROVE  /\ Handle(given.option, given.optarg) /\ <<optind', subopt'>> = q
           /\ Definitions[given.option].takes = "NONE" => given.optarg = <<>>
<1> DEFINE option == given.option
           takes == Definitions[option].takes
           arg == args[optind]
           rest == SubSeq(arg, subopt + 3, Len(arg))
<1>1. /\ IsShortOption(arg) /\ arg[subopt + 2] = Definitions[option].letter
      /\ \/ /\ takes = "NONE" /\ rest # <<>>
            /\ given.optarg = <<>> /\ q = <<optind, subopt + 1>>
         \/ /\ takes # "REQUIRED" /\ rest = <<>>
            /\ given.optarg = <<>> /\ q = <<optind + 1, 0>>
         \/ /\ takes # "NONE" /\ rest # <<>>
            /\ given.optarg = <<rest>> /\ q = <<optind + 1, 0>>
         \/ /\ takes = "REQUIRED" /\ rest = <<>> /\ HasArg(optind + 1)
            /\ given.optarg = <<args[optind + 1]>> /\ q = <<optind + 2, 0>>
  BY DEF AsLetter, args, HasArg
<1>2. ShortOption
  BY <1>1, KindsOfArguments DEF FromArgs
<1>3. OfLetter(arg[subopt + 2]) = {option}
  BY <1>1, OnlyOption
<1>4. \/ /\ takes = "NONE"
         /\ Handle(option, <<>>)
         /\ subopt' = IF rest = <<>> THEN 0 ELSE subopt + 1
         /\ optind' = IF rest = <<>> THEN optind + 1 ELSE optind
      \/ /\ takes = "OPTIONAL"
         /\ Handle(option, IF rest = <<>> THEN <<>> ELSE <<rest>>)
         /\ subopt' = 0 /\ optind' = optind + 1
      \/ /\ takes = "REQUIRED"
         /\ IF ~(rest = <<>>)
            THEN Handle(option, <<rest>>) /\ subopt' = 0 /\ optind' = optind + 1
            ELSE IF HasArg(optind + 1)
            THEN Handle(option, <<args[optind + 1]>>) /\ subopt' = 0 /\ optind' = optind + 2
            ELSE Refuse
  BY <1>2, <1>3, Zenon DEF ShortOption
<1> HIDE DEF option, takes, arg, rest
<1>5. CASE takes = "NONE"
  BY <1>1, <1>4, <1>5 DEF option, takes
<1>6. CASE takes = "OPTIONAL"
  BY <1>1, <1>4, <1>6 DEF option, takes
<1>7. CASE takes = "REQUIRED"
  BY <1>1, <1>4, <1>7 DEF option, takes
<1> QED
  BY <1>4, <1>5, <1>6, <1>7

\* What LongOption does for the only option of the name it reads.
LEMMA LongOptionFor ==
    ASSUME NEW option \in DOMAIN Definitions, LongOption, NameOf(args[optind]) = <<option>>
    PROVE  \/ /\ Definitions[option].takes # "REQUIRED" \/ ValueOf(args[optind]) # <<>>
              /\ IF Definitions[option].takes = "NONE" /\ ValueOf(args[optind]) # <<>> THEN Refuse
                 ELSE Handle(option, ValueOf(args[optind])) /\ optind' = optind + 1 /\ UNCHANGED subopt
           \/ /\ Definitions[option].takes = "REQUIRED" /\ ValueOf(args[optind]) = <<>>
              /\ IF HasArg(optind + 1)
                 THEN Handle(option, <<args[optind + 1]>>) /\ optind' = optind + 2 /\ UNCHANGED subopt
                 ELSE Refuse
<1>1. OfName(NameOf(args[optind])) = {option}
  BY OnlyOption
<1> QED
  BY <1>1, Zenon DEF LongOption

\* An option written as a name is handled with the argument it was given, or refused
\* when it takes none.
LEMMA LongNameRead ==
    ASSUME NEW given, NEW q, given.option \in DOMAIN Definitions, HasArg(optind),
           args[optind] \in Seq(ToSet(args[optind])),
           AsName(line, given, <<optind, subopt>>, q), FromArgs
    PROVE  \/ /\ Handle(given.option, given.optarg) /\ <<optind', subopt'>> = q
              /\ Definitions[given.option].takes = "NONE" => given.optarg = <<>>
           \/ Refuse /\ Definitions[given.option].takes = "NONE" /\ given.optarg # <<>>
<1> DEFINE option == given.option
           takes == Definitions[option].takes
           arg == args[optind]
           value == ValueOf(arg)
<1>1. /\ subopt = 0
      /\ \/ /\ arg = <<"--", option>> /\ takes # "REQUIRED"
            /\ given.optarg = <<>> /\ q = <<optind + 1, 0>>
         \/ /\ arg = <<"--", option>> /\ takes = "REQUIRED" /\ HasArg(optind + 1)
            /\ given.optarg = <<args[optind + 1]>> /\ q = <<optind + 2, 0>>
         \/ /\ Len(arg) > 2 /\ SubSeq(arg, 1, 3) = <<"--", option, "=">>
            /\ given.optarg = <<SubSeq(arg, 4, Len(arg))>> /\ q = <<optind + 1, 0>>
  BY DEF AsName, args, HasArg
<1>2. /\ Len(arg) > 1 /\ arg[1] = "--" /\ arg[2] = option
      /\ Len(arg) = 2 \/ arg[3] = "="
  <2>1. CASE arg = <<"--", option>>
    BY <2>1
  <2>2. CASE Len(arg) > 2 /\ SubSeq(arg, 1, 3) = <<"--", option, "=">>
    <3> DEFINE head == SubSeq(arg, 1, 3)
    <3>1. Len(arg) \in Nat /\ \A i \in 1 .. 3 : arg[i] \in ToSet(arg)
      BY <2>2
    <3>2. \A i \in 1 .. 3 - 1 + 1 : head[i] = arg[1 + i - 1]
      BY <3>1, SubSeqProperties
    <3> HIDE DEF head
    <3>3. head[1] = arg[1] /\ head[2] = arg[2] /\ head[3] = arg[3]
      BY <3>2
    <3>4. head = <<"--", option, "=">>
      BY <2>2 DEF head
    <3> QED
      BY <2>2, <3>1, <3>3, <3>4
  <2> QED
    BY <1>1, <2>1, <2>2
<1>3. option # "="
  BY OptionTable
<1>4. NameOf(arg) = <<option>> /\ value = IF Len(arg) = 2 THEN <<>> ELSE <<SubSeq(arg, 4, Len(arg))>>
  BY <1>2, <1>3, NameRead
<1>5. LongOption
  BY <1>2, KindsOfArguments DEF FromArgs, IsLongOption
<1>6. \/ /\ takes # "REQUIRED" \/ value # <<>>
         /\ IF takes = "NONE" /\ value # <<>> THEN Refuse
            ELSE Handle(option, value) /\ optind' = optind + 1 /\ UNCHANGED subopt
      \/ /\ takes = "REQUIRED" /\ value = <<>>
         /\ IF HasArg(optind + 1)
            THEN Handle(option, <<args[optind + 1]>>) /\ optind' = optind + 2 /\ UNCHANGED subopt
            ELSE Refuse
  BY <1>4, <1>5, LongOptionFor
<1>7. Len(<<"--", option>>) = 2 /\ Len(arg) \in Nat
  OBVIOUS
<1>8. \A rest : <<rest>> # <<>>
  OBVIOUS
<1> HIDE DEF option, takes, arg, value
<1>9. CASE arg = <<"--", option>>
  <2>1. value = <<>>
    BY <1>4, <1>7, <1>9
  <2> QED
    BY <1>1, <1>6, <1>7, <1>9, <2>1 DEF option, takes
<1>10. CASE Len(arg) > 2
  <2>1. value = <<SubSeq(arg, 4, Len(arg))>> /\ arg # <<"--", option>>
    <3>1. \A n \in Nat : n > 2 => n # 2
      OBVIOUS
    <3>2. Len(arg) # 2
      BY <1>7, <1>10, <3>1, Zenon
    <3> QED
      BY <1>4, <1>7, <3>2, Zenon
  <2>2. value # <<>>
    BY <1>8, <2>1, Zenon
  <2> QED
    BY <1>1, <1>6, <2>1, <2>2 DEF option, takes
<1> QED
  BY <1>1, <1>9, <1>10

\* What is no option is refused.
LEMMA NoOptionRefused ==
    ASSUME NoOption(line, <<optind, subopt>>), args[optind] \in Seq(ToSet(args[optind])),
           subopt \in Nat, FromArgs
    PROVE  Refuse
<1> DEFINE arg == args[optind]
           takes(option) == Definitions[option].takes
<1>1. /\ HasArg(optind)
      /\ \/ /\ IsShortOption(arg)
            /\ \A option \in DOMAIN Definitions : Definitions[option].letter = arg[subopt + 2] =>
                  takes(option) = "REQUIRED" /\ subopt + 2 = Len(arg) /\ ~HasArg(optind + 1)
         \/ /\ IsLongOption(arg)
            /\ \A option \in DOMAIN Definitions :
                  /\ arg = <<"--", option>> => takes(option) = "REQUIRED" /\ ~HasArg(optind + 1)
                  /\ ~(Len(arg) > 2 /\ arg[2] = option /\ arg[3] = "=")
  BY DEF NoOption, args, HasArg
<1>2. CASE /\ IsShortOption(arg)
           /\ \A option \in DOMAIN Definitions : Definitions[option].letter = arg[subopt + 2] =>
                 takes(option) = "REQUIRED" /\ subopt + 2 = Len(arg) /\ ~HasArg(optind + 1)
  <2>1. ShortOption
    BY <1>1, <1>2, KindsOfArguments DEF FromArgs
  <2>2. CASE OfLetter(arg[subopt + 2]) = {}
    BY <2>1, <2>2, Zenon DEF ShortOption
  <2>3. ASSUME NEW option \in OfLetter(arg[subopt + 2]) PROVE Refuse
    <3>1. option \in DOMAIN Definitions /\ Definitions[option].letter = arg[subopt + 2]
      BY DEF OfLetter
    <3>2. OfLetter(arg[subopt + 2]) = {option}
      BY <3>1, OnlyOption
    <3>3. takes(option) = "REQUIRED" /\ subopt + 2 = Len(arg) /\ ~HasArg(optind + 1)
      BY <1>2, <3>1
    <3>4. SubSeq(arg, subopt + 3, Len(arg)) = <<>>
      <4>1. subopt + 3 \in Int /\ subopt + 2 \in Int /\ subopt + 2 < subopt + 3
        OBVIOUS
      <4> QED
        BY <3>3, <4>1, SubSeqEmpty
    <3>5. takes(option) # "NONE" /\ takes(option) # "OPTIONAL"
      BY <3>3
    <3> QED
      BY <2>1, <3>2, <3>3, <3>4, <3>5, Zenon DEF ShortOption
  <2> QED
    BY <2>2, <2>3
<1>3. CASE /\ IsLongOption(arg)
           /\ \A option \in DOMAIN Definitions :
                 /\ arg = <<"--", option>> => takes(option) = "REQUIRED" /\ ~HasArg(optind + 1)
                 /\ ~(Len(arg) > 2 /\ arg[2] = option /\ arg[3] = "=")
  <2>1. LongOption
    BY <1>1, <1>3, KindsOfArguments DEF FromArgs
  <2>2. CASE OfName(NameOf(arg)) = {}
    BY <2>1, <2>2, Zenon DEF LongOption
  <2>3. ASSUME NEW option \in OfName(NameOf(arg)) PROVE Refuse
    <3>1. option \in DOMAIN Definitions /\ NameOf(arg) = <<option>>
      BY DEF OfName
    <3>2. /\ Len(arg) > 1 /\ arg[2] = option
          /\ \/ Len(arg) = 2 /\ ValueOf(arg) = <<>>
             \/ Len(arg) > 2 /\ arg[3] = "="
      BY <3>1, NameWritten
    <3>3. Len(arg) = 2 /\ ValueOf(arg) = <<>>
      BY <1>3, <3>1, <3>2, Zenon
    <3>4. arg = <<"--", option>>
      BY <1>3, <3>2, <3>3 DEF IsLongOption
    <3>5. takes(option) = "REQUIRED" /\ ~HasArg(optind + 1)
      BY <1>3, <3>1, <3>4
    <3> QED
      BY <2>1, <3>1, <3>3, <3>5, LongOptionFor
  <2> QED
    BY <2>2, <2>3
<1> QED
  BY <1>1, <1>2, <1>3

\* The mode of a line whose options have set the mode that is given.
ModeWith(mode, command) == IF mode = "Undefined" /\ command # <<>> THEN "SingleService" ELSE mode

\* At the command the program is created, with the command that was written.
LEMMA CommandRead ==
    ASSUME IsCommand(line, <<optind, subopt>>), FromArgs
    PROVE  LET mode == ModeWith(options.mode, line.command)
           IN  /\ UNCHANGED line
               /\ \/ /\ line.command = <<>> \/ mode = "SingleService"
                     /\ mode # "Undefined"
                     /\ options' = [options EXCEPT !.mode = mode, !.command = line.command]
                     /\ program' = Programs[mode]
                  \/ /\ mode = "Undefined" \/ (line.command # <<>> /\ mode # "SingleService")
                     /\ program' = "refused"
<1> DEFINE first == IF HasArg(optind) /\ IsDashDash(args[optind]) THEN optind + 1 ELSE optind
<1>1. \/ /\ HasArg(optind) /\ IsDashDash(args[optind])
         /\ line.command = SubSeq(args, optind + 1, Len(args))
      \/ /\ HasArg(optind) => /\ ~IsDashDash(args[optind])
                              /\ ~IsShortOption(args[optind]) /\ ~IsLongOption(args[optind])
         /\ line.command = SubSeq(args, optind, Len(args))
  BY DEF IsCommand, args, HasArg
<1>2. line.command = SubSeq(args, first, Len(args))
  BY <1>1, Zenon
<1>3. HasArg(optind) => ~IsShortOption(args[optind]) /\ ~IsLongOption(args[optind])
  <2>1. \A arg : IsDashDash(arg) => ~IsShortOption(arg) /\ ~IsLongOption(arg)
    BY DEF IsDashDash, IsShortOption, IsLongOption
  <2> QED
    BY <1>1, <2>1, Zenon
<1>4. ~ShortOption /\ ~LongOption
  BY <1>3, Zenon DEF ShortOption, LongOption
<1>5. RemainingArgs
  BY <1>4 DEF FromArgs
<1> DEFINE mode == ModeWith(options.mode, line.command)
<1>6. /\ UNCHANGED line
      /\ \/ /\ line.command = <<>> \/ mode = "SingleService"
            /\ mode # "Undefined"
            /\ options' = [options EXCEPT !.mode = mode, !.command = line.command]
            /\ program' = Programs[mode]
         \/ /\ mode = "Undefined" \/ (line.command # <<>> /\ mode # "SingleService")
            /\ program' = "refused"
  BY <1>2, <1>5, Zenon DEF RemainingArgs, ModeWith
<1> QED
  BY <1>6

\* The options that have been read are those of the line up to one of them.
ModesUpTo(n) == {Definitions[line.given[i].option].mode : i \in 1 .. n} \ {"Undefined"}

LastUpTo(n, option, default) ==
    LET given == {i \in 1 .. n : line.given[i].option = option /\ line.given[i].optarg # <<>>}
    IN  IF given = {} THEN default ELSE line.given[Max(given)].optarg[1]

ValuesUpTo(n) ==
    /\ options.serviceName = LastUpTo(n, "name", DefaultOptions.serviceName)
    /\ options.configFile = LastUpTo(n, "config", DefaultOptions.configFile)
    /\ <<options.logLevel>> = Lower(LastUpTo(n, "log", <<DefaultOptions.logLevel>>))
    /\ <<options.logger>> = Lower(LastUpTo(n, "logger", <<DefaultOptions.logger>>))

ReadUpTo(n) ==
    /\ <<optind, subopt>> = line.starts[n + 1]
    /\ \A i \in 1 .. n : ArgumentAllowed(line.given[i])
    /\ ModesUpTo(n) = IF options.mode = "Undefined" THEN {} ELSE {options.mode}
    /\ ValuesUpTo(n)

\* The last of an option is the next, or the one before.
LEMMA LastOfNext ==
    ASSUME NEW n \in Nat, NEW option, NEW default
    PROVE  LastUpTo(n + 1, option, default) =
              IF line.given[n + 1].option = option /\ line.given[n + 1].optarg # <<>>
              THEN line.given[n + 1].optarg[1] ELSE LastUpTo(n, option, default)
<1> DEFINE is(i) == line.given[i].option = option /\ line.given[i].optarg # <<>>
           T(m) == {i \in 1 .. m : is(i)}
<1> HIDE DEF is
<1>1. \A m : LastUpTo(m, option, default) =
          IF T(m) = {} THEN default ELSE line.given[Max(T(m))].optarg[1]
  BY Zenon DEF LastUpTo, is
<1>2. CASE is(n + 1)
  <2> DEFINE S == T(n + 1)
             m == Max(S)
  <2>1. n + 1 \in S /\ \A i \in S : i <= n + 1 /\ i \in Int
    BY <1>2
  <2> HIDE DEF S
  <2>2. m \in S /\ \A i \in S : i <= m
    BY <2>1 DEF Max
  <2> HIDE DEF m
  <2>3. m = n + 1
    BY <2>1, <2>2
  <2>4. S # {}
    BY <2>1
  <2> QED
    BY <1>1, <1>2, <2>3, <2>4, Zenon DEF S, m, is
<1>3. CASE ~is(n + 1)
  <2>1. T(n + 1) = T(n)
    <3>1. \A i : i \in 1 .. n + 1 <=> i \in 1 .. n \/ i = n + 1
      OBVIOUS
    <3> QED
      BY <1>3, <3>1, Zenon
  <2> QED
    BY <1>1, <1>3, <2>1, Zenon DEF is
<1> QED
  BY <1>2, <1>3

LEMMA NoneYet ==
    ASSUME NEW option, NEW default
    PROVE  LastUpTo(0, option, default) = default /\ ModesUpTo(0) = {}
<1>1. \A i : i \notin 1 .. 0
  OBVIOUS
<1> QED
  BY <1>1, Zenon DEF LastUpTo, ModesUpTo

\* The modes of one more option.
LEMMA ModesOfNext ==
    ASSUME NEW n \in Nat
    PROVE  LET mode == Definitions[line.given[n + 1].option].mode
           IN  ModesUpTo(n + 1) = IF mode = "Undefined" THEN ModesUpTo(n) ELSE ModesUpTo(n) \cup {mode}
<1>1. \A i : i \in 1 .. n + 1 <=> i \in 1 .. n \/ i = n + 1
  OBVIOUS
<1> DEFINE mode(i) == Definitions[line.given[i].option].mode
<1>2. \A x : x \in ModesUpTo(n + 1) <=> x # "Undefined" /\ \E i \in 1 .. n + 1 : x = mode(i)
  BY Zenon DEF ModesUpTo
<1>3. \A x : x \in ModesUpTo(n) <=> x # "Undefined" /\ \E i \in 1 .. n : x = mode(i)
  BY Zenon DEF ModesUpTo
<1> HIDE DEF mode
<1>4. ModesUpTo(n + 1) = IF mode(n + 1) = "Undefined" THEN ModesUpTo(n) ELSE ModesUpTo(n) \cup {mode(n + 1)}
  <2>1. \A x : x \in ModesUpTo(n + 1) <=> x \in ModesUpTo(n) \/ (x # "Undefined" /\ x = mode(n + 1))
    BY <1>1, <1>2, <1>3, Zenon
  <2>2. CASE mode(n + 1) = "Undefined"
    BY <2>1, <2>2
  <2>3. CASE mode(n + 1) # "Undefined"
    BY <2>1, <2>3
  <2> QED
    BY <2>2, <2>3
<1> QED
  BY <1>4 DEF mode

\* What is no capital stays.
LEMMA LowerOfDefaults ==
    /\ Lower(<<DefaultOptions.logLevel>>) = <<DefaultOptions.logLevel>>
    /\ Lower(<<DefaultOptions.logger>>) = <<DefaultOptions.logger>>
<1>1. ASSUME NEW word, word \notin {"DEBUG", "Syslog"} PROVE Lower(<<word>>) = <<word>>
  <2>1. DOMAIN Lowercase = {"DEBUG", "Syslog"}
    BY DEF Lowercase
  <2>2. Lower(<<word>>) = [i \in 1 .. 1 |-> word]
    BY <1>1, <2>1 DEF Lower
  <2> QED
    BY <2>2
<1>2. /\ DefaultOptions.logLevel \notin {"DEBUG", "Syslog"}
      /\ DefaultOptions.logger \notin {"DEBUG", "Syslog"}
  BY DEF DefaultOptions
<1> QED
  BY <1>1, <1>2

\* The options when one of them has been handled.
LEMMA OptionHandled ==
    ASSUME NEW option \in DOMAIN Definitions, NEW optarg, DOMAIN options = DOMAIN DefaultOptions,
           Handle(option, optarg)
    PROVE  LET mode == Definitions[option].mode
           IN  /\ UNCHANGED line
               /\ \/ /\ program' = "refused"
                     /\ ~ValueAllowed(option, optarg) \/ ~ModeAllowed(mode)
                  \/ /\ UNCHANGED program
                     /\ ValueAllowed(option, optarg) /\ ModeAllowed(mode)
                     /\ DOMAIN options' = DOMAIN DefaultOptions
                     /\ options'.mode = IF mode = "Undefined" THEN options.mode ELSE mode
                     /\ options'.serviceName = IF option = "name" THEN optarg[1] ELSE options.serviceName
                     /\ options'.configFile =
                           IF option = "config" /\ optarg # <<>> THEN optarg[1] ELSE options.configFile
                     /\ <<options'.logLevel>> =
                           IF option = "log" THEN Lower(optarg[1]) ELSE <<options.logLevel>>
                     /\ <<options'.logger>> =
                           IF option = "logger" THEN Lower(optarg[1]) ELSE <<options.logger>>
<1> DEFINE mode == Definitions[option].mode
           set == WithValue(option, optarg)
<1>1. CASE ~(ValueAllowed(option, optarg) /\ ModeAllowed(mode))
  BY <1>1, Zenon DEF Handle
<1>2. CASE ValueAllowed(option, optarg) /\ ModeAllowed(mode)
  <2>1. DOMAIN options = {"mode", "configFile", "serviceName", "command", "logger", "logLevel"}
    BY DEF DefaultOptions
  <2>2. /\ DOMAIN set = DOMAIN options /\ set.mode = options.mode
        /\ set.serviceName = IF option = "name" THEN optarg[1] ELSE options.serviceName
        /\ set.configFile = IF option = "config" /\ optarg # <<>> THEN optarg[1] ELSE options.configFile
        /\ set.logLevel = IF option = "log" THEN Lower(optarg[1])[1] ELSE options.logLevel
        /\ set.logger = IF option = "logger" THEN Lower(optarg[1])[1] ELSE options.logger
    <3>1. CASE option = "config" /\ optarg # <<>>
      BY <2>1, <3>1 DEF WithValue
    <3>2. CASE option = "log"
      <4>1. set = [options EXCEPT !.logLevel = Lower(optarg[1])[1]]
        BY <3>2 DEF WithValue
      <4> QED
        BY <2>1, <3>2, <4>1
    <3>3. CASE option = "logger"
      <4>1. set = [options EXCEPT !.logger = Lower(optarg[1])[1]]
        BY <3>3 DEF WithValue
      <4> QED
        BY <2>1, <3>3, <4>1
    <3>4. CASE option = "name"
      <4>1. set = [options EXCEPT !.serviceName = optarg[1]]
        BY <3>4 DEF WithValue
      <4> QED
        BY <2>1, <3>4, <4>1
    <3>5. CASE ~(option = "config" /\ optarg # <<>>) /\ option \notin {"log", "logger", "name"}
      <4>1. set = options
        BY <3>5 DEF WithValue
      <4> QED
        BY <2>1, <3>5, <4>1
    <3> QED
      BY <3>1, <3>2, <3>3, <3>4, <3>5
  <2>3. /\ option = "log" => Lower(optarg[1]) = <<Lower(optarg[1])[1]>>
        /\ option = "logger" => Lower(optarg[1]) = <<Lower(optarg[1])[1]>>
    <3>1. CASE option = "log"
      <4>1. Lower(optarg[1]) \in {<<level>> : level \in LogLevels}
        BY <1>2, <3>1 DEF ValueAllowed
      <4> QED
        BY <3>1, <4>1
    <3>2. CASE option = "logger"
      <4>1. Lower(optarg[1]) \in {<<logger>> : logger \in Loggers}
        BY <1>2, <3>2 DEF ValueAllowed
      <4> QED
        BY <3>2, <4>1
    <3> QED
      BY <3>1, <3>2
  <2>4. /\ options' = IF mode = "Undefined" THEN set ELSE [set EXCEPT !.mode = mode]
        /\ UNCHANGED <<line, program>>
    BY <1>2, Zenon DEF Handle
  <2> HIDE DEF set, mode
  <2>5. /\ DOMAIN options' = DOMAIN options
        /\ options'.mode = IF mode = "Undefined" THEN options.mode ELSE mode
        /\ options'.serviceName = set.serviceName /\ options'.configFile = set.configFile
        /\ options'.logLevel = set.logLevel /\ options'.logger = set.logger
    BY <2>1, <2>2, <2>4
  <2>6. /\ <<options'.logLevel>> = IF option = "log" THEN Lower(optarg[1]) ELSE <<options.logLevel>>
        /\ <<options'.logger>> = IF option = "logger" THEN Lower(optarg[1]) ELSE <<options.logger>>
    BY <2>2, <2>3, <2>5, Zenon
  <2> QED
    BY <1>2, <2>2, <2>4, <2>5, <2>6 DEF mode
<1> QED
  BY <1>1, <1>2, Zenon

-----------------------------------------------------------------------------
(* The reading of a line                                                   *)

\* Options that disagree about the mode.
TwoModes == ModesGiven # {} /\ Cardinality(ModesGiven) # 1

\* What IsWritten says of one option, at the place where it begins.
LEMMA OptionAt ==
    ASSUME IsWritten(line), NEW n \in Nat, n < Len(line.given),
           <<optind, subopt>> = line.starts[n + 1],
           NEW given, given = line.given[n + 1], NEW q, q = line.starts[n + 2]
    PROVE  /\ given.option \in DOMAIN Definitions /\ HasArg(optind)
           /\ args[optind] \in Seq(ToSet(args[optind]))
           /\ \/ AsLetter(line, given, <<optind, subopt>>, q)
              \/ AsName(line, given, <<optind, subopt>>, q)
<1>1. Len(line.given) \in Nat
  <2>1. line.given \in Seq(ToSet(line.given))
    BY Zenon DEF IsWritten
  <2> QED
    BY <2>1, LenProperties
<1>2. n + 1 \in 1 .. Len(line.given) /\ (n + 1) + 1 = n + 2
  BY <1>1
<1>3. /\ given.option \in DOMAIN Definitions
      /\ line.starts[n + 1][1] \in DOMAIN line.args
      /\ \/ AsLetter(line, given, line.starts[n + 1], q)
         \/ AsName(line, given, line.starts[n + 1], q)
  BY <1>2, Zenon DEF IsWritten
<1>4. <<optind, subopt>>[1] = optind
  OBVIOUS
<1>5. HasArg(optind)
  BY <1>3, <1>4 DEF HasArg, args
<1>6. args[optind] \in Seq(ToSet(args[optind]))
  BY <1>5, Zenon DEF IsWritten, HasArg, args
<1> QED
  BY <1>3, <1>5, <1>6

\* An option that needs an argument has been given one.
LEMMA ArgumentGiven ==
    ASSUME NEW given, NEW p, NEW q, given.option \in DOMAIN Definitions,
           AsLetter(line, given, p, q) \/ AsName(line, given, p, q),
           Definitions[given.option].takes = "REQUIRED"
    PROVE  given.optarg # <<>>
<1>1. \E x : given.optarg = <<x>>
  <2>1. CASE AsLetter(line, given, p, q)
    BY <2>1 DEF AsLetter
  <2>2. CASE AsName(line, given, p, q)
    BY <2>2 DEF AsName
  <2> QED
    BY <2>1, <2>2
<1> QED
  BY <1>1

\* A line with an argument that is not allowed is not valid.
LEMMA InvalidLine ==
    ASSUME IsWritten(line), NEW n \in 1 .. Len(line.given), ~ArgumentAllowed(line.given[n])
    PROVE  ~line.valid
<1>1. \/ line.valid <=> \A i \in 1 .. Len(line.given) : ArgumentAllowed(line.given[i])
      \/ ~line.valid
  BY Zenon DEF IsWritten
<1> QED
  BY <1>1, Zenon

\* The modes that are given are finitely many; two of them are not one.
LEMMA ModesCounted ==
    ASSUME IsWritten(line)
    PROVE  /\ IsFiniteSet(ModesGiven) /\ ModesGiven = ModesUpTo(Len(line.given))
           /\ \A mode1, mode2 \in ModesGiven : mode1 # mode2 => TwoModes
<1> DEFINE Modes == {"Undefined", "Help", "Version", "SingleService", "MultiServices"}
<1>1. line.given \in Seq(ToSet(line.given)) /\ \A i \in 1 .. Len(line.given) : line.given[i].option \in DOMAIN Definitions
  BY Zenon DEF IsWritten
<1>2. DOMAIN line.given = 1 .. Len(line.given)
  BY <1>1
<1>3. ModesGiven = ModesUpTo(Len(line.given))
  BY <1>2 DEF ModesGiven, ModesUpTo
<1>4. ModesGiven \subseteq Modes
  BY <1>1, <1>2, OptionTable DEF ModesGiven
<1>5. IsFiniteSet(Modes)
  <2>1. Modes = ((({"Undefined"} \cup {"Help"}) \cup {"Version"}) \cup {"SingleService"}) \cup {"MultiServices"}
    OBVIOUS
  <2> HIDE DEF Modes
  <2>2. IsFiniteSet({"Undefined"})
    BY FS_Singleton
  <2>3. IsFiniteSet({"Undefined"} \cup {"Help"})
    BY <2>2, FS_AddElement
  <2>4. IsFiniteSet(({"Undefined"} \cup {"Help"}) \cup {"Version"})
    BY <2>3, FS_AddElement
  <2>5. IsFiniteSet((({"Undefined"} \cup {"Help"}) \cup {"Version"}) \cup {"SingleService"})
    BY <2>4, FS_AddElement
  <2> QED
    BY <2>1, <2>5, FS_AddElement
<1> HIDE DEF Modes
<1>6. IsFiniteSet(ModesGiven)
  BY <1>4, <1>5, FS_Subset
<1>7. Cardinality(ModesGiven) = 1 => \E x : ModesGiven = {x}
  BY <1>6, FS_Singleton
<1>8. \A mode1, mode2 \in ModesGiven : mode1 # mode2 => TwoModes
  BY <1>7 DEF TwoModes
<1> QED
  BY <1>3, <1>6, <1>8

\* One option is read: the next is reached, or the line is one that is refused.
LEMMA OneOptionRead ==
    ASSUME IsWritten(line), NEW n \in Nat, n < Len(line.given), ReadUpTo(n),
           DOMAIN options = DOMAIN DefaultOptions, FromArgs
    PROVE  /\ UNCHANGED line
           /\ \/ UNCHANGED program /\ ReadUpTo(n + 1)' /\ DOMAIN options' = DOMAIN DefaultOptions
              \/ program' = "refused" /\ (~line.valid \/ TwoModes)
<1> DEFINE given == line.given[n + 1]
           option == given.option
           mode == Definitions[option].mode
<1>0. n + 1 \in 1 .. Len(line.given) /\ (n + 1) + 1 = n + 2
  <2>1. Len(line.given) \in Nat
    BY DEF IsWritten
  <2> QED
    BY <2>1
<1>1. <<optind, subopt>> = line.starts[n + 1]
  BY DEF ReadUpTo
<1>2. /\ option \in DOMAIN Definitions /\ HasArg(optind)
      /\ args[optind] \in Seq(ToSet(args[optind]))
      /\ \/ AsLetter(line, given, <<optind, subopt>>, line.starts[n + 2])
         \/ AsName(line, given, <<optind, subopt>>, line.starts[n + 2])
  BY <1>1, OptionAt
<1> HIDE DEF given
<1>3. \/ /\ Handle(option, given.optarg) /\ <<optind', subopt'>> = line.starts[n + 2]
         /\ Definitions[option].takes = "NONE" => given.optarg = <<>>
      \/ Refuse /\ Definitions[option].takes = "NONE" /\ given.optarg # <<>>
  BY <1>2, LetterRead, LongNameRead
<1>4. Definitions[option].takes = "REQUIRED" => given.optarg # <<>>
  BY <1>2, ArgumentGiven
<1>5. ~ArgumentAllowed(given) => ~line.valid
  BY <1>0, InvalidLine DEF given
<1>6. CASE Refuse /\ Definitions[option].takes = "NONE" /\ given.optarg # <<>>
  BY <1>5, <1>6 DEF Refuse, ArgumentAllowed
<1>7. CASE /\ Handle(option, given.optarg) /\ <<optind', subopt'>> = line.starts[n + 2]
           /\ Definitions[option].takes = "NONE" => given.optarg = <<>>
  <2>1. /\ UNCHANGED line
        /\ \/ /\ program' = "refused"
              /\ ~ValueAllowed(option, given.optarg) \/ ~ModeAllowed(mode)
           \/ /\ UNCHANGED program
              /\ ValueAllowed(option, given.optarg) /\ ModeAllowed(mode)
              /\ DOMAIN options' = DOMAIN DefaultOptions
              /\ options'.mode = IF mode = "Undefined" THEN options.mode ELSE mode
              /\ options'.serviceName = IF option = "name" THEN given.optarg[1] ELSE options.serviceName
              /\ options'.configFile =
                    IF option = "config" /\ given.optarg # <<>> THEN given.optarg[1] ELSE options.configFile
              /\ <<options'.logLevel>> =
                    IF option = "log" THEN Lower(given.optarg[1]) ELSE <<options.logLevel>>
              /\ <<options'.logger>> =
                    IF option = "logger" THEN Lower(given.optarg[1]) ELSE <<options.logger>>
    BY <1>2, <1>7, OptionHandled, Zenon
  <2>2. ModesUpTo(n) = IF options.mode = "Undefined" THEN {} ELSE {options.mode}
    BY DEF ReadUpTo
  <2>3. ModesUpTo(n + 1) = IF mode = "Undefined" THEN ModesUpTo(n) ELSE ModesUpTo(n) \cup {mode}
    BY ModesOfNext DEF given
  <2>4. CASE program' = "refused" /\ ~ValueAllowed(option, given.optarg)
    BY <1>5, <2>1, <2>4 DEF ArgumentAllowed
  <2>5. CASE program' = "refused" /\ ~ModeAllowed(mode)
    <3>1. mode # "Undefined" /\ options.mode # "Undefined" /\ options.mode # mode
      BY <2>5 DEF ModeAllowed
    <3>2. mode \in ModesUpTo(n + 1) /\ options.mode \in ModesUpTo(n + 1)
      BY <2>2, <2>3, <3>1
    <3>3. ModesUpTo(n + 1) \subseteq ModesGiven
      <4>1. \A i \in 1 .. n + 1 : i \in 1 .. Len(line.given)
        BY <1>0
      <4>2. ModesUpTo(n + 1) \subseteq ModesUpTo(Len(line.given))
        BY <4>1, Zenon DEF ModesUpTo
      <4> QED
        BY <4>2, ModesCounted
    <3> QED
      BY <2>1, <2>5, <3>1, <3>2, <3>3, ModesCounted
  <2>6. CASE UNCHANGED program
    <3>0. /\ UNCHANGED line /\ ValueAllowed(option, given.optarg) /\ ModeAllowed(mode)
          /\ program' # "refused"
      BY <2>1, <2>6 DEF FromArgs, ShortOption, LongOption, RemainingArgs
    <3> HIDE DEF option, mode
    <3>1. <<optind', subopt'>> = line'.starts[(n + 1) + 1]
      BY <1>0, <1>7, <3>0
    <3>2. ASSUME NEW i \in 1 .. n + 1 PROVE ArgumentAllowed(line'.given[i])
      <4>1. CASE i = n + 1
        BY <1>7, <3>0, <4>1, Zenon DEF ArgumentAllowed, given, option
      <4>2. CASE i # n + 1
        <5>1. i \in 1 .. n
          BY <4>2
        <5> QED
          BY <3>0, <5>1, Zenon DEF ReadUpTo
      <4> QED
        BY <4>1, <4>2
    <3>3. ModesUpTo(n + 1)' = IF options'.mode = "Undefined" THEN {} ELSE {options'.mode}
      <4>1. ModesUpTo(n + 1)' = ModesUpTo(n + 1)
        BY <3>0, Zenon DEF ModesUpTo
      <4>2. options'.mode = IF mode = "Undefined" THEN options.mode ELSE mode
        BY <2>1, <3>0
      <4>3. mode = "Undefined" \/ options.mode = "Undefined" \/ options.mode = mode
        BY <3>0 DEF ModeAllowed
      <4> QED
        BY <2>2, <2>3, <4>1, <4>2, <4>3
    <3>4. ValuesUpTo(n + 1)'
      <4>1. ASSUME NEW what, NEW default
            PROVE  LastUpTo(n + 1, what, default)' =
                      IF option = what /\ given.optarg # <<>> THEN given.optarg[1]
                      ELSE LastUpTo(n, what, default)
        <5>1. LastUpTo(n + 1, what, default)' = LastUpTo(n + 1, what, default)
          BY <3>0, Zenon DEF LastUpTo
        <5> QED
          BY <5>1, LastOfNext DEF given, option
      <4>2. option \in {"log", "logger", "name"} => given.optarg # <<>>
        BY <1>2, <1>4, OptionTable DEF option
      <4>3. ValuesUpTo(n)
        BY DEF ReadUpTo
      <4>4. options'.serviceName = LastUpTo(n + 1, "name", DefaultOptions.serviceName)'
        BY <2>1, <3>0, <4>1, <4>2, <4>3 DEF ValuesUpTo
      <4>5. options'.configFile = LastUpTo(n + 1, "config", DefaultOptions.configFile)'
        BY <2>1, <3>0, <4>1, <4>3 DEF ValuesUpTo
      <4>6. <<options'.logLevel>> = Lower(LastUpTo(n + 1, "log", <<DefaultOptions.logLevel>>)')
        BY <2>1, <3>0, <4>1, <4>2, <4>3 DEF ValuesUpTo
      <4>7. <<options'.logger>> = Lower(LastUpTo(n + 1, "logger", <<DefaultOptions.logger>>)')
        BY <2>1, <3>0, <4>1, <4>2, <4>3 DEF ValuesUpTo
      <4> QED
        BY <4>4, <4>5, <4>6, <4>7 DEF ValuesUpTo
    <3>5. ReadUpTo(n + 1)'
      BY <3>1, <3>2, <3>3, <3>4, Zenon DEF ReadUpTo
    <3> QED
      BY <2>1, <2>6, <3>0, <3>5
  <2> QED
    BY <2>1, <2>4, <2>5, <2>6
<1> QED
  BY <1>3, <1>6, <1>7

\* While a line is read it has been read up to one of its options; a program is
\* created for the mode of all of them, with their values.
OptionsInv ==
    /\ IsWritten(line)
    /\ program = "none" =>
          /\ DOMAIN options = DOMAIN DefaultOptions
          /\ \E n \in 0 .. Len(line.given) : ReadUpTo(n)
    /\ ModeOfOptions /\ CommandIntact

LEMMA OptionsStart == Init => OptionsInv
<1> SUFFICES ASSUME Init PROVE OptionsInv
  OBVIOUS
<1>1. IsWritten(line)
  BY LinesAssumption, Zenon DEF Init
<1>2. /\ optind = 1 /\ subopt = 0 /\ options = DefaultOptions /\ program = "none"
  BY DEF Init, OptionsInit
<1>3. ReadUpTo(0)
  <2>1. line.starts[0 + 1] = <<1, 0>>
    <3>1. 0 + 1 = 1
      OBVIOUS
    <3>2. line.starts[1] = <<1, 0>>
      BY <1>1, Zenon DEF IsWritten
    <3> QED
      BY <3>1, <3>2, Zenon
  <2>2. options.mode = "Undefined"
    BY <1>2 DEF DefaultOptions
  <2>3. ValuesUpTo(0)
    BY <1>2, NoneYet, LowerOfDefaults, Zenon DEF ValuesUpTo
  <2>4. \A i : i \notin 1 .. 0
    OBVIOUS
  <2>5. ModesUpTo(0) = {}
    BY NoneYet
  <2> QED
    BY <1>2, <2>1, <2>2, <2>3, <2>4, <2>5 DEF ReadUpTo
<1>4. 0 \in 0 .. Len(line.given)
  <2>1. Len(line.given) \in Nat
    BY <1>1 DEF IsWritten
  <2> QED
    BY <2>1
<1> QED
  BY <1>1, <1>2, <1>3, <1>4, Zenon DEF OptionsInv, ModeOfOptions, CommandIntact

\* The modes of a line that is read: none, or the one that is set.
LEMMA LineEnds ==
    ASSUME IsWritten(line), ReadUpTo(Len(line.given)), DOMAIN options = DOMAIN DefaultOptions,
           program = "none", FromArgs
    PROVE  UNCHANGED line /\ program' # "none" /\ ModeOfOptions' /\ CommandIntact'
<1> DEFINE n == Len(line.given)
<1>1. n \in Nat /\ DOMAIN line.given = 1 .. n
  BY DEF IsWritten
<1>2. <<optind, subopt>> = line.starts[n + 1]
  BY DEF ReadUpTo
<1>3. CASE NoOption(line, line.starts[n + 1]) /\ ~line.valid
  <2>1. HasArg(optind) /\ args[optind] \in Seq(ToSet(args[optind]))
    <3>1. <<optind, subopt>>[1] \in DOMAIN line.args
      BY <1>2, <1>3 DEF NoOption
    <3>2. HasArg(optind)
      BY <3>1 DEF HasArg, args
    <3> QED
      BY <3>2, Zenon DEF IsWritten, HasArg, args
  <2>2. subopt \in Nat
    <3>1. line.starts \in Seq(Nat \X Nat) /\ n + 1 \in 1 .. Len(line.starts)
      BY <1>1 DEF IsWritten
    <3>2. line.starts[n + 1] \in Nat \X Nat
      BY <3>1
    <3> QED
      BY <1>2, <3>2
  <2>3. Refuse
    BY <1>2, <1>3, <2>1, <2>2, NoOptionRefused
  <2> QED
    BY <1>3, <2>3 DEF Refuse, ModeOfOptions, CommandIntact
<1>4. CASE /\ IsCommand(line, line.starts[n + 1])
           /\ line.valid <=> \A i \in 1 .. n : ArgumentAllowed(line.given[i])
  <2> DEFINE mode == ModeWith(options.mode, line.command)
             Valid == /\ line.valid
                      /\ Cardinality(IF ModesGiven = {} /\ line.command # <<>> THEN {"SingleService"} ELSE ModesGiven) = 1
                      /\ line.command # <<>> => (IF ModesGiven = {} /\ line.command # <<>> THEN {"SingleService"} ELSE ModesGiven) = {"SingleService"}
  <2>1. line.valid
    BY <1>4, Zenon DEF ReadUpTo
  <2>2. ModesGiven = IF options.mode = "Undefined" THEN {} ELSE {options.mode}
    BY ModesCounted DEF ReadUpTo
  <2>3. /\ UNCHANGED line
        /\ \/ /\ line.command = <<>> \/ mode = "SingleService"
              /\ mode # "Undefined"
              /\ options' = [options EXCEPT !.mode = mode, !.command = line.command]
              /\ program' = Programs[mode]
           \/ /\ mode = "Undefined" \/ (line.command # <<>> /\ mode # "SingleService")
              /\ program' = "refused"
    BY <1>2, <1>4, CommandRead, Zenon
  <2>4. (IF ModesGiven = {} /\ line.command # <<>> THEN {"SingleService"} ELSE ModesGiven)
           = IF mode = "Undefined" THEN {} ELSE {mode}
    <3>1. CASE options.mode = "Undefined"
      BY <2>2, <3>1 DEF ModeWith
    <3>2. CASE options.mode # "Undefined"
      BY <2>2, <3>2 DEF ModeWith
    <3> QED
      BY <3>1, <3>2
  <2>5. mode \in {"Undefined", "Help", "Version", "SingleService", "MultiServices"}
    <3>1. options.mode \in {"Undefined", "Help", "Version", "SingleService", "MultiServices"}
      <4>1. ASSUME options.mode # "Undefined" PROVE options.mode \in ModesGiven
        BY <2>2, <4>1
      <4>2. \A x \in ModesGiven : \E i \in 1 .. n : x = Definitions[line.given[i].option].mode
        BY <1>1, Zenon DEF ModesGiven
      <4>3. \A i \in 1 .. n : line.given[i].option \in DOMAIN Definitions
        BY Zenon DEF IsWritten
      <4> QED
        BY <4>1, <4>2, <4>3, OptionTable, Zenon
    <3> QED
      BY <3>1 DEF ModeWith
  <2>6. /\ Cardinality({}) = 0 /\ \A x : Cardinality({x}) = 1
    BY FS_EmptySet, FS_Singleton
  <2>7. mode = "Undefined" => line.command = <<>>
    BY DEF ModeWith
  <2>8. mode # "Undefined" => Programs[mode] \notin {"none", "refused"}
    BY <2>5 DEF Programs
  <2> HIDE DEF mode
  <2>9. CASE /\ line.command = <<>> \/ mode = "SingleService"
             /\ mode # "Undefined"
             /\ options' = [options EXCEPT !.mode = mode, !.command = line.command]
             /\ program' = Programs[mode]
    <3>1. program' \notin {"none", "refused"}
      BY <2>8, <2>9
    <3>2. /\ options'.mode = mode /\ options'.command = line.command
          /\ options'.serviceName = options.serviceName /\ options'.configFile = options.configFile
          /\ options'.logLevel = options.logLevel /\ options'.logger = options.logger
      BY <2>9 DEF DefaultOptions
    <3>3. ModesGiven' = ModesGiven
      BY <2>3, Zenon DEF ModesGiven
    <3>4. (IF ModesGiven = {} /\ line.command # <<>> THEN {"SingleService"} ELSE ModesGiven) = {mode}
      BY <2>4, <2>9
    <3>5. ModeOfOptions'
      <4>1. line' = line /\ options'.mode = mode /\ mode # "Undefined" /\ program' # "refused"
        BY <2>3, <2>9, <3>1, <3>2
      <4>2. line.command # <<>> => {mode} = {"SingleService"}
        BY <2>9
      <4> QED
        BY <2>1, <2>6, <3>3, <3>4, <4>1, <4>2, Zenon DEF ModeOfOptions
    <3>6. ASSUME NEW option, NEW default
          PROVE  LastGiven(option, default)' = LastUpTo(n, option, default)
      BY <1>1, <2>3, Zenon DEF LastGiven, GivenAt, LastUpTo
    <3>7. CommandIntact'
      <4>1. ValuesUpTo(n)
        BY DEF ReadUpTo
      <4>2. ASSUME GivenAt("log")' # {}
            PROVE  LastGiven("log", <<>>)' = LastGiven("log", <<DefaultOptions.logLevel>>)'
        BY <4>2, Zenon DEF LastGiven
      <4>3. GivenAt("log")' # {} => <<options'.logLevel>> = Lower(LastGiven("log", <<>>)')
        BY <3>2, <3>6, <4>1, <4>2 DEF ValuesUpTo
      <4> QED
        BY <2>3, <3>2, <3>6, <4>1, <4>3 DEF ValuesUpTo, CommandIntact
    <3> QED
      BY <2>3, <3>1, <3>5, <3>7
  <2>10. CASE /\ mode = "Undefined" \/ (line.command # <<>> /\ mode # "SingleService")
              /\ program' = "refused"
    <3>1. ModesGiven' = ModesGiven
      BY <2>3, Zenon DEF ModesGiven
    <3>2. ~Valid
      <4>1. CASE mode = "Undefined"
        <5>1. Cardinality(IF ModesGiven = {} /\ line.command # <<>> THEN {"SingleService"} ELSE ModesGiven) = 0
          BY <2>4, <2>6, <4>1, Zenon
        <5> QED
          BY <5>1
      <4>2. CASE line.command # <<>> /\ mode # "SingleService" /\ mode # "Undefined"
        BY <2>4, <4>2
      <4> QED
        BY <2>10, <4>1, <4>2
    <3> QED
      BY <2>3, <2>10, <3>1, <3>2 DEF ModeOfOptions, CommandIntact
  <2> QED
    BY <2>3, <2>9, <2>10
<1>5. \/ /\ IsCommand(line, line.starts[n + 1])
         /\ line.valid <=> \A i \in 1 .. n : ArgumentAllowed(line.given[i])
      \/ NoOption(line, line.starts[n + 1]) /\ ~line.valid
  BY Zenon DEF IsWritten
<1> QED
  BY <1>3, <1>4, <1>5

\* Every option that is read keeps it.
LEMMA OptionsStep == OptionsInv /\ ReadOptions => OptionsInv'
<1> SUFFICES ASSUME OptionsInv, ReadOptions PROVE OptionsInv'
  OBVIOUS
<1>1. FromArgs /\ program = "none" /\ IsWritten(line)
  BY DEF ReadOptions, FromArgs, ShortOption, LongOption, RemainingArgs, OptionsInv
<1>2. PICK n \in 0 .. Len(line.given) : ReadUpTo(n)
  BY <1>1 DEF OptionsInv
<1>3. DOMAIN options = DOMAIN DefaultOptions
  BY <1>1 DEF OptionsInv
<1>4. Len(line.given) \in Nat
  BY <1>1 DEF IsWritten
<1>5. CASE n = Len(line.given)
  <2>1. UNCHANGED line /\ program' # "none" /\ ModeOfOptions' /\ CommandIntact'
    BY <1>1, <1>2, <1>3, <1>5, LineEnds
  <2> QED
    BY <1>1, <2>1 DEF OptionsInv
<1>6. CASE n < Len(line.given)
  <2>1. n \in Nat /\ n + 1 \in 0 .. Len(line.given)
    BY <1>4, <1>6
  <2>2. /\ UNCHANGED line
        /\ \/ UNCHANGED program /\ ReadUpTo(n + 1)' /\ DOMAIN options' = DOMAIN DefaultOptions
           \/ program' = "refused" /\ (~line.valid \/ TwoModes)
    BY <1>1, <1>2, <1>3, <1>6, <2>1, OneOptionRead
  <2>3. CASE UNCHANGED program /\ ReadUpTo(n + 1)' /\ DOMAIN options' = DOMAIN DefaultOptions
    <3>1. program' = "none" /\ IsWritten(line') /\ n + 1 \in 0 .. Len(line'.given)
      BY <1>1, <2>1, <2>2, <2>3
    <3> QED
      BY <2>3, <3>1 DEF OptionsInv, ModeOfOptions, CommandIntact
  <2>4. CASE program' = "refused" /\ (~line.valid \/ TwoModes)
    <3>1. ModesGiven' = ModesGiven
      BY <2>2, Zenon DEF ModesGiven
    <3>2. ModeOfOptions'
      <4>1. CASE ~line.valid
        BY <2>2, <2>4, <3>1, <4>1 DEF ModeOfOptions
      <4>2. CASE TwoModes
        <5>1. (IF ModesGiven = {} /\ line.command # <<>> THEN {"SingleService"} ELSE ModesGiven) = ModesGiven
          BY <4>2 DEF TwoModes
        <5> QED
          BY <2>2, <2>4, <3>1, <4>2, <5>1, Zenon DEF ModeOfOptions, TwoModes
      <4> QED
        BY <2>4, <4>1, <4>2
    <3> QED
      BY <1>1, <2>2, <2>4, <3>2 DEF OptionsInv, CommandIntact
  <2> QED
    BY <2>2, <2>3, <2>4
<1> QED
  BY <1>4, <1>5, <1>6

LEMMA OptionsRead == Spec => []OptionsInv
<1>1. OptionsInv /\ UNCHANGED reading => OptionsInv'
  <2> SUFFICES ASSUME OptionsInv, UNCHANGED reading PROVE OptionsInv'
    OBVIOUS
  <2>1. UNCHANGED line /\ UNCHANGED optind /\ UNCHANGED subopt /\ UNCHANGED options /\ UNCHANGED program
    BY DEF reading
  <2>2. ASSUME NEW n PROVE ReadUpTo(n)' <=> ReadUpTo(n)
    <3>1. ModesUpTo(n)' = ModesUpTo(n) /\ \A option, default : LastUpTo(n, option, default)' = LastUpTo(n, option, default)
      BY <2>1, Zenon DEF ModesUpTo, LastUpTo
    <3>2. ValuesUpTo(n)' <=> ValuesUpTo(n)
      BY <2>1, <3>1 DEF ValuesUpTo
    <3> QED
      BY <2>1, <3>1, <3>2 DEF ReadUpTo
  <2>3. /\ ModesGiven' = ModesGiven
        /\ \A option, default : LastGiven(option, default)' = LastGiven(option, default)
        /\ \A option : GivenAt(option)' = GivenAt(option)
    BY <2>1, Zenon DEF ModesGiven, LastGiven, GivenAt
  <2>4. ModeOfOptions'
    BY <2>1, <2>3 DEF OptionsInv, ModeOfOptions
  <2>5. CommandIntact'
    BY <2>1, <2>3 DEF OptionsInv, CommandIntact
  <2> QED
    BY <2>1, <2>2, <2>4, <2>5 DEF OptionsInv
<1>2. OptionsInv /\ [Next]_vars => OptionsInv'
  <2>1. CASE ReadOptions
    BY <2>1, OptionsStep
  <2>2. CASE FromOptions \/ ParseDocument \/ ParseServices \/ AddService \/ Construct
             \/ ConstructorThrows \/ InsertService \/ UNCHANGED vars
    <3>1. UNCHANGED reading
      BY <2>2 DEF FromOptions, ParseDocument, ParseServices, AddService, Construct,
                  ConstructorThrows, InsertService, vars
    <3> QED
      BY <1>1, <3>1
  <2> QED
    BY <2>1, <2>2 DEF Next
<1> QED
  BY <1>2, OptionsStart, PTL DEF Spec

\* For every command line, in any order and spelling of its options: the program that is
\* run is that of the mode they agree on, and a line is refused if they do not, or an
\* option or its argument is none that exists.  No other line is refused, but perhaps one
\* for a single service that has no command.
THEOREM ModeAgreed == Spec => []ModeOfOptions
BY OptionsRead, PTL DEF OptionsInv

\* For every command line that is accepted the service gets its command as it stands
\* there, and each setting is the last that was given, or the default (of the level of
\* the log only what was given).
THEOREM CommandKept == Spec => []CommandIntact
BY OptionsRead, PTL DEF OptionsInv
=============================================================================
