----------------------------- MODULE ConfigFile -----------------------------
(***************************************************************************)
(* YamlConfigParser::ParseDocument on the nodes of a loaded file: the      *)
(* settings are looked up in it, which may add a key to the document, and  *)
(* then its services are listed.  Configuration has what becomes of them.  *)
(***************************************************************************)
EXTENDS YamlFile

VARIABLES
    stage,     \* "load", "settings", "services", "listed" or "refused"
    workdir,   \* settings.workdir, <<>> if there is none
    listed     \* the names and the nodes of the services

reads == <<stage, workdir, listed>>
config_vars == <<vars, reads>>

nodes == builder.nodes
Kind(id) == IF id = 0 THEN "Undefined" ELSE nodes[id].kind

ConfigInit == Init /\ stage = "load" /\ workdir = <<>> /\ listed = <<>>

LoadFile ==
    /\ stage = "load"
    /\ IF outcome = "loaded" THEN stage' = "settings" /\ UNCHANGED <<vars, workdir, listed>>
       ELSE Next /\ UNCHANGED reads

\* A text without a document is a null node, in which nothing is found; a scalar throws.
Document == builder.root
Found(key) == IF Document = 0 THEN 0 ELSE Get(nodes, Document, <<key>>)
DocumentThrows == Kind(Document) = "Scalar"

\* settings_node is no const node: the lookup of workdir in it adds the key.
ReadSettings ==
    /\ stage = "settings"
    /\ IF DocumentThrows THEN stage' = "refused" /\ UNCHANGED <<builder, workdir>>
       ELSE IF Kind(Found("settings")) # "Map"
       THEN stage' = "services" /\ UNCHANGED <<builder, workdir>>
       ELSE LET after == GetOrInsert(nodes, Found("settings"), <<"workdir">>)
                value == after[Get(after, Found("settings"), <<"workdir">>)]
            IN  /\ stage' = "services"
                /\ builder' = [builder EXCEPT !.nodes = after]
                /\ workdir' = IF value.kind = "Scalar" THEN value.value ELSE <<>>
    /\ UNCHANGED <<file, steps, text, scanner, frames, directives, anchors, curAnchor, outcome, listed>>

\* as<std::string> of the keys; it throws for a collection.
Names(pairs) ==
    [i \in DOMAIN pairs |->
        IF Kind(pairs[i][1]) = "Null" THEN <<"null">> ELSE nodes[pairs[i][1]].value]
\* Mutant: a null key has no string.
Named_ScalarsOnly(pairs) == \A i \in DOMAIN pairs : Kind(pairs[i][1]) = "Scalar"

Named(pairs) == \A i \in DOMAIN pairs : Kind(pairs[i][1]) \in {"Null", "Scalar"}

ListServices ==
    LET services == Found("services")
        pairs    == IF Kind(services) = "Map" THEN Pairs(nodes, services) ELSE <<>>
    IN  /\ stage = "services"
        /\ IF Kind(services) = "Map" /\ Named(pairs)
           THEN /\ stage' = "listed"
                /\ listed' = [i \in DOMAIN pairs |-> <<Names(pairs)[i], pairs[i][2]>>]
           ELSE stage' = "refused" /\ UNCHANGED listed
        /\ UNCHANGED <<vars, workdir>>

ConfigNext ==
    \/ LoadFile \/ ReadSettings \/ ListServices
    \/ stage \in {"listed", "refused"} /\ UNCHANGED config_vars

ConfigSpec == ConfigInit /\ [][ConfigNext]_config_vars

-----------------------------------------------------------------------------
(* Properties                                                              *)

Entries(document, key) ==
    IF document.kind # "Map" THEN <<>>
    ELSE SelectSeq(document.entries, LAMBDA entry : entry[1] = ScalarNode(<<key>>))

WrittenWorkdir ==
    LET settings == Entries(file.document, "settings")
        workdirs == IF settings = <<>> THEN <<>> ELSE Entries(settings[1][2], "workdir")
    IN  IF workdirs # <<>> /\ workdirs[1][2].kind = "Scalar" THEN workdirs[1][2].value ELSE <<>>

\* The services listed are those written under services, each once for each time it
\* is written there, in the order of the file and with what is written behind it: also
\* when the settings share a node with them, to which the lookup of workdir adds a key.
ReadAsWritten ==
    stage = "listed" /\ file.document # Unwritten =>
        LET services == Entries(file.document, "services")[1][2]
        IN  /\ services.kind = "Map"
            /\ [i \in DOMAIN listed |-> <<listed[i][1], Tree(listed[i][2])>>]
               = [i \in DOMAIN services.entries |->
                     <<IF services.entries[i][1] = NullNode THEN <<"null">>
                       ELSE services.entries[i][1].value, services.entries[i][2]>>]
            /\ workdir = WrittenWorkdir

\* A document is refused for its services only: it is no map, has none, or there is one
\* with a collection for a name.
RefusedForServices ==
    stage = "refused" /\ file.document # Unwritten =>
        LET services == Entries(file.document, "services")
        IN  \/ services = <<>>
            \/ services[1][2].kind # "Map"
            \/ \E i \in DOMAIN services[1][2].entries :
                  services[1][2].entries[i][1].kind \notin {"Null", "Scalar"}
=============================================================================
