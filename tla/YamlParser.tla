----------------------------- MODULE YamlParser -----------------------------
(***************************************************************************)
(* YAML::Load: Parser and SingleDocParser take the tokens of the scanner   *)
(* one by one, asking it for more only when they need one, and tell the    *)
(* NodeBuilder what they find.  The calls that are open are the stack      *)
(* frames; each step looks at one token.  Only the first document of a     *)
(* text is read.                                                           *)
(***************************************************************************)
EXTENDS YamlTokens, NodeBuilder

CONSTANT MaxDepth   \* of HandleNode in itself, 500 in the code

VARIABLES
    frames,
    directives,
    anchors,      \* m_anchors: the number of the last anchor of each name
    curAnchor,    \* the last number given
    builder,
    outcome       \* "none" while it goes on, "loaded", or the exception

parser == <<frames, directives, anchors, curAnchor, builder, outcome>>

Frame(kind) == [kind |-> kind]
Node == [kind |-> "Node", fresh |-> TRUE, tag |-> <<>>, anchor |-> NoAnchor]

Caller == Last(frames)
Open(kind) == frames # <<>> /\ Caller.kind = kind

\* Mutant: the front token is taken as it is found.
Parsing_Unverified(kind) ==
    outcome = "none" /\ Open(kind) /\ scanner.branch = "none" /\ scanner.error = "none"

Parsing(kind) ==
    /\ outcome = "none" /\ Open(kind)
    /\ scanner.branch = "none" /\ scanner.error = "none" /\ Ensured(scanner)

Refuse(what) == outcome' = what /\ UNCHANGED <<frames, directives, anchors, curAnchor, builder, scanner>>

\* The caller goes on as kind; or it does so when a node is parsed.
GoOn(kind)     == frames' = Append(Front(frames), Frame(kind))
CallNode(kind) == frames' = Front(frames) \o <<Frame(kind), Node>>
Return         == frames' = Front(frames)

-----------------------------------------------------------------------------
(* Parser::HandleNextDocument                                              *)

\* The version of a YAML directive: two numbers and one character between.
Version(param) == Len(param) = 3 /\ Digit(param[1]) /\ Digit(param[3])

DirectiveError(name, params) ==
    CASE name = <<"YAML">> ->
            IF Len(params) # 1 THEN "YAML_DIRECTIVE_ARGS"
            ELSE IF directives.version THEN "REPEATED_YAML_DIRECTIVE"
            ELSE IF ~Version(params[1]) THEN "YAML_VERSION"
            ELSE IF params[1][1] \notin {"0", "1"} THEN "YAML_MAJOR_VERSION" ELSE "none"
      [] name = <<"TAG">> ->
            IF Len(params) # 2 THEN "TAG_DIRECTIVE_ARGS"
            ELSE IF params[1] \in DOMAIN directives.tags THEN "REPEATED_TAG_DIRECTIVE" ELSE "none"
      [] OTHER -> "none"

ParseDirective ==
    LET name   == Peek.value.name
        params == Peek.value.params
    IN  /\ Parsing("Directives") /\ At("DIRECTIVE")
        /\ IF DirectiveError(name, params) # "none" THEN Refuse(DirectiveError(name, params))
           ELSE /\ directives' = CASE name = <<"YAML">> -> [directives EXCEPT !.version = TRUE]
                                   [] name = <<"TAG">> -> [directives EXCEPT
                                        !.tags = [handle \in DOMAIN @ \cup {params[1]} |->
                                            IF handle = params[1] THEN params[2] ELSE @[handle]]]
                                   [] OTHER -> directives
                /\ PopToken
                /\ UNCHANGED <<frames, anchors, curAnchor, builder, outcome>>

BeginDocument ==
    /\ Parsing("Directives") /\ ~At("DIRECTIVE")
    /\ IF Empty THEN outcome' = "loaded" /\ UNCHANGED frames ELSE CallNode("Document") /\ UNCHANGED outcome
    /\ IF At("DOC_START") THEN PopToken ELSE KeepToken
    /\ UNCHANGED <<directives, anchors, curAnchor, builder>>

EndDocument ==
    /\ Parsing("Document")
    /\ IF At("DOC_END") THEN PopToken /\ UNCHANGED outcome ELSE outcome' = "loaded" /\ KeepToken
    /\ UNCHANGED <<frames, directives, anchors, curAnchor, builder>>

-----------------------------------------------------------------------------
(* HandleNode                                                              *)

\* DepthGuard: the calls of HandleNode that are open; a collection is in one of its own.
Depth == Len(frames) - 1

NodeTooDeep == Parsing("Node") /\ Caller.fresh /\ Depth >= MaxDepth /\ Refuse("BAD_FILE")

HandleNode == Parsing("Node") /\ (Caller.fresh => Depth < MaxDepth)

\* The node is complete.
Handled(b) ==
    builder' = b /\ Return /\ UNCHANGED <<directives, anchors, curAnchor, outcome>>

\* The node is a collection, to be filled by the frames put in its place.
Begins(b, rest) ==
    /\ builder' = b /\ frames' = Front(frames) \o rest
    /\ UNCHANGED <<directives, anchors, curAnchor, outcome>>

EmptyNode == HandleNode /\ Empty /\ Handled(OnNull(builder, Caller.anchor)) /\ KeepToken

\* A value by itself is a map with a null key.
ValueNode ==
    /\ HandleNode /\ Caller.fresh /\ At("VALUE")
    /\ Begins(OnNull(OnMapStart(builder, NoAnchor), NoAnchor), <<Frame("CompactEnd"), Node>>)
    /\ PopToken

AliasNode ==
    /\ HandleNode /\ Caller.fresh /\ At("ALIAS")
    /\ IF Peek.value \in DOMAIN anchors
       THEN Handled(OnAlias(builder, anchors[Peek.value])) /\ PopToken
       ELSE Refuse("UNKNOWN_ANCHOR")

TagPrefix(handle) ==
    IF handle \in DOMAIN directives.tags THEN directives.tags[handle]
    ELSE IF handle = <<"!", "!">> THEN <<"tag:yaml.org,2002:">> ELSE handle

Translate(tag) ==
    CASE tag.type = "VERBATIM"         -> tag.value
      [] tag.type = "PRIMARY_HANDLE"   -> TagPrefix(<<"!">>) \o tag.value
      [] tag.type = "SECONDARY_HANDLE" -> TagPrefix(<<"!", "!">>)
      [] tag.type = "NAMED_HANDLE"     -> TagPrefix(<<"!">> \o tag.value \o <<"!">>) \o tag.suffix
      [] tag.type = "NON_SPECIFIC"     -> <<"!">>

WithProperty(node) ==
    frames' = Append(Front(frames), node) /\ UNCHANGED <<directives, builder, outcome>>

ParseTag ==
    /\ HandleNode /\ At("TAG")
    /\ IF Caller.tag # <<>> THEN Refuse("MULTIPLE_TAGS")
       ELSE /\ WithProperty([Caller EXCEPT !.fresh = FALSE, !.tag = Translate(Peek.value)])
            /\ PopToken /\ UNCHANGED <<anchors, curAnchor>>

\* Numbers are given in order, to a name used again too: the last one counts.
ParseAnchor ==
    /\ HandleNode /\ At("ANCHOR")
    /\ IF Caller.anchor # NoAnchor THEN Refuse("MULTIPLE_ANCHORS")
       ELSE /\ curAnchor' = curAnchor + 1
            /\ anchors' = [name \in DOMAIN anchors \cup {Peek.value} |->
                             IF name = Peek.value THEN curAnchor' ELSE anchors[name]]
            /\ WithProperty([Caller EXCEPT !.fresh = FALSE, !.anchor = curAnchor'])
            /\ PopToken

\* IsNullString; the empty one is not a plain scalar's.
NullStrings == {<<>>, <<"~">>, <<"null">>, <<"Null">>, <<"NULL">>}

DefaultTag == IF Caller.tag # <<>> THEN Caller.tag ELSE IF At("NON_PLAIN_SCALAR") THEN <<"!">> ELSE <<"?">>

ReadsAsNull == At("PLAIN_SCALAR") /\ DefaultTag = <<"?">> /\ Peek.value \in NullStrings

Scalar_Node ==
    /\ HandleNode /\ AtOneOf({"PLAIN_SCALAR", "NON_PLAIN_SCALAR"})
    /\ Handled(IF ReadsAsNull THEN OnNull(builder, Caller.anchor)
               ELSE OnScalar(builder, Caller.anchor, Peek.value))
    /\ PopToken

SequenceNode ==
    /\ HandleNode /\ AtOneOf({"BLOCK_SEQ_START", "FLOW_SEQ_START"})
    /\ Begins(OnSequenceStart(builder, Caller.anchor),
              <<Frame(IF At("BLOCK_SEQ_START") THEN "BlockSeq" ELSE "FlowSeq")>>)
    /\ PopToken

MapNode ==
    /\ HandleNode /\ AtOneOf({"BLOCK_MAP_START", "FLOW_MAP_START"})
    /\ Begins(OnMapStart(builder, Caller.anchor),
              <<Frame(IF At("BLOCK_MAP_START") THEN "BlockMap" ELSE "FlowMap")>>)
    /\ PopToken

\* The collection the node is in is a flow sequence (m_pCollectionStack).
InFlowSeq == frames[Len(frames) - 1].kind = "FlowSeqNext"

CompactMapNode ==
    /\ HandleNode /\ At("KEY") /\ InFlowSeq
    /\ Begins(OnMapStart(builder, Caller.anchor), <<Frame("CompactValue"), Node>>)
    /\ PopToken

\* The token is not of this node: it is null, or empty if it has a tag.
MissingNode ==
    /\ HandleNode /\ ~Empty
    /\ ~AtOneOf({"TAG", "ANCHOR", "PLAIN_SCALAR", "NON_PLAIN_SCALAR", "BLOCK_SEQ_START",
                 "FLOW_SEQ_START", "BLOCK_MAP_START", "FLOW_MAP_START"})
    /\ ~(Caller.fresh /\ AtOneOf({"VALUE", "ALIAS"}))
    /\ ~(At("KEY") /\ InFlowSeq)
    /\ Handled(IF DefaultTag = <<"?">> THEN OnNull(builder, Caller.anchor)
               ELSE OnScalar(builder, Caller.anchor, <<>>))
    /\ KeepToken

-----------------------------------------------------------------------------
(* Collections                                                             *)

Elsewhere == UNCHANGED <<directives, anchors, curAnchor, outcome>>

EndOf(b) == Return /\ builder' = b /\ PopToken /\ Elsewhere

ParseBlockSeq ==
    /\ Parsing("BlockSeq")
    /\ IF At("BLOCK_SEQ_END") THEN EndOf(OnSequenceEnd(builder))
       ELSE IF At("BLOCK_ENTRY") THEN GoOn("BlockSeqEntry") /\ PopToken /\ UNCHANGED builder /\ Elsewhere
       ELSE Refuse("END_OF_SEQ")

\* An entry without a node is null.
ParseBlockSeqEntry ==
    /\ Parsing("BlockSeqEntry")
    /\ IF AtOneOf({"BLOCK_ENTRY", "BLOCK_SEQ_END"})
       THEN GoOn("BlockSeq") /\ builder' = OnNull(builder, NoAnchor)
       ELSE CallNode("BlockSeq") /\ UNCHANGED builder
    /\ KeepToken /\ Elsewhere

ParseFlowSeq ==
    /\ Parsing("FlowSeq")
    /\ IF Empty THEN Refuse("END_OF_SEQ_FLOW")
       ELSE IF At("FLOW_SEQ_END") THEN EndOf(OnSequenceEnd(builder))
       ELSE CallNode("FlowSeqNext") /\ KeepToken /\ UNCHANGED builder /\ Elsewhere

\* The separator of the entries of a flow collection, or its end, which is left there.
ParseSeparator(kind, next, end, error) ==
    /\ Parsing(kind)
    /\ IF AtOneOf({"FLOW_ENTRY", end})
       THEN /\ GoOn(next) /\ UNCHANGED builder /\ Elsewhere
            /\ IF At("FLOW_ENTRY") THEN PopToken ELSE KeepToken
       ELSE Refuse(error)

ParseBlockMap ==
    /\ Parsing("BlockMap")
    /\ IF At("BLOCK_MAP_END") THEN EndOf(OnMapEnd(builder))
       ELSE IF At("KEY") THEN CallNode("BlockMapValue") /\ PopToken /\ UNCHANGED builder /\ Elsewhere
       ELSE IF At("VALUE")
       THEN GoOn("BlockMapValue") /\ builder' = OnNull(builder, NoAnchor) /\ KeepToken /\ Elsewhere
       ELSE Refuse("END_OF_MAP")

ParseFlowMap ==
    /\ Parsing("FlowMap")
    /\ IF Empty THEN Refuse("END_OF_MAP_FLOW")
       ELSE IF At("FLOW_MAP_END") THEN EndOf(OnMapEnd(builder))
       ELSE IF At("KEY") THEN CallNode("FlowMapValue") /\ PopToken /\ UNCHANGED builder /\ Elsewhere
       ELSE GoOn("FlowMapValue") /\ builder' = OnNull(builder, NoAnchor) /\ KeepToken /\ Elsewhere

\* The value of a key, null if there is none; then the map goes on.
ParseValue(kind, next) ==
    /\ Parsing(kind)
    /\ IF At("VALUE") THEN CallNode(next) /\ PopToken /\ UNCHANGED builder
       ELSE GoOn(next) /\ builder' = OnNull(builder, NoAnchor) /\ KeepToken
    /\ Elsewhere

EndCompactMap ==
    /\ Parsing("CompactEnd")
    /\ Return /\ builder' = OnMapEnd(builder) /\ KeepToken /\ Elsewhere

-----------------------------------------------------------------------------

\* The scanner's exception ends the load.
ScannerThrows ==
    /\ outcome = "none" /\ scanner.error # "none"
    /\ Refuse(scanner.error)

HandleDocument ==
    \/ ParseDirective \/ BeginDocument \/ EndDocument
    \/ NodeTooDeep \/ EmptyNode \/ ValueNode \/ AliasNode \/ ParseTag \/ ParseAnchor
    \/ Scalar_Node \/ SequenceNode \/ MapNode \/ CompactMapNode \/ MissingNode
    \/ ParseBlockSeq \/ ParseBlockSeqEntry \/ ParseFlowSeq \/ ParseBlockMap \/ ParseFlowMap
    \/ ParseSeparator("FlowSeqNext", "FlowSeq", "FLOW_SEQ_END", "END_OF_SEQ_FLOW")
    \/ ParseSeparator("FlowMapNext", "FlowMap", "FLOW_MAP_END", "END_OF_MAP_FLOW")
    \/ ParseValue("BlockMapValue", "BlockMap") \/ ParseValue("FlowMapValue", "FlowMapNext")
    \/ ParseValue("CompactValue", "CompactEnd")
    \/ EndCompactMap \/ ScannerThrows

ParserInit ==
    /\ frames = <<Frame("Directives")>>
    /\ directives = [version |-> FALSE, tags |-> [handle \in {} |-> handle]]
    /\ anchors = [name \in {} |-> NoAnchor] /\ curAnchor = NoAnchor
    /\ builder = NewBuilder

parsing == <<frames, directives, anchors, curAnchor, builder>>

\* Whatever tokens there are: the parser alone.
ParserSpec == ParserInit /\ [][HandleDocument]_parsing

-----------------------------------------------------------------------------
(* Properties                                                              *)

\* The calls of collections that are open stand above the document's and below the
\* node's that has just been called.
Collections == 1 .. (Len(frames) - 1 - (IF Open("Node") THEN 1 ELSE 0))

ItemCalls  == {"BlockSeq", "BlockSeqEntry", "FlowSeq", "FlowSeqNext"}
ValueCalls == {"BlockMapValue", "FlowMapValue", "CompactValue"}   \* the next is the value

\* What an open collection is to get next: an item; or a key, the end of a key that
\* is a collection itself, or the value to a key.
Phase(i) ==
    LET call == frames[i + 1].kind
        last == i + 1 = Len(frames)
    IN  IF call \in ItemCalls THEN "item"
        ELSE IF call \notin ValueCalls THEN IF last THEN "key" ELSE "value"
        ELSE IF last THEN "value"
        ELSE IF frames[i + 2].kind = "Node" THEN "key" ELSE "key_end"

HasKey(i) == Phase(i) \in {"key_end", "value"}

\* The builder learns of collections, keys and values only from the order of events:
\* it always has the collections open that the parser is in, and a key waits for its
\* value in those maps, and those only, in which the parser is behind a key.
BuilderFollowsParser ==
    /\ DOMAIN builder.stack = Collections
    /\ \A i \in Collections :
          builder.nodes[builder.stack[i]].kind = IF Phase(i) = "item" THEN "Sequence" ELSE "Map"
    /\ builder.mapDepth = Cardinality({i \in Collections : Phase(i) # "item"})
    /\ Len(builder.keys) = Cardinality({i \in Collections : HasKey(i)})
    /\ \A i \in Collections : HasKey(i) =>
          (builder.keys[Cardinality({j \in 1 .. i : HasKey(j)})].complete <=> Phase(i) = "value")

\* Parser and builder count anchors each by itself, and an alias is looked up in the
\* builder by the parser's number: they differ by the anchor of the node that is
\* just beginning, which no alias can name before its node is there.
AnchorsRegistered ==
    /\ curAnchor = Len(builder.anchors) +
                   (IF Open("Node") /\ Caller.anchor # NoAnchor THEN 1 ELSE 0)
    /\ \A name \in DOMAIN anchors : anchors[name] <= curAnchor
=============================================================================
