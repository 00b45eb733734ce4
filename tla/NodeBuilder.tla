---------------------------- MODULE NodeBuilder ----------------------------
(***************************************************************************)
(* YAML::NodeBuilder: the parser's events into nodes.  The collections     *)
(* that are open are on a stack, and a pair of a map waits in keys until   *)
(* its value is complete.                                                  *)
(***************************************************************************)
EXTENDS Nodes

NewBuilder ==
    [nodes |-> <<>>, stack |-> <<>>, keys |-> <<>>, mapDepth |-> 0,
     anchors |-> <<>>,    \* m_anchors without the one of number 0
     root |-> 0]

NoAnchor == 0

Top(b) == Last(b.stack)
TypeOfTop(b) == b.nodes[Top(b)].kind

NeedsKey(b) == b.stack # <<>> /\ TypeOfTop(b) = "Map" /\ Len(b.keys) < b.mapDepth

PushNode(b, id) ==
    [b EXCEPT !.stack = Append(@, id),
              !.keys = IF NeedsKey(b) THEN Append(@, [key |-> id, complete |-> FALSE]) ELSE @]

\* Mutant: the anchor of a collection's node is not registered before it is complete.
PushNew_Unregistered(b, anchor) ==
    PushNode([b EXCEPT !.nodes = create_node(@)], Len(b.nodes) + 1)

PushNew(b, anchor) ==
    LET id == Len(b.nodes) + 1
    IN  PushNode([b EXCEPT !.nodes = create_node(@),
                           !.anchors = IF anchor = NoAnchor THEN @ ELSE Append(@, id)], id)

\* The last key, which was a node itself until now.
KeyCompleted(keys) == [keys EXCEPT ![Len(keys)].complete = TRUE]

\* A complete node becomes an item, a key or a value of the collection that is now on
\* top, or the root.
Joined(b, id) ==
    IF b.stack = <<>> THEN [b EXCEPT !.root = id]
    ELSE IF TypeOfTop(b) = "Sequence" THEN [b EXCEPT !.nodes = push_back(@, Top(b), id)]
    ELSE IF ~Last(b.keys).complete THEN [b EXCEPT !.keys = KeyCompleted(@)]
    ELSE [b EXCEPT !.nodes = insert(@, Top(b), Last(b.keys).key, id), !.keys = Front(@)]

Pop(b) == Joined([b EXCEPT !.stack = Front(@)], Top(b))

WithType(b, type) == [b EXCEPT !.nodes = set_type(@, Top(b), type)]

OnNull(b, anchor) ==
    LET c == PushNew(b, anchor) IN Pop([c EXCEPT !.nodes = set_null(@, Top(c))])
OnScalar(b, anchor, value) ==
    LET c == PushNew(b, anchor) IN Pop([c EXCEPT !.nodes = set_scalar(@, Top(c), value)])
OnAlias(b, anchor) == Pop(PushNode(b, b.anchors[anchor]))

OnSequenceStart(b, anchor) == WithType(PushNew(b, anchor), "Sequence")
OnSequenceEnd(b) == Pop(b)

\* Mutant: the depth counts the map before its node is pushed.
OnMapStart_CountsFirst(b, anchor) == WithType(PushNew([b EXCEPT !.mapDepth = @ + 1], anchor), "Map")

\* The depth counts the map after its own node is pushed.
OnMapStart(b, anchor) == [WithType(PushNew(b, anchor), "Map") EXCEPT !.mapDepth = @ + 1]
OnMapEnd(b) == Pop([b EXCEPT !.mapDepth = @ - 1])
=============================================================================
