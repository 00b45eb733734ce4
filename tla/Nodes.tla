------------------------------- MODULE Nodes -------------------------------
(***************************************************************************)
(* The nodes of a YAML document (memory, node and node_data), known by     *)
(* their number, so that an alias is the node itself.  A node is undefined *)
(* until something is put into it.  Looking up a key in a node that is not *)
(* const adds the key, with an undefined value.  Tags, styles and marks    *)
(* are left out: Atone reads none of them.  So are the pairs a container   *)
(* keeps to learn when a value is defined later: none of Atone's ever is.  *)
(***************************************************************************)
EXTENDS Naturals, Sequences, SequencesExt

UndefinedNode  == [kind |-> "Undefined"]
NullNode       == [kind |-> "Null"]
ScalarNode(v)  == [kind |-> "Scalar", value |-> v]
EmptySequence  == [kind |-> "Sequence", items |-> <<>>]
EmptyMap       == [kind |-> "Map", entries |-> <<>>]

IsDefined(nodes, id) == nodes[id].kind # "Undefined"

create_node(nodes) == Append(nodes, UndefinedNode)

set_null(nodes, id)      == [nodes EXCEPT ![id] = NullNode]
set_scalar(nodes, id, v) == [nodes EXCEPT ![id] = ScalarNode(v)]

\* To the type a node has, set_type changes nothing; to another, it empties the node.
set_type(nodes, id, type) ==
    IF nodes[id].kind = type THEN nodes
    ELSE [nodes EXCEPT ![id] = IF type = "Sequence" THEN EmptySequence ELSE EmptyMap]

push_back(nodes, id, item)    == [nodes EXCEPT ![id].items = Append(@, item)]
insert(nodes, id, key, value) == [nodes EXCEPT ![id].entries = Append(@, <<key, value>>)]

\* The items up to the first that is undefined.
Items(nodes, id) ==
    LET items == nodes[id].items
        n     == SelectInSeq(items, LAMBDA item : ~IsDefined(nodes, item))
    IN  IF n = 0 THEN items ELSE SubSeq(items, 1, n - 1)

\* Mutant: the iterator stops at every pair.
Pairs_All(nodes, id) == nodes[id].entries

\* What the iterator of a map stops at.
Pairs(nodes, id) ==
    SelectSeq(nodes[id].entries,
              LAMBDA pair : IsDefined(nodes, pair[1]) /\ IsDefined(nodes, pair[2]))

\* get of a const node: the value behind the first such key, 0 if there is none.
Get(nodes, id, key) ==
    IF nodes[id].kind # "Map" THEN 0
    ELSE LET n == SelectInSeq(nodes[id].entries, LAMBDA pair : nodes[pair[1]] = ScalarNode(key))
         IN  IF n = 0 THEN 0 ELSE nodes[id].entries[n][2]

\* get of a map that is not const.
GetOrInsert(nodes, id, key) ==
    IF Get(nodes, id, key) # 0 THEN nodes
    ELSE LET k == Len(nodes) + 1
         IN  insert(create_node(set_scalar(create_node(nodes), k, key)), id, k, k + 1)
=============================================================================
