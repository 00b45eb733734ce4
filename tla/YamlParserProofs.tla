-------------------------- MODULE YamlParserProofs --------------------------
(***************************************************************************)
(* The parser of YAML and the builder of nodes, whatever tokens there are: *)
(* the builder, which is told only of events, always has the collections   *)
(* open that the parser is in, and knows whether a map is at a key or at   *)
(* a value; and the two count the same anchors.                            *)
(***************************************************************************)
EXTENDS YamlParser, SequenceTheorems, FiniteSetTheorems, TLAPS

-----------------------------------------------------------------------------
(* Sequences of anything                                                   *)

IsSequence(s) == \E S : s \in Seq(S)

\* Append keeps what is there.
LEMMA Appended ==
    ASSUME NEW s, NEW e, IsSequence(s)
    PROVE  /\ IsSequence(Append(s, e)) /\ Len(Append(s, e)) = Len(s) + 1 /\ Len(s) \in Nat
           /\ \A i \in 1 .. Len(s) : Append(s, e)[i] = s[i]
           /\ Append(s, e)[Len(s) + 1] = e
<1>1. PICK S : s \in Seq(S)
  BY DEF IsSequence
<1> DEFINE T == S \cup {e}
<1>2. s \in Seq(T) /\ e \in T
  BY <1>1
<1> HIDE DEF T
<1>3. /\ Append(s, e) \in Seq(T) /\ Len(Append(s, e)) = Len(s) + 1 /\ Len(s) \in Nat
      /\ \A i \in 1 .. Len(s) : Append(s, e)[i] = s[i]
      /\ Append(s, e)[Len(s) + 1] = e
  BY <1>2
<1> QED
  BY <1>3 DEF IsSequence

\* What is in front of the last.
LEMMA FrontProperties ==
    ASSUME NEW S, NEW s \in Seq(S), s # <<>>
    PROVE  /\ Front(s) \in Seq(S) /\ Len(Front(s)) = Len(s) - 1 /\ Len(s) \in Nat \ {0}
           /\ \A i \in 1 .. Len(s) - 1 : Front(s)[i] = s[i]
<1> DEFINE n == Len(s) - 1
<1>1. /\ Len(s) \in Nat \ {0} /\ 1 \in Int /\ n \in Int /\ n \in Nat
      /\ \A i \in 1 .. n : s[i] \in S
  OBVIOUS
<1>2. Front(s) = SubSeq(s, 1, n)
  BY DEF Front
<1>3. n = Len(s) - 1
  OBVIOUS
<1> HIDE DEF n
<1>4. SubSeq(s, 1, n) \in Seq(S)
  BY <1>1, SubSeqProperties
<1>5. Len(SubSeq(s, 1, n)) = IF 1 <= n THEN n - 1 + 1 ELSE 0
  BY <1>1, SubSeqProperties
<1>6. \A i \in 1 .. n - 1 + 1 : SubSeq(s, 1, n)[i] = s[1 + i - 1]
  BY <1>1, SubSeqProperties
<1> QED
  BY <1>1, <1>2, <1>3, <1>4, <1>5, <1>6

\* The same of a sequence of anything.
LEMMA InFront ==
    ASSUME NEW s, IsSequence(s), s # <<>>
    PROVE  /\ IsSequence(Front(s)) /\ Len(Front(s)) = Len(s) - 1 /\ Len(s) \in Nat \ {0}
           /\ \A i \in 1 .. Len(s) - 1 : Front(s)[i] = s[i]
           /\ Last(s) = s[Len(s)]
BY FrontProperties DEF IsSequence, Last

\* Nothing and one or two elements behind the front of a sequence.
LEMMA Replaced ==
    ASSUME NEW s, NEW e, IsSequence(s), s # <<>>
    PROVE  /\ Front(s) \o <<e>> = Append(Front(s), e)
           /\ \A f : Front(s) \o <<e, f>> = Append(Append(Front(s), e), f)
<1>1. PICK S : s \in Seq(S)
  BY DEF IsSequence
<1>2. Front(s) \in Seq(S)
  BY <1>1 DEF Front
<1>3. Front(s) \o <<e>> = Append(Front(s), e)
  BY <1>2
<1>4. ASSUME NEW f PROVE Front(s) \o <<e, f>> = Append(Append(Front(s), e), f)
  BY <1>2
<1> QED
  BY <1>3, <1>4

-----------------------------------------------------------------------------
(* What the open collections are to get, and how many keys there are       *)

Phases == {"item", "key", "key_end", "value"}

\* How many of the numbers S there are up to i.
UpTo(S, i) == Cardinality({j \in 1 .. i : j \in S})

\* They are counted from the bottom, and are no fewer further up.
LEMMA CountUpTo ==
    ASSUME NEW S, NEW i \in Nat
    PROVE  /\ UpTo(S, i) \in Nat /\ UpTo(S, 0) = 0
           /\ UpTo(S, i + 1) = IF i + 1 \in S THEN UpTo(S, i) + 1 ELSE UpTo(S, i)
           /\ \A n \in Nat : i <= n => UpTo(S, i) <= UpTo(S, n)
<1> DEFINE M(k) == {j \in 1 .. k : j \in S}
<1>1. ASSUME NEW k \in Nat PROVE IsFiniteSet(M(k))
  <2>1. IsFiniteSet(1 .. k)
    BY FS_Interval
  <2>2. M(k) \in SUBSET (1 .. k)
    OBVIOUS
  <2> QED
    BY <2>1, <2>2, FS_Subset
<1>2. M(0) = {} /\ i + 1 \notin M(i)
  OBVIOUS
<1>3. i + 1 \in S => M(i + 1) = M(i) \cup {i + 1}
  OBVIOUS
<1>4. i + 1 \notin S => M(i + 1) = M(i)
  OBVIOUS
<1>5. ASSUME NEW n \in Nat, i <= n PROVE M(i) \in SUBSET M(n)
  BY <1>5
<1> HIDE DEF M
<1>6. Cardinality(M(i)) \in Nat /\ Cardinality(M(0)) = 0
  BY <1>1, <1>2, FS_CardinalityType, FS_EmptySet
<1>7. Cardinality(M(i) \cup {i + 1}) = Cardinality(M(i)) + 1
  BY <1>1, <1>2, FS_AddElement
<1>8. Cardinality(M(i + 1)) = IF i + 1 \in S THEN Cardinality(M(i)) + 1 ELSE Cardinality(M(i))
  BY <1>3, <1>4, <1>7
<1>9. ASSUME NEW n \in Nat, i <= n PROVE Cardinality(M(i)) <= Cardinality(M(n))
  BY <1>1, <1>5, <1>9, FS_Subset
<1> QED
  BY <1>6, <1>8, <1>9 DEF M, UpTo

\* Of the phases P of the open collections, the maps and the keys of the first i.
Maps(P) == {j \in Nat : P[j] # "item"}
Keys(P) == {j \in Nat : P[j] \in {"key_end", "value"}}
MapsOf(P, i) == UpTo(Maps(P), i)
KeysOf(P, i) == UpTo(Keys(P), i)

\* The maps and the keys are counted from the bottom.
LEMMA CountStep ==
    ASSUME NEW P, NEW i \in Nat
    PROVE  /\ MapsOf(P, i) \in Nat /\ KeysOf(P, i) \in Nat
           /\ MapsOf(P, 0) = 0 /\ KeysOf(P, 0) = 0
           /\ MapsOf(P, i + 1) = IF P[i + 1] # "item" THEN MapsOf(P, i) + 1 ELSE MapsOf(P, i)
           /\ KeysOf(P, i + 1) =
                IF P[i + 1] \in {"key_end", "value"} THEN KeysOf(P, i) + 1 ELSE KeysOf(P, i)
           /\ \A n \in Nat : i <= n => KeysOf(P, i) <= KeysOf(P, n)
<1>1. i + 1 \in Maps(P) <=> P[i + 1] # "item"
  BY DEF Maps
<1>2. i + 1 \in Keys(P) <=> P[i + 1] \in {"key_end", "value"}
  BY DEF Keys
<1> QED
  BY <1>1, <1>2, CountUpTo DEF MapsOf, KeysOf

\* They depend on no more than these phases.
LEMMA CountSame ==
    ASSUME NEW P, NEW Q, NEW i \in Nat, \A j \in 1 .. i : P[j] = Q[j]
    PROVE  MapsOf(P, i) = MapsOf(Q, i) /\ KeysOf(P, i) = KeysOf(Q, i)
<1>1. {j \in 1 .. i : j \in Maps(P)} = {j \in 1 .. i : j \in Maps(Q)}
  BY DEF Maps
<1>2. {j \in 1 .. i : j \in Keys(P)} = {j \in 1 .. i : j \in Keys(Q)}
  BY DEF Keys
<1> QED
  BY <1>1, <1>2 DEF MapsOf, KeysOf, UpTo

\* The key of a map is one of those counted.
LEMMA KeyCounted ==
    ASSUME NEW P, NEW i \in Nat \ {0}, P[i] \in {"key_end", "value"}
    PROVE  KeysOf(P, i) = KeysOf(P, i - 1) + 1 /\ KeysOf(P, i) \in Nat \ {0}
<1>1. i - 1 \in Nat /\ (i - 1) + 1 = i
  OBVIOUS
<1>2. /\ KeysOf(P, i - 1) \in Nat
      /\ P[(i - 1) + 1] \in {"key_end", "value"} =>
            KeysOf(P, (i - 1) + 1) = KeysOf(P, i - 1) + 1
  BY <1>1, CountStep
<1> QED
  BY <1>1, <1>2

\* If no map but the last can be without a key, the last is without one if and only
\* if there are fewer keys than maps.
LEMMA KeysMissing ==
    ASSUME NEW P, NEW n \in Nat \ {0}, \A j \in 1 .. n : P[j] \in Phases,
           \A j \in 1 .. n - 1 : P[j] # "key"
    PROVE  KeysOf(P, n) < MapsOf(P, n) <=> P[n] = "key"
<1>1. {j \in 1 .. n - 1 : j \in Maps(P)} = {j \in 1 .. n - 1 : j \in Keys(P)}
  BY DEF Phases, Maps, Keys
<1>2. MapsOf(P, n - 1) = KeysOf(P, n - 1)
  BY <1>1 DEF MapsOf, KeysOf, UpTo
<1>3. n - 1 \in Nat /\ (n - 1) + 1 = n
  OBVIOUS
<1>4. /\ MapsOf(P, n - 1) \in Nat /\ KeysOf(P, n - 1) \in Nat
      /\ MapsOf(P, n) = IF P[n] # "item" THEN MapsOf(P, n - 1) + 1 ELSE MapsOf(P, n - 1)
      /\ KeysOf(P, n) =
           IF P[n] \in {"key_end", "value"} THEN KeysOf(P, n - 1) + 1 ELSE KeysOf(P, n - 1)
  <2> DEFINE m == n - 1
  <2>1. m \in Nat /\ m + 1 = n
    OBVIOUS
  <2> HIDE DEF m
  <2>2. /\ MapsOf(P, m) \in Nat /\ KeysOf(P, m) \in Nat
        /\ MapsOf(P, m + 1) = IF P[m + 1] # "item" THEN MapsOf(P, m) + 1 ELSE MapsOf(P, m)
        /\ KeysOf(P, m + 1) =
             IF P[m + 1] \in {"key_end", "value"} THEN KeysOf(P, m) + 1 ELSE KeysOf(P, m)
    BY <2>1, CountStep
  <2> QED
    BY <2>1, <2>2 DEF m
<1>5. P[n] \in Phases
  OBVIOUS
<1> QED
  BY <1>2, <1>4, <1>5 DEF Phases

-----------------------------------------------------------------------------
(* Nodes                                                                   *)

\* Nodes: each is of some kind.
AreNodes(nodes) == IsSequence(nodes) /\ \A i \in 1 .. Len(nodes) : "kind" \in DOMAIN nodes[i]

\* Nodes with some more, perhaps, and the kinds that they had.
Kept(nodes, after) ==
    /\ AreNodes(after) /\ Len(nodes) <= Len(after)
    /\ \A i \in 1 .. Len(nodes) : after[i].kind = nodes[i].kind

Filled(nodes, k, new) == [nodes EXCEPT ![k] = new]

\* What is put into a node without another kind.
LEMMA NodeFilled ==
    ASSUME NEW nodes, NEW k, NEW new, AreNodes(nodes),
           k \in 1 .. Len(nodes) => "kind" \in DOMAIN new /\ new.kind = nodes[k].kind
    PROVE  Kept(nodes, Filled(nodes, k, new)) /\ Len(Filled(nodes, k, new)) = Len(nodes)
<1> DEFINE filled == [nodes EXCEPT ![k] = new]
<1>1. PICK S : nodes \in Seq(S)
  BY DEF AreNodes, IsSequence
<1> DEFINE T == S \cup {new}
<1>2. nodes \in Seq(T) /\ new \in T /\ Len(nodes) \in Nat
  BY <1>1
<1> HIDE DEF T
<1>3. CASE k \in 1 .. Len(nodes)
  <2>1. filled \in Seq(T) /\ Len(filled) = Len(nodes)
    BY <1>2, <1>3, ExceptSeq
  <2>2. \A i \in 1 .. Len(nodes) : filled[i] = IF i = k THEN new ELSE nodes[i]
    BY <1>2, <1>3, ExceptSeq
  <2> HIDE DEF filled
  <2>3. Kept(nodes, filled)
    BY <1>2, <1>3, <2>1, <2>2 DEF IsSequence, AreNodes, Kept
  <2> QED
    BY <2>1, <2>3 DEF filled, Filled
<1>4. CASE k \notin 1 .. Len(nodes)
  <2>1. nodes = [i \in 1 .. Len(nodes) |-> nodes[i]]
    BY <1>2
  <2>2. filled = nodes
    BY <1>4, <2>1
  <2> HIDE DEF filled
  <2>3. Kept(nodes, filled)
    BY <1>2, <2>2 DEF IsSequence, AreNodes, Kept
  <2> QED
    BY <2>2, <2>3 DEF filled, Filled
<1> QED
  BY <1>3, <1>4

\* An item, or a pair, more.
LEMMA ItemPushed ==
    ASSUME NEW nodes, NEW k, AreNodes(nodes)
    PROVE  /\ \A v : /\ Kept(nodes, push_back(nodes, k, v))
                     /\ Len(push_back(nodes, k, v)) = Len(nodes)
           /\ \A v, w : /\ Kept(nodes, insert(nodes, k, v, w))
                        /\ Len(insert(nodes, k, v, w)) = Len(nodes)
<1>1. ASSUME NEW v
      PROVE  Kept(nodes, push_back(nodes, k, v)) /\ Len(push_back(nodes, k, v)) = Len(nodes)
  <2> DEFINE new == [nodes[k] EXCEPT !.items = Append(@, v)]
  <2>1. push_back(nodes, k, v) = Filled(nodes, k, new)
    BY DEF push_back, Filled
  <2>2. k \in 1 .. Len(nodes) => "kind" \in DOMAIN new /\ new.kind = nodes[k].kind
    BY DEF AreNodes
  <2> HIDE DEF new
  <2> QED
    BY <2>1, <2>2, NodeFilled
<1>2. ASSUME NEW v, NEW w
      PROVE  Kept(nodes, insert(nodes, k, v, w)) /\ Len(insert(nodes, k, v, w)) = Len(nodes)
  <2> DEFINE new == [nodes[k] EXCEPT !.entries = Append(@, <<v, w>>)]
  <2>1. insert(nodes, k, v, w) = Filled(nodes, k, new)
    BY DEF insert, Filled
  <2>2. k \in 1 .. Len(nodes) => "kind" \in DOMAIN new /\ new.kind = nodes[k].kind
    BY DEF AreNodes
  <2> HIDE DEF new
  <2> QED
    BY <2>1, <2>2, NodeFilled
<1> QED
  BY <1>1, <1>2

-----------------------------------------------------------------------------
(* The builder                                                             *)

Pending == [key : Nat, complete : BOOLEAN]

Built(nodes, stack, keys, mapDepth, numbered, root) ==
    [nodes |-> nodes, stack |-> stack, keys |-> keys, mapDepth |-> mapDepth,
     anchors |-> numbered, root |-> root]

AreFields(nodes, stack, keys, mapDepth, numbered) ==
    /\ AreNodes(nodes)
    /\ stack \in Seq(Nat) /\ \A i \in 1 .. Len(stack) : stack[i] \in 1 .. Len(nodes)
    /\ keys \in Seq(Pending)
    /\ mapDepth \in Nat
    /\ numbered \in Seq(Nat) /\ \A i \in 1 .. Len(numbered) : numbered[i] \in 1 .. Len(nodes)

IsBuilder(b) ==
    /\ b = Built(b.nodes, b.stack, b.keys, b.mapDepth, b.anchors, b.root)
    /\ AreFields(b.nodes, b.stack, b.keys, b.mapDepth, b.anchors)

\* A builder by its fields.
LEMMA BuilderOf ==
    ASSUME NEW nodes, NEW stack, NEW keys, NEW mapDepth, NEW numbered, NEW root
    PROVE  LET b == Built(nodes, stack, keys, mapDepth, numbered, root)
           IN  /\ b.nodes = nodes /\ b.stack = stack /\ b.keys = keys
               /\ b.mapDepth = mapDepth /\ b.anchors = numbered
               /\ IsBuilder(b) <=> AreFields(nodes, stack, keys, mapDepth, numbered)
<1> DEFINE b == Built(nodes, stack, keys, mapDepth, numbered, root)
<1>1. /\ b.nodes = nodes /\ b.stack = stack /\ b.keys = keys
      /\ b.mapDepth = mapDepth /\ b.anchors = numbered /\ b.root = root
  BY DEF Built
<1>2. b = Built(b.nodes, b.stack, b.keys, b.mapDepth, b.anchors, b.root)
  BY <1>1
<1> HIDE DEF b
<1>3. IsBuilder(b) <=> AreFields(nodes, stack, keys, mapDepth, numbered)
  BY <1>1, <1>2, Zenon DEF IsBuilder
<1> QED
  BY <1>1, <1>3 DEF b

\* The n lowest open collections are in the phases P: their types; and their keys.
TypesFollow(P, n, nodes, stack) ==
    \A i \in 1 .. n : nodes[stack[i]].kind = IF P[i] = "item" THEN "Sequence" ELSE "Map"

KeysFollow(P, n, keys) ==
    /\ Len(keys) = KeysOf(P, n)
    /\ \A i \in 1 .. n : P[i] \in {"key_end", "value"} =>
          (keys[KeysOf(P, i)].complete <=> P[i] = "value")

Agrees(P, n, b) ==
    /\ IsBuilder(b)
    /\ P \in Seq(Phases) /\ Len(P) = n
    /\ TypesFollow(P, n, b.nodes, b.stack)
    /\ b.mapDepth = MapsOf(P, n)
    /\ KeysFollow(P, n, b.keys)
    /\ \A i \in 1 .. n - 1 : P[i] # "key"

\* Those are all; or the builder also has a node that is to become part of the last.
Follows(P, b) ==
    /\ Agrees(P, Len(b.stack), b)
    /\ P # <<>> => P[Len(P)] # "key_end"

Holds(P, b) ==
    /\ b.stack # <<>> /\ Agrees(P, Len(b.stack) - 1, b)
    /\ P # <<>> => P[Len(P)] # "key"

\* A node has begun, as a key if it is time for one, or it is complete.
Begun(P) == [i \in 1 .. Len(P) |-> IF i = Len(P) /\ P[i] = "key" THEN "key_end" ELSE P[i]]

Completed(P) ==
    [i \in 1 .. Len(P) |->
        IF i < Len(P) THEN P[i]
        ELSE IF P[i] \in {"key", "key_end"} THEN "value"
        ELSE IF P[i] = "value" THEN "key" ELSE P[i]]

\* Only the phase of the last collection changes when a node begins and is complete.
LEMMA PhasesChange ==
    ASSUME NEW P \in Seq(Phases)
    PROVE  /\ Begun(P) \in Seq(Phases) /\ Len(Begun(P)) = Len(P)
           /\ Completed(P) \in Seq(Phases) /\ Len(Completed(P)) = Len(P)
           /\ \A i \in 1 .. Len(P) - 1 : Begun(P)[i] = P[i] /\ Completed(P)[i] = P[i]
           /\ Completed(Begun(P)) = Completed(P)
<1>1. /\ \A i \in 1 .. Len(P) : Begun(P)[i] \in Phases /\ Completed(P)[i] \in Phases
      /\ \A i \in 1 .. Len(P) - 1 : Begun(P)[i] = P[i] /\ Completed(P)[i] = P[i]
  BY DEF Begun, Completed, Phases
<1>2. /\ Begun(P) \in Seq(Phases) /\ Len(Begun(P)) = Len(P)
      /\ Completed(P) \in Seq(Phases) /\ Len(Completed(P)) = Len(P)
  BY <1>1, IsASeq DEF Begun, Completed
<1>3. \A i \in 1 .. Len(P) : Completed(Begun(P))[i] = Completed(P)[i]
  BY <1>2 DEF Begun, Completed
<1>4. Completed(Begun(P)) = Completed(P)
  BY <1>2, <1>3 DEF Completed
<1> QED
  BY <1>1, <1>2, <1>4

\* Whether a key is needed is what the phase says, although the builder only counts.
LEMMA KeyNeeded ==
    ASSUME NEW P, NEW b, Follows(P, b)
    PROVE  NeedsKey(b) <=> P # <<>> /\ P[Len(P)] = "key"
<1> DEFINE n == Len(b.stack)
<1>1. n \in Nat /\ P \in Seq(Phases) /\ Len(P) = n /\ (b.stack = <<>> <=> n = 0)
  BY DEF Follows, Agrees, TypesFollow, KeysFollow, IsBuilder, AreFields
<1>2. CASE n = 0
  BY <1>1, <1>2 DEF NeedsKey
<1>3. CASE n # 0
  <2>1. KeysOf(P, n) < MapsOf(P, n) <=> P[n] = "key"
    BY <1>1, <1>3, KeysMissing DEF Follows, Agrees, TypesFollow, KeysFollow
  <2>2. TypeOfTop(b) = IF P[n] = "item" THEN "Sequence" ELSE "Map"
    BY <1>1, <1>3 DEF Follows, Agrees, TypesFollow, KeysFollow, TypeOfTop, Top, Last
  <2>3. NeedsKey(b) <=> P[n] # "item" /\ KeysOf(P, n) < MapsOf(P, n)
    BY <1>1, <1>3, <2>2 DEF NeedsKey, Follows, Agrees, TypesFollow, KeysFollow
  <2> QED
    BY <1>1, <1>3, <2>1, <2>3
<1> QED
  BY <1>2, <1>3

\* d is b with one node more on the stack, be it new or known by an alias.
Pushed(b, d, id) ==
    /\ IsBuilder(d)
    /\ Kept(b.nodes, d.nodes)
    /\ d.mapDepth = b.mapDepth
    /\ d.stack = Append(b.stack, id)
    /\ d.keys = IF NeedsKey(b) THEN Append(b.keys, [key |-> id, complete |-> FALSE]) ELSE b.keys

PushedWith(b, d, id, nodes, numbered) ==
    Pushed(b, d, id) /\ d.nodes = nodes /\ d.anchors = numbered

\* A key is waited for from when its node is there.
LEMMA PushHolds ==
    ASSUME NEW P, NEW b, NEW d, NEW id \in Nat, Follows(P, b), Pushed(b, d, id)
    PROVE  Holds(Begun(P), d)
<1> DEFINE n == Len(b.stack)
           Q == Begun(P)
<1>1. /\ n \in Nat /\ P \in Seq(Phases) /\ Len(P) = n /\ (P = <<>> <=> n = 0)
      /\ b.stack \in Seq(Nat) /\ b.keys \in Seq(Pending)
      /\ \A i \in 1 .. n : b.stack[i] \in 1 .. Len(b.nodes)
  BY DEF Follows, Agrees, TypesFollow, KeysFollow, IsBuilder, AreFields
<1>2. Q \in Seq(Phases) /\ Len(Q) = n /\ \A i \in 1 .. n - 1 : Q[i] = P[i]
  BY <1>1, PhasesChange
<1>3. n > 0 => Q[n] = IF P[n] = "key" THEN "key_end" ELSE P[n]
  BY <1>1 DEF Begun
<1>4. n = Len(b.stack) /\ n = Len(P)
  BY <1>1
<1> HIDE DEF n, Q
<1>5. d.stack = Append(b.stack, id)
  BY DEF Pushed
<1>6. d.stack # <<>> /\ Len(d.stack) - 1 = n /\ \A i \in 1 .. n : d.stack[i] = b.stack[i]
  <2> DEFINE stack == b.stack
  <2>0. stack \in Seq(Nat)
    BY <1>1
  <2> HIDE DEF stack
  <2>1. /\ Append(stack, id) # <<>> /\ Len(Append(stack, id)) = Len(stack) + 1
        /\ \A i \in 1 .. Len(stack) : Append(stack, id)[i] = stack[i]
    BY <2>0, AppendProperties
  <2> QED
    BY <1>1, <1>4, <1>5, <2>1 DEF stack
<1>7. \A i \in 1 .. n : d.nodes[d.stack[i]].kind = IF Q[i] = "item" THEN "Sequence" ELSE "Map"
  <2>1. \A i \in 1 .. n : Q[i] = "item" <=> P[i] = "item"
    BY <1>1, <1>2, <1>3, <1>4
  <2>2. \A i \in 1 .. n : d.nodes[d.stack[i]].kind = b.nodes[b.stack[i]].kind
    BY <1>1, <1>6 DEF Pushed, Kept
  <2> QED
    BY <1>4, <2>1, <2>2 DEF Follows, Agrees, TypesFollow, KeysFollow
<1>8. d.mapDepth = MapsOf(Q, n)
  <2>1. {j \in 1 .. n : j \in Maps(Q)} = {j \in 1 .. n : j \in Maps(P)}
    BY <1>1, <1>2, <1>3, <1>4 DEF Maps
  <2> QED
    BY <1>4, <2>1 DEF MapsOf, UpTo, Pushed, Follows, Agrees, TypesFollow, KeysFollow
<1>9. Q # <<>> => Q[Len(Q)] # "key"
  BY <1>1, <1>2, <1>3, <1>4
<1>10. \A i \in 1 .. n - 1 : Q[i] # "key"
  BY <1>2, <1>4 DEF Follows, Agrees, TypesFollow, KeysFollow
<1>11. ASSUME NEW i \in 0 .. n, i < n \/ P[n] # "key" PROVE KeysOf(Q, i) = KeysOf(P, i)
  <2>1. i \in Nat /\ \A j \in 1 .. i : Q[j] = P[j]
    BY <1>1, <1>2, <1>3, <1>4, <1>11
  <2> QED
    BY <2>1, CountSame
<1>12. CASE NeedsKey(b)
  <2>1. n > 0 /\ P[n] = "key" /\ Q[n] = "key_end"
    BY <1>1, <1>2, <1>3, <1>4, <1>12, KeyNeeded
  <2>2. KeysOf(P, n) = KeysOf(P, n - 1)
    <3> DEFINE m == n - 1
    <3>1. m \in Nat /\ n = m + 1
      BY <1>1, <2>1
    <3> HIDE DEF m
    <3>2. KeysOf(P, m + 1) = KeysOf(P, m)
      BY <2>1, <3>1, CountStep
    <3> QED
      BY <3>1, <3>2 DEF m
  <2>3. KeysOf(Q, n) = KeysOf(P, n) + 1
    BY <1>1, <1>11, <2>1, <2>2, KeyCounted
  <2>4. Len(d.keys) = KeysOf(Q, n) /\ ~d.keys[KeysOf(Q, n)].complete
    <3>1. d.keys = Append(b.keys, [key |-> id, complete |-> FALSE]) /\ Len(b.keys) = KeysOf(P, n)
      BY <1>4, <1>12 DEF Pushed, Follows, Agrees, KeysFollow
    <3> QED
      BY <1>1, <2>3, <3>1
  <2>5. ASSUME NEW i \in 1 .. n - 1, Q[i] \in {"key_end", "value"}
        PROVE  d.keys[KeysOf(Q, i)].complete <=> Q[i] = "value"
    <3>1. KeysOf(P, i) \in Nat \ {0} /\ KeysOf(Q, i) = KeysOf(P, i) /\ P[i] = Q[i]
      BY <1>1, <1>2, <1>3, <1>4, <1>11, <2>5, KeyCounted, SMTT(30)
    <3>2. KeysOf(P, i) <= KeysOf(P, n)
      <4>1. i \in Nat /\ i <= n
        BY <1>1
      <4> QED
        BY <1>1, <4>1, CountStep
    <3>3. d.keys[KeysOf(P, i)] = b.keys[KeysOf(P, i)]
      BY <1>1, <1>4, <1>12, <3>1, <3>2 DEF Pushed, Follows, Agrees, TypesFollow, KeysFollow
    <3> QED
      BY <1>1, <1>4, <2>5, <3>1, <3>3 DEF Follows, Agrees, TypesFollow, KeysFollow
  <2>6. \A i \in 1 .. n : Q[i] \in {"key_end", "value"} =>
          (d.keys[KeysOf(Q, i)].complete <=> Q[i] = "value")
    <3>1. \A i \in 1 .. n : i \in 1 .. n - 1 \/ i = n
      BY <1>1
    <3> QED
      BY <2>1, <2>4, <2>5, <3>1
  <2>7. Agrees(Q, n, d)
    BY <1>2, <1>7, <1>8, <1>10, <2>4, <2>6 DEF Agrees, TypesFollow, KeysFollow, Pushed
  <2> QED
    BY <1>6, <1>9, <2>7 DEF Holds, Q
<1>13. CASE ~NeedsKey(b)
  <2>1. n > 0 => P[n] # "key"
    BY <1>1, <1>4, <1>13, KeyNeeded
  <2>2. \A i \in 1 .. n : Q[i] = P[i] /\ KeysOf(Q, i) = KeysOf(P, i)
    BY <1>1, <1>2, <1>3, <1>4, <1>11, <2>1
  <2>3. KeysOf(Q, n) = KeysOf(P, n)
    BY <1>1, <1>2, <1>3, <1>4, <2>1, CountStep, <1>11
  <2>4. \A i \in 1 .. n : Q[i] \in {"key_end", "value"} =>
          (d.keys[KeysOf(Q, i)].complete <=> Q[i] = "value")
    BY <1>4, <1>13, <2>2 DEF Pushed, Follows, Agrees, TypesFollow, KeysFollow
  <2>5. Len(d.keys) = KeysOf(Q, n)
    BY <1>4, <1>13, <2>3 DEF Pushed, Follows, Agrees, TypesFollow, KeysFollow
  <2>7. Agrees(Q, n, d)
    BY <1>2, <1>7, <1>8, <1>10, <2>4, <2>5 DEF Agrees, TypesFollow, KeysFollow, Pushed
  <2> QED
    BY <1>6, <1>9, <2>7 DEF Holds, Q
<1> QED
  BY <1>4, <1>12, <1>13

\* One field after the other is set.
LEMMA FieldSet ==
    ASSUME NEW nodes, NEW stack, NEW keys, NEW mapDepth, NEW numbered, NEW root, NEW v
    PROVE  LET b == Built(nodes, stack, keys, mapDepth, numbered, root)
           IN  /\ [b EXCEPT !.nodes = v] = Built(v, stack, keys, mapDepth, numbered, root)
               /\ [b EXCEPT !.stack = v] = Built(nodes, v, keys, mapDepth, numbered, root)
               /\ [b EXCEPT !.keys = v] = Built(nodes, stack, v, mapDepth, numbered, root)
               /\ [b EXCEPT !.mapDepth = v] = Built(nodes, stack, keys, v, numbered, root)
               /\ [b EXCEPT !.anchors = v] = Built(nodes, stack, keys, mapDepth, v, root)
               /\ [b EXCEPT !.root = v] = Built(nodes, stack, keys, mapDepth, numbered, v)
BY DEF Built

\* A node that is complete goes into the collection below, field by field.
LEMMA JoinedToBuilt ==
    ASSUME NEW nodes, NEW stack, NEW keys, NEW mapDepth, NEW numbered, NEW root, NEW id
    PROVE  Joined(Built(nodes, stack, keys, mapDepth, numbered, root), id) =
              IF stack = <<>> THEN Built(nodes, stack, keys, mapDepth, numbered, id)
              ELSE IF nodes[Last(stack)].kind = "Sequence"
              THEN Built(push_back(nodes, Last(stack), id), stack, keys, mapDepth, numbered, root)
              ELSE IF ~Last(keys).complete
              THEN Built(nodes, stack, KeyCompleted(keys), mapDepth, numbered, root)
              ELSE Built(insert(nodes, Last(stack), Last(keys).key, id), stack, Front(keys),
                         mapDepth, numbered, root)
<1> DEFINE b == Built(nodes, stack, keys, mapDepth, numbered, root)
<1>1. /\ b.nodes = nodes /\ b.stack = stack /\ b.keys = keys
      /\ Top(b) = Last(stack) /\ TypeOfTop(b) = nodes[Last(stack)].kind
  BY DEF Built, Top, TypeOfTop
<1>2. \A v : /\ [b EXCEPT !.root = v] = Built(nodes, stack, keys, mapDepth, numbered, v)
             /\ [b EXCEPT !.nodes = v] = Built(v, stack, keys, mapDepth, numbered, root)
             /\ [b EXCEPT !.keys = v] = Built(nodes, stack, v, mapDepth, numbered, root)
  BY DEF Built
<1>3. \A v, w : [b EXCEPT !.nodes = v, !.keys = w] =
                   Built(v, stack, w, mapDepth, numbered, root)
  <2> SUFFICES ASSUME NEW v, NEW w
               PROVE  [b EXCEPT !.nodes = v, !.keys = w] =
                         Built(v, stack, w, mapDepth, numbered, root)
    OBVIOUS
  <2> DEFINE c == Built(v, stack, keys, mapDepth, numbered, root)
  <2>1. [b EXCEPT !.nodes = v] = c /\ [c EXCEPT !.keys = w] = Built(v, stack, w, mapDepth, numbered, root)
    BY DEF Built
  <2> HIDE DEF b, c
  <2> QED
    BY <2>1
<1> HIDE DEF b
<1>5. CASE stack = <<>>
  BY <1>1, <1>2, <1>5, Zenon DEF Joined, b
<1>6. CASE stack # <<>> /\ nodes[Last(stack)].kind = "Sequence"
  BY <1>1, <1>2, <1>6 DEF Joined, b
<1>7. CASE stack # <<>> /\ nodes[Last(stack)].kind # "Sequence" /\ ~Last(keys).complete
  BY <1>1, <1>2, <1>7 DEF Joined, b
<1>8. CASE stack # <<>> /\ nodes[Last(stack)].kind # "Sequence" /\ Last(keys).complete
  <2> DEFINE filled == insert(b.nodes, Top(b), Last(b.keys).key, id)
             fewer == Front(b.keys)
  <2>1. filled = insert(nodes, Last(stack), Last(keys).key, id) /\ fewer = Front(keys)
    BY <1>1
  <2> HIDE DEF filled, fewer
  <2>2. [b EXCEPT !.nodes = filled, !.keys = fewer] =
          Built(filled, stack, fewer, mapDepth, numbered, root)
    BY <1>3, Zenon
  <2>3. [b EXCEPT !.nodes = filled, !.keys = fewer] =
          Built(insert(nodes, Last(stack), Last(keys).key, id), stack, Front(keys),
                mapDepth, numbered, root)
    BY <2>1, <2>2, Zenon
  <2>4. Joined(b, id) = [b EXCEPT !.nodes = filled, !.keys = fewer]
    BY <1>1, <1>8 DEF Joined, filled, fewer
  <2> QED
    BY <1>8, <2>3, <2>4 DEF b
<1> QED
  BY <1>5, <1>6, <1>7, <1>8

\* The fields without the node on top.
LEMMA PopOfBuilt ==
    ASSUME NEW nodes, NEW stack, NEW keys, NEW mapDepth, NEW numbered, NEW root
    PROVE  Pop(Built(nodes, stack, keys, mapDepth, numbered, root)) =
           Joined(Built(nodes, Front(stack), keys, mapDepth, numbered, root), Last(stack))
<1> DEFINE b == Built(nodes, stack, keys, mapDepth, numbered, root)
           c == Built(nodes, Front(stack), keys, mapDepth, numbered, root)
<1>1. [b EXCEPT !.stack = Front(@)] = c
  BY DEF Built
<1>2. Top(b) = Last(stack)
  BY DEF Built, Top
<1> HIDE DEF b, c
<1> QED
  BY <1>1, <1>2 DEF Pop, b, c

\* The keys when the last open collection gets a node: a map at the end of its key
\* marks it, one at a value is done with it.
LEMMA KeysComplete ==
    ASSUME NEW P \in Seq(Phases), NEW n \in Nat \ {0}, Len(P) = n,
           NEW keys \in Seq(Pending), KeysFollow(P, n, keys)
    PROVE  /\ P[n] = "key_end" =>
                /\ ~Last(keys).complete
                /\ KeysFollow(Completed(P), n, KeyCompleted(keys))
                /\ KeyCompleted(keys) \in Seq(Pending)
           /\ P[n] = "value" =>
                /\ Last(keys).complete
                /\ KeysFollow(Completed(P), n, Front(keys)) /\ Front(keys) \in Seq(Pending)
           /\ P[n] = "item" => KeysFollow(Completed(P), n, keys)
<1> DEFINE Q == Completed(P)
           m == n - 1
<1>1. m \in Nat /\ m + 1 = n /\ \A i \in 1 .. n : i \in 1 .. m \/ i = n
  OBVIOUS
<1>2. /\ Q \in Seq(Phases) /\ Len(Q) = n /\ \A i \in 1 .. m : Q[i] = P[i]
      /\ P[n] = "key_end" => Q[n] = "value"
      /\ P[n] = "value" => Q[n] = "key"
      /\ P[n] = "item" => Q[n] = "item"
  <2>1. Q \in Seq(Phases) /\ Len(Q) = n /\ \A i \in 1 .. m : Q[i] = P[i]
    BY PhasesChange
  <2>2. Q[n] = IF n < Len(P) THEN P[n] ELSE IF P[n] \in {"key", "key_end"} THEN "value"
               ELSE IF P[n] = "value" THEN "key" ELSE P[n]
    BY DEF Completed
  <2> QED
    BY <2>1, <2>2
<1> HIDE DEF Q, m
<1>3. \A i \in 1 .. m : KeysOf(Q, i) = KeysOf(P, i)
  <2> SUFFICES ASSUME NEW i \in 1 .. m PROVE KeysOf(Q, i) = KeysOf(P, i)
    OBVIOUS
  <2>1. i \in Nat /\ \A j \in 1 .. i : P[j] = Q[j]
    BY <1>1, <1>2
  <2> QED
    BY <2>1, CountSame
<1>4. KeysOf(Q, m) = KeysOf(P, m)
  <2>1. \A j \in 1 .. m : P[j] = Q[j]
    BY <1>2
  <2> QED
    BY <1>1, <2>1, CountSame
<1>5. /\ KeysOf(P, m) \in Nat
      /\ KeysOf(P, n) = IF P[n] \in {"key_end", "value"} THEN KeysOf(P, m) + 1 ELSE KeysOf(P, m)
      /\ KeysOf(Q, n) = IF Q[n] \in {"key_end", "value"} THEN KeysOf(Q, m) + 1 ELSE KeysOf(Q, m)
  <2>1. /\ KeysOf(P, m) \in Nat
        /\ KeysOf(P, m + 1) = IF P[m + 1] \in {"key_end", "value"} THEN KeysOf(P, m) + 1 ELSE KeysOf(P, m)
        /\ KeysOf(Q, m + 1) = IF Q[m + 1] \in {"key_end", "value"} THEN KeysOf(Q, m) + 1 ELSE KeysOf(Q, m)
    BY <1>1, CountStep
  <2> QED
    BY <1>1, <2>1
<1>6. Len(keys) = KeysOf(P, n) /\ Len(keys) \in Nat
  BY DEF KeysFollow
<1>7. \A i \in 1 .. m : P[i] \in {"key_end", "value"} =>
          KeysOf(P, i) \in 1 .. KeysOf(P, m) /\ (keys[KeysOf(P, i)].complete <=> P[i] = "value")
  <2> SUFFICES ASSUME NEW i \in 1 .. m, P[i] \in {"key_end", "value"}
               PROVE  KeysOf(P, i) \in 1 .. KeysOf(P, m) /\ (keys[KeysOf(P, i)].complete <=> P[i] = "value")
    OBVIOUS
  <2>1. i \in Nat \ {0} /\ i \in Nat /\ i <= m /\ i \in 1 .. n
    BY <1>1
  <2>2. KeysOf(P, i) \in Nat \ {0}
    BY <2>1, KeyCounted
  <2>3. KeysOf(P, i) <= KeysOf(P, m)
    BY <1>1, <2>1, CountStep
  <2> QED
    BY <1>5, <2>1, <2>2, <2>3 DEF KeysFollow
<1>8. CASE P[n] = "key_end"
  <2>1. Len(keys) = KeysOf(P, m) + 1 /\ Len(keys) \in 1 .. Len(keys) /\ ~keys[Len(keys)].complete
    BY <1>1, <1>5, <1>6, <1>8 DEF KeysFollow
  <2> DEFINE new == [keys[Len(keys)] EXCEPT !.complete = TRUE]
  <2>2. KeyCompleted(keys) = [keys EXCEPT ![Len(keys)] = new]
    BY DEF KeyCompleted
  <2>3. new \in Pending /\ new.complete
    <3>1. PICK p \in Pending : p = keys[Len(keys)]
      BY <2>1
    <3>2. [p EXCEPT !.complete = TRUE] \in Pending /\ [p EXCEPT !.complete = TRUE].complete
      BY DEF Pending
    <3> QED
      BY <3>1, <3>2
  <2> DEFINE k == Len(keys)
             after == KeyCompleted(keys)
  <2>0. k \in 1 .. Len(keys) /\ k = Len(keys) /\ KeyCompleted(keys) = [keys EXCEPT ![k] = new]
    BY <2>1, <2>2
  <2> HIDE DEF new, k
  <2>4. /\ [keys EXCEPT ![k] = new] \in Seq(Pending)
        /\ Len([keys EXCEPT ![k] = new]) = Len(keys)
        /\ \A j \in 1 .. Len(keys) : [keys EXCEPT ![k] = new][j] = IF j = k THEN new ELSE keys[j]
    BY <2>0, <2>3, ExceptSeq
  <2>5. /\ after \in Seq(Pending) /\ Len(after) = Len(keys)
        /\ after[Len(keys)].complete /\ \A j \in 1 .. Len(keys) - 1 : after[j] = keys[j]
    BY <2>0, <2>1, <2>3, <2>4
  <2> HIDE DEF after
  <2>6. KeysFollow(Q, n, after)
    <3>1. Len(after) = KeysOf(Q, n) /\ KeysOf(Q, n) = Len(keys)
      BY <1>2, <1>4, <1>5, <1>8, <2>1, <2>5
    <3>2. \A i \in 1 .. m : Q[i] \in {"key_end", "value"} =>
            (after[KeysOf(Q, i)].complete <=> Q[i] = "value")
      BY <1>2, <1>3, <1>5, <1>7, <2>1, <2>5
    <3>3. after[KeysOf(Q, n)].complete <=> Q[n] = "value"
      BY <1>2, <1>8, <2>5, <3>1
    <3> QED
      BY <1>1, <3>1, <3>2, <3>3 DEF KeysFollow
  <2>7. ~Last(keys).complete
    BY <2>1 DEF Last
  <2> QED
    BY <1>8, <2>5, <2>6, <2>7 DEF after, Q
<1>9. CASE P[n] = "value"
  <2>1. Len(keys) = KeysOf(P, m) + 1 /\ keys # <<>> /\ keys[Len(keys)].complete
    BY <1>1, <1>5, <1>6, <1>9 DEF KeysFollow
  <2> DEFINE after == Front(keys)
  <2>2. /\ after \in Seq(Pending) /\ Len(after) = Len(keys) - 1
        /\ \A j \in 1 .. Len(keys) - 1 : after[j] = keys[j]
    BY <2>1, FrontProperties
  <2> HIDE DEF after
  <2>3. KeysFollow(Q, n, after)
    BY <1>1, <1>2, <1>3, <1>4, <1>5, <1>6, <1>7, <1>9, <2>1, <2>2 DEF KeysFollow
  <2>4. Last(keys).complete
    BY <2>1 DEF Last
  <2> QED
    BY <1>9, <2>2, <2>3, <2>4 DEF after, Q
<1>10. CASE P[n] = "item"
  <2>1. KeysFollow(Q, n, keys)
    BY <1>1, <1>2, <1>3, <1>4, <1>5, <1>6, <1>7, <1>10 DEF KeysFollow
  <2> QED
    BY <1>10, <2>1 DEF Q
<1>11. CASE P[n] \notin {"item", "value", "key_end"}
  BY <1>11
<1> QED
  BY <1>8, <1>9, <1>10, <1>11

\* Completing a node changes no map into a sequence.
LEMMA MapsComplete ==
    ASSUME NEW P \in Seq(Phases), NEW n \in Nat, Len(P) = n
    PROVE  /\ MapsOf(Completed(P), n) = MapsOf(P, n)
           /\ \A i \in 1 .. n : Completed(P)[i] = "item" <=> P[i] = "item"
<1> DEFINE Q == Completed(P)
<1>1. \A i \in 1 .. n : Q[i] = "item" <=> P[i] = "item"
  BY DEF Completed
<1> HIDE DEF Q
<1>2. {j \in 1 .. n : j \in Maps(Q)} = {j \in 1 .. n : j \in Maps(P)}
  BY <1>1 DEF Maps
<1> QED
  BY <1>1, <1>2 DEF MapsOf, UpTo, Q

\* The builder that holds a node has, when it is complete, the collection below at its
\* next phase.
LEMMA PopFields ==
    ASSUME NEW P, NEW nodes, NEW stack, NEW keys, NEW mapDepth, NEW numbered, NEW root,
           Holds(P, Built(nodes, stack, keys, mapDepth, numbered, root))
    PROVE  LET d == Pop(Built(nodes, stack, keys, mapDepth, numbered, root))
           IN  Follows(Completed(P), d) /\ d.anchors = numbered
<1> DEFINE n == Len(P)
           Q == Completed(P)
           below == Front(stack)
           id == Last(stack)
           d == Joined(Built(nodes, below, keys, mapDepth, numbered, root), id)
<1>1. /\ AreFields(nodes, stack, keys, mapDepth, numbered) /\ stack # <<>>
      /\ P \in Seq(Phases) /\ Len(P) = Len(stack) - 1
      /\ TypesFollow(P, Len(stack) - 1, nodes, stack)
      /\ mapDepth = MapsOf(P, Len(stack) - 1) /\ KeysFollow(P, Len(stack) - 1, keys)
      /\ \A i \in 1 .. Len(stack) - 1 - 1 : P[i] # "key"
      /\ P # <<>> => P[Len(P)] # "key"
  BY BuilderOf DEF Holds, Agrees
<1>2. /\ below \in Seq(Nat) /\ Len(below) = n /\ \A i \in 1 .. n : below[i] = stack[i]
      /\ n \in Nat /\ Len(stack) = n + 1
  BY <1>1, FrontProperties, SMTT(30) DEF AreFields
<1>3. /\ n = Len(P) /\ TypesFollow(P, n, nodes, stack) /\ mapDepth = MapsOf(P, n) /\ KeysFollow(P, n, keys)
      /\ \A i \in 1 .. n - 1 : P[i] # "key"
      /\ n > 0 => P[n] # "key"
  BY <1>1, <1>2
<1>4. Pop(Built(nodes, stack, keys, mapDepth, numbered, root)) = d
  BY PopOfBuilt
<1>5. /\ Q \in Seq(Phases) /\ Len(Q) = n /\ \A i \in 1 .. n - 1 : Q[i] = P[i]
      /\ MapsOf(Q, n) = mapDepth /\ TypesFollow(Q, n, nodes, below)
  <2>1. Q \in Seq(Phases) /\ Len(Q) = n /\ \A i \in 1 .. n - 1 : Q[i] = P[i]
    BY <1>1, PhasesChange
  <2>2. MapsOf(Q, n) = MapsOf(P, n) /\ \A i \in 1 .. n : Q[i] = "item" <=> P[i] = "item"
    BY <1>1, <1>2, MapsComplete
  <2> HIDE DEF Q, n, below
  <2> QED
    BY <1>2, <1>3, <2>1, <2>2 DEF TypesFollow
<1>6. Q # <<>> => Q[Len(Q)] # "key_end"
  <2>1. n > 0 => Q[n] = IF n < Len(P) THEN P[n] ELSE IF P[n] \in {"key", "key_end"} THEN "value"
               ELSE IF P[n] = "value" THEN "key" ELSE P[n]
    BY <1>2 DEF Completed
  <2> HIDE DEF Q
  <2> QED
    BY <1>2, <1>5, <2>1
<1>7. \A i \in 1 .. n - 1 : Q[i] # "key"
  BY <1>3, <1>5
<1>8. \A i \in 1 .. Len(below) : below[i] \in 1 .. Len(nodes)
  <2> HIDE DEF below, n
  <2>1. n \in Nat /\ Len(stack) = n + 1 /\ \A i \in 1 .. Len(stack) : stack[i] \in 1 .. Len(nodes)
    BY <1>1, <1>2 DEF AreFields
  <2>2. \A i \in 1 .. n : stack[i] \in 1 .. Len(nodes)
    BY <2>1
  <2> QED
    BY <1>2, <2>2
<1>9. ASSUME NEW after, NEW keys2, NEW root2, Kept(nodes, after), keys2 \in Seq(Pending),
             KeysFollow(Q, n, keys2), d = Built(after, below, keys2, mapDepth, numbered, root2)
      PROVE  Follows(Q, d) /\ d.anchors = numbered
  <2>1. AreFields(after, below, keys2, mapDepth, numbered)
    <3> HIDE DEF below, n
    <3>1. Len(nodes) \in Nat /\ Len(after) \in Nat /\ Len(nodes) <= Len(after)
      BY <1>1, <1>9 DEF AreFields, AreNodes, IsSequence, Kept
    <3>2. \A i \in 1 .. Len(below) : below[i] \in 1 .. Len(nodes)
      BY <1>8
    <3>3. \A i \in 1 .. Len(numbered) : numbered[i] \in 1 .. Len(nodes)
      BY <1>1 DEF AreFields
    <3>4. \A i \in 1 .. Len(below) : below[i] \in 1 .. Len(after)
      BY <3>1, <3>2
    <3>5. \A i \in 1 .. Len(numbered) : numbered[i] \in 1 .. Len(after)
      BY <3>1, <3>3
    <3>6. /\ AreNodes(after) /\ below \in Seq(Nat) /\ keys2 \in Seq(Pending)
          /\ mapDepth \in Nat /\ numbered \in Seq(Nat)
      BY <1>1, <1>2, <1>9 DEF AreFields, Kept
    <3> QED
      BY <3>4, <3>5, <3>6, Zenon DEF AreFields
  <2>2. TypesFollow(Q, n, after, below)
    <3> HIDE DEF below, n, Q
    <3>1. \A i \in 1 .. n : below[i] \in 1 .. Len(nodes)
      BY <1>1, <1>2 DEF AreFields
    <3> QED
      BY <1>5, <1>9, <3>1 DEF TypesFollow, Kept
  <2> DEFINE e == Built(after, below, keys2, mapDepth, numbered, root2)
  <2>3. /\ e.nodes = after /\ e.stack = below /\ e.keys = keys2
        /\ e.mapDepth = mapDepth /\ e.anchors = numbered /\ IsBuilder(e)
    BY <2>1, BuilderOf
  <2> HIDE DEF e, Q, below, n
  <2>4. Agrees(Q, Len(e.stack), e)
    BY <1>2, <1>5, <1>7, <1>9, <2>2, <2>3 DEF Agrees
  <2>5. Follows(Q, e)
    BY <1>6, <2>4 DEF Follows
  <2> QED
    BY <1>9, <2>3, <2>5 DEF e
<1>10. Kept(nodes, nodes) /\ AreNodes(nodes) /\ keys \in Seq(Pending)
  BY <1>1 DEF AreFields, Kept, AreNodes, IsSequence
<1>11. CASE n = 0
  <2>1. below = <<>>
    BY <1>2, <1>11
  <2>2. d = Built(nodes, below, keys, mapDepth, numbered, id)
    BY <2>1, JoinedToBuilt
  <2>3. KeysFollow(Q, n, keys)
    <3>1. KeysOf(Q, 0) = 0 /\ KeysOf(P, 0) = 0
      BY CountStep
    <3> HIDE DEF n, Q
    <3> QED
      BY <1>3, <1>11, <3>1 DEF KeysFollow
  <2> QED
    BY <1>4, <1>9, <1>10, <2>2, <2>3
<1>12. CASE n # 0
  <2>1. /\ n \in Nat \ {0} /\ below # <<>> /\ Last(below) \in 1 .. Len(nodes)
        /\ nodes[Last(below)].kind = IF P[n] = "item" THEN "Sequence" ELSE "Map"
        /\ P[n] \in {"item", "value", "key_end"}
    <3>1. n \in Nat \ {0} /\ below # <<>> /\ Last(below) = stack[n]
      BY <1>2, <1>12 DEF Last
    <3>2. stack[n] \in 1 .. Len(nodes)
      <4> HIDE DEF n, below
      <4> QED
        BY <1>2, <1>12, <1>8
    <3>3. P[n] \in Phases
      BY <1>1, <1>12
    <3> HIDE DEF n, below
    <3> QED
      BY <1>3, <3>1, <3>2, <3>3 DEF TypesFollow, Phases
  <2>2. /\ P[n] = "key_end" =>
                /\ ~Last(keys).complete
                /\ KeysFollow(Q, n, KeyCompleted(keys))
                /\ KeyCompleted(keys) \in Seq(Pending)
        /\ P[n] = "value" =>
                /\ Last(keys).complete
                /\ KeysFollow(Q, n, Front(keys)) /\ Front(keys) \in Seq(Pending)
        /\ P[n] = "item" => KeysFollow(Q, n, keys)
    BY <1>1, <1>3, <1>10, <2>1, KeysComplete
  <2>3. CASE P[n] = "item"
    <3>1. d = Built(push_back(nodes, Last(below), id), below, keys, mapDepth, numbered, root)
      BY <2>1, <2>3, JoinedToBuilt
    <3>2. Kept(nodes, push_back(nodes, Last(below), id))
      BY <1>10, ItemPushed
    <3> QED
      BY <1>4, <1>9, <1>10, <2>2, <2>3, <3>1, <3>2
  <2>4. CASE P[n] = "key_end"
    <3>1. d = Built(nodes, below, KeyCompleted(keys), mapDepth, numbered, root)
      BY <2>1, <2>2, <2>4, JoinedToBuilt
    <3> QED
      BY <1>4, <1>9, <1>10, <2>2, <2>4, <3>1
  <2>5. CASE P[n] = "value"
    <3>1. d = Built(insert(nodes, Last(below), Last(keys).key, id), below, Front(keys), mapDepth,
                    numbered, root)
      BY <2>1, <2>2, <2>5, JoinedToBuilt
    <3>2. Kept(nodes, insert(nodes, Last(below), Last(keys).key, id))
      BY <1>10, ItemPushed
    <3> QED
      BY <1>4, <1>9, <1>10, <2>2, <2>5, <3>1, <3>2
  <2> QED
    BY <2>1, <2>3, <2>4, <2>5
<1> QED
  BY <1>11, <1>12

\* The fields with one node more on the stack.
LEMMA PushOfBuilt ==
    ASSUME NEW nodes, NEW stack, NEW keys, NEW mapDepth, NEW numbered, NEW root, NEW id
    PROVE  LET b == Built(nodes, stack, keys, mapDepth, numbered, root)
           IN  PushNode(b, id) =
                  Built(nodes, Append(stack, id),
                        IF NeedsKey(b) THEN Append(keys, [key |-> id, complete |-> FALSE]) ELSE keys,
                        mapDepth, numbered, root)
<1> DEFINE b == Built(nodes, stack, keys, mapDepth, numbered, root)
           new == IF NeedsKey(b) THEN Append(keys, [key |-> id, complete |-> FALSE]) ELSE keys
           c == Built(nodes, Append(stack, id), keys, mapDepth, numbered, root)
<1>1. b.stack = stack /\ b.keys = keys
  BY BuilderOf
<1>2. \A v : /\ [b EXCEPT !.stack = v] = Built(nodes, v, keys, mapDepth, numbered, root)
             /\ [c EXCEPT !.keys = v] = Built(nodes, Append(stack, id), v, mapDepth, numbered, root)
  <2> DEFINE pushed == Append(stack, id)
  <2> HIDE DEF pushed
  <2> SUFFICES ASSUME NEW v
               PROVE  /\ [b EXCEPT !.stack = v] = Built(nodes, v, keys, mapDepth, numbered, root)
                      /\ [Built(nodes, pushed, keys, mapDepth, numbered, root) EXCEPT !.keys = v] =
                            Built(nodes, pushed, v, mapDepth, numbered, root)
    BY DEF pushed
  <2> QED
    BY DEF Built
<1> HIDE DEF b
<1>3. [b EXCEPT !.stack = Append(b.stack, id)] = c
  BY <1>1, <1>2
<1> HIDE DEF c
<1>4. [b EXCEPT !.stack = Append(b.stack, id),
                !.keys = IF NeedsKey(b) THEN Append(b.keys, [key |-> id, complete |-> FALSE]) ELSE b.keys] =
      [c EXCEPT !.keys = IF NeedsKey(b) THEN Append(b.keys, [key |-> id, complete |-> FALSE]) ELSE b.keys]
  BY <1>3
<1>5. [c EXCEPT !.keys = new] = Built(nodes, Append(stack, id), new, mapDepth, numbered, root)
  BY <1>2
<1> QED
  BY <1>1, <1>4, <1>5 DEF PushNode, b

\* A node is pushed, with the key that waits for it if it is one.
LEMMA NodePushed ==
    ASSUME NEW nodes, NEW stack, NEW keys, NEW mapDepth, NEW numbered, NEW root,
           AreFields(nodes, stack, keys, mapDepth, numbered),
           NEW after, NEW numbered2, Kept(nodes, after),
           NEW id \in 1 .. Len(after),
           numbered2 \in Seq(Nat), \A i \in 1 .. Len(numbered2) : numbered2[i] \in 1 .. Len(after)
    PROVE  LET b == Built(nodes, stack, keys, mapDepth, numbered, root)
               d == PushNode(Built(after, stack, keys, mapDepth, numbered2, root), id)
           IN  PushedWith(b, d, id, after, numbered2)
<1> DEFINE b == Built(nodes, stack, keys, mapDepth, numbered, root)
           c == Built(after, stack, keys, mapDepth, numbered2, root)
           d == PushNode(c, id)
           new == IF NeedsKey(b) THEN Append(keys, [key |-> id, complete |-> FALSE]) ELSE keys
<1>1. /\ b.nodes = nodes /\ b.stack = stack /\ b.keys = keys /\ b.mapDepth = mapDepth
      /\ c.nodes = after /\ c.stack = stack /\ c.keys = keys /\ c.mapDepth = mapDepth
  BY BuilderOf
<1>2. NeedsKey(c) <=> NeedsKey(b)
  <2> HIDE DEF b, c
  <2>1. CASE stack = <<>>
    BY <1>1, <2>1 DEF NeedsKey
  <2>2. CASE stack # <<>>
    <3>1. Last(stack) \in 1 .. Len(nodes)
      BY <2>2 DEF AreFields, Last
    <3>2. after[Last(stack)].kind = nodes[Last(stack)].kind
      BY <3>1 DEF Kept
    <3> QED
      BY <1>1, <3>2 DEF NeedsKey, TypeOfTop, Top
  <2> QED
    BY <2>1, <2>2
<1>3. d = Built(after, Append(stack, id), new, mapDepth, numbered2, root)
  BY <1>2, PushOfBuilt
<1>4. Len(nodes) \in Nat /\ Len(after) \in Nat /\ Len(nodes) <= Len(after)
  BY DEF AreFields, AreNodes, IsSequence, Kept
<1> HIDE DEF b, c, d
<1>5. id \in Nat /\ stack \in Seq(Nat) /\ keys \in Seq(Pending) /\ mapDepth \in Nat /\ AreNodes(after)
  BY <1>4 DEF AreFields, Kept
<1>6. /\ Append(stack, id) \in Seq(Nat)
      /\ \A i \in 1 .. Len(Append(stack, id)) : Append(stack, id)[i] \in 1 .. Len(after)
  <2>1. \A i \in 1 .. Len(stack) : stack[i] \in 1 .. Len(after)
    BY <1>4 DEF AreFields
  <2>2. /\ Append(stack, id) \in Seq(Nat) /\ Len(Append(stack, id)) = Len(stack) + 1
        /\ \A i \in 1 .. Len(stack) : Append(stack, id)[i] = stack[i]
        /\ Append(stack, id)[Len(stack) + 1] = id
    BY <1>5, AppendProperties
  <2> QED
    BY <1>5, <2>1, <2>2
<1>7. new \in Seq(Pending)
  <2>1. [key |-> id, complete |-> FALSE] \in Pending
    BY <1>5 DEF Pending
  <2> QED
    BY <1>5, <2>1
<1> HIDE DEF new
<1>8. AreFields(after, Append(stack, id), new, mapDepth, numbered2)
  BY <1>5, <1>6, <1>7 DEF AreFields
<1>9. /\ IsBuilder(d) /\ d.nodes = after /\ d.stack = Append(stack, id) /\ d.keys = new
      /\ d.mapDepth = mapDepth /\ d.anchors = numbered2
  <2> DEFINE pushed == Append(stack, id)
             e == Built(after, pushed, new, mapDepth, numbered2, root)
  <2> HIDE DEF pushed
  <2>1. /\ e.nodes = after /\ e.stack = pushed /\ e.keys = new
        /\ e.mapDepth = mapDepth /\ e.anchors = numbered2
        /\ IsBuilder(e) <=> AreFields(after, pushed, new, mapDepth, numbered2)
    BY BuilderOf
  <2>2. d = e
    BY <1>3 DEF pushed
  <2>3. AreFields(after, pushed, new, mapDepth, numbered2) /\ pushed = Append(stack, id)
    BY <1>8 DEF pushed
  <2> HIDE DEF e
  <2> QED
    BY <2>1, <2>2, <2>3
<1>10. Pushed(b, d, id)
  BY <1>1, <1>9 DEF Pushed, new
<1> QED
  BY <1>9, <1>10 DEF PushedWith, b, c, d

\* The nodes that have an anchor, with a new one that has or not.
Numbered(numbered, anchor, id) == IF anchor = NoAnchor THEN numbered ELSE Append(numbered, id)

\* A node that is created has no kind yet, and the others keep theirs.
LEMMA NodeCreated ==
    ASSUME NEW nodes, AreNodes(nodes)
    PROVE  /\ Kept(nodes, create_node(nodes)) /\ Len(create_node(nodes)) = Len(nodes) + 1
           /\ create_node(nodes)[Len(nodes) + 1] = UndefinedNode /\ Len(nodes) \in Nat
<1> DEFINE e == UndefinedNode
           after == Append(nodes, e)
<1>1. "kind" \in DOMAIN e
  BY DEF UndefinedNode
<1> HIDE DEF e
<1>2. IsSequence(nodes)
  BY DEF AreNodes
<1>3. /\ IsSequence(after) /\ Len(after) = Len(nodes) + 1 /\ Len(nodes) \in Nat
      /\ \A i \in 1 .. Len(nodes) : after[i] = nodes[i]
      /\ after[Len(nodes) + 1] = e
  BY <1>2, Appended
<1> HIDE DEF after
<1>4. Kept(nodes, after)
  BY <1>1, <1>3 DEF Kept, AreNodes
<1> QED
  BY <1>3, <1>4 DEF create_node, after, e

\* A node is created and pushed: the fields of the builder after it.
LEMMA NewPushed ==
    ASSUME NEW nodes, NEW stack, NEW keys, NEW mapDepth, NEW numbered, NEW root,
           AreFields(nodes, stack, keys, mapDepth, numbered), NEW anchor
    PROVE  LET b == Built(nodes, stack, keys, mapDepth, numbered, root)
               d == PushNew(b, anchor)
           IN  PushedWith(b, d, Len(nodes) + 1, create_node(nodes),
                          Numbered(numbered, anchor, Len(nodes) + 1))
<1> DEFINE b == Built(nodes, stack, keys, mapDepth, numbered, root)
           after == create_node(nodes)
           id == Len(nodes) + 1
           numbered2 == Numbered(numbered, anchor, id)
           c == Built(after, stack, keys, mapDepth, numbered2, root)
<1>1. PushNew(b, anchor) = PushNode(c, id)
  <2> DEFINE m == Built(after, stack, keys, mapDepth, numbered, root)
  <2>1. b.nodes = nodes /\ b.anchors = numbered
    BY BuilderOf
  <2>2. [b EXCEPT !.nodes = after] = m
    BY FieldSet
  <2>3. [m EXCEPT !.anchors = numbered2] = c
    <3> HIDE DEF after, numbered2
    <3> QED
      BY DEF Built
  <2> HIDE DEF b, m, c
  <2>4. [b EXCEPT !.nodes = after, !.anchors = numbered2] = c
    BY <2>2, <2>3
  <2> QED
    BY <2>1, <2>4 DEF PushNew, Numbered
<1>2. /\ AreNodes(nodes) /\ numbered \in Seq(Nat)
      /\ \A i \in 1 .. Len(numbered) : numbered[i] \in 1 .. Len(nodes)
  BY DEF AreFields
<1>3. Kept(nodes, after) /\ Len(after) = id /\ Len(nodes) \in Nat
  BY <1>2, NodeCreated
<1>4. id \in Nat /\ id \in 1 .. Len(after) /\ \A i \in 1 .. Len(numbered) : numbered[i] \in 1 .. Len(after)
  BY <1>2, <1>3
<1> HIDE DEF id, after
<1>5. numbered2 \in Seq(Nat) /\ \A i \in 1 .. Len(numbered2) : numbered2[i] \in 1 .. Len(after)
  <2>1. /\ Append(numbered, id) \in Seq(Nat) /\ Len(Append(numbered, id)) = Len(numbered) + 1
        /\ \A i \in 1 .. Len(numbered) : Append(numbered, id)[i] = numbered[i]
        /\ Append(numbered, id)[Len(numbered) + 1] = id
    BY <1>2, <1>4, AppendProperties
  <2> QED
    BY <1>2, <1>4, <2>1 DEF Numbered
<1> HIDE DEF numbered2
<1>6. PushedWith(b, PushNode(c, id), id, after, numbered2)
  BY <1>3, <1>4, <1>5, NodePushed, Zenon
<1> HIDE DEF b, c
<1> QED
  BY <1>1, <1>6 DEF id, after, numbered2, b

\* What is put into the node that has been pushed changes nothing else.
LEMMA PushedFilled ==
    ASSUME NEW b, NEW d, NEW id, IsBuilder(b), Pushed(b, d, id), id = Len(b.nodes) + 1,
           NEW new, "kind" \in DOMAIN new
    PROVE  LET e == [d EXCEPT !.nodes = Filled(d.nodes, id, new)]
           IN  Pushed(b, e, id) /\ e.anchors = d.anchors /\ (id <= Len(d.nodes) => e.nodes[id] = new)
<1> DEFINE nodes == d.nodes
           stack == d.stack
           keys == d.keys
           mapDepth == d.mapDepth
           numbered == d.anchors
           root == d.root
           filled == Filled(nodes, id, new)
           e == Built(filled, stack, keys, mapDepth, numbered, root)
<1>1. /\ d = Built(nodes, stack, keys, mapDepth, numbered, root)
      /\ AreFields(nodes, stack, keys, mapDepth, numbered)
  BY DEF Pushed, IsBuilder
<1>2. Kept(b.nodes, nodes) /\ IsSequence(nodes) /\ Len(b.nodes) \in Nat /\ Len(nodes) \in Nat
  BY DEF Pushed, Kept, IsBuilder, AreFields, AreNodes, IsSequence
<1> HIDE DEF nodes, stack, keys, mapDepth, numbered, root
<1>3. PICK S : nodes \in Seq(S)
  BY <1>2 DEF IsSequence
<1> DEFINE T == S \cup {new}
<1>4. nodes \in Seq(T) /\ new \in T /\ \A i \in 1 .. Len(nodes) : "kind" \in DOMAIN nodes[i]
  BY <1>2, <1>3 DEF Kept, AreNodes
<1> HIDE DEF T
<1>5. /\ filled \in Seq(T) /\ Len(filled) = Len(nodes)
      /\ \A i \in 1 .. Len(nodes) : filled[i] = IF i = id THEN new ELSE nodes[i]
  <2>1. CASE id \in 1 .. Len(nodes)
    BY <1>4, <2>1, ExceptSeq DEF Filled
  <2>2. CASE id \notin 1 .. Len(nodes)
    <3>1. nodes = [i \in 1 .. Len(nodes) |-> nodes[i]]
      BY <1>4
    <3>2. filled = nodes
      BY <2>2, <3>1 DEF Filled
    <3> QED
      BY <1>4, <2>2, <3>2
  <2> QED
    BY <2>1, <2>2
<1> HIDE DEF filled
<1>6. AreNodes(filled) /\ Kept(b.nodes, filled)
  <2>1. AreNodes(filled)
    BY <1>4, <1>5 DEF AreNodes, IsSequence
  <2>2. \A i \in 1 .. Len(b.nodes) : i \in 1 .. Len(nodes) /\ i # id
    BY <1>2 DEF Kept
  <2> QED
    BY <1>2, <1>5, <2>1, <2>2 DEF Kept
<1>7. [d EXCEPT !.nodes = filled] = e
  BY <1>1, FieldSet
<1>8. AreFields(filled, stack, keys, mapDepth, numbered)
  BY <1>1, <1>5, <1>6 DEF AreFields
<1>9. /\ e.nodes = filled /\ e.stack = stack /\ e.keys = keys
      /\ e.mapDepth = mapDepth /\ e.anchors = numbered /\ IsBuilder(e)
  BY <1>8, BuilderOf
<1> HIDE DEF e
<1>10. Pushed(b, e, id) /\ (id <= Len(nodes) => e.nodes[id] = new)
  <2>1. mapDepth = b.mapDepth /\ stack = Append(b.stack, id)
        /\ keys = IF NeedsKey(b) THEN Append(b.keys, [key |-> id, complete |-> FALSE]) ELSE b.keys
    BY DEF Pushed, mapDepth, stack, keys
  <2>2. Pushed(b, e, id)
    BY <1>6, <1>9, <2>1 DEF Pushed
  <2>3. id <= Len(nodes) => e.nodes[id] = new
    BY <1>2, <1>5, <1>9
  <2> QED
    BY <2>2, <2>3
<1> QED
  BY <1>7, <1>9, <1>10 DEF nodes, numbered, filled

-----------------------------------------------------------------------------
(* The events                                                              *)

\* e is the builder b after an event, with its open collections in the phases Q, and
\* one node with an anchor more if the event has one.
Becomes(b, Q, anchor, e) ==
    /\ Follows(Q, e)
    /\ Len(e.anchors) = Len(b.anchors) + (IF anchor = NoAnchor THEN 0 ELSE 1)

\* The same of the builder as a whole.
LEMMA PopFollows ==
    ASSUME NEW P, NEW d, Holds(P, d)
    PROVE  Follows(Completed(P), Pop(d)) /\ Pop(d).anchors = d.anchors
<1> DEFINE nodes == d.nodes
           stack == d.stack
           keys == d.keys
           mapDepth == d.mapDepth
           numbered == d.anchors
           root == d.root
<1>1. d = Built(nodes, stack, keys, mapDepth, numbered, root)
  BY DEF Holds, Agrees, IsBuilder
<1> HIDE DEF nodes, stack, keys, mapDepth, numbered, root
<1>2. Follows(Completed(P), Pop(d))
  BY <1>1, PopFields
<1>3. Pop(d).anchors = numbered
  BY <1>1, PopFields
<1> QED
  BY <1>2, <1>3 DEF numbered

\* The same of the builder as a whole: it is the node on top.
LEMMA NewNode ==
    ASSUME NEW b, IsBuilder(b), NEW anchor
    PROVE  LET id == Len(b.nodes) + 1
           IN  /\ PushedWith(b, PushNew(b, anchor), id, create_node(b.nodes),
                             Numbered(b.anchors, anchor, id))
               /\ Top(PushNew(b, anchor)) = id
               /\ id = Len(create_node(b.nodes)) /\ id \in Nat
<1> DEFINE nodes == b.nodes
           stack == b.stack
           keys == b.keys
           mapDepth == b.mapDepth
           numbered == b.anchors
           root == b.root
           d == PushNew(b, anchor)
           id == Len(nodes) + 1
<1>1. /\ b = Built(nodes, stack, keys, mapDepth, numbered, root)
      /\ AreFields(nodes, stack, keys, mapDepth, numbered)
  BY DEF IsBuilder
<1>2. id = Len(create_node(nodes)) /\ id \in Nat
  BY <1>1, NodeCreated DEF AreFields
<1> HIDE DEF nodes, stack, keys, mapDepth, numbered, root
<1>3. PushedWith(b, d, Len(nodes) + 1, create_node(nodes), Numbered(numbered, anchor, Len(nodes) + 1))
  BY <1>1, NewPushed
<1> HIDE DEF d, id
<1>4. d.stack = Append(stack, id) /\ stack \in Seq(Nat) /\ id \in Nat
  BY <1>1, <1>2, <1>3 DEF PushedWith, Pushed, AreFields, stack, id
<1>5. Top(d) = id
  <2>1. Append(stack, id)[Len(Append(stack, id))] = id
    BY <1>4
  <2> QED
    BY <1>4, <2>1 DEF Top, Last
<1> QED
  BY <1>2, <1>3, <1>5 DEF nodes, numbered, d, id

\* There is one node with an anchor more, or not.
LEMMA NumberedLength ==
    ASSUME NEW numbered \in Seq(Nat), NEW anchor, NEW id \in Nat
    PROVE  Len(Numbered(numbered, anchor, id)) = Len(numbered) + (IF anchor = NoAnchor THEN 0 ELSE 1)
<1>1. Len(Append(numbered, id)) = Len(numbered) + 1 /\ Len(numbered) \in Nat
  BY AppendProperties
<1>2. CASE anchor = NoAnchor
  BY <1>1, <1>2 DEF Numbered
<1>3. CASE anchor # NoAnchor
  BY <1>1, <1>3 DEF Numbered
<1> QED
  BY <1>2, <1>3

\* A node that is complete as soon as it begins.
LEMMA LeafFollows ==
    ASSUME NEW P, NEW b, Follows(P, b), NEW anchor
    PROVE  /\ Becomes(b, Completed(P), anchor, OnNull(b, anchor))
           /\ \A value : Becomes(b, Completed(P), anchor, OnScalar(b, anchor, value))
<1> DEFINE d == PushNew(b, anchor)
           id == Len(b.nodes) + 1
           filled(new) == [d EXCEPT !.nodes = Filled(d.nodes, id, new)]
<1>1. IsBuilder(b) /\ P \in Seq(Phases) /\ b.anchors \in Seq(Nat)
  BY DEF Follows, Agrees, IsBuilder, AreFields
<1>2. /\ Pushed(b, d, id) /\ d.anchors = Numbered(b.anchors, anchor, id) /\ Top(d) = id /\ id \in Nat
  BY <1>1, NewNode DEF PushedWith
<1>3. Completed(Begun(P)) = Completed(P)
  BY <1>1, PhasesChange
<1>4. Len(Numbered(b.anchors, anchor, id)) = Len(b.anchors) + (IF anchor = NoAnchor THEN 0 ELSE 1)
  BY <1>1, <1>2, NumberedLength
<1>5. ASSUME NEW new, "kind" \in DOMAIN new
      PROVE  Becomes(b, Completed(P), anchor, Pop(filled(new)))
  <2> DEFINE e == filled(new)
  <2> HIDE DEF id, d
  <2>1. Pushed(b, e, id) /\ e.anchors = d.anchors
    BY <1>1, <1>2, <1>5, PushedFilled DEF id
  <2> HIDE DEF e
  <2>2. Holds(Begun(P), e)
    BY <1>2, <2>1, PushHolds
  <2>3. Follows(Completed(P), Pop(e)) /\ Pop(e).anchors = e.anchors
    BY <1>3, <2>2, PopFollows
  <2>4. Becomes(b, Completed(P), anchor, Pop(e))
    BY <1>2, <1>4, <2>1, <2>3 DEF Becomes
  <2> QED
    BY <2>4 DEF e
<1>6. OnNull(b, anchor) = Pop(filled(NullNode))
  BY <1>2 DEF OnNull, set_null, Filled
<1>7. ASSUME NEW value PROVE OnScalar(b, anchor, value) = Pop(filled(ScalarNode(value)))
  BY <1>2 DEF OnScalar, set_scalar, Filled
<1>8. "kind" \in DOMAIN NullNode /\ \A value : "kind" \in DOMAIN ScalarNode(value)
  BY DEF NullNode, ScalarNode
<1> HIDE DEF filled
<1> QED
  BY <1>5, <1>6, <1>7, <1>8

\* An alias is the node itself, that of the anchor with its number.
LEMMA AliasFollows ==
    ASSUME NEW P, NEW b, Follows(P, b), NEW k \in 1 .. Len(b.anchors)
    PROVE  Becomes(b, Completed(P), NoAnchor, OnAlias(b, k))
<1> DEFINE nodes == b.nodes
           stack == b.stack
           keys == b.keys
           mapDepth == b.mapDepth
           numbered == b.anchors
           root == b.root
           id == numbered[k]
           d == PushNode(b, id)
<1>1. /\ b = Built(nodes, stack, keys, mapDepth, numbered, root)
      /\ AreFields(nodes, stack, keys, mapDepth, numbered)
      /\ P \in Seq(Phases)
  BY DEF Follows, Agrees, IsBuilder
<1>2. k \in 1 .. Len(numbered)
  OBVIOUS
<1> HIDE DEF nodes, stack, keys, mapDepth, numbered, root
<1>3. /\ numbered \in Seq(Nat) /\ \A i \in 1 .. Len(numbered) : numbered[i] \in 1 .. Len(nodes)
      /\ Len(nodes) \in Nat /\ Kept(nodes, nodes)
  BY <1>1 DEF AreFields, Kept, AreNodes, IsSequence
<1>4. id \in 1 .. Len(nodes) /\ id \in Nat
  BY <1>2, <1>3
<1> HIDE DEF id
<1>5. PushedWith(b, d, id, nodes, numbered)
  BY <1>1, <1>3, <1>4, NodePushed
<1> HIDE DEF d
<1>6. Pushed(b, d, id) /\ d.anchors = numbered
  BY <1>5 DEF PushedWith
<1>7. Holds(Begun(P), d)
  BY <1>4, <1>6, PushHolds
<1>8. Completed(Begun(P)) = Completed(P)
  BY <1>1, PhasesChange
<1>9. Follows(Completed(P), Pop(d)) /\ Pop(d).anchors = numbered
  BY <1>6, <1>7, <1>8, PopFollows
<1>10. OnAlias(b, k) = Pop(d)
  BY DEF OnAlias, d, id, numbered
<1>11. Len(numbered) \in Nat
  BY <1>3
<1> QED
  BY <1>9, <1>10, <1>11 DEF Becomes, numbered

\* The node that the builder holds becomes a collection that is open itself.
LEMMA Opened ==
    ASSUME NEW Q, NEW nodes, NEW stack, NEW keys, NEW mapDepth, NEW numbered, NEW root,
           Holds(Q, Built(nodes, stack, keys, mapDepth, numbered, root)),
           NEW phase \in {"item", "key"},
           nodes[Last(stack)].kind = IF phase = "item" THEN "Sequence" ELSE "Map",
           NEW depth \in Nat, depth = IF phase = "item" THEN mapDepth ELSE mapDepth + 1
    PROVE  Follows(Append(Q, phase), Built(nodes, stack, keys, depth, numbered, root))
<1> DEFINE n == Len(Q)
           R == Append(Q, phase)
           f == Built(nodes, stack, keys, depth, numbered, root)
<1>1. /\ AreFields(nodes, stack, keys, mapDepth, numbered) /\ stack # <<>>
      /\ Q \in Seq(Phases) /\ Len(Q) = Len(stack) - 1
      /\ TypesFollow(Q, Len(stack) - 1, nodes, stack)
      /\ mapDepth = MapsOf(Q, Len(stack) - 1) /\ KeysFollow(Q, Len(stack) - 1, keys)
      /\ \A i \in 1 .. Len(stack) - 1 - 1 : Q[i] # "key"
      /\ Q # <<>> => Q[Len(Q)] # "key"
  BY BuilderOf DEF Holds, Agrees
<1>2. n \in Nat /\ Len(stack) = n + 1 /\ stack \in Seq(Nat)
  BY <1>1 DEF AreFields
<1>3. /\ TypesFollow(Q, n, nodes, stack) /\ mapDepth = MapsOf(Q, n) /\ KeysFollow(Q, n, keys)
      /\ \A i \in 1 .. n - 1 : Q[i] # "key"
      /\ n > 0 => Q[n] # "key"
  BY <1>1, <1>2
<1>4. /\ R \in Seq(Phases) /\ Len(R) = n + 1 /\ \A i \in 1 .. n : R[i] = Q[i]
      /\ R[n + 1] = phase
  <2>1. phase \in Phases
    BY DEF Phases
  <2> QED
    BY <1>1, <2>1, AppendProperties
<1> HIDE DEF n, R
<1>5. MapsOf(R, n) = MapsOf(Q, n) /\ \A i \in 0 .. n : KeysOf(R, i) = KeysOf(Q, i)
  <2>1. ASSUME NEW i \in 0 .. n PROVE MapsOf(R, i) = MapsOf(Q, i) /\ KeysOf(R, i) = KeysOf(Q, i)
    <3>1. i \in Nat /\ \A j \in 1 .. i : R[j] = Q[j]
      BY <1>2, <1>4
    <3> QED
      BY <3>1, CountSame
  <2> QED
    BY <1>2, <2>1
<1>6. MapsOf(R, n + 1) = depth /\ KeysOf(R, n + 1) = KeysOf(Q, n)
  <2>1. /\ MapsOf(R, n) \in Nat /\ KeysOf(R, n) \in Nat
        /\ MapsOf(R, n + 1) = IF R[n + 1] # "item" THEN MapsOf(R, n) + 1 ELSE MapsOf(R, n)
        /\ KeysOf(R, n + 1) = IF R[n + 1] \in {"key_end", "value"} THEN KeysOf(R, n) + 1 ELSE KeysOf(R, n)
    BY <1>2, CountStep
  <2> QED
    BY <1>2, <1>3, <1>4, <1>5, <2>1
<1>7. \A i \in 1 .. n + 1 : i \in 1 .. n \/ i = n + 1
  BY <1>2
<1>8. TypesFollow(R, n + 1, nodes, stack)
  BY <1>2, <1>3, <1>4, <1>7 DEF TypesFollow, Last
<1>9. KeysFollow(R, n + 1, keys)
  <2>1. Len(keys) = KeysOf(R, n + 1) /\ R[n + 1] \notin {"key_end", "value"}
    BY <1>3, <1>4, <1>6 DEF KeysFollow
  <2>2. \A i \in 1 .. n : R[i] \in {"key_end", "value"} =>
          (keys[KeysOf(R, i)].complete <=> R[i] = "value")
    BY <1>2, <1>3, <1>4, <1>5, SMTT(30) DEF KeysFollow
  <2> QED
    BY <1>7, <2>1, <2>2 DEF KeysFollow
<1>10. \A i \in 1 .. n : R[i] # "key"
  BY <1>2, <1>3, <1>4, SMTT(30)
<1>11. AreFields(nodes, stack, keys, depth, numbered)
  BY <1>1 DEF AreFields
<1>12. f.nodes = nodes /\ f.stack = stack /\ f.keys = keys /\ f.mapDepth = depth /\ IsBuilder(f)
  BY <1>11, BuilderOf
<1> HIDE DEF f
<1>13. Agrees(R, n + 1, f)
  BY <1>2, <1>4, <1>6, <1>8, <1>9, <1>10, <1>12 DEF Agrees
<1>14. R[Len(R)] # "key_end"
  BY <1>4
<1>15. Follows(R, f)
  BY <1>2, <1>12, <1>13, <1>14 DEF Follows
<1> QED
  BY <1>15 DEF R, f

\* The last collection is complete: the builder holds its node.
LEMMA Closed ==
    ASSUME NEW P, NEW nodes, NEW stack, NEW keys, NEW mapDepth, NEW numbered, NEW root,
           Follows(P, Built(nodes, stack, keys, mapDepth, numbered, root)),
           P # <<>>, P[Len(P)] \in {"item", "key"},
           NEW depth, depth = IF P[Len(P)] = "item" THEN mapDepth ELSE mapDepth - 1
    PROVE  Holds(Front(P), Built(nodes, stack, keys, depth, numbered, root))
<1> DEFINE n == Len(P) - 1
           Q == Front(P)
           f == Built(nodes, stack, keys, depth, numbered, root)
<1>1. /\ AreFields(nodes, stack, keys, mapDepth, numbered)
      /\ P \in Seq(Phases) /\ Len(P) = Len(stack)
      /\ TypesFollow(P, Len(stack), nodes, stack)
      /\ mapDepth = MapsOf(P, Len(stack)) /\ KeysFollow(P, Len(stack), keys)
      /\ \A i \in 1 .. Len(stack) - 1 : P[i] # "key"
  BY BuilderOf DEF Follows, Agrees
<1>2. /\ n \in Nat /\ Len(P) = n + 1 /\ Len(stack) = n + 1 /\ stack # <<>>
      /\ Q \in Seq(Phases) /\ Len(Q) = n /\ \A i \in 1 .. n : Q[i] = P[i]
  BY <1>1, FrontProperties DEF AreFields
<1>3. /\ TypesFollow(P, n + 1, nodes, stack) /\ mapDepth = MapsOf(P, n + 1) /\ KeysFollow(P, n + 1, keys)
      /\ \A i \in 1 .. n : P[i] # "key"
      /\ P[n + 1] \in {"item", "key"}
      /\ depth = IF P[n + 1] = "item" THEN mapDepth ELSE mapDepth - 1
  BY <1>1, <1>2
<1> HIDE DEF n, Q
<1>4. MapsOf(Q, n) = MapsOf(P, n) /\ \A i \in 0 .. n : KeysOf(Q, i) = KeysOf(P, i)
  <2>1. ASSUME NEW i \in 0 .. n PROVE MapsOf(Q, i) = MapsOf(P, i) /\ KeysOf(Q, i) = KeysOf(P, i)
    <3>1. i \in Nat /\ \A j \in 1 .. i : Q[j] = P[j]
      BY <1>2
    <3> QED
      BY <3>1, CountSame
  <2> QED
    BY <1>2, <2>1
<1>5. MapsOf(Q, n) = depth /\ KeysOf(Q, n) = KeysOf(P, n + 1) /\ depth \in Nat
  <2>1. /\ MapsOf(P, n) \in Nat /\ KeysOf(P, n) \in Nat
        /\ MapsOf(P, n + 1) = IF P[n + 1] # "item" THEN MapsOf(P, n) + 1 ELSE MapsOf(P, n)
        /\ KeysOf(P, n + 1) = IF P[n + 1] \in {"key_end", "value"} THEN KeysOf(P, n) + 1 ELSE KeysOf(P, n)
    BY <1>2, CountStep
  <2> QED
    BY <1>2, <1>3, <1>4, <2>1
<1>6. TypesFollow(Q, n, nodes, stack)
  BY <1>2, <1>3 DEF TypesFollow
<1>7. KeysFollow(Q, n, keys)
  BY <1>2, <1>3, <1>4, <1>5 DEF KeysFollow
<1>8. (\A i \in 1 .. n - 1 : Q[i] # "key") /\ (Q # <<>> => Q[Len(Q)] # "key")
  BY <1>2, <1>3
<1>9. AreFields(nodes, stack, keys, depth, numbered)
  BY <1>1, <1>5 DEF AreFields
<1>10. f.nodes = nodes /\ f.stack = stack /\ f.keys = keys /\ f.mapDepth = depth /\ IsBuilder(f)
  BY <1>9, BuilderOf
<1> HIDE DEF f
<1>11. Agrees(Q, n, f)
  BY <1>2, <1>5, <1>6, <1>7, <1>8, <1>10 DEF Agrees
<1>12. Len(f.stack) - 1 = n
  BY <1>2, <1>10
<1>13. Holds(Q, f)
  BY <1>2, <1>8, <1>10, <1>11, <1>12 DEF Holds
<1> QED
  BY <1>13 DEF Q, f

\* A collection begins: it is open itself, with nothing in it.
LEMMA StartFollows ==
    ASSUME NEW P, NEW b, Follows(P, b), NEW anchor
    PROVE  /\ Becomes(b, Append(Begun(P), "item"), anchor, OnSequenceStart(b, anchor))
           /\ Becomes(b, Append(Begun(P), "key"), anchor, OnMapStart(b, anchor))
<1> DEFINE d == PushNew(b, anchor)
           id == Len(b.nodes) + 1
           filled(new) == [d EXCEPT !.nodes = Filled(d.nodes, id, new)]
<1>1. IsBuilder(b) /\ P \in Seq(Phases) /\ b.anchors \in Seq(Nat)
  BY DEF Follows, Agrees, IsBuilder, AreFields
<1>2. /\ Pushed(b, d, id) /\ d.anchors = Numbered(b.anchors, anchor, id) /\ Top(d) = id /\ id \in Nat
      /\ d.nodes = create_node(b.nodes) /\ id = Len(create_node(b.nodes))
  BY <1>1, NewNode DEF PushedWith
<1>3. d.nodes[id].kind = "Undefined" /\ id = Len(d.nodes)
  <2>1. AreNodes(b.nodes)
    BY <1>1 DEF IsBuilder, AreFields
  <2>2. create_node(b.nodes)[Len(b.nodes) + 1] = UndefinedNode
    BY <2>1, NodeCreated
  <2> HIDE DEF d
  <2> QED
    BY <1>2, <2>2 DEF UndefinedNode
<1>4. Len(Numbered(b.anchors, anchor, id)) = Len(b.anchors) + (IF anchor = NoAnchor THEN 0 ELSE 1)
  BY <1>1, <1>2, NumberedLength
<1> HIDE DEF d
<1>5. ASSUME NEW new, "kind" \in DOMAIN new
      PROVE  /\ Holds(Begun(P), filled(new)) /\ filled(new).nodes[Last(filled(new).stack)] = new
             /\ Len(filled(new).anchors) = Len(b.anchors) + (IF anchor = NoAnchor THEN 0 ELSE 1)
  <2> DEFINE e == filled(new)
  <2>1. Pushed(b, e, id) /\ e.anchors = d.anchors /\ e.nodes[id] = new
    BY <1>1, <1>2, <1>3, <1>5, PushedFilled
  <2> HIDE DEF e, id
  <2>2. Holds(Begun(P), e)
    BY <1>2, <2>1, PushHolds
  <2>3. Last(e.stack) = id
    <3> DEFINE stack == b.stack
    <3>1. e.stack = Append(stack, id) /\ stack \in Seq(Nat)
      BY <1>1, <2>1 DEF Pushed, IsBuilder, AreFields
    <3> HIDE DEF stack
    <3>2. Append(stack, id)[Len(Append(stack, id))] = id
      BY <1>2, <3>1
    <3> QED
      BY <3>1, <3>2 DEF Last
  <2> QED
    BY <1>2, <1>4, <2>1, <2>2, <2>3 DEF e
<1>6. WithType(d, "Sequence") = filled(EmptySequence) /\ WithType(d, "Map") = filled(EmptyMap)
  BY <1>2, <1>3 DEF WithType, set_type, Filled
<1>7. /\ "kind" \in DOMAIN EmptySequence /\ EmptySequence.kind = "Sequence"
      /\ "kind" \in DOMAIN EmptyMap /\ EmptyMap.kind = "Map"
  BY DEF EmptySequence, EmptyMap
<1> HIDE DEF filled, id
<1>8. Becomes(b, Append(Begun(P), "item"), anchor, OnSequenceStart(b, anchor))
  <2> DEFINE e == filled(EmptySequence)
             nodes == e.nodes
             stack == e.stack
             keys == e.keys
             mapDepth == e.mapDepth
             numbered == e.anchors
             root == e.root
  <2>1. Holds(Begun(P), e) /\ nodes[Last(stack)].kind = "Sequence"
        /\ Len(numbered) = Len(b.anchors) + (IF anchor = NoAnchor THEN 0 ELSE 1)
    BY <1>5, <1>7
  <2>2. e = Built(nodes, stack, keys, mapDepth, numbered, root) /\ mapDepth \in Nat
    BY <2>1 DEF Holds, Agrees, IsBuilder, AreFields
  <2>3. OnSequenceStart(b, anchor) = e
    BY <1>6 DEF OnSequenceStart, d
  <2> HIDE DEF e, nodes, stack, keys, mapDepth, numbered, root
  <2>4. Follows(Append(Begun(P), "item"), e)
    BY <2>1, <2>2, Opened
  <2> QED
    BY <2>1, <2>3, <2>4 DEF Becomes, numbered
<1>9. Becomes(b, Append(Begun(P), "key"), anchor, OnMapStart(b, anchor))
  <2> DEFINE e == filled(EmptyMap)
             nodes == e.nodes
             stack == e.stack
             keys == e.keys
             mapDepth == e.mapDepth
             numbered == e.anchors
             root == e.root
             f == Built(nodes, stack, keys, mapDepth + 1, numbered, root)
  <2>1. Holds(Begun(P), e) /\ nodes[Last(stack)].kind = "Map"
        /\ Len(numbered) = Len(b.anchors) + (IF anchor = NoAnchor THEN 0 ELSE 1)
    BY <1>5, <1>7
  <2>2. e = Built(nodes, stack, keys, mapDepth, numbered, root) /\ mapDepth \in Nat
    BY <2>1 DEF Holds, Agrees, IsBuilder, AreFields
  <2>3. OnMapStart(b, anchor) = [e EXCEPT !.mapDepth = mapDepth + 1]
    BY <1>6 DEF OnMapStart, d
  <2> HIDE DEF e, nodes, stack, keys, mapDepth, numbered, root
  <2>4. [e EXCEPT !.mapDepth = mapDepth + 1] = f
    <3> DEFINE depth == mapDepth + 1
    <3>1. f = Built(nodes, stack, keys, depth, numbered, root)
      OBVIOUS
    <3> HIDE DEF depth, f
    <3>2. [e EXCEPT !.mapDepth = depth] = Built(nodes, stack, keys, depth, numbered, root)
      BY <2>2 DEF Built
    <3> QED
      BY <3>1, <3>2 DEF depth
  <2>5. Follows(Append(Begun(P), "key"), f) /\ f.anchors = numbered
    <3>1. mapDepth + 1 \in Nat
      BY <2>2
    <3>2. Follows(Append(Begun(P), "key"), f)
      BY <2>1, <2>2, <3>1, Opened
    <3> QED
      BY <3>2, BuilderOf
  <2> HIDE DEF f
  <2> QED
    BY <2>1, <2>3, <2>4, <2>5 DEF Becomes
<1> QED
  BY <1>8, <1>9

\* A collection ends, and is itself an item, a key or a value of the one below.
LEMMA EndFollows ==
    ASSUME NEW P, NEW b, Follows(P, b), P # <<>>
    PROVE  /\ P[Len(P)] = "item" => Becomes(b, Completed(Front(P)), NoAnchor, OnSequenceEnd(b))
           /\ P[Len(P)] = "key" => Becomes(b, Completed(Front(P)), NoAnchor, OnMapEnd(b))
<1> DEFINE nodes == b.nodes
           stack == b.stack
           keys == b.keys
           mapDepth == b.mapDepth
           numbered == b.anchors
           root == b.root
           f == Built(nodes, stack, keys, mapDepth - 1, numbered, root)
<1>1. /\ b = Built(nodes, stack, keys, mapDepth, numbered, root)
      /\ numbered \in Seq(Nat) /\ mapDepth \in Nat
  BY DEF Follows, Agrees, IsBuilder, AreFields
<1>2. OnSequenceEnd(b) = Pop(b) /\ OnMapEnd(b) = Pop([b EXCEPT !.mapDepth = mapDepth - 1])
  BY DEF OnSequenceEnd, OnMapEnd
<1> HIDE DEF nodes, stack, keys, mapDepth, numbered, root
<1>3. [b EXCEPT !.mapDepth = mapDepth - 1] = f /\ f.anchors = numbered
  <2>1. [b EXCEPT !.mapDepth = mapDepth - 1] = f
    <3> DEFINE depth == mapDepth - 1
    <3>1. f = Built(nodes, stack, keys, depth, numbered, root)
      OBVIOUS
    <3> HIDE DEF depth, f
    <3>2. [b EXCEPT !.mapDepth = depth] = Built(nodes, stack, keys, depth, numbered, root)
      BY <1>1 DEF Built
    <3> QED
      BY <3>1, <3>2 DEF depth
  <2> QED
    BY <2>1, BuilderOf
<1>4. Len(numbered) \in Nat
  BY <1>1
<1>5. CASE P[Len(P)] = "item"
  <2>1. Holds(Front(P), b)
    BY <1>1, <1>5, Closed
  <2>2. Follows(Completed(Front(P)), Pop(b)) /\ Pop(b).anchors = numbered
    BY <2>1, PopFollows DEF numbered
  <2> QED
    BY <1>2, <1>4, <1>5, <2>2 DEF Becomes, numbered
<1>6. CASE P[Len(P)] = "key"
  <2>1. Holds(Front(P), f)
    BY <1>1, <1>6, Closed
  <2> HIDE DEF f
  <2>2. Follows(Completed(Front(P)), Pop(f)) /\ Pop(f).anchors = numbered
    BY <1>3, <2>1, PopFollows
  <2> QED
    BY <1>2, <1>3, <1>4, <1>6, <2>2 DEF Becomes, numbered
<1> QED
  BY <1>5, <1>6

-----------------------------------------------------------------------------
(* The open calls of the parser                                            *)

MapCalls == {"BlockMap", "FlowMap", "FlowMapNext", "CompactEnd"}
CollectionCalls == ItemCalls \cup ValueCalls \cup MapCalls

NodeFrame(fresh, tag, anchor) == [kind |-> "Node", fresh |-> fresh, tag |-> tag, anchor |-> anchor]

IsNodeFrame(frame) ==
    /\ frame = NodeFrame(frame.fresh, frame.tag, frame.anchor)
    /\ frame.fresh => frame.anchor = NoAnchor

HasNode(fs) == fs[Len(fs)].kind = "Node"

GoodFrames(fs) ==
    /\ IsSequence(fs) /\ fs # <<>>
    /\ fs[1].kind \in {"Directives", "Document"}
    /\ \A i \in 2 .. Len(fs) - 1 : fs[i].kind \in CollectionCalls
    /\ Len(fs) > 1 => fs[Len(fs)].kind \in CollectionCalls \/ IsNodeFrame(fs[Len(fs)])

\* What the collection of a call gets next: below another one, on top, and below a node.
Below(call)    == IF call \in ItemCalls THEN "item" ELSE IF call \in ValueCalls THEN "key_end" ELSE "value"
AtTop(call)    == IF call \in ItemCalls THEN "item" ELSE IF call \in ValueCalls THEN "value" ELSE "key"
BelowNode(call) == IF call \in ItemCalls THEN "item" ELSE IF call \in ValueCalls THEN "key" ELSE "value"

Depths(fs) == Len(fs) - (IF HasNode(fs) THEN 2 ELSE 1)

CallsOf(fs) ==
    [i \in 1 .. Depths(fs) |->
        IF i < Depths(fs) THEN Below(fs[i + 1].kind)
        ELSE IF HasNode(fs) THEN BelowNode(fs[i + 1].kind) ELSE AtTop(fs[i + 1].kind)]

\* Phases that are the same one by one are the same.
LEMMA SamePhases ==
    ASSUME NEW P \in Seq(Phases), NEW Q \in Seq(Phases), Len(P) = Len(Q),
           \A i \in 1 .. Len(P) : P[i] = Q[i]
    PROVE  P = Q
OBVIOUS

\* The phases that the open calls stand for.
LEMMA CallsAre ==
    ASSUME NEW fs, GoodFrames(fs)
    PROVE  /\ Depths(fs) \in Nat /\ Len(fs) \in Nat \ {0}
           /\ Depths(fs) = IF HasNode(fs) THEN Len(fs) - 2 ELSE Len(fs) - 1
           /\ CallsOf(fs) \in Seq(Phases) /\ Len(CallsOf(fs)) = Depths(fs)
           /\ \A i \in 1 .. Depths(fs) - 1 : CallsOf(fs)[i] = Below(fs[i + 1].kind)
           /\ Depths(fs) > 0 =>
                CallsOf(fs)[Depths(fs)] = IF HasNode(fs) THEN BelowNode(fs[Depths(fs) + 1].kind)
                                          ELSE AtTop(fs[Depths(fs) + 1].kind)
<1> DEFINE n == Depths(fs)
<1>1. Len(fs) \in Nat \ {0}
  BY DEF GoodFrames, IsSequence
<1>2. n \in Nat /\ n = IF HasNode(fs) THEN Len(fs) - 2 ELSE Len(fs) - 1
  BY <1>1 DEF GoodFrames, HasNode, Depths
<1> HIDE DEF n
<1>3. \A i \in 1 .. n : CallsOf(fs)[i] = IF i < n THEN Below(fs[i + 1].kind)
        ELSE IF HasNode(fs) THEN BelowNode(fs[i + 1].kind) ELSE AtTop(fs[i + 1].kind)
  BY DEF CallsOf, n
<1>4. \A i \in 1 .. n : CallsOf(fs)[i] \in Phases
  BY <1>3 DEF Phases, Below, AtTop, BelowNode
<1>5. CallsOf(fs) \in Seq(Phases) /\ Len(CallsOf(fs)) = n
  <2> DEFINE P == CallsOf(fs)
  <2>1. P = [i \in 1 .. n |-> P[i]]
    BY DEF CallsOf, n
  <2> HIDE DEF P
  <2>2. P \in [1 .. n -> Phases]
    BY <1>4, <2>1 DEF P
  <2>3. P \in Seq(Phases)
    BY <1>2, <2>2
  <2>4. Len(P) = n
    BY <1>2, <2>2, <2>3
  <2> QED
    BY <2>3, <2>4 DEF P
<1> QED
  BY <1>1, <1>2, <1>3, <1>5 DEF n

\* The frames as they are after the steps of the parser.
LEMMA FramesReplaced ==
    ASSUME NEW fs, GoodFrames(fs), Len(fs) > 1, NEW frame,
           frame.kind \in CollectionCalls \/ IsNodeFrame(frame)
    PROVE  LET gs == Append(Front(fs), frame)
           IN  /\ GoodFrames(gs) /\ Len(gs) = Len(fs) /\ gs[Len(fs)] = frame
               /\ \A i \in 1 .. Len(fs) - 1 : gs[i] = fs[i]
<1> DEFINE below == Front(fs)
           gs == Append(below, frame)
<1>1. /\ IsSequence(below) /\ Len(below) = Len(fs) - 1 /\ Len(fs) \in Nat
      /\ \A i \in 1 .. Len(fs) - 1 : below[i] = fs[i]
  BY InFront DEF GoodFrames
<1> HIDE DEF below
<1>2. /\ IsSequence(gs) /\ Len(gs) = Len(below) + 1
      /\ \A i \in 1 .. Len(below) : gs[i] = below[i]
      /\ gs[Len(below) + 1] = frame
  BY <1>1, Appended
<1> HIDE DEF gs
<1>3. /\ Len(gs) = Len(fs) /\ gs[Len(fs)] = frame
      /\ \A i \in 1 .. Len(fs) - 1 : gs[i] = fs[i]
  BY <1>1, <1>2
<1>4. gs # <<>> /\ gs[1] = fs[1]
  BY <1>1, <1>2, <1>3
<1>5. GoodFrames(gs)
  BY <1>1, <1>2, <1>3, <1>4 DEF GoodFrames
<1> QED
  BY <1>3, <1>5 DEF gs, below

\* A call goes on and calls a node.
LEMMA FramesAdded ==
    ASSUME NEW fs, GoodFrames(fs), NEW call,
           IF Len(fs) = 1 THEN call = "Document" ELSE call \in CollectionCalls
    PROVE  LET gs == Front(fs) \o <<Frame(call), Node>>
           IN  /\ GoodFrames(gs) /\ Len(gs) = Len(fs) + 1
               /\ gs[Len(fs)] = Frame(call) /\ gs[Len(fs) + 1] = Node
               /\ \A i \in 1 .. Len(fs) - 1 : gs[i] = fs[i]
<1> DEFINE below == Front(fs)
           hs == Append(below, Frame(call))
           gs == Append(hs, Node)
<1>1. /\ IsSequence(below) /\ Len(below) = Len(fs) - 1 /\ Len(fs) \in Nat \ {0}
      /\ \A i \in 1 .. Len(fs) - 1 : below[i] = fs[i]
  BY InFront DEF GoodFrames
<1>2. Front(fs) \o <<Frame(call), Node>> = gs
  BY Replaced DEF GoodFrames
<1> HIDE DEF below
<1>3. /\ IsSequence(hs) /\ Len(hs) = Len(below) + 1
      /\ \A i \in 1 .. Len(below) : hs[i] = below[i]
      /\ hs[Len(below) + 1] = Frame(call)
  BY <1>1, Appended
<1> HIDE DEF hs
<1>4. /\ IsSequence(gs) /\ Len(gs) = Len(hs) + 1
      /\ \A i \in 1 .. Len(hs) : gs[i] = hs[i]
      /\ gs[Len(hs) + 1] = Node
  BY <1>3, Appended
<1> HIDE DEF gs
<1>5. /\ Len(gs) = Len(fs) + 1 /\ gs[Len(fs)] = Frame(call) /\ gs[Len(fs) + 1] = Node
      /\ \A i \in 1 .. Len(fs) - 1 : gs[i] = fs[i]
  BY <1>1, <1>3, <1>4
<1>6. Frame(call).kind = call /\ IsNodeFrame(Node)
  BY DEF Frame, Node, IsNodeFrame, NodeFrame
<1>7. gs # <<>> /\ gs[1].kind \in {"Directives", "Document"}
  BY <1>1, <1>4, <1>5, <1>6 DEF GoodFrames
<1>8. \A i \in 2 .. Len(gs) - 1 : gs[i].kind \in CollectionCalls
  <2>1. \A i \in 2 .. Len(gs) - 1 : i = Len(fs) \/ i \in 2 .. Len(fs) - 1
    BY <1>1, <1>5
  <2> QED
    BY <1>1, <1>5, <1>6, <2>1 DEF GoodFrames
<1>9. GoodFrames(gs)
  BY <1>1, <1>4, <1>5, <1>6, <1>7, <1>8 DEF GoodFrames
<1> QED
  BY <1>2, <1>5, <1>9

\* A call returns.
LEMMA FramesReturned ==
    ASSUME NEW fs, GoodFrames(fs), Len(fs) > 1
    PROVE  LET gs == Front(fs)
           IN  /\ GoodFrames(gs) /\ Len(gs) = Len(fs) - 1 /\ ~HasNode(gs)
               /\ \A i \in 1 .. Len(fs) - 1 : gs[i] = fs[i]
<1> DEFINE gs == Front(fs)
<1>1. /\ IsSequence(gs) /\ Len(gs) = Len(fs) - 1 /\ Len(fs) \in Nat
      /\ \A i \in 1 .. Len(fs) - 1 : gs[i] = fs[i]
  BY InFront DEF GoodFrames
<1> HIDE DEF gs
<1>2. gs # <<>> /\ gs[1] = fs[1] /\ \A i \in 2 .. Len(gs) : gs[i].kind \in CollectionCalls
  BY <1>1 DEF GoodFrames
<1>3. "Node" \notin CollectionCalls \cup {"Directives", "Document"}
  BY DEF CollectionCalls, ItemCalls, ValueCalls, MapCalls
<1>4. GoodFrames(gs)
  BY <1>1, <1>2 DEF GoodFrames
<1>5. ~HasNode(gs)
  BY <1>1, <1>2, <1>3 DEF HasNode, GoodFrames
<1> QED
  BY <1>1, <1>4, <1>5 DEF gs

\* A node is done, and its call with it: the collection below has got it.
LEMMA NodeReturned ==
    ASSUME NEW fs, GoodFrames(fs), Len(fs) > 1, HasNode(fs)
    PROVE  /\ GoodFrames(Front(fs)) /\ ~HasNode(Front(fs))
           /\ CallsOf(Front(fs)) = Completed(CallsOf(fs))
<1> DEFINE gs == Front(fs)
           P == CallsOf(fs)
           Q == CallsOf(gs)
           R == Completed(P)
           m == Depths(fs)
<1>1. /\ GoodFrames(gs) /\ Len(gs) = Len(fs) - 1 /\ ~HasNode(gs)
      /\ \A i \in 1 .. Len(fs) - 1 : gs[i] = fs[i]
  BY FramesReturned
<1> HIDE DEF gs
<1>2. /\ m \in Nat /\ Len(fs) = m + 2 /\ Len(gs) = m + 1 /\ Depths(gs) = m
      /\ P \in Seq(Phases) /\ Len(P) = m /\ Q \in Seq(Phases) /\ Len(Q) = m
      /\ \A i \in 1 .. m - 1 : P[i] = Below(fs[i + 1].kind) /\ Q[i] = Below(gs[i + 1].kind)
      /\ m > 0 => P[m] = BelowNode(fs[m + 1].kind) /\ Q[m] = AtTop(gs[m + 1].kind)
  BY <1>1, CallsAre
<1>3. R \in Seq(Phases) /\ Len(R) = m /\ \A i \in 1 .. m - 1 : R[i] = P[i]
  BY <1>2, PhasesChange
<1>4. m > 0 => R[m] = IF P[m] \in {"key", "key_end"} THEN "value" ELSE IF P[m] = "value" THEN "key" ELSE P[m]
  BY <1>2 DEF Completed
<1> HIDE DEF P, Q, R, m
<1>5. \A i \in 1 .. m : Q[i] = R[i]
  <2>1. \A i \in 1 .. m - 1 : Q[i] = R[i]
    BY <1>1, <1>2, <1>3
  <2>2. m > 0 => Q[m] = R[m]
    BY <1>1, <1>2, <1>4 DEF BelowNode, AtTop
  <2>3. \A i \in 1 .. m : i \in 1 .. m - 1 \/ (m > 0 /\ i = m)
    BY <1>2
  <2> QED
    BY <2>1, <2>2, <2>3
<1>6. Q = R
  BY <1>2, <1>3, <1>5, SamePhases
<1> QED
  BY <1>1, <1>6 DEF gs, P, Q, R

\* A collection is done.
LEMMA CollectionReturned ==
    ASSUME NEW fs, GoodFrames(fs), Len(fs) > 1, ~HasNode(fs)
    PROVE  /\ GoodFrames(Front(fs)) /\ ~HasNode(Front(fs))
           /\ CallsOf(fs) # <<>> /\ CallsOf(Front(fs)) = Completed(Front(CallsOf(fs)))
<1> DEFINE gs == Front(fs)
           P == CallsOf(fs)
           F == Front(P)
           Q == CallsOf(gs)
           R == Completed(F)
           m == Depths(gs)
<1>1. /\ GoodFrames(gs) /\ Len(gs) = Len(fs) - 1 /\ ~HasNode(gs)
      /\ \A i \in 1 .. Len(fs) - 1 : gs[i] = fs[i]
  BY FramesReturned
<1> HIDE DEF gs
<1>2. /\ m \in Nat /\ Len(fs) = m + 2 /\ Len(gs) = m + 1 /\ Depths(fs) = m + 1
      /\ P \in Seq(Phases) /\ Len(P) = m + 1 /\ Q \in Seq(Phases) /\ Len(Q) = m
      /\ \A i \in 1 .. m : P[i] = Below(fs[i + 1].kind)
      /\ \A i \in 1 .. m - 1 : Q[i] = Below(gs[i + 1].kind)
      /\ m > 0 => Q[m] = AtTop(gs[m + 1].kind)
  BY <1>1, CallsAre, SMTT(30)
<1> HIDE DEF P, Q, R, m
<1>3. P # <<>> /\ F \in Seq(Phases) /\ Len(F) = m /\ \A i \in 1 .. m : F[i] = P[i]
  <2>1. P # <<>>
    BY <1>2
  <2>2. /\ Front(P) \in Seq(Phases) /\ Len(Front(P)) = Len(P) - 1
        /\ \A i \in 1 .. Len(P) - 1 : Front(P)[i] = P[i]
    BY <1>2, <2>1, FrontProperties
  <2> QED
    BY <1>2, <2>1, <2>2
<1> HIDE DEF F
<1>4. R \in Seq(Phases) /\ Len(R) = m /\ \A i \in 1 .. m - 1 : R[i] = F[i]
  BY <1>3, PhasesChange DEF R
<1>5. m > 0 => R[m] = IF F[m] \in {"key", "key_end"} THEN "value" ELSE IF F[m] = "value" THEN "key" ELSE F[m]
  BY <1>2, <1>3 DEF Completed, R
<1>6. \A i \in 1 .. m : Q[i] = R[i]
  <2>1. \A i \in 1 .. m - 1 : Q[i] = R[i]
    BY <1>1, <1>2, <1>3, <1>4, SMTT(30)
  <2>2. m > 0 => Q[m] = R[m]
    BY <1>1, <1>2, <1>3, <1>5 DEF Below, AtTop
  <2>3. \A i \in 1 .. m : i \in 1 .. m - 1 \/ (m > 0 /\ i = m)
    BY <1>2
  <2> QED
    BY <2>1, <2>2, <2>3
<1>7. Q = R
  BY <1>2, <1>4, <1>6, SamePhases
<1> QED
  BY <1>1, <1>3, <1>7 DEF gs, P, Q, R, F

\* A node turns out to be a collection, in which the next node is looked for or not.
LEMMA CollectionCalled ==
    ASSUME NEW fs, GoodFrames(fs), Len(fs) > 1, HasNode(fs), NEW call \in CollectionCalls
    PROVE  /\ GoodFrames(Append(Front(fs), Frame(call))) /\ ~HasNode(Append(Front(fs), Frame(call)))
           /\ CallsOf(Append(Front(fs), Frame(call))) = Append(Begun(CallsOf(fs)), AtTop(call))
           /\ GoodFrames(Front(fs) \o <<Frame(call), Node>>)
           /\ Front(fs) \o <<Frame(call), Node>> # <<>> /\ Last(Front(fs) \o <<Frame(call), Node>>) = Node
           /\ CallsOf(Front(fs) \o <<Frame(call), Node>>) = Append(Begun(CallsOf(fs)), BelowNode(call))
<1> DEFINE P == CallsOf(fs)
           B == Begun(P)
           m == Depths(fs)
<1>1. /\ Frame(call).kind = call /\ Frame(call).kind # "Node" /\ AtTop(call) \in Phases
      /\ BelowNode(call) \in Phases /\ Node.kind = "Node"
  BY DEF Frame, Node, CollectionCalls, ItemCalls, ValueCalls, MapCalls, AtTop, BelowNode, Phases
<1>2. /\ m \in Nat /\ Len(fs) = m + 2
      /\ P \in Seq(Phases) /\ Len(P) = m
      /\ \A i \in 1 .. m - 1 : P[i] = Below(fs[i + 1].kind)
      /\ m > 0 => P[m] = BelowNode(fs[m + 1].kind)
  BY CallsAre
<1>3. B \in Seq(Phases) /\ Len(B) = m /\ \A i \in 1 .. m - 1 : B[i] = P[i]
  BY <1>2, PhasesChange
<1>4. m > 0 => B[m] = IF P[m] = "key" THEN "key_end" ELSE P[m]
  BY <1>2 DEF Begun
<1> HIDE DEF P, B, m
<1>5. \A i \in 1 .. m : B[i] = Below(fs[i + 1].kind)
  <2>1. m > 0 => B[m] = Below(fs[m + 1].kind)
    BY <1>2, <1>4 DEF BelowNode, Below
  <2>2. \A i \in 1 .. m : i \in 1 .. m - 1 \/ (m > 0 /\ i = m)
    BY <1>2
  <2> QED
    BY <1>2, <1>3, <2>1, <2>2
<1>6. ASSUME NEW phase \in Phases
      PROVE  /\ Append(B, phase) \in Seq(Phases) /\ Len(Append(B, phase)) = m + 1
             /\ \A i \in 1 .. m : Append(B, phase)[i] = B[i]
             /\ Append(B, phase)[m + 1] = phase
  BY <1>3, AppendProperties
<1>7. /\ GoodFrames(Append(Front(fs), Frame(call))) /\ ~HasNode(Append(Front(fs), Frame(call)))
      /\ CallsOf(Append(Front(fs), Frame(call))) = Append(B, AtTop(call))
  <2> DEFINE gs == Append(Front(fs), Frame(call))
             Q == CallsOf(gs)
             R == Append(B, AtTop(call))
  <2>1. /\ GoodFrames(gs) /\ Len(gs) = Len(fs) /\ gs[Len(fs)] = Frame(call)
        /\ \A i \in 1 .. Len(fs) - 1 : gs[i] = fs[i]
    BY <1>1, FramesReplaced
  <2> HIDE DEF gs
  <2>2. ~HasNode(gs)
    BY <1>1, <2>1 DEF HasNode
  <2>3. /\ Q \in Seq(Phases) /\ Len(Q) = m + 1
        /\ \A i \in 1 .. m : Q[i] = Below(gs[i + 1].kind)
        /\ Q[m + 1] = AtTop(gs[m + 2].kind)
    <3> DEFINE k == Depths(gs)
    <3>1. k = m + 1
      BY <1>2, <2>1, <2>2, CallsAre
    <3>2. /\ Q \in Seq(Phases) /\ Len(Q) = k
          /\ \A i \in 1 .. k - 1 : Q[i] = Below(gs[i + 1].kind)
          /\ k > 0 => Q[k] = AtTop(gs[k + 1].kind)
      BY <2>1, <2>2, CallsAre
    <3> HIDE DEF k, Q
    <3> QED
      BY <1>2, <3>1, <3>2
  <2>4. /\ R \in Seq(Phases) /\ Len(R) = m + 1
        /\ \A i \in 1 .. m : R[i] = B[i]
        /\ R[m + 1] = AtTop(call)
    BY <1>1, <1>6
  <2> HIDE DEF Q, R
  <2>5. \A i \in 1 .. m + 1 : i \in 1 .. m \/ i = m + 1
    BY <1>2
  <2>6. \A i \in 1 .. m + 1 : Q[i] = R[i]
    <3>1. \A i \in 1 .. m : Q[i] = R[i]
      <4>1. \A i \in 1 .. m : gs[i + 1] = fs[i + 1]
        BY <1>2, <2>1
      <4> QED
        BY <1>5, <2>3, <2>4, <4>1
    <3>2. Q[m + 1] = R[m + 1]
      BY <1>1, <1>2, <2>1, <2>3, <2>4
    <3> QED
      BY <2>5, <3>1, <3>2
  <2>7. Q = R
    BY <2>3, <2>4, <2>6, SamePhases
  <2> QED
    BY <2>1, <2>2, <2>7 DEF gs, Q, R
<1>8. /\ GoodFrames(Front(fs) \o <<Frame(call), Node>>)
      /\ Front(fs) \o <<Frame(call), Node>> # <<>> /\ Last(Front(fs) \o <<Frame(call), Node>>) = Node
      /\ CallsOf(Front(fs) \o <<Frame(call), Node>>) = Append(B, BelowNode(call))
  <2> DEFINE gs == Front(fs) \o <<Frame(call), Node>>
             Q == CallsOf(gs)
             R == Append(B, BelowNode(call))
  <2>1. /\ GoodFrames(gs) /\ Len(gs) = Len(fs) + 1 /\ gs[Len(fs)] = Frame(call) /\ gs[Len(fs) + 1] = Node
        /\ \A i \in 1 .. Len(fs) - 1 : gs[i] = fs[i]
    <3>1. Len(fs) # 1
      BY <1>2
    <3> QED
      BY <3>1, FramesAdded
  <2> HIDE DEF gs
  <2>2. HasNode(gs) /\ gs # <<>> /\ Last(gs) = Node
    BY <1>1, <1>2, <2>1 DEF HasNode, GoodFrames, Last
  <2>3. /\ Q \in Seq(Phases) /\ Len(Q) = m + 1
        /\ \A i \in 1 .. m : Q[i] = Below(gs[i + 1].kind)
        /\ Q[m + 1] = BelowNode(gs[m + 2].kind)
    <3> DEFINE k == Depths(gs)
    <3>1. k = m + 1
      BY <1>2, <2>1, <2>2, CallsAre
    <3>2. /\ Q \in Seq(Phases) /\ Len(Q) = k
          /\ \A i \in 1 .. k - 1 : Q[i] = Below(gs[i + 1].kind)
          /\ k > 0 => Q[k] = BelowNode(gs[k + 1].kind)
      BY <2>1, <2>2, CallsAre
    <3> HIDE DEF k, Q
    <3> QED
      BY <1>2, <3>1, <3>2
  <2>4. /\ R \in Seq(Phases) /\ Len(R) = m + 1
        /\ \A i \in 1 .. m : R[i] = B[i]
        /\ R[m + 1] = BelowNode(call)
    BY <1>1, <1>6
  <2> HIDE DEF Q, R
  <2>5. \A i \in 1 .. m + 1 : i \in 1 .. m \/ i = m + 1
    BY <1>2
  <2>6. \A i \in 1 .. m + 1 : Q[i] = R[i]
    <3>1. \A i \in 1 .. m : Q[i] = R[i]
      <4>1. \A i \in 1 .. m : gs[i + 1] = fs[i + 1]
        BY <1>2, <2>1
      <4> QED
        BY <1>5, <2>3, <2>4, <4>1
    <3>2. Q[m + 1] = R[m + 1]
      BY <1>1, <1>2, <2>1, <2>3, <2>4
    <3> QED
      BY <2>5, <3>1, <3>2
  <2>7. Q = R
    BY <2>3, <2>4, <2>6, SamePhases
  <2> QED
    BY <2>1, <2>2, <2>7 DEF gs, Q, R
<1> QED
  BY <1>7, <1>8 DEF P, B

\* The phase of the last collection when it has got a node.
PhaseAfter(phase) ==
    IF phase \in {"key", "key_end"} THEN "value" ELSE IF phase = "value" THEN "key" ELSE phase

\* A collection goes on, by itself or with a node that is called.
LEMMA CollectionGoesOn ==
    ASSUME NEW fs, GoodFrames(fs), Len(fs) > 1, ~HasNode(fs), NEW call \in CollectionCalls
    PROVE  /\ CallsOf(fs) # <<>> /\ CallsOf(fs)[Len(CallsOf(fs))] = AtTop(Last(fs).kind)
           /\ GoodFrames(Append(Front(fs), Frame(call))) /\ ~HasNode(Append(Front(fs), Frame(call)))
           /\ AtTop(call) = AtTop(Last(fs).kind) =>
                 CallsOf(Append(Front(fs), Frame(call))) = CallsOf(fs)
           /\ AtTop(call) = PhaseAfter(AtTop(Last(fs).kind)) =>
                 CallsOf(Append(Front(fs), Frame(call))) = Completed(CallsOf(fs))
           /\ GoodFrames(Front(fs) \o <<Frame(call), Node>>)
           /\ Front(fs) \o <<Frame(call), Node>> # <<>> /\ Last(Front(fs) \o <<Frame(call), Node>>) = Node
           /\ BelowNode(call) = AtTop(Last(fs).kind) =>
                 CallsOf(Front(fs) \o <<Frame(call), Node>>) = CallsOf(fs)
<1> DEFINE P == CallsOf(fs)
           C == Completed(P)
           m == Depths(fs) - 1
           phase == AtTop(Last(fs).kind)
<1>1. /\ Frame(call).kind = call /\ Frame(call).kind # "Node" /\ Node.kind = "Node"
  BY DEF Frame, Node, CollectionCalls, ItemCalls, ValueCalls, MapCalls
<1>2. /\ m \in Nat /\ Len(fs) = m + 2
      /\ P \in Seq(Phases) /\ Len(P) = m + 1
      /\ \A i \in 1 .. m : P[i] = Below(fs[i + 1].kind)
      /\ P[m + 1] = AtTop(fs[m + 2].kind)
  <2> DEFINE k == Depths(fs)
  <2>1. /\ k = m + 1 /\ m \in Nat /\ Len(fs) = m + 2
    BY CallsAre
  <2>2. /\ P \in Seq(Phases) /\ Len(P) = k
        /\ \A i \in 1 .. k - 1 : P[i] = Below(fs[i + 1].kind)
        /\ k > 0 => P[k] = AtTop(fs[k + 1].kind)
    BY CallsAre
  <2> HIDE DEF k, P, m
  <2> QED
    BY <2>1, <2>2
<1>3. phase = AtTop(fs[m + 2].kind)
  BY <1>2 DEF Last
<1>4. C \in Seq(Phases) /\ Len(C) = m + 1 /\ \A i \in 1 .. m : C[i] = P[i]
  BY <1>2, PhasesChange
<1>5. C[m + 1] = PhaseAfter(P[m + 1])
  BY <1>2 DEF Completed, PhaseAfter
<1> HIDE DEF P, C, m, phase
<1>6. \A i \in 1 .. m + 1 : i \in 1 .. m \/ i = m + 1
  BY <1>2
<1>7. /\ GoodFrames(Append(Front(fs), Frame(call))) /\ ~HasNode(Append(Front(fs), Frame(call)))
      /\ AtTop(call) = phase => CallsOf(Append(Front(fs), Frame(call))) = P
      /\ AtTop(call) = PhaseAfter(phase) => CallsOf(Append(Front(fs), Frame(call))) = C
  <2> DEFINE gs == Append(Front(fs), Frame(call))
             Q == CallsOf(gs)
             k == Depths(gs)
  <2>1. /\ GoodFrames(gs) /\ Len(gs) = Len(fs) /\ gs[Len(fs)] = Frame(call)
        /\ \A i \in 1 .. Len(fs) - 1 : gs[i] = fs[i]
    BY <1>1, FramesReplaced
  <2> HIDE DEF gs
  <2>2. ~HasNode(gs)
    BY <1>1, <2>1 DEF HasNode
  <2>3. k = m + 1
    BY <1>2, <2>1, <2>2, CallsAre
  <2>4. /\ Q \in Seq(Phases) /\ Len(Q) = k
        /\ \A i \in 1 .. k - 1 : Q[i] = Below(gs[i + 1].kind)
        /\ k > 0 => Q[k] = AtTop(gs[k + 1].kind)
    BY <2>1, <2>2, CallsAre
  <2> HIDE DEF Q, k
  <2>5. /\ Len(Q) = m + 1 /\ Q[m + 1] = AtTop(call)
        /\ \A i \in 1 .. m : Q[i] = P[i]
    BY <1>1, <1>2, <2>1, <2>3, <2>4
  <2>6. AtTop(call) = phase => Q = P
    <3> HAVE AtTop(call) = phase
    <3>1. \A i \in 1 .. m + 1 : Q[i] = P[i]
      BY <1>2, <1>3, <1>6, <2>5
    <3> QED
      BY <1>2, <2>4, <2>5, <3>1, SamePhases
  <2>7. AtTop(call) = PhaseAfter(phase) => Q = C
    <3> HAVE AtTop(call) = PhaseAfter(phase)
    <3>1. \A i \in 1 .. m + 1 : Q[i] = C[i]
      BY <1>2, <1>3, <1>4, <1>5, <1>6, <2>5
    <3> QED
      BY <1>4, <2>4, <2>5, <3>1, SamePhases
  <2> QED
    BY <2>1, <2>2, <2>6, <2>7 DEF gs, Q
<1>8. /\ GoodFrames(Front(fs) \o <<Frame(call), Node>>)
      /\ Front(fs) \o <<Frame(call), Node>> # <<>> /\ Last(Front(fs) \o <<Frame(call), Node>>) = Node
      /\ BelowNode(call) = phase => CallsOf(Front(fs) \o <<Frame(call), Node>>) = P
  <2> DEFINE gs == Front(fs) \o <<Frame(call), Node>>
             Q == CallsOf(gs)
             k == Depths(gs)
  <2>1. /\ GoodFrames(gs) /\ Len(gs) = Len(fs) + 1 /\ gs[Len(fs)] = Frame(call) /\ gs[Len(fs) + 1] = Node
        /\ \A i \in 1 .. Len(fs) - 1 : gs[i] = fs[i]
    <3>1. Len(fs) # 1
      BY <1>2
    <3> QED
      BY <3>1, FramesAdded
  <2> HIDE DEF gs
  <2>2. HasNode(gs) /\ gs # <<>> /\ Last(gs) = Node
    BY <1>1, <1>2, <2>1 DEF HasNode, GoodFrames, Last
  <2>3. k = m + 1
    BY <1>2, <2>1, <2>2, CallsAre
  <2>4. /\ Q \in Seq(Phases) /\ Len(Q) = k
        /\ \A i \in 1 .. k - 1 : Q[i] = Below(gs[i + 1].kind)
        /\ k > 0 => Q[k] = BelowNode(gs[k + 1].kind)
    BY <2>1, <2>2, CallsAre
  <2> HIDE DEF Q, k
  <2>5. /\ Len(Q) = m + 1 /\ Q[m + 1] = BelowNode(call)
        /\ \A i \in 1 .. m : Q[i] = P[i]
    BY <1>1, <1>2, <2>1, <2>3, <2>4
  <2>6. BelowNode(call) = phase => Q = P
    <3> HAVE BelowNode(call) = phase
    <3>1. \A i \in 1 .. m + 1 : Q[i] = P[i]
      BY <1>2, <1>3, <1>6, <2>5
    <3> QED
      BY <1>2, <2>4, <2>5, <3>1, SamePhases
  <2> QED
    BY <2>1, <2>2, <2>6 DEF gs, Q
<1>9. P # <<>> /\ P[Len(P)] = phase
  BY <1>2, <1>3
<1> QED
  BY <1>7, <1>8, <1>9 DEF P, C, phase

\* A node with one of its properties read.
LEMMA NodeGoesOn ==
    ASSUME NEW fs, GoodFrames(fs), Len(fs) > 1, HasNode(fs), NEW frame, IsNodeFrame(frame)
    PROVE  /\ GoodFrames(Append(Front(fs), frame)) /\ Append(Front(fs), frame) # <<>>
           /\ Last(Append(Front(fs), frame)) = frame
           /\ CallsOf(Append(Front(fs), frame)) = CallsOf(fs)
<1> DEFINE gs == Append(Front(fs), frame)
<1>1. /\ GoodFrames(gs) /\ Len(gs) = Len(fs) /\ gs[Len(fs)] = frame
      /\ \A i \in 1 .. Len(fs) - 1 : gs[i] = fs[i]
  BY FramesReplaced
<1> HIDE DEF gs
<1>2. frame.kind = "Node"
  BY DEF IsNodeFrame, NodeFrame
<1>3. HasNode(gs) /\ Depths(gs) = Depths(fs) /\ gs # <<>> /\ Last(gs) = frame
  BY <1>1, <1>2 DEF HasNode, Depths, GoodFrames, Last
<1>4. Depths(fs) \in Nat /\ Len(fs) = Depths(fs) + 2
  BY CallsAre
<1>5. \A i \in 1 .. Depths(fs) : gs[i + 1] = fs[i + 1]
  BY <1>1, <1>4
<1>6. CallsOf(gs) = CallsOf(fs)
  BY <1>3, <1>5 DEF CallsOf
<1> QED
  BY <1>1, <1>3, <1>6 DEF gs

\* The node of the document is called.
LEMMA DocumentBegins ==
    ASSUME NEW fs, GoodFrames(fs), Last(fs).kind = "Directives"
    PROVE  LET gs == Front(fs) \o <<Frame("Document"), Node>>
           IN  GoodFrames(gs) /\ gs # <<>> /\ Last(gs) = Node /\ CallsOf(gs) = CallsOf(fs)
<1> DEFINE gs == Front(fs) \o <<Frame("Document"), Node>>
<1>1. Len(fs) = 1
  <2>1. Len(fs) \in Nat \ {0} /\ fs[Len(fs)].kind = "Directives"
    BY CallsAre DEF Last
  <2> DEFINE frame == fs[Len(fs)]
  <2>2. frame.kind = "Directives"
    BY <2>1
  <2>3. Len(fs) > 1 => frame.kind \in CollectionCalls \/ IsNodeFrame(frame)
    BY DEF GoodFrames
  <2> HIDE DEF frame
  <2>4. frame.kind \notin CollectionCalls /\ ~IsNodeFrame(frame)
    BY <2>2 DEF IsNodeFrame, NodeFrame, CollectionCalls, ItemCalls, ValueCalls, MapCalls
  <2>5. ~(Len(fs) > 1)
    BY <2>3, <2>4, Zenon
  <2>6. \A n \in Nat \ {0} : ~(n > 1) => n = 1
    OBVIOUS
  <2> QED
    BY <2>1, <2>5, <2>6, Zenon
<1>2. /\ GoodFrames(gs) /\ Len(gs) = 2 /\ gs[2] = Node
  BY <1>1, FramesAdded, SMTT(30)
<1> HIDE DEF gs
<1>3. HasNode(gs) /\ gs # <<>> /\ Last(gs) = Node
  BY <1>2 DEF HasNode, Last, Node, GoodFrames
<1>4. ~HasNode(fs)
  BY <1>1 DEF HasNode, Last
<1>5. Depths(gs) = 0 /\ Depths(fs) = 0
  BY <1>1, <1>2, <1>3, <1>4 DEF Depths
<1>6. CallsOf(gs) = CallsOf(fs)
  BY <1>5 DEF CallsOf
<1> QED
  BY <1>2, <1>3, <1>6 DEF gs

-----------------------------------------------------------------------------
(* The invariant                                                           *)

\* The anchor of a node that has begun has its number already, but no node yet.
Waiting(fs) == IF HasNode(fs) /\ Last(fs).anchor # NoAnchor THEN 1 ELSE 0

Good(fs, b, names, last) ==
    /\ GoodFrames(fs) /\ Follows(CallsOf(fs), b)
    /\ last = Len(b.anchors) + Waiting(fs)
    /\ \A name \in DOMAIN names : names[name] \in 1 .. last

ParserInv == Good(frames, builder, anchors, curAnchor)

\* An event that agrees with what becomes of the open calls.
LEMMA EventKeeps ==
    ASSUME NEW fs, NEW b, NEW names, NEW last, Good(fs, b, names, last),
           NEW gs, NEW e, NEW anchor, GoodFrames(gs), Becomes(b, CallsOf(gs), anchor, e),
           Waiting(gs) = 0, Waiting(fs) = IF anchor = NoAnchor THEN 0 ELSE 1
    PROVE  Good(gs, e, names, last)
<1>1. Len(b.anchors) \in Nat /\ Len(e.anchors) = Len(b.anchors) + Waiting(fs)
  BY DEF Good, Becomes, Follows, Agrees, IsBuilder, AreFields
<1>2. GoodFrames(gs) /\ Follows(CallsOf(gs), e)
  BY DEF Becomes
<1>3. last = Len(e.anchors) + Waiting(gs)
  BY <1>1 DEF Good
<1> QED
  BY <1>2, <1>3 DEF Good

\* No event.
LEMMA CallsKeep ==
    ASSUME NEW fs, NEW b, NEW names, NEW last, Good(fs, b, names, last),
           NEW gs, GoodFrames(gs), CallsOf(gs) = CallsOf(fs), Waiting(gs) = Waiting(fs)
    PROVE  Good(gs, b, names, last)
BY DEF Good

\* No anchor waits for its node when none has been read.
LEMMA FreshWaits ==
    ASSUME NEW fs, GoodFrames(fs), ~HasNode(fs) \/ Last(fs) = Node
    PROVE  Waiting(fs) = 0
BY DEF Waiting, Node

\* The call that is open last.
LEMMA AtNode ==
    ASSUME NEW fs, GoodFrames(fs), Last(fs).kind = "Node"
    PROVE  /\ Len(fs) > 1 /\ HasNode(fs) /\ IsNodeFrame(Last(fs))
           /\ Waiting(fs) = IF Last(fs).anchor = NoAnchor THEN 0 ELSE 1
<1>1. "Node" \notin CollectionCalls /\ Len(fs) \in Nat \ {0}
  BY CallsAre DEF CollectionCalls, ItemCalls, ValueCalls, MapCalls
<1>2. HasNode(fs) /\ fs[Len(fs)].kind = "Node"
  BY DEF HasNode, Last
<1>3. Len(fs) > 1
  BY <1>1, <1>2 DEF GoodFrames
<1>4. IsNodeFrame(Last(fs))
  BY <1>1, <1>2, <1>3 DEF GoodFrames, Last
<1> QED
  BY <1>2, <1>3, <1>4 DEF Waiting

\* There is no node in a call of a collection.
LEMMA AtCollection ==
    ASSUME NEW fs, GoodFrames(fs), Last(fs).kind \in CollectionCalls
    PROVE  Len(fs) > 1 /\ ~HasNode(fs) /\ Waiting(fs) = 0
<1>1. /\ "Node" \notin CollectionCalls /\ "Directives" \notin CollectionCalls
      /\ "Document" \notin CollectionCalls /\ Len(fs) \in Nat \ {0}
  BY CallsAre DEF CollectionCalls, ItemCalls, ValueCalls, MapCalls
<1>2. ~HasNode(fs)
  BY <1>1 DEF HasNode, Last
<1>3. Len(fs) > 1
  BY <1>1 DEF GoodFrames, Last
<1> QED
  BY <1>2, <1>3 DEF Waiting

\* At first, nothing is open and the builder has nothing.
LEMMA ParserInitGood == ParserInit => ParserInv
<1> SUFFICES ASSUME ParserInit PROVE ParserInv
  OBVIOUS
<1> DEFINE first == Frame("Directives")
<1>1. frames = <<first>> /\ first.kind = "Directives"
  BY DEF ParserInit, Frame
<1> HIDE DEF first
<1>2. Len(frames) = 1 /\ frames[1] = first /\ frames # <<>> /\ frames \in Seq({first})
  BY <1>1
<1>3. GoodFrames(frames) /\ ~HasNode(frames)
  <2>1. IsSequence(frames)
    BY <1>2 DEF IsSequence
  <2> QED
    BY <1>1, <1>2, <2>1 DEF GoodFrames, HasNode
<1>4. CallsOf(frames) = <<>>
  <2>1. Depths(frames) = 0
    BY <1>2, <1>3 DEF Depths
  <2>2. CallsOf(frames) \in Seq(Phases) /\ Len(CallsOf(frames)) = 0
    BY <1>3, <2>1, CallsAre
  <2> QED
    BY <2>2
<1>5. builder = Built(<<>>, <<>>, <<>>, 0, <<>>, 0)
  BY DEF ParserInit, NewBuilder, Built
<1>6. AreFields(<<>>, <<>>, <<>>, 0, <<>>)
  BY DEF AreFields, AreNodes, IsSequence
<1>7. /\ builder.nodes = <<>> /\ builder.stack = <<>> /\ builder.keys = <<>> /\ builder.mapDepth = 0
      /\ builder.anchors = <<>> /\ IsBuilder(builder)
  BY <1>5, <1>6, BuilderOf
<1>8. MapsOf(<<>>, 0) = 0 /\ KeysOf(<<>>, 0) = 0
  BY CountStep
<1>9. Follows(CallsOf(frames), builder)
  BY <1>4, <1>7, <1>8 DEF Follows, Agrees, TypesFollow, KeysFollow
<1>10. curAnchor = 0 /\ Len(builder.anchors) = 0 /\ DOMAIN anchors = {} /\ Waiting(frames) = 0
  BY <1>3, <1>7, FreshWaits DEF ParserInit, NoAnchor
<1> QED
  BY <1>3, <1>9, <1>10 DEF ParserInv, Good

\* What becomes of a node that is parsed.
LEMMA NodeSteps ==
    ASSUME NEW fs, NEW b, NEW names, NEW last, Good(fs, b, names, last), Last(fs).kind = "Node",
           NEW e
    PROVE  /\ Becomes(b, Completed(CallsOf(fs)), Last(fs).anchor, e) => Good(Front(fs), e, names, last)
           /\ \A call \in CollectionCalls :
                /\ Becomes(b, Append(Begun(CallsOf(fs)), AtTop(call)), Last(fs).anchor, e) =>
                      Good(Front(fs) \o <<Frame(call)>>, e, names, last)
                /\ Becomes(b, Append(Begun(CallsOf(fs)), BelowNode(call)), Last(fs).anchor, e) =>
                      Good(Front(fs) \o <<Frame(call), Node>>, e, names, last)
<1> DEFINE anchor == Last(fs).anchor
<1>1. /\ GoodFrames(fs) /\ Len(fs) > 1 /\ HasNode(fs)
      /\ Waiting(fs) = IF anchor = NoAnchor THEN 0 ELSE 1
  BY AtNode DEF Good
<1> HIDE DEF anchor
<1>2. ASSUME Becomes(b, Completed(CallsOf(fs)), anchor, e) PROVE Good(Front(fs), e, names, last)
  <2> DEFINE gs == Front(fs)
  <2>1. GoodFrames(gs) /\ ~HasNode(gs) /\ CallsOf(gs) = Completed(CallsOf(fs))
    BY <1>1, NodeReturned
  <2> HIDE DEF gs
  <2>2. Waiting(gs) = 0 /\ Becomes(b, CallsOf(gs), anchor, e)
    BY <1>2, <2>1, FreshWaits
  <2>3. Good(gs, e, names, last)
    BY <1>1, <2>1, <2>2, EventKeeps
  <2> QED
    BY <2>3 DEF gs
<1>3. ASSUME NEW call \in CollectionCalls,
             Becomes(b, Append(Begun(CallsOf(fs)), AtTop(call)), anchor, e)
      PROVE  Good(Front(fs) \o <<Frame(call)>>, e, names, last)
  <2> DEFINE gs == Append(Front(fs), Frame(call))
  <2>1. GoodFrames(gs) /\ ~HasNode(gs) /\ CallsOf(gs) = Append(Begun(CallsOf(fs)), AtTop(call))
    BY <1>1, CollectionCalled
  <2>2. Front(fs) \o <<Frame(call)>> = gs
    BY <1>1, Replaced DEF GoodFrames
  <2> HIDE DEF gs
  <2>3. Waiting(gs) = 0 /\ Becomes(b, CallsOf(gs), anchor, e)
    BY <1>3, <2>1, FreshWaits
  <2>4. Good(gs, e, names, last)
    BY <1>1, <2>1, <2>3, EventKeeps
  <2> QED
    BY <2>2, <2>4
<1>4. ASSUME NEW call \in CollectionCalls,
             Becomes(b, Append(Begun(CallsOf(fs)), BelowNode(call)), anchor, e)
      PROVE  Good(Front(fs) \o <<Frame(call), Node>>, e, names, last)
  <2> DEFINE gs == Front(fs) \o <<Frame(call), Node>>
  <2>1. GoodFrames(gs) /\ Last(gs) = Node /\ CallsOf(gs) = Append(Begun(CallsOf(fs)), BelowNode(call))
    BY <1>1, CollectionCalled
  <2> HIDE DEF gs
  <2>2. Waiting(gs) = 0 /\ Becomes(b, CallsOf(gs), anchor, e)
    BY <1>4, <2>1, FreshWaits
  <2>3. Good(gs, e, names, last)
    BY <1>1, <2>1, <2>2, EventKeeps
  <2> QED
    BY <2>3 DEF gs
<1> QED
  BY <1>2, <1>3, <1>4 DEF anchor

\* What becomes of a collection that is open: it ends, or it goes on, with a null node
\* or without, or it calls a node.
LEMMA CollectionSteps ==
    ASSUME NEW fs, NEW b, NEW names, NEW last, Good(fs, b, names, last),
           Last(fs).kind \in CollectionCalls
    PROVE  /\ AtTop(Last(fs).kind) = "item" => Good(Front(fs), OnSequenceEnd(b), names, last)
           /\ AtTop(Last(fs).kind) = "key" => Good(Front(fs), OnMapEnd(b), names, last)
           /\ \A call \in CollectionCalls :
                /\ AtTop(call) = AtTop(Last(fs).kind) =>
                      Good(Append(Front(fs), Frame(call)), b, names, last)
                /\ AtTop(call) = PhaseAfter(AtTop(Last(fs).kind)) =>
                      Good(Append(Front(fs), Frame(call)), OnNull(b, NoAnchor), names, last)
                /\ BelowNode(call) = AtTop(Last(fs).kind) =>
                      Good(Front(fs) \o <<Frame(call), Node>>, b, names, last)
<1> DEFINE phase == AtTop(Last(fs).kind)
           P == CallsOf(fs)
<1>1. /\ GoodFrames(fs) /\ Len(fs) > 1 /\ ~HasNode(fs) /\ Waiting(fs) = 0
      /\ Follows(P, b)
  BY AtCollection DEF Good
<1>2. P # <<>> /\ P[Len(P)] = phase
  <2>1. \A call \in CollectionCalls : P # <<>> /\ P[Len(P)] = phase
    BY <1>1, CollectionGoesOn
  <2>2. "BlockMap" \in CollectionCalls
    BY DEF CollectionCalls, MapCalls
  <2> QED
    BY <2>1, <2>2
<1>3. ASSUME NEW e, Becomes(b, Completed(Front(P)), NoAnchor, e) PROVE Good(Front(fs), e, names, last)
  <2> DEFINE gs == Front(fs)
  <2>1. GoodFrames(gs) /\ ~HasNode(gs) /\ CallsOf(gs) = Completed(Front(P))
    BY <1>1, CollectionReturned
  <2> HIDE DEF gs
  <2>2. Waiting(gs) = 0 /\ Becomes(b, CallsOf(gs), NoAnchor, e)
    BY <1>3, <2>1, FreshWaits
  <2>3. Good(gs, e, names, last)
    BY <1>1, <2>1, <2>2, EventKeeps
  <2> QED
    BY <2>3 DEF gs
<1>4. /\ phase = "item" => Good(Front(fs), OnSequenceEnd(b), names, last)
      /\ phase = "key" => Good(Front(fs), OnMapEnd(b), names, last)
  BY <1>1, <1>2, <1>3, EndFollows
<1>5. ASSUME NEW call \in CollectionCalls
      PROVE  /\ AtTop(call) = phase => Good(Append(Front(fs), Frame(call)), b, names, last)
             /\ AtTop(call) = PhaseAfter(phase) =>
                   Good(Append(Front(fs), Frame(call)), OnNull(b, NoAnchor), names, last)
             /\ BelowNode(call) = phase => Good(Front(fs) \o <<Frame(call), Node>>, b, names, last)
  <2> DEFINE gs == Append(Front(fs), Frame(call))
             hs == Front(fs) \o <<Frame(call), Node>>
             e == OnNull(b, NoAnchor)
  <2>1. /\ GoodFrames(gs) /\ ~HasNode(gs)
        /\ AtTop(call) = phase => CallsOf(gs) = P
        /\ AtTop(call) = PhaseAfter(phase) => CallsOf(gs) = Completed(P)
        /\ GoodFrames(hs) /\ Last(hs) = Node
        /\ BelowNode(call) = phase => CallsOf(hs) = P
    BY <1>1, CollectionGoesOn
  <2>2. Becomes(b, Completed(P), NoAnchor, e)
    BY <1>1, LeafFollows
  <2> HIDE DEF gs, hs, e, phase
  <2>3. Waiting(gs) = 0 /\ Waiting(hs) = 0
    BY <2>1, FreshWaits
  <2>4. AtTop(call) = phase => Good(gs, b, names, last)
    BY <1>1, <2>1, <2>3, CallsKeep
  <2>5. AtTop(call) = PhaseAfter(phase) => Good(gs, e, names, last)
    BY <1>1, <2>1, <2>2, <2>3, EventKeeps
  <2>6. BelowNode(call) = phase => Good(hs, b, names, last)
    BY <1>1, <2>1, <2>3, CallsKeep
  <2> QED
    BY <2>4, <2>5, <2>6 DEF gs, hs, e
<1> QED
  BY <1>4, <1>5

\* The events of a node.
LEMMA NodeEvents ==
    ASSUME NEW fs, NEW b, NEW names, NEW last, Good(fs, b, names, last), Last(fs).kind = "Node"
    PROVE  LET anchor == Last(fs).anchor
           IN  /\ Good(Front(fs), OnNull(b, anchor), names, last)
               /\ \A value : Good(Front(fs), OnScalar(b, anchor, value), names, last)
               /\ \A call \in {"BlockSeq", "FlowSeq"} :
                     Good(Front(fs) \o <<Frame(call)>>, OnSequenceStart(b, anchor), names, last)
               /\ \A call \in {"BlockMap", "FlowMap"} :
                     Good(Front(fs) \o <<Frame(call)>>, OnMapStart(b, anchor), names, last)
               /\ Good(Front(fs) \o <<Frame("CompactValue"), Node>>, OnMapStart(b, anchor), names, last)
               /\ Last(fs).fresh =>
                    /\ \A name \in DOMAIN names : Good(Front(fs), OnAlias(b, names[name]), names, last)
                    /\ Good(Front(fs) \o <<Frame("CompactEnd"), Node>>,
                            OnNull(OnMapStart(b, NoAnchor), NoAnchor), names, last)
<1> DEFINE anchor == Last(fs).anchor
           P == CallsOf(fs)
<1>1. /\ GoodFrames(fs) /\ Follows(P, b) /\ P \in Seq(Phases) /\ Begun(P) \in Seq(Phases)
      /\ Waiting(fs) = IF anchor = NoAnchor THEN 0 ELSE 1
      /\ IsNodeFrame(Last(fs))
  BY AtNode, CallsAre, PhasesChange DEF Good
<1> HIDE DEF anchor, P
<1>2. /\ \A call \in {"BlockSeq", "FlowSeq"} : call \in CollectionCalls /\ AtTop(call) = "item"
      /\ \A call \in {"BlockMap", "FlowMap"} : call \in CollectionCalls /\ AtTop(call) = "key"
      /\ "CompactValue" \in CollectionCalls /\ BelowNode("CompactValue") = "key"
      /\ "CompactEnd" \in CollectionCalls /\ BelowNode("CompactEnd") = "value"
  BY DEF CollectionCalls, ItemCalls, ValueCalls, MapCalls, AtTop, BelowNode
<1>3. Good(Front(fs), OnNull(b, anchor), names, last)
  <2>1. Becomes(b, Completed(P), anchor, OnNull(b, anchor))
    BY <1>1, LeafFollows
  <2> QED
    BY <2>1, NodeSteps DEF P, anchor
<1>4. ASSUME NEW value PROVE Good(Front(fs), OnScalar(b, anchor, value), names, last)
  <2>1. Becomes(b, Completed(P), anchor, OnScalar(b, anchor, value))
    BY <1>1, LeafFollows
  <2> QED
    BY <2>1, NodeSteps DEF P, anchor
<1>5. /\ Becomes(b, Append(Begun(P), "item"), anchor, OnSequenceStart(b, anchor))
      /\ Becomes(b, Append(Begun(P), "key"), anchor, OnMapStart(b, anchor))
  BY <1>1, StartFollows
<1>6. ASSUME NEW call \in {"BlockSeq", "FlowSeq"}
      PROVE  Good(Front(fs) \o <<Frame(call)>>, OnSequenceStart(b, anchor), names, last)
  BY <1>2, <1>5, NodeSteps DEF P, anchor
<1>7. ASSUME NEW call \in {"BlockMap", "FlowMap"}
      PROVE  Good(Front(fs) \o <<Frame(call)>>, OnMapStart(b, anchor), names, last)
  BY <1>2, <1>5, NodeSteps DEF P, anchor
<1>8. Good(Front(fs) \o <<Frame("CompactValue"), Node>>, OnMapStart(b, anchor), names, last)
  BY <1>2, <1>5, NodeSteps DEF P, anchor
<1>9. ASSUME Last(fs).fresh
      PROVE  /\ \A name \in DOMAIN names : Good(Front(fs), OnAlias(b, names[name]), names, last)
             /\ Good(Front(fs) \o <<Frame("CompactEnd"), Node>>,
                     OnNull(OnMapStart(b, NoAnchor), NoAnchor), names, last)
  <2>1. anchor = NoAnchor /\ Waiting(fs) = 0
    BY <1>1, <1>9 DEF IsNodeFrame, anchor
  <2>2. ASSUME NEW name \in DOMAIN names
        PROVE  Good(Front(fs), OnAlias(b, names[name]), names, last)
    <3> DEFINE k == names[name]
    <3>1. k \in 1 .. Len(b.anchors)
      <4>1. Len(b.anchors) \in Nat /\ last = Len(b.anchors) + Waiting(fs) /\ k \in 1 .. last
        BY <2>2 DEF Good, Follows, Agrees, IsBuilder, AreFields
      <4> QED
        BY <2>1, <4>1
    <3> HIDE DEF k
    <3>2. Becomes(b, Completed(P), NoAnchor, OnAlias(b, k))
      BY <1>1, <3>1, AliasFollows
    <3> QED
      BY <2>1, <3>2, NodeSteps DEF P, anchor, k
  <2>3. Good(Front(fs) \o <<Frame("CompactEnd"), Node>>,
             OnNull(OnMapStart(b, NoAnchor), NoAnchor), names, last)
    <3> DEFINE c == OnMapStart(b, NoAnchor)
               Q == Append(Begun(P), "key")
               R == Append(Begun(P), "value")
               e == OnNull(c, NoAnchor)
    <3>1. Becomes(b, Q, NoAnchor, c)
      BY <1>5, <2>1
    <3> HIDE DEF c
    <3>2. Follows(Q, c) /\ Len(c.anchors) = Len(b.anchors) + 0
      BY <3>1 DEF Becomes
    <3>3. Completed(Q) = R
      <4> DEFINE B == Begun(P)
                 n == Len(B)
      <4>1. B \in Seq(Phases) /\ n \in Nat /\ "key" \in Phases /\ "value" \in Phases
        BY <1>1 DEF Phases
      <4>2. n = Len(B)
        OBVIOUS
      <4> HIDE DEF B, n
      <4>3. /\ Append(B, "key") \in Seq(Phases) /\ Len(Append(B, "key")) = n + 1
            /\ \A i \in 1 .. n : Append(B, "key")[i] = B[i]
            /\ Append(B, "key")[n + 1] = "key"
            /\ Append(B, "value") \in Seq(Phases) /\ Len(Append(B, "value")) = n + 1
            /\ \A i \in 1 .. n : Append(B, "value")[i] = B[i]
            /\ Append(B, "value")[n + 1] = "value"
        BY <4>1, <4>2, AppendProperties
      <4> DEFINE A == Append(B, "key")
                 V == Append(B, "value")
                 C == Completed(A)
      <4> HIDE DEF A, V
      <4>9. A \in Seq(Phases) /\ Len(A) = n + 1
        BY <4>3 DEF A
      <4>4. C \in Seq(Phases) /\ Len(C) = n + 1 /\ \A i \in 1 .. n : C[i] = A[i]
        BY <4>1, <4>9, PhasesChange
      <4>5. C[n + 1] = "value"
        BY <4>1, <4>3 DEF Completed, A
      <4> HIDE DEF C
      <4>6. \A i \in 1 .. n + 1 : i \in 1 .. n \/ i = n + 1
        BY <4>1
      <4>7. \A i \in 1 .. n + 1 : C[i] = V[i]
        BY <4>3, <4>4, <4>5, <4>6 DEF A, V
      <4>8. C = V
        BY <4>3, <4>4, <4>7, SamePhases DEF V
      <4> QED
        BY <4>8 DEF A, B, C, V
    <3> HIDE DEF Q, R
    <3>4. Becomes(c, R, NoAnchor, e)
      BY <3>2, <3>3, LeafFollows
    <3> HIDE DEF e
    <3>5. Becomes(b, R, NoAnchor, e)
      BY <3>2, <3>4 DEF Becomes
    <3> QED
      BY <1>2, <2>1, <3>5, NodeSteps DEF P, R, anchor, c, e
  <2> QED
    BY <2>2, <2>3
<1> QED
  BY <1>3, <1>4, <1>6, <1>7, <1>8, <1>9 DEF anchor

\* A node with a tag, and one with an anchor, of a number that has the name name.
Tagged(node, tag) == [node EXCEPT !.fresh = FALSE, !.tag = tag]
Anchored(node, number) == [node EXCEPT !.fresh = FALSE, !.anchor = number]
Named(names, name, number) ==
    [other \in DOMAIN names \cup {name} |-> IF other = name THEN number ELSE names[other]]

\* The properties of a node.
LEMMA NodeProperties ==
    ASSUME NEW fs, NEW b, NEW names, NEW last, Good(fs, b, names, last), Last(fs).kind = "Node"
    PROVE  /\ \A tag : Good(Append(Front(fs), Tagged(Last(fs), tag)), b, names, last)
           /\ Last(fs).anchor = NoAnchor => \A name :
                Good(Append(Front(fs), Anchored(Last(fs), last + 1)), b,
                     Named(names, name, last + 1), last + 1)
<1> DEFINE node == Last(fs)
           frame(tag, anchor) == NodeFrame(FALSE, tag, anchor)
<1>1. /\ GoodFrames(fs) /\ Len(fs) > 1 /\ HasNode(fs) /\ IsNodeFrame(node)
      /\ Waiting(fs) = IF node.anchor = NoAnchor THEN 0 ELSE 1
      /\ last = Len(b.anchors) + Waiting(fs) /\ Len(b.anchors) \in Nat
      /\ Follows(CallsOf(fs), b) /\ \A name \in DOMAIN names : names[name] \in 1 .. last
  BY AtNode DEF Good, Follows, Agrees, IsBuilder, AreFields
<1>2. ASSUME NEW tag, NEW anchor
      PROVE  LET gs == Append(Front(fs), frame(tag, anchor))
             IN  /\ GoodFrames(gs) /\ CallsOf(gs) = CallsOf(fs)
                 /\ Waiting(gs) = IF anchor = NoAnchor THEN 0 ELSE 1
  <2> DEFINE f == frame(tag, anchor)
             gs == Append(Front(fs), f)
  <2>1. IsNodeFrame(f) /\ f.kind = "Node" /\ f.anchor = anchor
    BY DEF IsNodeFrame, NodeFrame
  <2> HIDE DEF f
  <2>2. GoodFrames(gs) /\ gs # <<>> /\ Last(gs) = f /\ CallsOf(gs) = CallsOf(fs)
    BY <1>1, <2>1, NodeGoesOn
  <2> HIDE DEF gs
  <2>3. Waiting(gs) = IF anchor = NoAnchor THEN 0 ELSE 1
    BY <2>1, <2>2, AtNode
  <2> QED
    BY <2>2, <2>3 DEF gs, f
<1>3. ASSUME NEW v
      PROVE  Tagged(node, v) = frame(v, node.anchor) /\ Anchored(node, v) = frame(node.tag, v)
  <2> DEFINE fresh == node.fresh
             tag == node.tag
             anchor == node.anchor
             no == FALSE
  <2>1. node = NodeFrame(fresh, tag, anchor)
    BY <1>1 DEF IsNodeFrame
  <2> HIDE DEF node, fresh, tag, anchor, no
  <2> DEFINE c == NodeFrame(no, tag, anchor)
  <2>2. [node EXCEPT !.fresh = no] = c
    BY <2>1 DEF NodeFrame
  <2>3. [c EXCEPT !.tag = v] = NodeFrame(no, v, anchor) /\ [c EXCEPT !.anchor = v] = NodeFrame(no, tag, v)
    BY DEF NodeFrame
  <2> HIDE DEF c
  <2>4. [node EXCEPT !.fresh = no, !.tag = v] = NodeFrame(no, v, anchor)
    BY <2>2, <2>3
  <2>5. [node EXCEPT !.fresh = no, !.anchor = v] = NodeFrame(no, tag, v)
    BY <2>2, <2>3
  <2> QED
    BY <2>4, <2>5 DEF tag, anchor, no, Tagged, Anchored
<1> HIDE DEF node, frame
<1>4. ASSUME NEW tag
      PROVE  Good(Append(Front(fs), Tagged(node, tag)), b, names, last)
  <2> DEFINE gs == Append(Front(fs), frame(tag, node.anchor))
  <2>1. /\ GoodFrames(gs) /\ CallsOf(gs) = CallsOf(fs)
        /\ Waiting(gs) = IF node.anchor = NoAnchor THEN 0 ELSE 1
    BY <1>2
  <2> HIDE DEF gs
  <2>2. Good(gs, b, names, last)
    BY <1>1, <2>1, CallsKeep
  <2> QED
    BY <1>3, <2>2 DEF gs
<1>5. ASSUME node.anchor = NoAnchor, NEW name
      PROVE  Good(Append(Front(fs), Anchored(node, last + 1)), b,
                  Named(names, name, last + 1), last + 1)
  <2> DEFINE next == last + 1
             gs == Append(Front(fs), frame(node.tag, next))
             more == [other \in DOMAIN names \cup {name} |-> IF other = name THEN next ELSE names[other]]
  <2>1. last \in Nat /\ last = Len(b.anchors) /\ next = last + 1 /\ next # NoAnchor /\ next \in 1 .. next
    BY <1>1, <1>5 DEF NoAnchor
  <2> HIDE DEF next
  <2>2. GoodFrames(gs) /\ CallsOf(gs) = CallsOf(fs) /\ Waiting(gs) = 1
    BY <1>2, <2>1
  <2>3. ASSUME NEW other \in DOMAIN more PROVE more[other] \in 1 .. next
    <3>1. CASE other = name
      BY <2>1, <3>1
    <3>2. CASE other # name
      <4>1. more[other] = names[other] /\ names[other] \in 1 .. last
        BY <1>1, <3>2
      <4> QED
        BY <2>1, <4>1
    <3> QED
      BY <3>1, <3>2
  <2> HIDE DEF gs, more
  <2>4. next = Len(b.anchors) + Waiting(gs)
    BY <2>1, <2>2
  <2>5. Good(gs, b, more, next)
    BY <1>1, <2>2, <2>3, <2>4 DEF Good
  <2> QED
    BY <1>3, <2>5 DEF gs, more, next, Named
<1> QED
  BY <1>4, <1>5 DEF node

\* The steps of the parser at a node.
LEMMA NodeStepKeeps ==
    ASSUME ParserInv,
           EmptyNode \/ ValueNode \/ AliasNode \/ ParseTag \/ ParseAnchor \/ Scalar_Node
           \/ SequenceNode \/ MapNode \/ CompactMapNode \/ MissingNode
    PROVE  ParserInv'
<1> DEFINE anchor == Last(frames).anchor
<1>1. Good(frames, builder, anchors, curAnchor)
  BY DEF ParserInv
<1>2. Last(frames).kind = "Node"
  BY DEF EmptyNode, ValueNode, AliasNode, ParseTag, ParseAnchor, Scalar_Node, SequenceNode, MapNode,
         CompactMapNode, MissingNode, HandleNode, Parsing, Open, Caller
<1>3. /\ Good(Front(frames), OnNull(builder, anchor), anchors, curAnchor)
      /\ \A value : Good(Front(frames), OnScalar(builder, anchor, value), anchors, curAnchor)
      /\ \A call \in {"BlockSeq", "FlowSeq"} :
            Good(Front(frames) \o <<Frame(call)>>, OnSequenceStart(builder, anchor), anchors, curAnchor)
      /\ \A call \in {"BlockMap", "FlowMap"} :
            Good(Front(frames) \o <<Frame(call)>>, OnMapStart(builder, anchor), anchors, curAnchor)
      /\ Good(Front(frames) \o <<Frame("CompactValue"), Node>>, OnMapStart(builder, anchor),
              anchors, curAnchor)
      /\ Last(frames).fresh =>
           /\ \A name \in DOMAIN anchors :
                Good(Front(frames), OnAlias(builder, anchors[name]), anchors, curAnchor)
           /\ Good(Front(frames) \o <<Frame("CompactEnd"), Node>>,
                   OnNull(OnMapStart(builder, NoAnchor), NoAnchor), anchors, curAnchor)
  BY <1>1, <1>2, NodeEvents
<1>4. CASE EmptyNode
  BY <1>3, <1>4 DEF EmptyNode, Handled, Return, Caller, ParserInv
<1>5. CASE ValueNode
  BY <1>3, <1>5 DEF ValueNode, Begins, Caller, ParserInv
<1>6. CASE AliasNode
  <2>1. CASE Peek.value \in DOMAIN anchors
    BY <1>3, <1>6, <2>1 DEF AliasNode, Handled, Return, Caller, ParserInv
  <2>2. CASE Peek.value \notin DOMAIN anchors
    BY <1>1, <1>6, <2>2 DEF AliasNode, Refuse, ParserInv
  <2> QED
    BY <2>1, <2>2
<1>7. CASE ParseTag
  <2>1. CASE Caller.tag # <<>>
    BY <1>1, <1>7, <2>1 DEF ParseTag, Refuse, ParserInv
  <2>2. CASE Caller.tag = <<>>
    <3>1. \A tag : Good(Append(Front(frames), Tagged(Last(frames), tag)), builder, anchors, curAnchor)
      BY <1>1, <1>2, NodeProperties
    <3> QED
      BY <1>7, <2>2, <3>1 DEF ParseTag, WithProperty, Caller, Tagged, ParserInv
  <2> QED
    BY <2>1, <2>2
<1>8. CASE ParseAnchor
  <2>1. CASE Caller.anchor # NoAnchor
    BY <1>1, <1>8, <2>1 DEF ParseAnchor, Refuse, ParserInv
  <2>2. CASE Caller.anchor = NoAnchor
    <3>1. Last(frames).anchor = NoAnchor
      BY <2>2 DEF Caller
    <3>2. \A name : Good(Append(Front(frames), Anchored(Last(frames), curAnchor + 1)), builder,
                         Named(anchors, name, curAnchor + 1), curAnchor + 1)
      BY <1>1, <1>2, <3>1, NodeProperties
    <3>3. /\ frames' = Append(Front(frames), Anchored(Last(frames), curAnchor + 1))
          /\ builder' = builder /\ curAnchor' = curAnchor + 1
          /\ anchors' = Named(anchors, Peek.value, curAnchor + 1)
      BY <1>8, <2>2 DEF ParseAnchor, WithProperty, Caller, Anchored, Named
    <3> QED
      BY <3>2, <3>3 DEF ParserInv
  <2> QED
    BY <2>1, <2>2
<1>9. CASE Scalar_Node
  BY <1>3, <1>9 DEF Scalar_Node, Handled, Return, Caller, ParserInv
<1>10. CASE SequenceNode
  BY <1>3, <1>10 DEF SequenceNode, Begins, Caller, ParserInv
<1>11. CASE MapNode
  BY <1>3, <1>11 DEF MapNode, Begins, Caller, ParserInv
<1>12. CASE CompactMapNode
  BY <1>3, <1>12 DEF CompactMapNode, Begins, Caller, ParserInv
<1>13. CASE MissingNode
  BY <1>3, <1>13 DEF MissingNode, Handled, Return, Caller, ParserInv
<1> QED
  BY <1>4, <1>5, <1>6, <1>7, <1>8, <1>9, <1>10, <1>11, <1>12, <1>13

\* The steps of the parser in a collection.
LEMMA CollectionStepKeeps ==
    ASSUME ParserInv,
           \/ ParseBlockSeq \/ ParseBlockSeqEntry \/ ParseFlowSeq \/ ParseBlockMap \/ ParseFlowMap
           \/ ParseSeparator("FlowSeqNext", "FlowSeq", "FLOW_SEQ_END", "END_OF_SEQ_FLOW")
           \/ ParseSeparator("FlowMapNext", "FlowMap", "FLOW_MAP_END", "END_OF_MAP_FLOW")
           \/ ParseValue("BlockMapValue", "BlockMap") \/ ParseValue("FlowMapValue", "FlowMapNext")
           \/ ParseValue("CompactValue", "CompactEnd") \/ EndCompactMap
    PROVE  ParserInv'
<1> DEFINE call == Last(frames).kind
<1>1. Good(frames, builder, anchors, curAnchor)
  BY DEF ParserInv
<1>2. call \in CollectionCalls
  BY DEF ParseBlockSeq, ParseBlockSeqEntry, ParseFlowSeq, ParseBlockMap, ParseFlowMap, ParseSeparator,
         ParseValue, EndCompactMap, Parsing, Open, Caller,
         CollectionCalls, ItemCalls, ValueCalls, MapCalls
<1>3. /\ AtTop(call) = "item" => Good(Front(frames), OnSequenceEnd(builder), anchors, curAnchor)
      /\ AtTop(call) = "key" => Good(Front(frames), OnMapEnd(builder), anchors, curAnchor)
      /\ \A next \in CollectionCalls :
           /\ AtTop(next) = AtTop(call) =>
                 Good(Append(Front(frames), Frame(next)), builder, anchors, curAnchor)
           /\ AtTop(next) = PhaseAfter(AtTop(call)) =>
                 Good(Append(Front(frames), Frame(next)), OnNull(builder, NoAnchor), anchors, curAnchor)
           /\ BelowNode(next) = AtTop(call) =>
                 Good(Front(frames) \o <<Frame(next), Node>>, builder, anchors, curAnchor)
  BY <1>1, <1>2, CollectionSteps
<1>4. /\ \A next \in ItemCalls : next \in CollectionCalls /\ AtTop(next) = "item" /\ BelowNode(next) = "item"
      /\ \A next \in ValueCalls : next \in CollectionCalls /\ AtTop(next) = "value" /\ BelowNode(next) = "key"
      /\ \A next \in MapCalls : next \in CollectionCalls /\ AtTop(next) = "key" /\ BelowNode(next) = "value"
      /\ PhaseAfter("item") = "item" /\ PhaseAfter("key") = "value" /\ PhaseAfter("value") = "key"
  BY DEF CollectionCalls, ItemCalls, ValueCalls, MapCalls, AtTop, BelowNode, PhaseAfter
<1>5. /\ {"BlockSeq", "BlockSeqEntry", "FlowSeq", "FlowSeqNext"} = ItemCalls
      /\ {"BlockMapValue", "FlowMapValue", "CompactValue"} = ValueCalls
      /\ {"BlockMap", "FlowMap", "FlowMapNext", "CompactEnd"} = MapCalls
  BY DEF ItemCalls, ValueCalls, MapCalls
<1>6. ASSUME UNCHANGED <<frames, builder, anchors, curAnchor>> PROVE ParserInv'
  BY <1>1, <1>6 DEF ParserInv
<1>7. CASE ParseBlockSeq
  <2>1. call = "BlockSeq" /\ AtTop(call) = "item"
    BY <1>4, <1>5, <1>7 DEF ParseBlockSeq, Parsing, Open, Caller
  <2>2. Good(Append(Front(frames), Frame("BlockSeqEntry")), builder, anchors, curAnchor)
    BY <1>3, <1>4, <1>5, <2>1
  <2> QED
    BY <1>3, <1>6, <1>7, <2>1, <2>2 DEF ParseBlockSeq, EndOf, Return, GoOn, Elsewhere, Refuse, ParserInv
<1>8. CASE ParseBlockSeqEntry
  <2>1. call = "BlockSeqEntry" /\ AtTop(call) = "item"
    BY <1>4, <1>5, <1>8 DEF ParseBlockSeqEntry, Parsing, Open, Caller
  <2>2. /\ Good(Append(Front(frames), Frame("BlockSeq")), OnNull(builder, NoAnchor), anchors, curAnchor)
        /\ Good(Front(frames) \o <<Frame("BlockSeq"), Node>>, builder, anchors, curAnchor)
    BY <1>3, <1>4, <1>5, <2>1
  <2> QED
    BY <1>8, <2>2 DEF ParseBlockSeqEntry, GoOn, CallNode, Elsewhere, ParserInv
<1>9. CASE ParseFlowSeq
  <2>1. call = "FlowSeq" /\ AtTop(call) = "item"
    BY <1>4, <1>5, <1>9 DEF ParseFlowSeq, Parsing, Open, Caller
  <2>2. Good(Front(frames) \o <<Frame("FlowSeqNext"), Node>>, builder, anchors, curAnchor)
    BY <1>3, <1>4, <1>5, <2>1
  <2> QED
    BY <1>3, <1>6, <1>9, <2>1, <2>2 DEF ParseFlowSeq, EndOf, Return, CallNode, Elsewhere, Refuse, ParserInv
<1>10. CASE ParseBlockMap
  <2>1. call = "BlockMap" /\ AtTop(call) = "key"
    BY <1>4, <1>5, <1>10 DEF ParseBlockMap, Parsing, Open, Caller
  <2>2. /\ Good(Append(Front(frames), Frame("BlockMapValue")), OnNull(builder, NoAnchor), anchors, curAnchor)
        /\ Good(Front(frames) \o <<Frame("BlockMapValue"), Node>>, builder, anchors, curAnchor)
    BY <1>3, <1>4, <1>5, <2>1
  <2> QED
    BY <1>3, <1>6, <1>10, <2>1, <2>2
       DEF ParseBlockMap, EndOf, Return, GoOn, CallNode, Elsewhere, Refuse, ParserInv
<1>11. CASE ParseFlowMap
  <2>1. call = "FlowMap" /\ AtTop(call) = "key"
    BY <1>4, <1>5, <1>11 DEF ParseFlowMap, Parsing, Open, Caller
  <2>2. /\ Good(Append(Front(frames), Frame("FlowMapValue")), OnNull(builder, NoAnchor), anchors, curAnchor)
        /\ Good(Front(frames) \o <<Frame("FlowMapValue"), Node>>, builder, anchors, curAnchor)
    BY <1>3, <1>4, <1>5, <2>1
  <2> QED
    BY <1>3, <1>6, <1>11, <2>1, <2>2
       DEF ParseFlowMap, EndOf, Return, GoOn, CallNode, Elsewhere, Refuse, ParserInv
<1>12. ASSUME NEW kind, NEW next \in CollectionCalls, NEW end, NEW error,
              ParseSeparator(kind, next, end, error), AtTop(next) = AtTop(kind)
       PROVE  ParserInv'
  <2>1. call = kind
    BY <1>12 DEF ParseSeparator, Parsing, Open, Caller
  <2>2. Good(Append(Front(frames), Frame(next)), builder, anchors, curAnchor)
    BY <1>3, <1>12, <2>1
  <2> QED
    BY <1>6, <1>12, <2>2 DEF ParseSeparator, GoOn, Elsewhere, Refuse, ParserInv
<1>13. ASSUME NEW kind \in ValueCalls, NEW next \in MapCalls, ParseValue(kind, next) PROVE ParserInv'
  <2>1. call = kind /\ AtTop(call) = "value"
    BY <1>4, <1>13 DEF ParseValue, Parsing, Open, Caller
  <2>2. /\ Good(Append(Front(frames), Frame(next)), OnNull(builder, NoAnchor), anchors, curAnchor)
        /\ Good(Front(frames) \o <<Frame(next), Node>>, builder, anchors, curAnchor)
    BY <1>3, <1>4, <2>1
  <2> QED
    BY <1>13, <2>2 DEF ParseValue, GoOn, CallNode, Elsewhere, ParserInv
<1>14. CASE EndCompactMap
  <2>1. call = "CompactEnd" /\ AtTop(call) = "key"
    BY <1>4, <1>5, <1>14 DEF EndCompactMap, Parsing, Open, Caller
  <2> QED
    BY <1>3, <1>14, <2>1 DEF EndCompactMap, Return, Elsewhere, ParserInv
<1>15. CASE ParseSeparator("FlowSeqNext", "FlowSeq", "FLOW_SEQ_END", "END_OF_SEQ_FLOW")
  BY <1>4, <1>5, <1>12, <1>15
<1>16. CASE ParseSeparator("FlowMapNext", "FlowMap", "FLOW_MAP_END", "END_OF_MAP_FLOW")
  BY <1>4, <1>5, <1>12, <1>16
<1>17. CASE ParseValue("BlockMapValue", "BlockMap") \/ ParseValue("FlowMapValue", "FlowMapNext")
            \/ ParseValue("CompactValue", "CompactEnd")
  BY <1>5, <1>13, <1>17
<1> QED
  BY <1>7, <1>8, <1>9, <1>10, <1>11, <1>14, <1>15, <1>16, <1>17

\* The steps of the parser around the document's node, and its refusals.
LEMMA DocumentStepKeeps ==
    ASSUME ParserInv,
           ParseDirective \/ BeginDocument \/ EndDocument \/ NodeTooDeep \/ ScannerThrows
    PROVE  ParserInv'
<1>1. Good(frames, builder, anchors, curAnchor)
  BY DEF ParserInv
<1>2. ASSUME UNCHANGED <<frames, builder, anchors, curAnchor>> PROVE ParserInv'
  BY <1>1, <1>2 DEF ParserInv
<1>3. CASE ParseDirective
  <2>1. UNCHANGED <<frames, builder, anchors, curAnchor>>
    BY <1>3 DEF ParseDirective, Refuse
  <2> QED
    BY <1>2, <2>1
<1>4. CASE BeginDocument
  <2>1. UNCHANGED <<builder, anchors, curAnchor>> /\ Last(frames).kind = "Directives"
    BY <1>4 DEF BeginDocument, Parsing, Open, Caller
  <2>2. CASE Empty
    BY <1>2, <1>4, <2>1, <2>2 DEF BeginDocument
  <2>3. CASE ~Empty
    <3> DEFINE gs == Front(frames) \o <<Frame("Document"), Node>>
    <3>1. frames' = gs
      BY <1>4, <2>3 DEF BeginDocument, CallNode
    <3>2. GoodFrames(gs) /\ Last(gs) = Node /\ CallsOf(gs) = CallsOf(frames)
      BY <1>1, <2>1, DocumentBegins DEF Good
    <3> HIDE DEF gs
    <3>3. ~HasNode(frames)
      BY <2>1 DEF HasNode, Last
    <3>4. Waiting(gs) = Waiting(frames)
      BY <1>1, <3>2, <3>3, FreshWaits DEF Good
    <3>5. Good(gs, builder, anchors, curAnchor)
      BY <1>1, <3>2, <3>4, CallsKeep
    <3> QED
      BY <2>1, <3>1, <3>5 DEF ParserInv
  <2> QED
    BY <2>2, <2>3
<1>5. CASE EndDocument
  BY <1>2, <1>5 DEF EndDocument
<1>6. CASE NodeTooDeep \/ ScannerThrows
  BY <1>2, <1>6 DEF NodeTooDeep, ScannerThrows, Refuse
<1> QED
  BY <1>3, <1>4, <1>5, <1>6

\* The parser and the builder agree at every step.
LEMMA ParserInvariant == ParserSpec => []ParserInv
<1>1. ParserInit => ParserInv
  BY ParserInitGood
<1>2. ParserInv /\ [HandleDocument]_parsing => ParserInv'
  <2> SUFFICES ASSUME ParserInv, [HandleDocument]_parsing PROVE ParserInv'
    OBVIOUS
  <2>1. CASE HandleDocument
    BY <2>1, DocumentStepKeeps, NodeStepKeeps, CollectionStepKeeps DEF HandleDocument
  <2>2. CASE UNCHANGED parsing
    BY <2>2 DEF parsing, ParserInv
  <2> QED
    BY <2>1, <2>2
<1> QED
  BY <1>1, <1>2, PTL DEF ParserSpec

-----------------------------------------------------------------------------
(* What it says of the properties                                          *)

\* The collections are those of the calls, each in its phase.
LEMMA CollectionsAre ==
    ASSUME ParserInv
    PROVE  /\ frames # <<>> /\ (Open("Node") <=> HasNode(frames))
           /\ Collections = 1 .. Depths(frames)
           /\ \A i \in Collections :
                 /\ Phase(i) = CallsOf(frames)[i]
                 /\ HasKey(i) <=> CallsOf(frames)[i] \in {"key_end", "value"}
<1> DEFINE n == Depths(frames)
           P == CallsOf(frames)
<1>1. GoodFrames(frames) /\ frames # <<>>
  BY DEF ParserInv, Good, GoodFrames
<1>2. Open("Node") <=> HasNode(frames)
  BY <1>1 DEF Open, Caller, HasNode, Last
<1>3. /\ n \in Nat /\ Len(frames) \in Nat \ {0}
      /\ n = IF HasNode(frames) THEN Len(frames) - 2 ELSE Len(frames) - 1
      /\ \A i \in 1 .. n - 1 : P[i] = Below(frames[i + 1].kind)
      /\ n > 0 => P[n] = IF HasNode(frames) THEN BelowNode(frames[n + 1].kind)
                         ELSE AtTop(frames[n + 1].kind)
  BY <1>1, CallsAre
<1> HIDE DEF n, P
<1>4. Collections = 1 .. n
  <2>1. CASE HasNode(frames)
    <3>1. Collections = 1 .. (Len(frames) - 1 - 1)
      BY <1>2, <2>1 DEF Collections
    <3> QED
      BY <1>3, <2>1, <3>1
  <2>2. CASE ~HasNode(frames)
    <3>1. Collections = 1 .. (Len(frames) - 1 - 0)
      BY <1>2, <2>2 DEF Collections
    <3> QED
      BY <1>3, <2>2, <3>1
  <2> QED
    BY <2>1, <2>2
<1>5. ASSUME NEW i \in 1 .. n PROVE Phase(i) = P[i]
  <2> DEFINE call == frames[i + 1].kind
  <2>1. CASE i = n /\ ~HasNode(frames)
    <3>1. i + 1 = Len(frames) /\ P[i] = AtTop(call)
      BY <1>3, <2>1
    <3> QED
      BY <3>1 DEF Phase, AtTop
  <2>2. CASE i = n /\ HasNode(frames)
    <3>1. i + 1 # Len(frames) /\ i + 2 = Len(frames) /\ P[i] = BelowNode(call)
      BY <1>3, <2>2
    <3>2. frames[i + 2].kind = "Node"
      BY <2>2, <3>1 DEF HasNode
    <3> QED
      BY <3>1, <3>2 DEF Phase, BelowNode
  <2>3. CASE i # n
    <3>1. i + 1 # Len(frames) /\ i + 2 \in 2 .. Len(frames) /\ P[i] = Below(call)
      BY <1>3, <2>3
    <3>2. frames[i + 2].kind # "Node"
      <4>1. "Node" \notin CollectionCalls
        BY DEF CollectionCalls, ItemCalls, ValueCalls, MapCalls
      <4>2. CASE i + 2 = Len(frames)
        BY <1>3, <2>3, <4>2 DEF HasNode
      <4>3. CASE i + 2 # Len(frames)
        BY <1>1, <1>3, <3>1, <4>1, <4>3 DEF GoodFrames
      <4> QED
        BY <4>2, <4>3
    <3> QED
      BY <3>1, <3>2 DEF Phase, Below
  <2> QED
    BY <2>1, <2>2, <2>3
<1>6. \A i \in 1 .. n : HasKey(i) <=> P[i] \in {"key_end", "value"}
  BY <1>5 DEF HasKey
<1> QED
  BY <1>1, <1>2, <1>4, <1>5, <1>6 DEF n, P

\* The builder's part of the invariant is what is said of it.
LEMMA FollowsParser == ParserInv => BuilderFollowsParser
<1> SUFFICES ASSUME ParserInv PROVE BuilderFollowsParser
  OBVIOUS
<1> DEFINE P == CallsOf(frames)
           n == Depths(frames)
<1>1. Follows(P, builder) /\ GoodFrames(frames)
  BY DEF ParserInv, Good
<1>2. n \in Nat /\ Len(P) = n
  BY <1>1, CallsAre
<1>3. /\ Collections = 1 .. n
      /\ \A i \in 1 .. n : Phase(i) = P[i]
      /\ \A i \in 1 .. n : HasKey(i) <=> P[i] \in {"key_end", "value"}
  BY CollectionsAre
<1> HIDE DEF P, n
<1>4. /\ Len(builder.stack) = n /\ builder.stack \in Seq(Nat)
      /\ TypesFollow(P, n, builder.nodes, builder.stack)
      /\ builder.mapDepth = MapsOf(P, n)
      /\ KeysFollow(P, n, builder.keys)
  BY <1>1, <1>2 DEF Follows, Agrees, IsBuilder, AreFields
<1>5. DOMAIN builder.stack = Collections
  BY <1>3, <1>4
<1>6. \A i \in Collections :
        builder.nodes[builder.stack[i]].kind = IF Phase(i) = "item" THEN "Sequence" ELSE "Map"
  BY <1>3, <1>4 DEF TypesFollow
<1>7. builder.mapDepth = Cardinality({i \in Collections : Phase(i) # "item"})
  <2>1. {i \in Collections : Phase(i) # "item"} = {i \in 1 .. n : i \in Maps(P)}
    BY <1>2, <1>3 DEF Maps
  <2> QED
    BY <1>4, <2>1 DEF MapsOf, UpTo
<1>8. ASSUME NEW m \in 1 .. n
      PROVE  Cardinality({i \in 1 .. m : HasKey(i)}) = KeysOf(P, m)
  <2>1. {i \in 1 .. m : HasKey(i)} = {i \in 1 .. m : i \in Keys(P)}
    BY <1>2, <1>3 DEF Keys
  <2> QED
    BY <2>1 DEF KeysOf, UpTo
<1>9. Len(builder.keys) = Cardinality({i \in Collections : HasKey(i)})
  <2>1. {i \in Collections : HasKey(i)} = {i \in 1 .. n : i \in Keys(P)}
    BY <1>2, <1>3 DEF Keys
  <2> QED
    BY <1>4, <2>1 DEF KeysFollow, KeysOf, UpTo
<1>10. ASSUME NEW i \in Collections, HasKey(i)
       PROVE  builder.keys[Cardinality({j \in 1 .. i : HasKey(j)})].complete <=> Phase(i) = "value"
  <2>1. /\ i \in 1 .. n /\ P[i] \in {"key_end", "value"} /\ Phase(i) = P[i]
        /\ Cardinality({j \in 1 .. i : HasKey(j)}) = KeysOf(P, i)
    BY <1>3, <1>8, <1>10
  <2> QED
    BY <1>4, <2>1 DEF KeysFollow
<1> QED
  BY <1>5, <1>6, <1>7, <1>9, <1>10 DEF BuilderFollowsParser

\* So is what is said of the anchors.
LEMMA CountsAnchors == ParserInv => AnchorsRegistered
<1> SUFFICES ASSUME ParserInv PROVE AnchorsRegistered
  OBVIOUS
<1>1. /\ curAnchor = Len(builder.anchors) + Waiting(frames)
      /\ \A name \in DOMAIN anchors : anchors[name] \in 1 .. curAnchor
  BY DEF ParserInv, Good
<1>2. curAnchor \in Nat
  <2>1. Len(builder.anchors) \in Nat
    BY DEF ParserInv, Good, Follows, Agrees, IsBuilder, AreFields
  <2>2. Waiting(frames) \in {0, 1}
    BY DEF Waiting
  <2> QED
    BY <1>1, <2>1, <2>2
<1>3. \A name \in DOMAIN anchors : anchors[name] <= curAnchor
  BY <1>1, <1>2
<1>4. Waiting(frames) = IF Open("Node") /\ Caller.anchor # NoAnchor THEN 1 ELSE 0
  BY CollectionsAre DEF Waiting, Caller
<1> QED
  BY <1>1, <1>3, <1>4 DEF AnchorsRegistered

-----------------------------------------------------------------------------
(* The theorems                                                            *)

\* NodeBuilder is told of nodes only by events, in their order.  It has the collections
\* open that the calls of SingleDocParser are in, of the same types and as many maps,
\* and a key pushed for those maps only that are at its end or at its value.
THEOREM TheBuilderFollows == ParserSpec => []BuilderFollowsParser
BY ParserInvariant, FollowsParser, PTL

\* The number by which SingleDocParser knows an anchor is that of its node in
\* NodeBuilder, although each counts for itself.
THEOREM TheAnchorsAgree == ParserSpec => []AnchorsRegistered
BY ParserInvariant, CountsAnchors, PTL
=============================================================================
