------------------------- MODULE YamlScannerProofs -------------------------
(***************************************************************************)
(* The scanner of YAML, whatever text there is and whenever the parser     *)
(* takes a token: the simple keys that are open are in front of the        *)
(* parser, what it has been given stands, and blocks are nested.           *)
(***************************************************************************)
EXTENDS YamlScanner, YamlParserProofs, NaturalsInduction, WellFoundedInduction

-----------------------------------------------------------------------------
(* The invariant                                                           *)

ScannerFields ==
    {"at", "tokens", "front", "branch", "endedStream", "simpleKeyAllowed", "canBeJSONFlow",
     "simpleKeys", "indents", "indentRefs", "flows", "error"}

Statuses == {"VALID", "INVALID", "UNVERIFIED"}

IsToken(token) == DOMAIN token = {"type", "status", "value"} /\ token.status \in Statuses

\* The queue: tokens T, the next of them at front.
Queued(T, front) ==
    /\ IsSequence(T)
    /\ \A i \in 1 .. Len(T) : IsToken(T[i])
    /\ front \in 1 .. (Len(T) + 1)

\* A token of an open key is not verified and not handed out.
Undecided(T, front, i, type) ==
    i \in front .. Len(T) /\ T[i].status = "UNVERIFIED" /\ T[i].type = type

OpenKey(T, front, F, key) ==
    /\ key.flowLevel \in 0 .. Len(F)
    /\ Undecided(T, front, key.token, "KEY")
    /\ key.mapStart # 0 => key.mapStart < key.token /\ Undecided(T, front, key.mapStart, "BLOCK_MAP_START")
    /\ key.indent # 0 => key.mapStart # 0
    /\ key.mapStart # 0 => key.flowLevel = 0

\* The open keys K: each in a deeper flow than the one before, and behind it.
KeysOpen(T, front, K, F) ==
    /\ IsSequence(K) /\ F \in Seq({"FLOW_SEQ", "FLOW_MAP"})
    /\ \A i \in 1 .. Len(K) : OpenKey(T, front, F, K[i])
    /\ \A i, j \in 1 .. Len(K) : i < j => K[i].flowLevel < K[j].flowLevel /\ K[i].token < K[j].token

BlockStart(type) == IF type = "SEQ" THEN "BLOCK_SEQ_START" ELSE "BLOCK_MAP_START"
BlockEnd(type)   == IF type = "SEQ" THEN "BLOCK_SEQ_END" ELSE "BLOCK_MAP_END"
FlowStart(type)  == IF type = "FLOW_SEQ" THEN "FLOW_SEQ_START" ELSE "FLOW_MAP_START"
FlowEnd(type)    == IF type = "FLOW_SEQ" THEN "FLOW_SEQ_END" ELSE "FLOW_MAP_END"

\* An indent is valid when its start token is.
IsIndent(T, ref) ==
    /\ DOMAIN ref = {"column", "type", "status", "start"}
    /\ \/ ref.type = "NONE" /\ ref.status = "VALID" /\ ref.start = 0
       \/ /\ ref.type \in {"SEQ", "MAP"}
          /\ ref.start \in 1 .. Len(T)
          /\ T[ref.start].type = BlockStart(ref.type)
          /\ ref.status = "VALID" <=> T[ref.start].status = "VALID"

\* The indents of blocks, open (I) and all (R), in the order of their start tokens.
Indented(T, I, R) ==
    /\ IsSequence(I) /\ IsSequence(R)
    /\ \A r \in 1 .. Len(R) : IsIndent(T, R[r])
    /\ \A q, r \in 1 .. Len(R) : q < r => R[q].start < R[r].start
    /\ \A i \in 1 .. Len(I) : I[i] \in 1 .. Len(R)
    /\ \A i, j \in 1 .. Len(I) : i < j => I[i] < I[j]

\* What the tokens leave open, after each of them.
IsOpen(f, T) == f = [n \in 0 .. Len(T) |-> IF n = 0 THEN {} ELSE Close(f[n - 1], T, n)]

OpenBlocks(I, R) ==
    {R[I[i]].start : i \in {j \in 1 .. Len(I) : R[I[j]].type # "NONE" /\ R[I[j]].status = "VALID"}}

\* The start tokens of the open flows F are at p, behind all blocks.
OpenFlows(T, F, R, p) ==
    /\ \A i \in 1 .. Len(F) :
          /\ p[i] \in 1 .. Len(T) /\ T[p[i]].status = "VALID" /\ T[p[i]].type = FlowStart(F[i])
          /\ \A r \in 1 .. Len(R) : R[r].start < p[i]
    /\ \A i, j \in 1 .. Len(F) : i < j => p[i] < p[j]

Ending(token) ==
    token.status = "VALID" /\ token.type \in {"BLOCK_SEQ_END", "BLOCK_MAP_END", "FLOW_SEQ_END", "FLOW_MAP_END"}

\* What has ended behind position m has begun there.
EndedBehind(T, f, m) ==
    \A n \in (m + 1) .. Len(T) : Ending(T[n]) => \E x \in f[n - 1] : x > m

\* The block that a key is to begin can still be begun.
CanBegin(T, I, R, f, key) ==
    /\ \E i \in 1 .. Len(I) : I[i] = key.indent
    /\ R[key.indent].start = key.mapStart /\ R[key.indent].status # "VALID"
    /\ EndedBehind(T, f, key.mapStart)

Nested(T, K, F, I, R, f, p) ==
    /\ IsOpen(f, T)
    /\ \A n \in 0 .. Len(T) : f[n] \subseteq 1 .. n
    /\ f[Len(T)] = OpenBlocks(I, R) \cup {p[i] : i \in 1 .. Len(F)}
    /\ OpenFlows(T, F, R, p)
    /\ \A i \in 1 .. Len(K) : K[i].mapStart # 0 => CanBegin(T, I, R, f, K[i])

Sound(T, front, K, F, I, R) ==
    /\ Queued(T, front) /\ KeysOpen(T, front, K, F) /\ Indented(T, I, R)
    /\ \E f, p : Nested(T, K, F, I, R, f, p)

\* At the start nothing is there yet; at the end no block is open outside a flow.
StartedAndEnded(s) ==
    /\ s.branch = "StartStream" => s.tokens = <<>> /\ s.simpleKeys = <<>> /\ s.flows = <<>>
    /\ s.branch \in {"outdented", "invalid"} => s.flows = <<>>
    /\ s.endedStream =>
        /\ s.branch = "none" /\ s.simpleKeys = <<>>
        /\ s.flows = <<>> => OpenBlocks(s.indents, s.indentRefs) = {}

IsScanner(s) ==
    /\ DOMAIN s = ScannerFields
    /\ Sound(s.tokens, s.front, s.simpleKeys, s.flows, s.indents, s.indentRefs)

ScannerInv == IsScanner(scanner) /\ StartedAndEnded(scanner)

-----------------------------------------------------------------------------
(* Numbers                                                                 *)

\* A set of numbers has a least one.
LEMMA LeastOf ==
    ASSUME NEW S \in SUBSET Nat, S # {}
    PROVE  \E n \in S : \A m \in S : n <= m
<1> DEFINE R == OpToRel(<, Nat)
<1>1. IsWellFoundedOn(R, Nat)
  BY NatLessThanWellFounded
<1>2. \A x, y \in Nat : <<x, y>> \in R <=> x < y
  BY DEF OpToRel
<1> HIDE DEF R
<1>3. PICK n \in S : \A y \in S : ~(<<y, n>> \in R)
  BY <1>1, WFMin
<1>4. ASSUME NEW m \in S PROVE n <= m
  <2>1. ~(<<m, n>> \in R) /\ m \in Nat /\ n \in Nat
    BY <1>3
  <2>2. ~(m < n)
    BY <1>2, <2>1, Zenon
  <2> QED
    BY <2>1, <2>2
<1> QED
  BY <1>4

LEMMA MinIs ==
    ASSUME NEW S \in SUBSET Nat, S # {}
    PROVE  Min(S) \in S /\ \A m \in S : Min(S) <= m
BY LeastOf DEF Min

\* The greatest of some positions.
LEMMA MaxIs ==
    ASSUME NEW n \in Nat, NEW S \in SUBSET (1 .. n), S # {}
    PROVE  Max(S) \in S /\ \A m \in S : m <= Max(S)
<1> DEFINE D == {n - m : m \in S}
<1>1. D \in SUBSET Nat /\ D # {}
  <2>1. ASSUME NEW m \in S PROVE n - m \in Nat
    <3>1. m \in 1 .. n
      OBVIOUS
    <3> QED
      BY <3>1
  <2>2. PICK m \in S : TRUE
    OBVIOUS
  <2> QED
    BY <2>1, <2>2
<1>2. PICK d \in D : \A c \in D : d <= c
  BY <1>1, LeastOf
<1>3. PICK x \in S : d = n - x
  OBVIOUS
<1>4. ASSUME NEW m \in S PROVE m <= x
  <2>1. n - m \in D
    OBVIOUS
  <2>2. d <= n - m
    BY <1>2, <2>1
  <2> QED
    BY <1>3, <2>2
<1> QED
  BY <1>4 DEF Max

LEMMA MaxAt ==
    ASSUME NEW S \in SUBSET Int, NEW x \in S, \A m \in S : m <= x
    PROVE  Max(S) = x
<1> DEFINE y == CHOOSE z \in S : \A m \in S : z >= m
<1>1. x \in S /\ \A m \in S : x >= m
  OBVIOUS
<1>2. y \in S /\ \A m \in S : y >= m
  BY <1>1
<1> HIDE DEF y
<1>3. y = x
  <2>1. y >= x /\ x >= y /\ x \in Int /\ y \in Int
    BY <1>2
  <2> QED
    BY <2>1
<1> QED
  BY <1>3 DEF Max, y

-----------------------------------------------------------------------------
(* Tokens that are open                                                    *)

StartTypes == {"BLOCK_SEQ_START", "BLOCK_MAP_START", "FLOW_SEQ_START", "FLOW_MAP_START"}
EndTypes   == {"BLOCK_SEQ_END", "BLOCK_MAP_END", "FLOW_SEQ_END", "FLOW_MAP_END"}

LEMMA Closings ==
    /\ DOMAIN Closing = StartTypes
    /\ \A type : (\A start \in DOMAIN Closing : type # Closing[start]) <=> type \notin EndTypes
    /\ \A type \in {"SEQ", "MAP"} : Closing[BlockStart(type)] = BlockEnd(type) /\ BlockStart(type) \in StartTypes
    /\ \A type \in {"FLOW_SEQ", "FLOW_MAP"} :
          Closing[FlowStart(type)] = FlowEnd(type) /\ FlowStart(type) \in StartTypes
BY DEF Closing, StartTypes, EndTypes, BlockStart, BlockEnd, FlowStart, FlowEnd

\* A token that is not valid, or neither starts nor ends anything.
LEMMA CloseNothing ==
    ASSUME NEW open, NEW T, NEW n,
           T[n].status # "VALID" \/ T[n].type \notin StartTypes \cup EndTypes
    PROVE  Close(open, T, n) = open
BY Closings DEF Close

LEMMA CloseStart ==
    ASSUME NEW open, NEW T, NEW n, T[n].status = "VALID", T[n].type \in StartTypes
    PROVE  Close(open, T, n) = open \cup {n}
BY Closings DEF Close

\* The end of the last that is open.
LEMMA CloseEnd ==
    ASSUME NEW open \in SUBSET (Nat \ {0}), NEW T, NEW n, NEW x \in open, \A m \in open : m <= x,
           T[n].status = "VALID", T[x].type \in StartTypes, T[n].type = Closing[T[x].type]
    PROVE  Close(open, T, n) = open \ {x}
<1>1. Max(open) = x
  BY MaxAt
<1>2. open \ {0} # {}
  OBVIOUS
<1>3. T[n].type \in EndTypes /\ T[n].type \notin StartTypes
  BY DEF Closing, StartTypes, EndTypes
<1> QED
  BY <1>1, <1>2, <1>3, Closings DEF Close

\* Token k is the same in T and U, and of the first n the types are.
Alike(T, U, n, k) ==
    /\ T[k].status = U[k].status /\ T[k].type = U[k].type
    /\ \A m \in 1 .. n : T[m].type = U[m].type

\* What a token closes is told by the types of what is before it.
LEMMA CloseSame ==
    ASSUME NEW n \in Nat, NEW open \in SUBSET (1 .. n), NEW T, NEW U, NEW k, Alike(T, U, n, k)
    PROVE  Close(open, T, k) = Close(open, U, k)
<1>1. CASE open = {}
  BY <1>1 DEF Close, Alike
<1>2. CASE open # {}
  <2>1. Max(open) \in 1 .. n
    BY <1>2, MaxIs
  <2>2. T[Max(open)].type = U[Max(open)].type
    BY <2>1 DEF Alike
  <2> QED
    BY <2>2 DEF Close, Alike
<1> QED
  BY <1>1, <1>2

-----------------------------------------------------------------------------
(* A token is queued                                                       *)

\* U is T with a token behind it.
Prolongs(U, T) ==
    /\ IsSequence(U) /\ Len(T) \in Nat /\ Len(U) = Len(T) + 1
    /\ \A i \in 1 .. Len(T) : U[i] = T[i]

LEMMA AppendProlongs ==
    ASSUME NEW T, NEW token, IsSequence(T)
    PROVE  Prolongs(Append(T, token), T) /\ Append(T, token)[Len(T) + 1] = token
BY Appended DEF Prolongs

LEMMA QueuedProlonged ==
    ASSUME NEW T, NEW U, NEW front, Queued(T, front), Prolongs(U, T), IsToken(U[Len(T) + 1])
    PROVE  Queued(U, front)
<1> DEFINE n == Len(T)
<1>1. n \in Nat /\ Len(U) = n + 1 /\ front \in 1 .. (n + 1) /\ IsToken(U[n + 1]) /\ IsSequence(U)
  BY DEF Queued, Prolongs
<1>2. \A i \in 1 .. n : U[i] = T[i] /\ IsToken(T[i])
  BY DEF Queued, Prolongs
<1> HIDE DEF n
<1>3. \A i \in 1 .. (n + 1) : IsToken(U[i])
  BY <1>1, <1>2
<1>4. front \in 1 .. (n + 1 + 1)
  BY <1>1
<1> QED
  BY <1>1, <1>3, <1>4 DEF Queued

LEMMA UndecidedProlonged ==
    ASSUME NEW T, NEW U, NEW front \in Nat \ {0}, Prolongs(U, T), NEW i, NEW type, Undecided(T, front, i, type)
    PROVE  Undecided(U, front, i, type)
<1> DEFINE n == Len(T)
<1>1. n \in Nat /\ Len(U) = n + 1 /\ i \in front .. n /\ T[i].status = "UNVERIFIED" /\ T[i].type = type
      /\ \A j \in 1 .. n : U[j] = T[j]
  BY DEF Undecided, Prolongs
<1> HIDE DEF n
<1>2. i \in 1 .. n /\ i \in front .. (n + 1)
  BY <1>1
<1> QED
  BY <1>1, <1>2 DEF Undecided

LEMMA KeysProlonged ==
    ASSUME NEW T, NEW U, NEW front \in Nat \ {0}, NEW K, NEW F, KeysOpen(T, front, K, F), Prolongs(U, T)
    PROVE  KeysOpen(U, front, K, F)
<1>1. ASSUME NEW i \in 1 .. Len(K) PROVE OpenKey(U, front, F, K[i])
  <2>1. OpenKey(T, front, F, K[i])
    BY DEF KeysOpen
  <2>2. Undecided(U, front, K[i].token, "KEY")
    BY <2>1, UndecidedProlonged DEF OpenKey
  <2>3. K[i].mapStart # 0 => Undecided(U, front, K[i].mapStart, "BLOCK_MAP_START")
    BY <2>1, UndecidedProlonged DEF OpenKey
  <2> QED
    BY <2>1, <2>2, <2>3 DEF OpenKey
<1> QED
  BY <1>1 DEF KeysOpen

LEMMA IndentProlonged ==
    ASSUME NEW T, NEW U, Prolongs(U, T), NEW ref, IsIndent(T, ref)
    PROVE  IsIndent(U, ref)
<1> DEFINE n == Len(T)
<1>1. n \in Nat /\ Len(U) = n + 1 /\ \A j \in 1 .. n : U[j] = T[j]
  BY DEF Prolongs
<1>2. /\ DOMAIN ref = {"column", "type", "status", "start"}
      /\ \/ ref.type = "NONE" /\ ref.status = "VALID" /\ ref.start = 0
         \/ /\ ref.type \in {"SEQ", "MAP"} /\ ref.start \in 1 .. n
            /\ T[ref.start].type = BlockStart(ref.type)
            /\ ref.status = "VALID" <=> T[ref.start].status = "VALID"
  BY DEF IsIndent
<1> HIDE DEF n
<1>3. ref.start \in 1 .. n => ref.start \in 1 .. (n + 1) /\ U[ref.start] = T[ref.start]
  BY <1>1
<1> QED
  BY <1>1, <1>2, <1>3 DEF IsIndent

LEMMA IndentedProlonged ==
    ASSUME NEW T, NEW U, NEW I, NEW R, Indented(T, I, R), Prolongs(U, T)
    PROVE  Indented(U, I, R)
BY IndentProlonged DEF Indented

\* What is open behind the new token, and as before in front of it.
LEMMA OpenProlonged ==
    ASSUME NEW T, NEW U, Prolongs(U, T), NEW f, IsOpen(f, T), \A k \in 0 .. Len(T) : f[k] \subseteq 1 .. k
    PROVE  \E g : /\ IsOpen(g, U)
                  /\ \A k \in 0 .. Len(T) : g[k] = f[k]
                  /\ g[Len(T) + 1] = Close(f[Len(T)], U, Len(T) + 1)
<1> DEFINE n == Len(T)
           g == [k \in 0 .. (n + 1) |-> IF k = n + 1 THEN Close(f[n], U, n + 1) ELSE f[k]]
           Expected(k) == IF k = 0 THEN {} ELSE Close(g[k - 1], U, k)
<1>1. n \in Nat /\ Len(U) = n + 1 /\ \A i \in 1 .. n : U[i] = T[i]
  BY DEF Prolongs
<1>2. \A k \in 0 .. n : f[k] = IF k = 0 THEN {} ELSE Close(f[k - 1], T, k)
  BY DEF IsOpen
<1>3. \A k \in 0 .. n : f[k] \in SUBSET (1 .. k)
  OBVIOUS
<1> HIDE DEF n
<1>4. \A k \in 0 .. n : g[k] = f[k]
  BY <1>1
<1>5. g[n + 1] = Close(f[n], U, n + 1)
  BY <1>1
<1>6. g = [k \in 0 .. (n + 1) |-> g[k]]
  OBVIOUS
<1> HIDE DEF g
<1>7. ASSUME NEW k \in 0 .. (n + 1) PROVE g[k] = Expected(k)
  <2>1. CASE k = 0
    BY <1>1, <1>2, <1>4, <2>1
  <2>2. CASE k = n + 1
    <3>1. k - 1 = n /\ k # 0 /\ n \in 0 .. n
      BY <1>1, <2>2
    <3> QED
      BY <1>4, <1>5, <2>2, <3>1
  <2>3. CASE k \in 1 .. n
    <3>1. k - 1 \in 0 .. n /\ k \in 0 .. n /\ k # 0
      BY <1>1, <2>3
    <3>2. g[k - 1] = f[k - 1] /\ g[k] = f[k]
      BY <1>4, <3>1
    <3>3. f[k] = Close(f[k - 1], T, k)
      BY <1>2, <3>1
    <3> DEFINE j == k - 1
               o == f[j]
    <3>4. o \in SUBSET (1 .. j) /\ j \in Nat
      BY <1>3, <3>1
    <3>5. Alike(T, U, j, k)
      BY <1>1, <2>3 DEF Alike
    <3> HIDE DEF j, o
    <3>7. Close(o, T, k) = Close(o, U, k)
      BY <3>4, <3>5, CloseSame
    <3> QED
      BY <3>1, <3>2, <3>3, <3>7 DEF j, o
  <2> QED
    BY <1>1, <2>1, <2>2, <2>3
<1>8. g = [k \in 0 .. (n + 1) |-> Expected(k)]
  <2>1. [k \in 0 .. (n + 1) |-> g[k]] = [k \in 0 .. (n + 1) |-> Expected(k)]
    BY <1>7
  <2> QED
    BY <1>6, <2>1
<1>9. IsOpen(g, U)
  BY <1>1, <1>8 DEF IsOpen
<1> QED
  BY <1>4, <1>5, <1>9 DEF n

LEMMA FlowsProlonged ==
    ASSUME NEW T, NEW U, NEW F, NEW R, NEW p, OpenFlows(T, F, R, p), Prolongs(U, T)
    PROVE  OpenFlows(U, F, R, p)
<1> DEFINE n == Len(T)
<1>1. n \in Nat /\ Len(U) = n + 1 /\ \A i \in 1 .. n : U[i] = T[i]
  BY DEF Prolongs
<1>2. \A i \in 1 .. Len(F) : p[i] \in 1 .. n /\ T[p[i]].status = "VALID" /\ T[p[i]].type = FlowStart(F[i])
  BY DEF OpenFlows
<1> HIDE DEF n
<1>3. \A i \in 1 .. Len(F) : p[i] \in 1 .. (n + 1) /\ U[p[i]].status = "VALID" /\ U[p[i]].type = FlowStart(F[i])
  BY <1>1, <1>2
<1> QED
  BY <1>1, <1>3 DEF OpenFlows

\* If the new token ends something, it has begun behind position m.
LEMMA EndedProlonged ==
    ASSUME NEW T, NEW U, Prolongs(U, T), NEW f, NEW g, \A k \in 0 .. Len(T) : g[k] = f[k],
           NEW m \in Nat, EndedBehind(T, f, m),
           Ending(U[Len(T) + 1]) => \E x \in f[Len(T)] : x > m
    PROVE  EndedBehind(U, g, m)
<1> DEFINE n == Len(T)
<1>1. n \in Nat /\ Len(U) = n + 1 /\ \A i \in 1 .. n : U[i] = T[i]
  BY DEF Prolongs
<1>2. \A k \in (m + 1) .. n : Ending(T[k]) => \E x \in f[k - 1] : x > m
  BY DEF EndedBehind
<1> HIDE DEF n
<1>3. ASSUME NEW k \in (m + 1) .. (n + 1), Ending(U[k]) PROVE \E x \in g[k - 1] : x > m
  <2>1. CASE k = n + 1
    <3>1. k - 1 = n /\ n \in 0 .. n
      BY <1>1, <2>1
    <3>2. \E x \in f[n] : x > m
      BY <1>3, <2>1 DEF n
    <3> QED
      BY <3>1, <3>2 DEF n
  <2>2. CASE k # n + 1
    <3>1. k \in (m + 1) .. n /\ k \in 1 .. n /\ k - 1 \in 0 .. n
      BY <1>1, <2>2
    <3>2. U[k] = T[k]
      BY <1>1, <3>1
    <3>3. \E x \in f[k - 1] : x > m
      BY <1>2, <1>3, <3>1, <3>2
    <3>4. g[k - 1] = f[k - 1]
      BY <3>1 DEF n
    <3> QED
      BY <3>3, <3>4
  <2> QED
    BY <2>1, <2>2
<1> QED
  BY <1>1, <1>3 DEF EndedBehind

\* The positions of the keys.
LEMMA KeyPositions ==
    ASSUME NEW T, NEW front \in Nat \ {0}, NEW F, NEW key, OpenKey(T, front, F, key), Len(T) \in Nat
    PROVE  /\ key.token \in 1 .. Len(T) /\ T[key.token].status = "UNVERIFIED" /\ T[key.token].type = "KEY"
           /\ key.mapStart # 0 => /\ key.mapStart \in 1 .. Len(T) /\ key.mapStart < key.token
                                  /\ T[key.mapStart].status = "UNVERIFIED"
                                  /\ T[key.mapStart].type = "BLOCK_MAP_START"
<1> DEFINE n == Len(T)
<1> HIDE DEF n
<1>1. n \in Nat /\ \A i : i \in front .. n => i \in 1 .. n
  BY DEF n
<1>2. key.token \in front .. n /\ (key.mapStart # 0 => key.mapStart \in front .. n)
  BY DEF OpenKey, Undecided, n
<1>3. key.token \in 1 .. n /\ (key.mapStart # 0 => key.mapStart \in 1 .. n)
  BY <1>1, <1>2
<1> QED
  BY <1>3 DEF OpenKey, Undecided, n

\* A token that starts and ends nothing.
LEMMA NestedNeutral ==
    ASSUME NEW T, NEW U, NEW front \in Nat \ {0}, NEW K, NEW F, NEW I, NEW R, NEW f, NEW p,
           KeysOpen(T, front, K, F), Nested(T, K, F, I, R, f, p), Prolongs(U, T),
           U[Len(T) + 1].status # "VALID" \/ U[Len(T) + 1].type \notin StartTypes \cup EndTypes
    PROVE  \E g : Nested(U, K, F, I, R, g, p)
<1> DEFINE n == Len(T)
<1>1. n \in Nat /\ Len(U) = n + 1
  BY DEF Prolongs
<1>2. PICK g : /\ IsOpen(g, U)
               /\ \A k \in 0 .. n : g[k] = f[k]
               /\ g[n + 1] = Close(f[n], U, n + 1)
  BY OpenProlonged DEF Nested
<1>3. g[n + 1] = f[n]
  BY <1>2, CloseNothing
<1>4. ~Ending(U[n + 1])
  BY DEF Ending, EndTypes
<1>5. /\ \A k \in 0 .. n : f[k] \subseteq 1 .. k
      /\ f[n] = OpenBlocks(I, R) \cup {p[i] : i \in 1 .. Len(F)}
      /\ OpenFlows(T, F, R, p)
      /\ \A i \in 1 .. Len(K) : K[i].mapStart # 0 => CanBegin(T, I, R, f, K[i])
  BY DEF Nested
<1>6. ASSUME NEW i \in 1 .. Len(K), K[i].mapStart # 0 PROVE CanBegin(U, I, R, g, K[i])
  <2> DEFINE m == K[i].mapStart
  <2>1. CanBegin(T, I, R, f, K[i])
    BY <1>5, <1>6
  <2>2. OpenKey(T, front, F, K[i])
    BY DEF KeysOpen
  <2>3. m \in Nat
    BY <1>1, <1>6, <2>2, KeyPositions
  <2>4. EndedBehind(T, f, m)
    BY <2>1 DEF CanBegin
  <2> HIDE DEF m
  <2>5. EndedBehind(U, g, m)
    BY <1>2, <1>4, <2>3, <2>4, EndedProlonged
  <2> QED
    BY <2>1, <2>5 DEF CanBegin, m
<1>7. OpenFlows(U, F, R, p)
  BY <1>5, FlowsProlonged
<1> HIDE DEF n
<1>8. ASSUME NEW k \in 0 .. (n + 1) PROVE g[k] \subseteq 1 .. k
  <2>1. CASE k = n + 1
    <3>1. f[n] \subseteq 1 .. n
      BY <1>1, <1>5
    <3> QED
      BY <1>1, <1>3, <2>1, <3>1
  <2>2. CASE k # n + 1
    <3>1. k \in 0 .. n
      BY <1>1, <2>2
    <3> QED
      BY <1>2, <1>5, <3>1
  <2> QED
    BY <2>1, <2>2
<1> QED
  BY <1>1, <1>2, <1>3, <1>5, <1>6, <1>7, <1>8 DEF Nested

LEMMA SoundNeutral ==
    ASSUME NEW T, NEW front, NEW K, NEW F, NEW I, NEW R, Sound(T, front, K, F, I, R),
           NEW token, IsToken(token), token.status # "VALID" \/ token.type \notin StartTypes \cup EndTypes
    PROVE  Sound(Append(T, token), front, K, F, I, R)
<1> DEFINE U == Append(T, token)
<1>1. /\ Queued(T, front) /\ KeysOpen(T, front, K, F) /\ Indented(T, I, R) /\ IsSequence(T)
      /\ front \in Nat \ {0}
  <2>1. Queued(T, front) /\ Len(T) \in Nat
    BY Appended DEF Sound, Queued
  <2>2. \A n \in Nat : front \in 1 .. (n + 1) => front \in Nat \ {0}
    OBVIOUS
  <2> QED
    BY <2>1, <2>2 DEF Sound, Queued
<1>2. Prolongs(U, T) /\ U[Len(T) + 1] = token
  BY <1>1, AppendProlongs
<1> HIDE DEF U
<1>3. PICK f, p : Nested(T, K, F, I, R, f, p)
  BY DEF Sound
<1>4. U[Len(T) + 1].status # "VALID" \/ U[Len(T) + 1].type \notin StartTypes \cup EndTypes
  BY <1>2
<1>5. \E g : Nested(U, K, F, I, R, g, p)
  BY <1>1, <1>2, <1>3, <1>4, NestedNeutral
<1>6. Queued(U, front) /\ KeysOpen(U, front, K, F) /\ Indented(U, I, R)
  BY <1>1, <1>2, QueuedProlonged, KeysProlonged, IndentedProlonged
<1> QED
  BY <1>5, <1>6 DEF Sound, U

-----------------------------------------------------------------------------
(* A block begins                                                          *)

\* The start of an indent is behind those before it.
LEMMA StartsBefore ==
    ASSUME NEW T, NEW ref, IsIndent(T, ref), Len(T) \in Nat
    PROVE  ref.start \in 0 .. Len(T)
BY DEF IsIndent

\* A new indent with its start token on top of the others.
IndentOn(S, J, T, I, R) ==
    /\ Prolongs(S, R) /\ Prolongs(J, I) /\ J[Len(I) + 1] = Len(R) + 1
    /\ S[Len(R) + 1].start = Len(T) + 1 /\ S[Len(R) + 1].type # "NONE"

LEMMA IndentedOn ==
    ASSUME NEW T, NEW U, NEW I, NEW J, NEW R, NEW S, Indented(T, I, R), Prolongs(U, T),
           IndentOn(S, J, T, I, R), IsIndent(U, S[Len(R) + 1])
    PROVE  Indented(U, J, S)
<1> DEFINE n == Len(T)
           l == Len(R)
           k == Len(I)
<1>1. /\ n \in Nat /\ l \in Nat /\ k \in Nat /\ Len(S) = l + 1 /\ Len(J) = k + 1
      /\ \A r \in 1 .. l : S[r] = R[r]
      /\ \A i \in 1 .. k : J[i] = I[i]
      /\ J[k + 1] = l + 1 /\ S[l + 1].start = n + 1 /\ IsSequence(S) /\ IsSequence(J)
      /\ IsIndent(U, S[l + 1])
  BY DEF Prolongs, IndentOn
<1>2. \A r \in 1 .. l : IsIndent(U, R[r])
  BY IndentProlonged DEF Indented
<1>3. \A r \in 1 .. l : R[r].start \in 0 .. n
  BY <1>1, StartsBefore DEF Indented
<1>4. /\ \A q, r \in 1 .. l : q < r => R[q].start < R[r].start
      /\ \A i \in 1 .. k : I[i] \in 1 .. l
      /\ \A i, j \in 1 .. k : i < j => I[i] < I[j]
  BY DEF Indented
<1> HIDE DEF n, l, k
<1>5. \A r \in 1 .. (l + 1) : IsIndent(U, S[r])
  BY <1>1, <1>2
<1>6. ASSUME NEW q \in 1 .. (l + 1), NEW r \in 1 .. (l + 1), q < r PROVE S[q].start < S[r].start
  <2>1. q \in 1 .. l /\ S[q] = R[q]
    BY <1>1, <1>6
  <2>2. CASE r = l + 1
    BY <1>1, <1>3, <2>1, <2>2
  <2>3. CASE r # l + 1
    <3>1. r \in 1 .. l /\ S[r] = R[r]
      BY <1>1, <2>3
    <3> QED
      BY <1>4, <1>6, <2>1, <3>1
  <2> QED
    BY <2>2, <2>3
<1>7. ASSUME NEW i \in 1 .. (k + 1) PROVE J[i] \in 1 .. (l + 1)
  <2>1. CASE i = k + 1
    BY <1>1, <2>1
  <2>2. CASE i # k + 1
    <3>1. i \in 1 .. k /\ J[i] = I[i]
      BY <1>1, <2>2
    <3> QED
      BY <1>1, <1>4, <3>1
  <2> QED
    BY <2>1, <2>2
<1>8. ASSUME NEW i \in 1 .. (k + 1), NEW j \in 1 .. (k + 1), i < j PROVE J[i] < J[j]
  <2>1. i \in 1 .. k /\ J[i] = I[i] /\ I[i] \in 1 .. l
    BY <1>1, <1>4, <1>8
  <2>2. CASE j = k + 1
    BY <1>1, <2>1, <2>2
  <2>3. CASE j # k + 1
    <3>1. j \in 1 .. k /\ J[j] = I[j]
      BY <1>1, <2>3
    <3> QED
      BY <1>4, <1>8, <2>1, <3>1
  <2> QED
    BY <2>2, <2>3
<1> QED
  BY <1>1, <1>5, <1>6, <1>7, <1>8 DEF Indented

\* It is open if it is valid.
LEMMA BlocksOn ==
    ASSUME NEW T, NEW I, NEW J, NEW R, NEW S, Indented(T, I, R), IndentOn(S, J, T, I, R)
    PROVE  OpenBlocks(J, S) = OpenBlocks(I, R) \cup
                (IF S[Len(R) + 1].status = "VALID" THEN {Len(T) + 1} ELSE {})
<1> DEFINE l == Len(R)
           k == Len(I)
           new == IF S[l + 1].status = "VALID" THEN {Len(T) + 1} ELSE {}
<1>1. /\ l \in Nat /\ k \in Nat /\ Len(S) = l + 1 /\ Len(J) = k + 1
      /\ \A r \in 1 .. l : S[r] = R[r]
      /\ \A i \in 1 .. k : J[i] = I[i]
      /\ J[k + 1] = l + 1 /\ S[l + 1].start = Len(T) + 1 /\ S[l + 1].type # "NONE"
  BY DEF Prolongs, IndentOn
<1>2. \A i \in 1 .. k : I[i] \in 1 .. l
  BY DEF Indented
<1> HIDE DEF l, k
<1>3. \A i \in 1 .. k : i \in 1 .. (k + 1) /\ S[J[i]] = R[I[i]]
  BY <1>1, <1>2
<1>4. k + 1 \in 1 .. (k + 1) /\ S[J[k + 1]] = S[l + 1]
  BY <1>1
<1>5. ASSUME NEW x \in OpenBlocks(J, S) PROVE x \in OpenBlocks(I, R) \cup new
  <2>1. PICK i \in 1 .. (k + 1) : x = S[J[i]].start /\ S[J[i]].type # "NONE" /\ S[J[i]].status = "VALID"
    BY <1>1, <1>5 DEF OpenBlocks
  <2>2. CASE i = k + 1
    BY <1>1, <1>4, <2>1, <2>2
  <2>3. CASE i # k + 1
    <3>1. i \in 1 .. k
      BY <1>1, <2>3
    <3>2. x \in OpenBlocks(I, R)
      BY <1>3, <2>1, <3>1 DEF OpenBlocks, k
    <3> QED
      BY <3>2
  <2> QED
    BY <2>2, <2>3
<1>6. ASSUME NEW x \in OpenBlocks(I, R) PROVE x \in OpenBlocks(J, S)
  <2>1. PICK i \in 1 .. k : x = R[I[i]].start /\ R[I[i]].type # "NONE" /\ R[I[i]].status = "VALID"
    BY <1>6 DEF OpenBlocks, k
  <2>2. i \in 1 .. (k + 1) /\ x = S[J[i]].start /\ S[J[i]].type # "NONE" /\ S[J[i]].status = "VALID"
    BY <1>3, <2>1
  <2> QED
    BY <1>1, <2>2 DEF OpenBlocks
<1>7. ASSUME NEW x \in new PROVE x \in OpenBlocks(J, S)
  <2>1. k + 1 \in 1 .. (k + 1) /\ x = S[J[k + 1]].start /\ S[J[k + 1]].type # "NONE"
        /\ S[J[k + 1]].status = "VALID"
    BY <1>1, <1>4, <1>7
  <2> QED
    BY <1>1, <2>1 DEF OpenBlocks
<1> HIDE DEF new
<1>8. OpenBlocks(J, S) = OpenBlocks(I, R) \cup new
  BY <1>5, <1>6, <1>7
<1> QED
  BY <1>8 DEF new, l

LEMMA NestedOn ==
    ASSUME NEW T, NEW U, NEW front \in Nat \ {0}, NEW K, NEW I, NEW J, NEW R, NEW S, NEW f, NEW p,
           KeysOpen(T, front, K, <<>>), Indented(T, I, R), Nested(T, K, <<>>, I, R, f, p),
           Prolongs(U, T), IndentOn(S, J, T, I, R), U[Len(T) + 1].type \in StartTypes,
           S[Len(R) + 1].status = "VALID" <=> U[Len(T) + 1].status = "VALID"
    PROVE  \E g : Nested(U, K, <<>>, J, S, g, p)
<1> DEFINE n == Len(T)
           new == IF S[Len(R) + 1].status = "VALID" THEN {n + 1} ELSE {}
<1>1. n \in Nat /\ Len(U) = n + 1
  BY DEF Prolongs
<1>2. PICK g : /\ IsOpen(g, U)
               /\ \A k \in 0 .. n : g[k] = f[k]
               /\ g[n + 1] = Close(f[n], U, n + 1)
  BY OpenProlonged DEF Nested
<1>3. g[n + 1] = f[n] \cup new
  <2>1. CASE U[n + 1].status = "VALID"
    <3>1. Close(f[n], U, n + 1) = f[n] \cup {n + 1}
      BY <2>1, CloseStart
    <3> QED
      BY <1>2, <2>1, <3>1
  <2>2. CASE U[n + 1].status # "VALID"
    <3>1. Close(f[n], U, n + 1) = f[n]
      BY <2>2, CloseNothing
    <3> QED
      BY <1>2, <2>2, <3>1
  <2> QED
    BY <2>1, <2>2
<1>4. ~Ending(U[n + 1])
  BY DEF Ending, StartTypes
<1>5. /\ \A k \in 0 .. n : f[k] \subseteq 1 .. k
      /\ f[n] = OpenBlocks(I, R) \cup {p[i] : i \in 1 .. Len(<<>>)}
      /\ \A i \in 1 .. Len(K) : K[i].mapStart # 0 => CanBegin(T, I, R, f, K[i])
  BY DEF Nested
<1>6. OpenBlocks(J, S) = OpenBlocks(I, R) \cup new
  BY BlocksOn
<1>7. ASSUME NEW i \in 1 .. Len(K), K[i].mapStart # 0 PROVE CanBegin(U, J, S, g, K[i])
  <2> DEFINE m == K[i].mapStart
  <2>1. CanBegin(T, I, R, f, K[i])
    BY <1>5, <1>7
  <2>2. OpenKey(T, front, <<>>, K[i])
    BY DEF KeysOpen
  <2>3. m \in Nat
    BY <1>1, <1>7, <2>2, KeyPositions
  <2>4. EndedBehind(T, f, m)
    BY <2>1 DEF CanBegin
  <2>5. PICK j \in 1 .. Len(I) : I[j] = K[i].indent
    BY <2>1 DEF CanBegin
  <2>6. /\ I[j] \in 1 .. Len(R) /\ S[I[j]] = R[I[j]]
        /\ j \in 1 .. Len(J) /\ J[j] = I[j]
    BY DEF Indented, IndentOn, Prolongs
  <2> HIDE DEF m
  <2>7. EndedBehind(U, g, m)
    BY <1>2, <1>4, <2>3, <2>4, EndedProlonged
  <2> QED
    BY <2>1, <2>5, <2>6, <2>7 DEF CanBegin, m
<1>8. OpenFlows(U, <<>>, S, p)
  BY DEF OpenFlows
<1>9. {p[i] : i \in 1 .. Len(<<>>)} = {}
  OBVIOUS
<1> HIDE DEF n
<1>10. new \subseteq 1 .. (n + 1)
  BY <1>1
<1> HIDE DEF new
<1>11. ASSUME NEW k \in 0 .. (n + 1) PROVE g[k] \subseteq 1 .. k
  <2>1. CASE k = n + 1
    <3>1. f[n] \subseteq 1 .. n /\ 1 .. n \subseteq 1 .. (n + 1)
      BY <1>1, <1>5
    <3>2. g[n + 1] \subseteq 1 .. (n + 1)
      BY <1>3, <1>10, <3>1, Zenon
    <3> QED
      BY <2>1, <3>2
  <2>2. CASE k # n + 1
    <3>1. k \in 0 .. n
      BY <1>1, <2>2
    <3> QED
      BY <1>2, <1>5, <3>1
  <2> QED
    BY <2>1, <2>2
<1>12. g[n + 1] = OpenBlocks(J, S) \cup {p[i] : i \in 1 .. Len(<<>>)}
  BY <1>3, <1>5, <1>6, <1>9
<1> QED
  BY <1>1, <1>2, <1>7, <1>8, <1>11, <1>12 DEF Nested

LEMMA SoundIndent ==
    ASSUME NEW T, NEW front, NEW K, NEW I, NEW R, Sound(T, front, K, <<>>, I, R),
           NEW token, IsToken(token), NEW ref, DOMAIN ref = {"column", "type", "status", "start"},
           ref.type \in {"SEQ", "MAP"}, token.type = BlockStart(ref.type), ref.start = Len(T) + 1,
           ref.status = "VALID" <=> token.status = "VALID"
    PROVE  Sound(Append(T, token), front, K, <<>>, Append(I, Len(R) + 1), Append(R, ref))
<1> DEFINE U == Append(T, token)
           J == Append(I, Len(R) + 1)
           S == Append(R, ref)
<1>1. /\ Queued(T, front) /\ KeysOpen(T, front, K, <<>>) /\ Indented(T, I, R) /\ IsSequence(T)
      /\ front \in Nat \ {0} /\ Len(T) \in Nat
  <2>1. Queued(T, front) /\ Len(T) \in Nat
    BY Appended DEF Sound, Queued
  <2>2. \A n \in Nat : front \in 1 .. (n + 1) => front \in Nat \ {0}
    OBVIOUS
  <2> QED
    BY <2>1, <2>2 DEF Sound, Queued
<1>2. Prolongs(U, T) /\ U[Len(T) + 1] = token
  BY <1>1, AppendProlongs
<1>3. IsSequence(I) /\ IsSequence(R)
  BY <1>1 DEF Indented
<1>4. Prolongs(S, R) /\ S[Len(R) + 1] = ref
  BY <1>3, AppendProlongs
<1>5. Prolongs(J, I) /\ J[Len(I) + 1] = Len(R) + 1
  BY <1>3, AppendProlongs
<1> HIDE DEF U, J, S
<1>6. IndentOn(S, J, T, I, R)
  BY <1>4, <1>5 DEF IndentOn
<1>7. IsIndent(U, S[Len(R) + 1])
  <2>1. Len(U) = Len(T) + 1 /\ Len(T) + 1 \in 1 .. (Len(T) + 1)
    BY <1>1, <1>2 DEF Prolongs
  <2> QED
    BY <1>2, <1>4, <2>1 DEF IsIndent
<1>8. U[Len(T) + 1].type \in StartTypes
  BY <1>2 DEF BlockStart, StartTypes
<1>9. S[Len(R) + 1].status = "VALID" <=> U[Len(T) + 1].status = "VALID"
  BY <1>2, <1>4
<1>10. PICK f, p : Nested(T, K, <<>>, I, R, f, p)
  BY DEF Sound
<1>11. \E g : Nested(U, K, <<>>, J, S, g, p)
  BY <1>1, <1>2, <1>6, <1>8, <1>9, <1>10, NestedOn
<1>12. Queued(U, front) /\ KeysOpen(U, front, K, <<>>) /\ Indented(U, J, S)
  BY <1>1, <1>2, <1>6, <1>7, QueuedProlonged, KeysProlonged, IndentedOn
<1> QED
  BY <1>11, <1>12 DEF Sound, U, J, S

-----------------------------------------------------------------------------
(* A key is opened                                                         *)

\* A key whose token comes next, and whose block, if it is to begin one, came last.
NewKey(T, front, F, I, R, key) ==
    /\ key.flowLevel = Len(F) /\ key.token = Len(T) + 1
    /\ \/ key.mapStart = 0 /\ key.indent = 0
       \/ /\ F = <<>> /\ key.mapStart = Len(T) /\ key.indent = Len(R)
          /\ Undecided(T, front, Len(T), "BLOCK_MAP_START")
          /\ R[Len(R)].start = Len(T) /\ R[Len(R)].status # "VALID"
          /\ \E i \in 1 .. Len(I) : I[i] = Len(R)

LEMMA NewKeyOpen ==
    ASSUME NEW T, NEW U, NEW front \in Nat \ {0}, NEW F \in Seq({"FLOW_SEQ", "FLOW_MAP"}), NEW I, NEW R, NEW key,
           front \in 1 .. (Len(T) + 1), Prolongs(U, T),
           NewKey(T, front, F, I, R, key), U[Len(T) + 1].status = "UNVERIFIED", U[Len(T) + 1].type = "KEY"
    PROVE  OpenKey(U, front, F, key)
<1> DEFINE n == Len(T)
<1>1. n \in Nat /\ Len(U) = n + 1 /\ \A i \in 1 .. n : U[i] = T[i]
  BY DEF Prolongs
<1>2. Len(F) \in Nat /\ (F = <<>> => Len(F) = 0)
  OBVIOUS
<1>3. /\ key.flowLevel = Len(F) /\ key.token = n + 1 /\ front \in 1 .. (n + 1)
      /\ U[n + 1].status = "UNVERIFIED" /\ U[n + 1].type = "KEY"
  BY DEF NewKey
<1>4. key.mapStart # 0 => F = <<>> /\ key.mapStart = n /\ Undecided(T, front, n, "BLOCK_MAP_START")
  BY DEF NewKey
<1>5. key.indent # 0 => key.mapStart # 0
  <2>1. ASSUME key.indent # 0 PROVE n # 0
    <3>1. Undecided(T, front, n, "BLOCK_MAP_START")
      BY <2>1 DEF NewKey
    <3>2. n \in front .. n
      BY <3>1 DEF Undecided
    <3> QED
      BY <3>2
  <2> QED
    BY <2>1 DEF NewKey
<1>6. key.mapStart # 0 => Undecided(U, front, key.mapStart, "BLOCK_MAP_START")
  BY <1>4, UndecidedProlonged
<1> HIDE DEF n
<1>7. n + 1 \in front .. (n + 1)
  BY <1>1, <1>3
<1>8. Undecided(U, front, key.token, "KEY")
  BY <1>1, <1>3, <1>7 DEF Undecided
<1>9. key.flowLevel \in 0 .. Len(F)
  BY <1>2, <1>3
<1>10. key.mapStart # 0 => key.mapStart < key.token /\ key.flowLevel = 0
  BY <1>1, <1>2, <1>3, <1>4
<1> QED
  BY <1>5, <1>6, <1>8, <1>9, <1>10 DEF OpenKey

\* It is in a deeper flow than the last, and so than all.
LEMMA KeysOpened ==
    ASSUME NEW T, NEW U, NEW front, NEW K, NEW F, NEW L, NEW key,
           KeysOpen(T, front, K, F), KeysOpen(U, front, K, F), front \in Nat \ {0},
           Prolongs(L, K), L[Len(K) + 1] = key, OpenKey(U, front, F, key), Len(T) \in Nat,
           key.flowLevel = Len(F), key.token = Len(T) + 1,
           K # <<>> => Last(K).flowLevel # Len(F)
    PROVE  KeysOpen(U, front, L, F)
<1> DEFINE k == Len(K)
           n == Len(T)
           depth == Len(F)
<1>1. /\ k \in Nat /\ n \in Nat /\ Len(L) = k + 1 /\ L[k + 1] = key /\ \A i \in 1 .. k : L[i] = K[i]
      /\ key.flowLevel = depth /\ key.token = n + 1 /\ depth \in Nat
  BY DEF Prolongs, KeysOpen
<1>2. \A i \in 1 .. k : OpenKey(U, front, F, K[i])
  BY DEF KeysOpen
<1>3. \A i \in 1 .. k : K[i].flowLevel \in 0 .. depth /\ K[i].token \in 1 .. n
  <2>1. ASSUME NEW i \in 1 .. k PROVE K[i].flowLevel \in 0 .. depth /\ K[i].token \in 1 .. n
    <3>1. OpenKey(T, front, F, K[i])
      BY DEF KeysOpen
    <3> QED
      BY <1>1, <3>1, KeyPositions DEF OpenKey
  <2> QED
    BY <2>1
<1>4. \A i, j \in 1 .. k : i < j => K[i].flowLevel < K[j].flowLevel /\ K[i].token < K[j].token
  BY DEF KeysOpen
<1>5. K # <<>> => k # 0 /\ Last(K) = K[k]
  BY InFront DEF KeysOpen
<1>6. K = <<>> => k = 0
  OBVIOUS
<1>7. k # 0 => K[k].flowLevel # depth
  BY <1>5, <1>6
<1> HIDE DEF k, n, depth
<1>8. ASSUME NEW i \in 1 .. k PROVE K[i].flowLevel < depth /\ K[i].token < n + 1
  <2>1. k \in 1 .. k /\ k # 0
    BY <1>1
  <2>2. K[k].flowLevel < depth
    BY <1>1, <1>3, <1>7, <2>1
  <2>3. CASE i = k
    BY <1>1, <1>3, <2>2, <2>3
  <2>4. CASE i # k
    <3>1. i < k
      BY <1>1, <2>4
    <3>2. K[i].flowLevel < K[k].flowLevel
      BY <1>4, <2>1, <3>1
    <3> QED
      BY <1>1, <1>3, <2>1, <2>2, <3>2, SMTT(30)
  <2> QED
    BY <2>3, <2>4
<1>9. \A i \in 1 .. (k + 1) : OpenKey(U, front, F, L[i])
  BY <1>1, <1>2
<1>10. ASSUME NEW i \in 1 .. (k + 1), NEW j \in 1 .. (k + 1), i < j
       PROVE  L[i].flowLevel < L[j].flowLevel /\ L[i].token < L[j].token
  <2>1. i \in 1 .. k /\ L[i] = K[i]
    BY <1>1, <1>10
  <2>2. CASE j = k + 1
    BY <1>1, <1>8, <2>1, <2>2
  <2>3. CASE j # k + 1
    <3>1. j \in 1 .. k /\ L[j] = K[j]
      BY <1>1, <2>3
    <3> QED
      BY <1>4, <1>10, <2>1, <3>1
  <2> QED
    BY <2>2, <2>3
<1>11. IsSequence(L) /\ F \in Seq({"FLOW_SEQ", "FLOW_MAP"})
  BY DEF Prolongs, KeysOpen
<1> QED
  BY <1>1, <1>9, <1>10, <1>11 DEF KeysOpen

\* Its block comes last: nothing has ended behind it.
LEMMA NewKeyBegins ==
    ASSUME NEW T, NEW U, NEW front, NEW F, NEW I, NEW R, NEW g, NEW key, NewKey(T, front, F, I, R, key),
           key.mapStart # 0, Prolongs(U, T), U[Len(T) + 1].status = "UNVERIFIED"
    PROVE  CanBegin(U, I, R, g, key)
<1> DEFINE n == Len(T)
<1>1. n \in Nat /\ Len(U) = n + 1 /\ U[n + 1].status = "UNVERIFIED"
  BY DEF Prolongs
<1>2. /\ key.mapStart = n /\ key.indent = Len(R) /\ R[Len(R)].start = n /\ R[Len(R)].status # "VALID"
      /\ \E i \in 1 .. Len(I) : I[i] = Len(R)
  BY DEF NewKey
<1> HIDE DEF n
<1>3. ASSUME NEW k \in (n + 1) .. (n + 1), Ending(U[k]) PROVE FALSE
  BY <1>1, <1>3 DEF Ending
<1>4. EndedBehind(U, g, n)
  BY <1>1, <1>3 DEF EndedBehind
<1> QED
  BY <1>2, <1>4 DEF CanBegin

LEMMA SoundKey ==
    ASSUME NEW T, NEW front, NEW K, NEW F, NEW I, NEW R, Sound(T, front, K, F, I, R),
           NEW token, IsToken(token), token.status = "UNVERIFIED", token.type = "KEY",
           NEW key, NewKey(T, front, F, I, R, key), K # <<>> => Last(K).flowLevel # Len(F)
    PROVE  Sound(Append(T, token), front, Append(K, key), F, I, R)
<1> DEFINE U == Append(T, token)
           L == Append(K, key)
<1>1. /\ Queued(T, front) /\ KeysOpen(T, front, K, F) /\ Indented(T, I, R) /\ IsSequence(T)
      /\ front \in Nat \ {0} /\ Len(T) \in Nat /\ front \in 1 .. (Len(T) + 1)
      /\ F \in Seq({"FLOW_SEQ", "FLOW_MAP"})
  <2>1. Queued(T, front) /\ Len(T) \in Nat
    BY Appended DEF Sound, Queued
  <2>2. \A n \in Nat : front \in 1 .. (n + 1) => front \in Nat \ {0}
    OBVIOUS
  <2> QED
    BY <2>1, <2>2 DEF Sound, Queued, KeysOpen
<1>2. Prolongs(U, T) /\ U[Len(T) + 1] = token
  BY <1>1, AppendProlongs
<1>3. Prolongs(L, K) /\ L[Len(K) + 1] = key
  BY <1>1, AppendProlongs DEF KeysOpen
<1> HIDE DEF U, L
<1>4. PICK f, p : Nested(T, K, F, I, R, f, p)
  BY DEF Sound
<1>5. PICK g : Nested(U, K, F, I, R, g, p)
  <2>1. U[Len(T) + 1].status # "VALID" \/ U[Len(T) + 1].type \notin StartTypes \cup EndTypes
    BY <1>2
  <2> QED
    BY <1>1, <1>2, <1>4, <2>1, NestedNeutral
<1>6. Queued(U, front) /\ KeysOpen(U, front, K, F) /\ Indented(U, I, R)
  BY <1>1, <1>2, QueuedProlonged, KeysProlonged, IndentedProlonged
<1>7. U[Len(T) + 1].status = "UNVERIFIED" /\ U[Len(T) + 1].type = "KEY"
  BY <1>2
<1>8. OpenKey(U, front, F, key)
  BY <1>1, <1>2, <1>7, NewKeyOpen
<1>9. key.flowLevel = Len(F) /\ key.token = Len(T) + 1
  BY DEF NewKey
<1>10. KeysOpen(U, front, L, F)
  BY <1>1, <1>2, <1>3, <1>6, <1>8, <1>9, KeysOpened
<1>11. ASSUME NEW i \in 1 .. Len(L), L[i].mapStart # 0 PROVE CanBegin(U, I, R, g, L[i])
  <2>1. Len(K) \in Nat /\ Len(L) = Len(K) + 1 /\ \A j \in 1 .. Len(K) : L[j] = K[j]
    BY <1>3 DEF Prolongs
  <2>2. CASE i = Len(K) + 1
    BY <1>2, <1>3, <1>7, <1>11, <2>2, NewKeyBegins
  <2>3. CASE i # Len(K) + 1
    <3>1. i \in 1 .. Len(K)
      BY <2>1, <2>3
    <3> QED
      BY <1>5, <1>11, <2>1, <3>1 DEF Nested
  <2> QED
    BY <2>2, <2>3
<1>12. Nested(U, L, F, I, R, g, p)
  BY <1>5, <1>11 DEF Nested
<1> QED
  BY <1>6, <1>10, <1>12 DEF Sound, U, L

-----------------------------------------------------------------------------
(* A key is decided                                                        *)

\* An end closes the last that is open, or fails.
LEMMA CloseLast ==
    ASSUME NEW n \in Nat, NEW open \in SUBSET (1 .. n), open # {}, NEW T, NEW k, Ending(T[k])
    PROVE  /\ Max(open) \in open /\ \A m \in open : m <= Max(open)
           /\ IF T[k].type = Closing[T[Max(open)].type] THEN Close(open, T, k) = open \ {Max(open)}
              ELSE Close(open, T, k) = open \cup {0}
<1>1. Max(open) \in open /\ \A m \in open : m <= Max(open)
  BY MaxIs
<1>2. open \ {0} # {}
  OBVIOUS
<1>3. T[k].status = "VALID" /\ T[k].type \in EndTypes /\ T[k].type \notin StartTypes
  BY DEF Ending, EndTypes, StartTypes
<1> QED
  BY <1>1, <1>2, <1>3, Closings DEF Close

Behind(open, m) == \E x \in open : x > m

\* The same end among what was open and a block that is begun before it.
LEMMA CloseBehind ==
    ASSUME NEW n \in Nat, NEW open \in SUBSET (1 .. n), NEW m \in 1 .. n, NEW T, NEW U, NEW k \in Nat \ {0},
           Ending(T[k]), Alike(T, U, n, k), 0 \notin Close(open, T, k), Behind(open, m)
    PROVE  Close(open \cup {m}, U, k) = Close(open, T, k) \cup {m}
<1> DEFINE x == Max(open)
           both == open \cup {m}
<1>1. PICK y \in open : y > m
  BY DEF Behind
<1>2. x \in open /\ (\A z \in open : z <= x) /\ open # {}
  BY <1>1, CloseLast
<1>3. x > m /\ x \in 1 .. n
  <2>1. x \in 1 .. n /\ y \in 1 .. n /\ y <= x
    BY <1>1, <1>2
  <2> HIDE DEF x
  <2> QED
    BY <1>1, <2>1
<1>4. T[k].type = Closing[T[x].type] /\ Close(open, T, k) = open \ {x}
  <2>1. IF T[k].type = Closing[T[x].type] THEN Close(open, T, k) = open \ {x}
        ELSE Close(open, T, k) = open \cup {0}
    BY <1>2, CloseLast
  <2> QED
    BY <2>1
<1>5. Ending(U[k]) /\ U[k].type = T[k].type /\ U[x].type = T[x].type
  BY <1>3 DEF Ending, Alike
<1>6. both \in SUBSET (1 .. n) /\ both # {}
  OBVIOUS
<1>7. Max(both) = x
  <2>1. both \in SUBSET Int /\ x \in both /\ \A z \in both : z <= x
    BY <1>2, <1>3
  <2> HIDE DEF both, x
  <2> QED
    BY <2>1, MaxAt
<1> HIDE DEF both
<1>8. IF U[k].type = Closing[U[Max(both)].type] THEN Close(both, U, k) = both \ {Max(both)}
      ELSE Close(both, U, k) = both \cup {0}
  BY <1>5, <1>6, CloseLast
<1> HIDE DEF x
<1>9. Close(both, U, k) = both \ {x}
  BY <1>4, <1>5, <1>7, <1>8
<1>10. both \ {x} = (open \ {x}) \cup {m}
  BY <1>3 DEF both
<1> QED
  BY <1>4, <1>9, <1>10 DEF both

Decision(status) == status \in {"VALID", "INVALID"}

\* U is T with the tokens m and t decided.
Decides(U, T, m, t, status) ==
    /\ IsSequence(U) /\ Len(T) \in Nat /\ Len(U) = Len(T)
    /\ \A i \in 1 .. Len(T) : /\ IF i \in {m, t} THEN U[i].status = status /\ U[i].type = T[i].type
                                 ELSE U[i] = T[i]
                              /\ IsToken(T[i]) => IsToken(U[i])

\* m is undecided and would begin a map, t is an undecided key.
ToDecide(T, m, t) ==
    /\ t \in 1 .. Len(T) /\ T[t].status = "UNVERIFIED" /\ T[t].type = "KEY"
    /\ m # 0 => m \in 1 .. Len(T) /\ T[m].status = "UNVERIFIED" /\ T[m].type = "BLOCK_MAP_START"

Added(m, k, status) == IF status = "VALID" /\ m # 0 /\ k >= m THEN {m} ELSE {}

\* With open before token k: what ends there has begun behind the map that begins.
Deciding(T, U, m, t, status, k, open) ==
    /\ m \in Nat /\ Decision(status) /\ Decides(U, T, m, t, status) /\ ToDecide(T, m, t)
    /\ k \in 1 .. Len(T) /\ open \in SUBSET (1 .. (k - 1)) /\ 0 \notin Close(open, T, k)
    /\ status = "VALID" /\ m # 0 /\ k > m /\ Ending(T[k]) => Behind(open, m)

LEMMA CloseDecided ==
    ASSUME NEW T, NEW U, NEW m, NEW t, NEW status, NEW k, NEW open, Deciding(T, U, m, t, status, k, open)
    PROVE  Close(open \cup Added(m, k - 1, status), U, k) = Close(open, T, k) \cup Added(m, k, status)
<1> DEFINE n == Len(T)
           j == k - 1
           before == Added(m, j, status)
           both == open \cup before
<1> USE DEF Deciding, Decision
<1>1. n \in Nat /\ k \in 1 .. n /\ k \in Nat \ {0} /\ j \in Nat /\ j + 1 = k
  BY DEF Decides
<1>2. \A i \in 1 .. n : U[i].type = T[i].type /\ (i \notin {m, t} => U[i] = T[i])
  BY DEF Decides
<1>3. CASE k = t
  <2>1. T[k].status # "VALID" /\ T[k].type \notin StartTypes \cup EndTypes
        /\ U[k].type \notin StartTypes \cup EndTypes
    BY <1>1, <1>2, <1>3 DEF ToDecide, StartTypes, EndTypes
  <2>2. Close(open, T, k) = open /\ Close(both, U, k) = both
    BY <2>1, CloseNothing
  <2>3. k # m
    BY <1>1, <1>3 DEF ToDecide
  <2>4. Added(m, k, status) = before
    BY <1>1, <2>3 DEF Added
  <2> QED
    BY <2>2, <2>4
<1>4. CASE k = m
  <2>1. /\ T[k].status = "UNVERIFIED" /\ U[k].status = status /\ U[k].type \in StartTypes
        /\ U[k].type = T[k].type
    BY <1>1, <1>4 DEF ToDecide, Decides, StartTypes
  <2>2. Close(open, T, k) = open
    BY <2>1, CloseNothing
  <2>3. before = {} /\ both = open
    BY <1>1, <1>4 DEF Added
  <2>4. CASE status = "VALID"
    <3>1. Close(both, U, k) = both \cup {k}
      BY <2>1, <2>4, CloseStart
    <3>2. Added(m, k, status) = {k}
      BY <1>1, <1>4, <2>4 DEF Added
    <3> QED
      BY <2>2, <2>3, <3>1, <3>2
  <2>5. CASE status = "INVALID"
    <3>1. Close(both, U, k) = both
      BY <2>1, <2>5, CloseNothing
    <3>2. Added(m, k, status) = {}
      BY <2>5 DEF Added
    <3> QED
      BY <2>2, <2>3, <3>1, <3>2
  <2> QED
    BY <2>4, <2>5
<1>5. CASE k # t /\ k # m
  <2>1. U[k] = T[k] /\ Alike(T, U, j, k)
    <3>1. \A i \in 1 .. j : i \in 1 .. n
      BY <1>1
    <3> QED
      BY <1>1, <1>2, <1>5, <3>1 DEF Alike
  <2>2. Added(m, k, status) = before
    BY <1>1, <1>5 DEF Added
  <2>3. open \in SUBSET (1 .. j)
    OBVIOUS
  <2>4. CASE before = {}
    <3>1. both = open
      BY <2>4
    <3> HIDE DEF j
    <3>2. Close(open, T, k) = Close(open, U, k)
      BY <1>1, <2>1, <2>3, CloseSame
    <3> QED
      BY <2>2, <2>4, <3>1, <3>2 DEF j
  <2>5. CASE before # {}
    <3>1. before = {m} /\ status = "VALID" /\ m # 0 /\ m \in 1 .. j /\ k > m
      BY <1>1, <2>5 DEF Added
    <3>2. CASE T[k].status # "VALID" \/ T[k].type \notin StartTypes \cup EndTypes
      <4>1. Close(open, T, k) = open /\ Close(both, U, k) = both
        BY <2>1, <3>2, CloseNothing
      <4> QED
        BY <2>2, <4>1
    <3>3. CASE T[k].status = "VALID" /\ T[k].type \in StartTypes
      <4>1. Close(open, T, k) = open \cup {k} /\ Close(both, U, k) = both \cup {k}
        BY <2>1, <3>3, CloseStart
      <4> QED
        BY <2>2, <4>1
    <3>4. CASE T[k].status = "VALID" /\ T[k].type \in EndTypes
      <4>1. Ending(T[k])
        BY <3>4 DEF Ending, EndTypes
      <4>2. Behind(open, m)
        BY <3>1, <4>1
      <4> HIDE DEF j
      <4>3. Close(open \cup {m}, U, k) = Close(open, T, k) \cup {m}
        BY <1>1, <2>1, <2>3, <3>1, <4>1, <4>2, CloseBehind
      <4> QED
        BY <2>2, <3>1, <4>3 DEF j
    <3> QED
      BY <3>2, <3>3, <3>4
  <2> QED
    BY <2>4, <2>5
<1> QED
  BY <1>3, <1>4, <1>5

\* Only what is before the end of each token is open there.
Before(f, T) == \A k \in 0 .. Len(T) : f[k] \subseteq 1 .. k

\* In g what is open after each token when the key is decided: the map that begins, too.
OpenToo(U, f, g, m, status) ==
    IsOpen(g, U) /\ \A k \in 0 .. Len(U) : g[k] = f[k] \cup Added(m, k, status)

LEMMA OpenDecided ==
    ASSUME NEW T, NEW U, NEW m \in Nat, NEW t, NEW status, Decision(status), Decides(U, T, m, t, status),
           ToDecide(T, m, t), NEW f, IsOpen(f, T), Before(f, T),
           m # 0 => EndedBehind(T, f, m)
    PROVE  \E g : OpenToo(U, f, g, m, status)
<1> DEFINE n == Len(T)
           Expected(g, k) == IF k = 0 THEN {} ELSE Close(g[k - 1], U, k)
           h == [k \in 0 .. n |-> f[k] \cup Added(m, k, status)]
<1>1. n \in Nat /\ Len(U) = n
  BY DEF Decides
<1>2. \A k \in 0 .. n : f[k] = IF k = 0 THEN {} ELSE Close(f[k - 1], T, k)
  BY DEF IsOpen
<1>3. \A k \in 0 .. n : h[k] = f[k] \cup Added(m, k, status)
  OBVIOUS
<1>4. h = [k \in 0 .. n |-> h[k]]
  OBVIOUS
<1> HIDE DEF h
<1>5. ASSUME NEW k \in 0 .. n PROVE h[k] = Expected(h, k)
  <2>1. CASE k = 0
    <3>1. f[0] = {} /\ Added(m, 0, status) = {}
      BY <1>1, <1>2 DEF Added
    <3> QED
      BY <1>3, <2>1, <3>1
  <2>2. CASE k # 0
    <3> DEFINE j == k - 1
               o == f[j]
    <3>1. k \in 1 .. n /\ j \in 0 .. n /\ k \in 0 .. n
      BY <1>1, <2>2
    <3>2. f[k] = Close(o, T, k)
      BY <1>2, <2>2
    <3>3. h[j] = o \cup Added(m, k - 1, status)
      BY <1>3, <3>1
    <3>4. o \in SUBSET (1 .. (k - 1))
      BY <3>1 DEF Before
    <3>5. 0 \notin Close(o, T, k)
      <4>1. f[k] \subseteq 1 .. k
        BY DEF Before
      <4> QED
        BY <3>2, <4>1
    <3>6. status = "VALID" /\ m # 0 /\ k > m /\ Ending(T[k]) => Behind(o, m)
      <4>1. ASSUME m # 0, k > m, Ending(T[k]) PROVE Behind(o, m)
        <5>1. k \in (m + 1) .. n
          BY <1>1, <3>1, <4>1
        <5>2. \E x \in f[k - 1] : x > m
          BY <4>1, <5>1 DEF EndedBehind
        <5> QED
          BY <5>2 DEF Behind
      <4> QED
        BY <4>1
    <3> HIDE DEF o
    <3>7. Deciding(T, U, m, t, status, k, o)
      BY <3>1, <3>4, <3>5, <3>6 DEF Deciding
    <3>8. Close(o \cup Added(m, k - 1, status), U, k) = Close(o, T, k) \cup Added(m, k, status)
      BY <3>7, CloseDecided
    <3> QED
      BY <1>3, <2>2, <3>2, <3>3, <3>8
  <2> QED
    BY <2>1, <2>2
<1>6. h = [k \in 0 .. n |-> Expected(h, k)]
  <2>1. [k \in 0 .. n |-> h[k]] = [k \in 0 .. n |-> Expected(h, k)]
    BY <1>5
  <2> QED
    BY <1>4, <2>1
<1>7. IsOpen(h, U)
  BY <1>1, <1>6 DEF IsOpen
<1> QED
  BY <1>1, <1>3, <1>7 DEF OpenToo

\* S is R with the indent r decided.
DecidesIndent(S, R, r, status) ==
    /\ IsSequence(S) /\ Len(R) \in Nat /\ Len(S) = Len(R)
    /\ \A i \in 1 .. Len(R) :
          /\ S[i].type = R[i].type /\ S[i].start = R[i].start /\ DOMAIN S[i] = DOMAIN R[i]
          /\ S[i].status = IF i = r THEN status ELSE R[i].status

\* The indent r of the map that would begin at m is open; 0 is no map and no indent.
BeginsAt(I, R, m, r) ==
    IF m = 0 THEN r = 0
    ELSE /\ r \in 1 .. Len(R) /\ R[r].start = m /\ R[r].status # "VALID"
         /\ \E i \in 1 .. Len(I) : I[i] = r

LEMMA IndentedDecided ==
    ASSUME NEW T, NEW U, NEW I, NEW R, NEW S, NEW m \in Nat, NEW t, NEW r, NEW status, Decision(status),
           Indented(T, I, R), Decides(U, T, m, t, status), ToDecide(T, m, t),
           DecidesIndent(S, R, r, status), BeginsAt(I, R, m, r)
    PROVE  Indented(U, I, S)
<1> USE DEF Decision
<1> DEFINE l == Len(R)
           n == Len(T)
<1>1. /\ l \in Nat /\ Len(S) = l /\ n \in Nat /\ Len(U) = n /\ IsSequence(S)
      /\ \A i \in 1 .. n : IF i \in {m, t} THEN U[i].status = status /\ U[i].type = T[i].type ELSE U[i] = T[i]
  BY DEF Decides, DecidesIndent
<1>2. \A i \in 1 .. l : /\ S[i].type = R[i].type /\ S[i].start = R[i].start /\ DOMAIN S[i] = DOMAIN R[i]
                        /\ S[i].status = IF i = r THEN status ELSE R[i].status
  BY DEF DecidesIndent
<1>3. \A q, i \in 1 .. l : q < i => R[q].start < R[i].start
  BY DEF Indented
<1>4. \A i \in 1 .. l : IsIndent(T, R[i])
  BY DEF Indented
<1>5. \A i \in 1 .. l : R[i].start \in 0 .. n
  BY <1>1, <1>4, StartsBefore
<1>6. m # 0 => r \in 1 .. l /\ R[r].start = m
  BY DEF BeginsAt
<1>7. m = 0 => r = 0
  BY DEF BeginsAt
<1>8. t \in 1 .. n /\ T[t].type = "KEY" /\ (m # 0 => m \in 1 .. n)
  BY DEF ToDecide
<1> HIDE DEF l, n
<1>9. ASSUME NEW i \in 1 .. l PROVE IsIndent(U, S[i])
  <2>1. /\ DOMAIN R[i] = {"column", "type", "status", "start"}
        /\ \/ R[i].type = "NONE" /\ R[i].status = "VALID" /\ R[i].start = 0
           \/ /\ R[i].type \in {"SEQ", "MAP"} /\ R[i].start \in 1 .. n
              /\ T[R[i].start].type = BlockStart(R[i].type)
              /\ R[i].status = "VALID" <=> T[R[i].start].status = "VALID"
    BY <1>4 DEF IsIndent, n
  <2>2. CASE i = r
    <3>1. m # 0 /\ R[i].start = m /\ m \in 1 .. n
      BY <1>1, <1>6, <1>7, <1>8, <2>2
    <3>2. R[i].type \in {"SEQ", "MAP"} /\ T[m].type = BlockStart(R[i].type)
      BY <2>1, <3>1
    <3>3. U[m].type = T[m].type /\ U[m].status = status /\ S[i].status = status
      BY <1>1, <1>2, <2>2, <3>1
    <3> QED
      BY <1>1, <1>2, <2>1, <3>1, <3>2, <3>3 DEF IsIndent
  <2>3. CASE i # r
    <3>1. S[i].status = R[i].status /\ S[i].type = R[i].type /\ S[i].start = R[i].start /\ DOMAIN S[i] = DOMAIN R[i]
      BY <1>2, <2>3
    <3>2. CASE R[i].type = "NONE"
      BY <2>1, <3>1, <3>2 DEF IsIndent
    <3>3. CASE R[i].type # "NONE"
      <4>1. /\ R[i].type \in {"SEQ", "MAP"} /\ R[i].start \in 1 .. n
            /\ T[R[i].start].type = BlockStart(R[i].type)
            /\ R[i].status = "VALID" <=> T[R[i].start].status = "VALID"
        BY <2>1, <3>3
      <4>2. R[i].start # t
        BY <1>8, <4>1 DEF BlockStart
      <4>3. R[i].start # m
        <5>1. CASE m = 0
          BY <4>1, <5>1
        <5>2. CASE m # 0
          <6>1. r \in 1 .. l /\ R[r].start = m /\ (i < r \/ r < i)
            BY <1>1, <1>6, <2>3, <5>2
          <6>2. R[i].start < m \/ m < R[i].start
            BY <1>3, <6>1
          <6> QED
            BY <1>5, <6>2
        <5> QED
          BY <5>1, <5>2
      <4>4. U[R[i].start] = T[R[i].start]
        BY <1>1, <4>1, <4>2, <4>3
      <4> QED
        BY <1>1, <2>1, <3>1, <4>1, <4>4 DEF IsIndent
    <3> QED
      BY <3>2, <3>3
  <2> QED
    BY <2>2, <2>3
<1>10. \A q, i \in 1 .. l : q < i => S[q].start < S[i].start
  BY <1>2, <1>3
<1> QED
  BY <1>1, <1>9, <1>10 DEF Indented, l

\* The map is open from now on if the key is valid.
LEMMA BlocksDecided ==
    ASSUME NEW T, NEW I, NEW R, NEW S, NEW m, NEW r, NEW status, Decision(status),
           Indented(T, I, R), DecidesIndent(S, R, r, status), BeginsAt(I, R, m, r)
    PROVE  OpenBlocks(I, S) = OpenBlocks(I, R) \cup (IF status = "VALID" /\ m # 0 THEN {m} ELSE {})
<1> USE DEF Decision
<1> DEFINE k == Len(I)
           l == Len(R)
           new == IF status = "VALID" /\ m # 0 THEN {m} ELSE {}
<1>1. \A i \in 1 .. l : /\ S[i].type = R[i].type /\ S[i].start = R[i].start
                        /\ S[i].status = IF i = r THEN status ELSE R[i].status
  BY DEF DecidesIndent
<1>2. (\A i \in 1 .. k : I[i] \in 1 .. l) /\ (\A i \in 1 .. l : R[i].type = "NONE" => R[i].start = 0)
  BY DEF Indented, IsIndent
<1>3. IF m = 0 THEN r = 0 ELSE r \in 1 .. l /\ R[r].start = m /\ R[r].status # "VALID" /\ \E i \in 1 .. k : I[i] = r
  BY DEF BeginsAt
<1>4. ASSUME NEW x \in OpenBlocks(I, S) PROVE x \in OpenBlocks(I, R) \cup new
  <2>1. PICK i \in 1 .. k : x = S[I[i]].start /\ S[I[i]].type # "NONE" /\ S[I[i]].status = "VALID"
    BY <1>4 DEF OpenBlocks
  <2> DEFINE q == I[i]
  <2>2. q \in 1 .. l
    BY <1>2
  <2>3. CASE q = r
    <3>1. m # 0
      <4>1. r # 0
        BY <2>2, <2>3
      <4> QED
        BY <1>3, <4>1
    <3>2. S[q].start = m /\ status = "VALID"
      BY <1>1, <1>3, <2>1, <2>2, <2>3, <3>1
    <3> QED
      BY <2>1, <3>1, <3>2
  <2>4. CASE q # r
    <3>1. x = R[I[i]].start /\ R[I[i]].type # "NONE" /\ R[I[i]].status = "VALID"
      BY <1>1, <2>1, <2>2, <2>4
    <3> QED
      BY <3>1 DEF OpenBlocks
  <2> QED
    BY <2>3, <2>4
<1>5. ASSUME NEW x \in OpenBlocks(I, R) PROVE x \in OpenBlocks(I, S)
  <2>1. PICK i \in 1 .. k : x = R[I[i]].start /\ R[I[i]].type # "NONE" /\ R[I[i]].status = "VALID"
    BY <1>5 DEF OpenBlocks
  <2> DEFINE q == I[i]
  <2>2. q \in 1 .. l /\ q # r
    <3>1. q \in 1 .. l /\ R[q].status = "VALID" /\ q # 0
      BY <1>2, <2>1
    <3> HIDE DEF q
    <3> QED
      BY <1>3, <3>1
  <2>3. x = S[I[i]].start /\ S[I[i]].type # "NONE" /\ S[I[i]].status = "VALID"
    BY <1>1, <2>1, <2>2
  <2> QED
    BY <2>3 DEF OpenBlocks
<1>6. ASSUME NEW x \in new PROVE x \in OpenBlocks(I, S)
  <2>1. status = "VALID" /\ m # 0 /\ x = m
    BY <1>6
  <2>2. PICK i \in 1 .. k : I[i] = r
    BY <1>3, <2>1
  <2>3. r \in 1 .. l /\ R[r].start = m
    BY <1>3, <2>1
  <2>4. R[r].type # "NONE"
    BY <1>2, <2>1, <2>3
  <2>5. x = S[I[i]].start /\ S[I[i]].type # "NONE" /\ S[I[i]].status = "VALID"
    BY <1>1, <2>1, <2>2, <2>3, <2>4
  <2> QED
    BY <2>5 DEF OpenBlocks
<1> HIDE DEF new
<1>7. OpenBlocks(I, S) = OpenBlocks(I, R) \cup new
  BY <1>4, <1>5, <1>6
<1> QED
  BY <1>7 DEF new

LEMMA FlowsDecided ==
    ASSUME NEW T, NEW U, NEW m, NEW t, NEW F, NEW R, NEW S, NEW p, NEW r, NEW status,
           OpenFlows(T, F, R, p), Decides(U, T, m, t, status), ToDecide(T, m, t), DecidesIndent(S, R, r, status)
    PROVE  OpenFlows(U, F, S, p)
<1> DEFINE n == Len(T)
           l == Len(R)
<1>1. /\ Len(U) = n /\ Len(S) = l
      /\ \A i \in 1 .. n : i \notin {m, t} => U[i] = T[i]
      /\ \A i \in 1 .. l : S[i].start = R[i].start
  BY DEF Decides, DecidesIndent
<1>2. \A i \in 1 .. Len(F) : /\ p[i] \in 1 .. n /\ T[p[i]].status = "VALID" /\ T[p[i]].type = FlowStart(F[i])
                             /\ \A q \in 1 .. l : R[q].start < p[i]
  BY DEF OpenFlows
<1>3. T[t].status = "UNVERIFIED" /\ (m # 0 => T[m].status = "UNVERIFIED")
  BY DEF ToDecide
<1> HIDE DEF n, l
<1>4. ASSUME NEW i \in 1 .. Len(F) PROVE U[p[i]] = T[p[i]]
  <2>1. p[i] # t /\ p[i] # m
    BY <1>2, <1>3
  <2> QED
    BY <1>1, <1>2, <2>1
<1>5. \A i \in 1 .. Len(F) : p[i] \in 1 .. n /\ U[p[i]].status = "VALID" /\ U[p[i]].type = FlowStart(F[i])
  BY <1>2, <1>4
<1>6. \A i \in 1 .. Len(F) : \A q \in 1 .. l : S[q].start < p[i]
  BY <1>1, <1>2
<1> QED
  BY <1>1, <1>5, <1>6 DEF OpenFlows

\* Another key, in front of it, has other tokens.
Apart(other, key) ==
    /\ other.flowLevel < key.flowLevel /\ other.token < key.token
    /\ other.mapStart # 0 => key.mapStart = 0

LEMMA KeyDecided ==
    ASSUME NEW T, NEW U, NEW front \in Nat \ {0}, NEW F, NEW key, NEW other, NEW status, Len(T) \in Nat,
           OpenKey(T, front, F, other), OpenKey(T, front, F, key), Apart(other, key),
           Decides(U, T, key.mapStart, key.token, status)
    PROVE  OpenKey(U, front, F, other)
<1> DEFINE n == Len(T)
           m == key.mapStart
           t == key.token
           x == other.token
           y == other.mapStart
<1>1. Len(U) = n /\ \A i \in 1 .. n : i # m /\ i # t => U[i] = T[i]
  BY DEF Decides
<1>2. /\ x \in 1 .. n /\ T[x].type = "KEY" /\ x \in front .. n /\ T[x].status = "UNVERIFIED"
      /\ t \in 1 .. n /\ T[t].type = "KEY"
      /\ m # 0 => m \in 1 .. n /\ T[m].type = "BLOCK_MAP_START"
      /\ y # 0 => y \in 1 .. n /\ T[y].type = "BLOCK_MAP_START" /\ y \in front .. n /\ T[y].status = "UNVERIFIED"
  BY KeyPositions DEF OpenKey, Undecided
<1>3. x < t /\ (y # 0 => m = 0)
  BY DEF Apart
<1> HIDE DEF n, m, t, x, y
<1>4. x # m /\ x # t
  <2>1. x # t
    BY <1>2, <1>3
  <2>2. x # m
    <3>1. x # 0
      BY <1>2
    <3> QED
      BY <1>2, <3>1
  <2> QED
    BY <2>1, <2>2
<1>5. U[x] = T[x]
  BY <1>1, <1>2, <1>4
<1>6. y # 0 => U[y] = T[y]
  <2>1. ASSUME y # 0 PROVE U[y] = T[y]
    <3>1. y # m /\ y # t /\ y \in 1 .. n
      BY <1>2, <1>3, <2>1
    <3> QED
      BY <1>1, <3>1
  <2> QED
    BY <2>1
<1>7. Undecided(U, front, x, "KEY")
  BY <1>1, <1>2, <1>5 DEF Undecided, n
<1>8. y # 0 => Undecided(U, front, y, "BLOCK_MAP_START")
  BY <1>1, <1>2, <1>6 DEF Undecided, n
<1> QED
  BY <1>7, <1>8 DEF OpenKey, x, y

LEMMA OthersApart ==
    ASSUME NEW T, NEW front, NEW K, NEW F, KeysOpen(T, front, K, F), K # <<>>, NEW i \in 1 .. (Len(K) - 1)
    PROVE  /\ Apart(K[i], Last(K)) /\ OpenKey(T, front, F, K[i]) /\ OpenKey(T, front, F, Last(K))
           /\ IsSequence(Front(K)) /\ Len(Front(K)) = Len(K) - 1 /\ Front(K)[i] = K[i]
<1> DEFINE k == Len(K)
<1>1. /\ IsSequence(Front(K)) /\ Len(Front(K)) = k - 1 /\ k \in Nat \ {0}
      /\ \A j \in 1 .. k - 1 : Front(K)[j] = K[j]
      /\ Last(K) = K[k]
  BY InFront DEF KeysOpen
<1>2. i \in 1 .. k - 1
  OBVIOUS
<1>3. /\ \A j \in 1 .. k : OpenKey(T, front, F, K[j])
      /\ \A h, j \in 1 .. k : h < j => K[h].flowLevel < K[j].flowLevel /\ K[h].token < K[j].token
  BY DEF KeysOpen
<1> HIDE DEF k
<1>4. i \in 1 .. k /\ k \in 1 .. k /\ i < k
  BY <1>1, <1>2
<1>5. OpenKey(T, front, F, K[i]) /\ OpenKey(T, front, F, K[k])
  BY <1>3, <1>4
<1>6. K[i].flowLevel < K[k].flowLevel /\ K[i].token < K[k].token
  BY <1>3, <1>4
<1>7. K[i].mapStart # 0 => K[k].mapStart = 0
  <2>1. (K[i].mapStart # 0 => K[i].flowLevel = 0) /\ (K[k].mapStart # 0 => K[k].flowLevel = 0)
    BY <1>5 DEF OpenKey
  <2> QED
    BY <1>6, <2>1
<1> QED
  BY <1>1, <1>2, <1>5, <1>6, <1>7 DEF Apart, k

LEMMA KeysDecided ==
    ASSUME NEW T, NEW U, NEW front \in Nat \ {0}, NEW K, NEW F, NEW status, Len(T) \in Nat,
           KeysOpen(T, front, K, F), K # <<>>, Decides(U, T, Last(K).mapStart, Last(K).token, status)
    PROVE  KeysOpen(U, front, Front(K), F)
<1> DEFINE k == Len(K) - 1
           L == Front(K)
<1>1. /\ IsSequence(L) /\ Len(L) = k /\ k \in Nat /\ Len(K) = k + 1
      /\ \A j \in 1 .. k : L[j] = K[j]
  <2>1. IsSequence(L) /\ Len(L) = Len(K) - 1 /\ Len(K) \in Nat \ {0} /\ \A j \in 1 .. Len(K) - 1 : L[j] = K[j]
    BY InFront DEF KeysOpen
  <2>2. \A l \in Nat \ {0} : l - 1 \in Nat /\ l = l - 1 + 1
    OBVIOUS
  <2> HIDE DEF L
  <2> QED
    BY <2>1, <2>2
<1>2. \A h, j \in 1 .. Len(K) : h < j => K[h].flowLevel < K[j].flowLevel /\ K[h].token < K[j].token
  BY DEF KeysOpen
<1>3. ASSUME NEW i \in 1 .. k PROVE OpenKey(U, front, F, K[i])
  <2>1. Apart(K[i], Last(K)) /\ OpenKey(T, front, F, K[i]) /\ OpenKey(T, front, F, Last(K))
    BY OthersApart
  <2> QED
    BY <2>1, KeyDecided
<1> HIDE DEF k, L
<1>4. \A i \in 1 .. k : i \in 1 .. (k + 1)
  BY <1>1
<1>5. \A i \in 1 .. k : OpenKey(U, front, F, L[i])
  BY <1>1, <1>3
<1>6. \A h, j \in 1 .. k : h < j => L[h].flowLevel < L[j].flowLevel /\ L[h].token < L[j].token
  BY <1>1, <1>2, <1>4
<1>7. F \in Seq({"FLOW_SEQ", "FLOW_MAP"})
  BY DEF KeysOpen
<1> QED
  BY <1>1, <1>5, <1>6, <1>7 DEF KeysOpen, L

\* Of another key: its map can still be begun.
LEMMA EndedDecided ==
    ASSUME NEW T, NEW U, NEW t, NEW status, Decides(U, T, 0, t, status), ToDecide(T, 0, t),
           NEW f, NEW g, \A k \in 0 .. Len(T) : f[k] \subseteq g[k], NEW y \in Nat, EndedBehind(T, f, y)
    PROVE  EndedBehind(U, g, y)
<1> DEFINE n == Len(T)
<1>1. /\ n \in Nat /\ Len(U) = n
      /\ \A i \in 1 .. n : U[i].type = T[i].type /\ (i # 0 /\ i # t => U[i] = T[i])
  BY DEF Decides
<1>2. \A k \in (y + 1) .. n : Ending(T[k]) => \E x \in f[k - 1] : x > y
  BY DEF EndedBehind
<1>3. \A k \in 0 .. n : f[k] \subseteq g[k]
  OBVIOUS
<1>4. t \in 1 .. n /\ T[t].type = "KEY"
  BY DEF ToDecide
<1> HIDE DEF n
<1>5. ASSUME NEW k \in (y + 1) .. n, Ending(U[k]) PROVE \E x \in g[k - 1] : x > y
  <2>1. k \in 1 .. n /\ k - 1 \in 0 .. n /\ k # 0
    BY <1>1
  <2>2. k # t
    BY <1>1, <1>4, <1>5 DEF Ending
  <2>3. U[k] = T[k]
    BY <1>1, <2>1, <2>2
  <2>4. PICK x \in f[k - 1] : x > y
    BY <1>2, <1>5, <2>3
  <2>5. x \in g[k - 1]
    BY <1>3, <2>1
  <2> QED
    BY <2>4, <2>5
<1> QED
  BY <1>1, <1>5 DEF EndedBehind

LEMMA BeginDecided ==
    ASSUME NEW T, NEW U, NEW t, NEW status, Decides(U, T, 0, t, status), ToDecide(T, 0, t),
           NEW f, NEW g, \A k \in 0 .. Len(T) : f[k] \subseteq g[k], NEW I, NEW R, NEW S,
           \A i \in 1 .. Len(I) : I[i] \in 1 .. Len(R), DecidesIndent(S, R, 0, status),
           NEW key, key.mapStart \in Nat, CanBegin(T, I, R, f, key)
    PROVE  CanBegin(U, I, S, g, key)
<1> DEFINE l == Len(R)
           q == key.indent
<1>1. PICK i \in 1 .. Len(I) : I[i] = q
  BY DEF CanBegin
<1>2. q \in 1 .. l
  BY <1>1
<1>3. \A j \in 1 .. l : S[j].start = R[j].start /\ S[j].status = IF j = 0 THEN status ELSE R[j].status
  BY DEF DecidesIndent
<1>4. R[q].start = key.mapStart /\ R[q].status # "VALID" /\ EndedBehind(T, f, key.mapStart)
  BY DEF CanBegin
<1>5. EndedBehind(U, g, key.mapStart)
  BY <1>4, EndedDecided
<1> HIDE DEF q, l
<1>6. q # 0
  BY <1>2
<1>7. S[q].start = key.mapStart /\ S[q].status # "VALID"
  BY <1>2, <1>3, <1>4, <1>6
<1> QED
  BY <1>1, <1>5, <1>7 DEF CanBegin, q

\* What is decided with the last key.
LEMMA LastToDecide ==
    ASSUME NEW T, NEW front \in Nat \ {0}, NEW K, NEW F, NEW I, NEW R, NEW f, NEW p, Len(T) \in Nat,
           KeysOpen(T, front, K, F), K # <<>>, Indented(T, I, R), Nested(T, K, F, I, R, f, p)
    PROVE  /\ Last(K).mapStart \in Nat /\ ToDecide(T, Last(K).mapStart, Last(K).token)
           /\ BeginsAt(I, R, Last(K).mapStart, Last(K).indent)
           /\ Last(K).mapStart # 0 => EndedBehind(T, f, Last(K).mapStart)
<1> DEFINE key == Last(K)
           k == Len(K)
<1>1. k \in Nat \ {0} /\ key = K[k]
  BY InFront DEF KeysOpen
<1> HIDE DEF k
<1>2. k \in 1 .. k
  BY <1>1
<1>3. OpenKey(T, front, F, key)
  BY <1>1, <1>2 DEF KeysOpen, k
<1>4. key.mapStart # 0 => CanBegin(T, I, R, f, key)
  BY <1>1, <1>2 DEF Nested, k
<1> HIDE DEF key
<1>5. /\ key.token \in 1 .. Len(T) /\ T[key.token].status = "UNVERIFIED" /\ T[key.token].type = "KEY"
      /\ key.mapStart # 0 => /\ key.mapStart \in 1 .. Len(T) /\ T[key.mapStart].status = "UNVERIFIED"
                             /\ T[key.mapStart].type = "BLOCK_MAP_START"
  BY <1>3, KeyPositions
<1>6. key.mapStart \in Nat
  BY <1>5
<1>7. ToDecide(T, key.mapStart, key.token)
  BY <1>5 DEF ToDecide
<1>8. key.mapStart = 0 => key.indent = 0
  BY <1>3 DEF OpenKey
<1>9. key.mapStart # 0 => key.indent \in 1 .. Len(R)
  BY <1>4 DEF CanBegin, Indented
<1>10. BeginsAt(I, R, key.mapStart, key.indent)
  BY <1>4, <1>8, <1>9 DEF CanBegin, BeginsAt
<1>11. key.mapStart # 0 => EndedBehind(T, f, key.mapStart)
  BY <1>4 DEF CanBegin
<1> QED
  BY <1>6, <1>7, <1>10, <1>11 DEF key

\* A key in front of the one decided that begins a map, if any: the one decided begins none.
Others(T, I, R, f, L, m, r) ==
    \A i \in 1 .. Len(L) :
        L[i].mapStart # 0 => L[i].mapStart \in Nat /\ m = 0 /\ r = 0 /\ CanBegin(T, I, R, f, L[i])

LEMMA NestedDecided ==
    ASSUME NEW T, NEW U, NEW K, NEW L, NEW F, NEW I, NEW R, NEW S, NEW f, NEW p,
           NEW m \in Nat, NEW t, NEW r, NEW status, Decision(status),
           Indented(T, I, R), Nested(T, K, F, I, R, f, p), Others(T, I, R, f, L, m, r),
           ToDecide(T, m, t), BeginsAt(I, R, m, r), m # 0 => EndedBehind(T, f, m),
           Decides(U, T, m, t, status), DecidesIndent(S, R, r, status)
    PROVE  \E g : Nested(U, L, F, I, S, g, p)
<1> DEFINE n == Len(T)
<1>1. IsOpen(f, T) /\ Before(f, T)
  BY DEF Nested, Before
<1>2. n \in Nat /\ Len(U) = n
  BY DEF Decides
<1>3. PICK g : OpenToo(U, f, g, m, status)
  BY <1>1, OpenDecided
<1>4. IsOpen(g, U) /\ \A k \in 0 .. n : g[k] = f[k] \cup Added(m, k, status)
  BY <1>2, <1>3 DEF OpenToo
<1>5. /\ f[n] = OpenBlocks(I, R) \cup {p[i] : i \in 1 .. Len(F)}
      /\ OpenFlows(T, F, R, p)
  BY DEF Nested
<1>6. OpenFlows(U, F, S, p)
  BY <1>5, FlowsDecided
<1>7. \A i \in 1 .. Len(I) : I[i] \in 1 .. Len(R)
  BY DEF Indented
<1>8. OpenBlocks(I, S) = OpenBlocks(I, R) \cup Added(m, n, status)
  <2>1. OpenBlocks(I, S) = OpenBlocks(I, R) \cup (IF status = "VALID" /\ m # 0 THEN {m} ELSE {})
    BY BlocksDecided
  <2>2. m # 0 => n >= m
    BY <1>2 DEF ToDecide
  <2>3. Added(m, n, status) = IF status = "VALID" /\ m # 0 THEN {m} ELSE {}
    BY <2>2 DEF Added
  <2> QED
    BY <2>1, <2>3
<1>9. ASSUME NEW i \in 1 .. Len(L), L[i].mapStart # 0 PROVE CanBegin(U, I, S, g, L[i])
  <2>1. L[i].mapStart \in Nat /\ m = 0 /\ r = 0 /\ CanBegin(T, I, R, f, L[i])
    BY <1>9 DEF Others
  <2>2. \A k \in 0 .. n : f[k] \subseteq g[k]
    BY <1>4
  <2>3. Decides(U, T, 0, t, status) /\ ToDecide(T, 0, t) /\ DecidesIndent(S, R, 0, status)
    BY <2>1
  <2> QED
    BY <1>7, <2>1, <2>2, <2>3, BeginDecided
<1>10. n \in 0 .. n
  BY <1>2
<1> HIDE DEF n
<1>11. ASSUME NEW k \in 0 .. n PROVE g[k] \subseteq 1 .. k
  <2>1. Added(m, k, status) \subseteq 1 .. k
    BY <1>2 DEF Added
  <2> QED
    BY <1>1, <1>4, <2>1 DEF Before, n
<1>12. g[n] = OpenBlocks(I, S) \cup {p[i] : i \in 1 .. Len(F)}
  BY <1>4, <1>5, <1>8, <1>10
<1> QED
  BY <1>2, <1>4, <1>6, <1>9, <1>11, <1>12 DEF Nested

LEMMA OthersOfLast ==
    ASSUME NEW T, NEW front \in Nat \ {0}, NEW K, NEW F, NEW I, NEW R, NEW f, NEW p, Len(T) \in Nat,
           KeysOpen(T, front, K, F), K # <<>>, Indented(T, I, R), Nested(T, K, F, I, R, f, p)
    PROVE  Others(T, I, R, f, Front(K), Last(K).mapStart, Last(K).indent)
<1> DEFINE m == Last(K).mapStart
           r == Last(K).indent
<1>1. BeginsAt(I, R, m, r)
  BY LastToDecide
<1>2. Len(Front(K)) = Len(K) - 1 /\ Len(K) \in Nat /\ \A j \in 1 .. Len(K) - 1 : Front(K)[j] = K[j]
  BY InFront DEF KeysOpen
<1>3. ASSUME NEW i \in 1 .. Len(Front(K)), Front(K)[i].mapStart # 0
      PROVE  Front(K)[i].mapStart \in Nat /\ m = 0 /\ r = 0 /\ CanBegin(T, I, R, f, Front(K)[i])
  <2>0. i \in 1 .. (Len(K) - 1) /\ Front(K)[i] = K[i] /\ i \in 1 .. Len(K)
    BY <1>2
  <2>1. Apart(K[i], Last(K)) /\ OpenKey(T, front, F, K[i])
    BY <2>0, OthersApart
  <2>2. m = 0
    BY <1>3, <2>0, <2>1 DEF Apart
  <2>3. r = 0
    BY <1>1, <2>2 DEF BeginsAt
  <2>4. K[i].mapStart \in Nat
    BY <1>3, <2>0, <2>1, KeyPositions
  <2>5. CanBegin(T, I, R, f, K[i])
    BY <1>3, <2>0 DEF Nested
  <2> QED
    BY <2>0, <2>2, <2>3, <2>4, <2>5
<1> QED
  BY <1>3 DEF Others

\* What Decide does to the tokens, and to the indents.
DecidedTokens(T, key, status) ==
    [i \in DOMAIN T |-> IF i \in {key.mapStart, key.token} THEN [T[i] EXCEPT !.status = status] ELSE T[i]]

DecidedRefs(R, key, status) ==
    [i \in DOMAIN R |-> IF i = key.indent THEN [R[i] EXCEPT !.status = status] ELSE R[i]]

LEMMA SequenceOf ==
    ASSUME NEW f, NEW n \in Nat, f = [i \in 1 .. n |-> f[i]]
    PROVE  IsSequence(f) /\ Len(f) = n
<1> DEFINE S == {f[i] : i \in 1 .. n}
<1>1. \A i \in 1 .. n : f[i] \in S
  OBVIOUS
<1> HIDE DEF S
<1>2. f \in [1 .. n -> S]
  BY <1>1
<1>3. f \in Seq(S) /\ Len(f) = n
  BY <1>2
<1> QED
  BY <1>3 DEF IsSequence

LEMMA TokensDecided ==
    ASSUME NEW T, NEW front, NEW key, NEW status, Queued(T, front), Decision(status)
    PROVE  Decides(DecidedTokens(T, key, status), T, key.mapStart, key.token, status)
<1> DEFINE U == DecidedTokens(T, key, status)
           n == Len(T)
<1>1. n \in Nat /\ DOMAIN T = 1 .. n /\ \A i \in 1 .. n : IsToken(T[i])
  BY DEF Queued, IsSequence
<1>2. U = [i \in 1 .. n |-> IF i \in {key.mapStart, key.token} THEN [T[i] EXCEPT !.status = status] ELSE T[i]]
  BY <1>1 DEF DecidedTokens
<1>3. U = [i \in 1 .. n |-> U[i]]
  BY <1>2
<1> HIDE DEF U
<1>4. IsSequence(U) /\ Len(U) = n
  BY <1>1, <1>3, SequenceOf
<1>5. ASSUME NEW i \in 1 .. n
      PROVE  /\ IF i \in {key.mapStart, key.token} THEN U[i].status = status /\ U[i].type = T[i].type
                ELSE U[i] = T[i]
             /\ IsToken(T[i]) => IsToken(U[i])
  <2>1. IsToken(T[i])
    BY <1>1
  <2>2. CASE i \in {key.mapStart, key.token}
    <3>1. U[i] = [T[i] EXCEPT !.status = status]
      BY <1>2, <2>2
    <3> QED
      BY <2>1, <2>2, <3>1 DEF IsToken, Decision, Statuses
  <2>3. CASE i \notin {key.mapStart, key.token}
    <3>1. U[i] = T[i]
      BY <1>2, <2>3
    <3> QED
      BY <2>3, <3>1
  <2> QED
    BY <2>2, <2>3
<1> QED
  BY <1>1, <1>4, <1>5 DEF Decides, U

LEMMA RefsDecided ==
    ASSUME NEW T, NEW I, NEW R, NEW key, NEW status, Indented(T, I, R), Decision(status)
    PROVE  DecidesIndent(DecidedRefs(R, key, status), R, key.indent, status)
<1> DEFINE S == DecidedRefs(R, key, status)
           l == Len(R)
<1>1. l \in Nat /\ DOMAIN R = 1 .. l /\ \A i \in 1 .. l : DOMAIN R[i] = {"column", "type", "status", "start"}
  BY DEF Indented, IsSequence, IsIndent
<1>2. S = [i \in 1 .. l |-> IF i = key.indent THEN [R[i] EXCEPT !.status = status] ELSE R[i]]
  BY <1>1 DEF DecidedRefs
<1>3. S = [i \in 1 .. l |-> S[i]]
  BY <1>2
<1> HIDE DEF S
<1>4. IsSequence(S) /\ Len(S) = l
  BY <1>1, <1>3, SequenceOf
<1>5. ASSUME NEW i \in 1 .. l
      PROVE  /\ S[i].type = R[i].type /\ S[i].start = R[i].start /\ DOMAIN S[i] = DOMAIN R[i]
             /\ S[i].status = IF i = key.indent THEN status ELSE R[i].status
  <2>1. DOMAIN R[i] = {"column", "type", "status", "start"}
    BY <1>1
  <2>2. CASE i = key.indent
    <3>1. S[i] = [R[i] EXCEPT !.status = status]
      BY <1>2, <2>2
    <3> QED
      BY <2>1, <2>2, <3>1
  <2>3. CASE i # key.indent
    <3>1. S[i] = R[i]
      BY <1>2, <2>3
    <3> QED
      BY <2>3, <3>1
  <2> QED
    BY <2>2, <2>3
<1> QED
  BY <1>1, <1>4, <1>5 DEF DecidesIndent, S

\* What is in front of the next token is the same.
SameBefore(T, U, front) == Len(T) <= Len(U) /\ \A i \in 1 .. (front - 1) : U[i] = T[i]

LEMMA SoundDecide ==
    ASSUME NEW T, NEW front, NEW K, NEW F, NEW I, NEW R, Sound(T, front, K, F, I, R), K # <<>>,
           NEW status, Decision(status)
    PROVE  /\ Sound(DecidedTokens(T, Last(K), status), front, Front(K), F, I, DecidedRefs(R, Last(K), status))
           /\ SameBefore(T, DecidedTokens(T, Last(K), status), front)
<1> DEFINE key == Last(K)
           m == key.mapStart
           t == key.token
           r == key.indent
           U == DecidedTokens(T, key, status)
           S == DecidedRefs(R, key, status)
<1>1. /\ Queued(T, front) /\ KeysOpen(T, front, K, F) /\ Indented(T, I, R) /\ Len(T) \in Nat
      /\ front \in 1 .. (Len(T) + 1) /\ front \in Nat \ {0}
  <2>1. Queued(T, front) /\ Len(T) \in Nat
    BY Appended DEF Sound, Queued
  <2>2. \A n \in Nat : front \in 1 .. (n + 1) => front \in Nat \ {0}
    OBVIOUS
  <2> QED
    BY <2>1, <2>2 DEF Sound, Queued
<1>2. PICK f, p : Nested(T, K, F, I, R, f, p)
  BY DEF Sound
<1>3. Decides(U, T, m, t, status)
  BY <1>1, TokensDecided
<1>4. DecidesIndent(S, R, r, status)
  BY <1>1, RefsDecided
<1>5. m \in Nat /\ ToDecide(T, m, t) /\ BeginsAt(I, R, m, r) /\ (m # 0 => EndedBehind(T, f, m))
  BY <1>1, <1>2, LastToDecide
<1>6. Others(T, I, R, f, Front(K), m, r)
  BY <1>1, <1>2, OthersOfLast
<1>7. KeysOpen(U, front, Front(K), F)
  BY <1>1, <1>3, KeysDecided
<1>8. OpenKey(T, front, F, key)
  <2>1. Len(K) \in Nat \ {0} /\ key = K[Len(K)]
    BY <1>1, InFront DEF KeysOpen
  <2>2. Len(K) \in 1 .. Len(K)
    BY <2>1
  <2> QED
    BY <1>1, <2>1, <2>2 DEF KeysOpen
<1> HIDE DEF U, S
<1>9. \E g : Nested(U, Front(K), F, I, S, g, p)
  <2> HIDE DEF m, t, r, key
  <2> QED
    BY <1>1, <1>2, <1>3, <1>4, <1>5, <1>6, NestedDecided
<1>10. Indented(U, I, S)
  <2> HIDE DEF m, t, r, key
  <2> QED
    BY <1>1, <1>3, <1>4, <1>5, IndentedDecided
<1>11. /\ IsSequence(U) /\ Len(U) = Len(T)
       /\ \A i \in 1 .. Len(T) : (i \notin {m, t} => U[i] = T[i]) /\ (IsToken(T[i]) => IsToken(U[i]))
  BY <1>3 DEF Decides
<1>12. Queued(U, front)
  BY <1>1, <1>11 DEF Queued
<1>13. SameBefore(T, U, front)
  <2>1. t \in front .. Len(T) /\ (m # 0 => m \in front .. Len(T))
    BY <1>8 DEF OpenKey, Undecided
  <2> DEFINE n == Len(T)
  <2> HIDE DEF n, m, t
  <2>2. n \in Nat /\ front \in 1 .. (n + 1) /\ t \in front .. n /\ (m # 0 => m \in front .. n)
    BY <1>1, <2>1 DEF n
  <2>3. ASSUME NEW i \in 1 .. (front - 1) PROVE U[i] = T[i]
    <3>1. i \in 1 .. n /\ i # t /\ i # m
      BY <2>2
    <3> QED
      BY <1>11, <3>1 DEF n
  <2>4. Len(T) <= Len(U)
    BY <1>1, <1>11
  <2> QED
    BY <2>3, <2>4 DEF SameBefore
<1>14. Sound(U, front, Front(K), F, I, S)
  BY <1>7, <1>9, <1>10, <1>12 DEF Sound
<1> QED
  BY <1>13, <1>14 DEF U, S

\* Front(K) are keys in flows further out.
LEMMA KeysFurtherOut ==
    ASSUME NEW T, NEW front, NEW K, NEW F, KeysOpen(T, front, K, F), K # <<>>
    PROVE  Front(K) # <<>> => Last(Front(K)).flowLevel < Last(K).flowLevel
<1> DEFINE k == Len(K)
           L == Front(K)
<1>1. /\ IsSequence(L) /\ Len(L) = k - 1 /\ k \in Nat \ {0}
      /\ \A j \in 1 .. k - 1 : L[j] = K[j]
      /\ Last(K) = K[k]
  BY InFront DEF KeysOpen
<1>2. \A h, j \in 1 .. k : h < j => K[h].flowLevel < K[j].flowLevel
  BY DEF KeysOpen
<1>3. L # <<>> => Last(L) = L[Len(L)] /\ Len(L) \in Nat \ {0}
  BY <1>1, InFront
<1> HIDE DEF L, k
<1>4. ASSUME L # <<>> PROVE Last(L).flowLevel < K[k].flowLevel
  <2>1. k - 1 \in Nat \ {0} /\ Last(L) = L[k - 1]
    BY <1>1, <1>3, <1>4
  <2>2. k - 1 \in 1 .. k - 1 /\ k - 1 \in 1 .. k /\ k \in 1 .. k /\ k - 1 < k
    BY <1>1, <2>1
  <2> QED
    BY <1>1, <1>2, <2>1, <2>2
<1> QED
  BY <1>1, <1>4 DEF L

-----------------------------------------------------------------------------
(* A block ends                                                            *)

\* The front of the open indents, and the last of them.
LEMMA IndentsInFront ==
    ASSUME NEW T, NEW I, NEW R, Indented(T, I, R), I # <<>>
    PROVE  /\ Indented(T, Front(I), R) /\ Len(Front(I)) = Len(I) - 1 /\ Len(I) \in Nat \ {0}
           /\ Last(I) = I[Len(I)] /\ Last(I) \in 1 .. Len(R)
           /\ \A i \in 1 .. (Len(I) - 1) : /\ Front(I)[i] = I[i] /\ I[i] \in 1 .. Len(R)
                                           /\ R[I[i]].start < R[Last(I)].start
<1> DEFINE k == Len(I)
           J == Front(I)
           l == Len(R)
<1>1. /\ IsSequence(J) /\ Len(J) = k - 1 /\ k \in Nat \ {0}
      /\ \A j \in 1 .. k - 1 : J[j] = I[j]
      /\ Last(I) = I[k]
  BY InFront DEF Indented
<1>2. /\ \A r \in 1 .. l : IsIndent(T, R[r])
      /\ \A q, r \in 1 .. l : q < r => R[q].start < R[r].start
      /\ \A i \in 1 .. k : I[i] \in 1 .. l
      /\ \A i, j \in 1 .. k : i < j => I[i] < I[j]
      /\ IsSequence(R)
  BY DEF Indented
<1> HIDE DEF k, J, l
<1>3. \A j \in 1 .. k - 1 : j \in 1 .. k /\ j < k
  BY <1>1
<1>4. k \in 1 .. k
  BY <1>1
<1>5. \A i \in 1 .. k - 1 : J[i] \in 1 .. l
  BY <1>1, <1>2, <1>3
<1>6. \A i, j \in 1 .. k - 1 : i < j => J[i] < J[j]
  BY <1>1, <1>2, <1>3
<1>7. \A i \in 1 .. k - 1 : I[i] \in 1 .. l /\ R[I[i]].start < R[I[k]].start
  BY <1>2, <1>3, <1>4
<1>8. Indented(T, J, R)
  BY <1>1, <1>2, <1>5, <1>6 DEF Indented, l
<1> QED
  BY <1>1, <1>2, <1>4, <1>7, <1>8 DEF k, J, l

\* Without the last indent.
LEMMA BlocksInFront ==
    ASSUME NEW T, NEW I, NEW R, Indented(T, I, R), I # <<>>
    PROVE  OpenBlocks(Front(I), R) =
                IF R[Last(I)].type # "NONE" /\ R[Last(I)].status = "VALID"
                THEN OpenBlocks(I, R) \ {R[Last(I)].start} ELSE OpenBlocks(I, R)
<1> DEFINE k == Len(I)
           J == Front(I)
           top == R[Last(I)]
           open(i) == R[I[i]].type # "NONE" /\ R[I[i]].status = "VALID"
<1>1. /\ Len(J) = k - 1 /\ k \in Nat \ {0} /\ Last(I) = I[k]
      /\ \A i \in 1 .. (k - 1) : J[i] = I[i] /\ R[I[i]].start < top.start
  BY IndentsInFront
<1>2. \A i \in 1 .. (k - 1) : R[I[i]].start \in Int
  <2>1. \A i \in 1 .. (k - 1) : I[i] \in 1 .. Len(R)
    BY IndentsInFront
  <2>2. \A r \in 1 .. Len(R) : R[r].start \in Int
    BY DEF Indented, IsIndent
  <2> QED
    BY <2>1, <2>2
<1> HIDE DEF J, top
<1>3. OpenBlocks(J, R) = {R[I[i]].start : i \in {j \in 1 .. (k - 1) : open(j)}}
  BY <1>1 DEF OpenBlocks
<1>4. OpenBlocks(I, R) = {R[I[i]].start : i \in {j \in 1 .. k : open(j)}}
  BY DEF OpenBlocks
<1> HIDE DEF k
<1>5. R[I[k]] = top /\ k \in 1 .. k
  BY <1>1 DEF top
<1>6. CASE top.type # "NONE" /\ top.status = "VALID"
  <2>1. ASSUME NEW x \in OpenBlocks(J, R) PROVE x \in OpenBlocks(I, R) /\ x # top.start
    <3>1. PICK i \in 1 .. (k - 1) : open(i) /\ x = R[I[i]].start
      BY <1>3, <2>1
    <3>2. i \in 1 .. k
      BY <1>1
    <3>3. x < top.start /\ x \in Int
      BY <1>1, <1>2, <3>1
    <3>4. x # top.start
      BY <3>3
    <3> QED
      BY <1>4, <3>1, <3>2, <3>4
  <2>2. ASSUME NEW x \in OpenBlocks(I, R), x # top.start PROVE x \in OpenBlocks(J, R)
    <3>1. PICK i \in 1 .. k : open(i) /\ x = R[I[i]].start
      BY <1>4, <2>2
    <3>2. i # k
      BY <1>5, <2>2, <3>1
    <3>3. i \in 1 .. (k - 1)
      BY <1>1, <3>2
    <3> QED
      BY <1>3, <3>1, <3>3
  <2>3. OpenBlocks(J, R) = OpenBlocks(I, R) \ {top.start}
    BY <2>1, <2>2
  <2> QED
    BY <1>6, <2>3 DEF J, top
<1>7. CASE ~(top.type # "NONE" /\ top.status = "VALID")
  <2>1. ~open(k)
    BY <1>5, <1>7
  <2>2. \A i \in 1 .. k : open(i) => i \in 1 .. (k - 1)
    BY <1>1, <2>1
  <2>3. \A i \in 1 .. (k - 1) : i \in 1 .. k
    BY <1>1
  <2>4. {j \in 1 .. (k - 1) : open(j)} = {j \in 1 .. k : open(j)}
    BY <2>2, <2>3
  <2>5. OpenBlocks(J, R) = OpenBlocks(I, R)
    BY <1>3, <1>4, <2>4
  <2> QED
    BY <1>7, <2>5 DEF J, top
<1> QED
  BY <1>6, <1>7

\* A key that is to begin a map has not the last indent.
NotOfKey(K, I) == \A i \in 1 .. Len(K) : K[i].mapStart # 0 => K[i].indent # Last(I)

LEMMA BeginsInFront ==
    ASSUME NEW T, NEW I, NEW R, Indented(T, I, R), I # <<>>, NEW f, NEW key, CanBegin(T, I, R, f, key),
           key.indent # Last(I)
    PROVE  CanBegin(T, Front(I), R, f, key) /\ key.mapStart < R[Last(I)].start /\ key.indent \in 1 .. Len(R)
<1> DEFINE k == Len(I)
<1>1. /\ Len(Front(I)) = k - 1 /\ k \in Nat \ {0} /\ Last(I) = I[k]
      /\ \A i \in 1 .. (k - 1) : /\ Front(I)[i] = I[i] /\ I[i] \in 1 .. Len(R)
                                 /\ R[I[i]].start < R[Last(I)].start
  BY IndentsInFront
<1>2. PICK i \in 1 .. k : I[i] = key.indent
  BY DEF CanBegin
<1> HIDE DEF k
<1>3. i # k
  BY <1>1, <1>2
<1>4. i \in 1 .. (k - 1)
  BY <1>1, <1>3
<1>5. Front(I)[i] = key.indent /\ i \in 1 .. Len(Front(I)) /\ key.indent \in 1 .. Len(R)
      /\ R[key.indent].start < R[Last(I)].start
  BY <1>1, <1>2, <1>4
<1> QED
  BY <1>5 DEF CanBegin

\* An indent is dropped that is open for no token.
LEMMA SoundDropIndent ==
    ASSUME NEW T, NEW front, NEW K, NEW F, NEW I, NEW R, Sound(T, front, K, F, I, R), I # <<>>,
           R[Last(I)].type = "NONE" \/ R[Last(I)].status # "VALID", NotOfKey(K, I)
    PROVE  Sound(T, front, K, F, Front(I), R)
<1>1. Queued(T, front) /\ KeysOpen(T, front, K, F) /\ Indented(T, I, R)
  BY DEF Sound
<1>2. PICK f, p : Nested(T, K, F, I, R, f, p)
  BY DEF Sound
<1>3. OpenBlocks(Front(I), R) = OpenBlocks(I, R)
  BY <1>1, BlocksInFront
<1>4. ASSUME NEW i \in 1 .. Len(K), K[i].mapStart # 0 PROVE CanBegin(T, Front(I), R, f, K[i])
  <2>1. CanBegin(T, I, R, f, K[i]) /\ K[i].indent # Last(I)
    BY <1>2, <1>4 DEF Nested, NotOfKey
  <2> QED
    BY <1>1, <2>1, BeginsInFront
<1>5. Nested(T, K, F, Front(I), R, f, p)
  BY <1>2, <1>3, <1>4 DEF Nested
<1>6. Indented(T, Front(I), R)
  BY <1>1, IndentsInFront
<1> QED
  BY <1>1, <1>5, <1>6 DEF Sound

LastOpen(open, x) == x \in open /\ \A y \in open : y <= x

\* The keys could begin maps before x still.
BeginBefore(T, K, I, R, f, x) ==
    \A i \in 1 .. Len(K) :
        K[i].mapStart # 0 => K[i].mapStart \in Nat /\ K[i].mapStart < x /\ CanBegin(T, I, R, f, K[i])

\* The last that is open ends: with it an indent or a flow goes.
LEMMA NestedEnd ==
    ASSUME NEW T, NEW U, NEW K, NEW F, NEW G, NEW I, NEW J, NEW R, NEW f, NEW p, NEW x,
           Nested(T, K, F, I, R, f, p), Prolongs(U, T), LastOpen(f[Len(T)], x),
           T[x].type \in StartTypes, U[Len(T) + 1].status = "VALID", U[Len(T) + 1].type = Closing[T[x].type],
           BeginBefore(T, K, J, R, f, x), OpenFlows(T, G, R, p),
           f[Len(T)] \ {x} = OpenBlocks(J, R) \cup {p[i] : i \in 1 .. Len(G)}
    PROVE  \E g : Nested(U, K, G, J, R, g, p)
<1> DEFINE n == Len(T)
<1>1. n \in Nat /\ Len(U) = n + 1
  BY DEF Prolongs
<1>2. IsOpen(f, T) /\ \A k \in 0 .. n : f[k] \subseteq 1 .. k
  BY DEF Nested
<1>3. PICK g : /\ IsOpen(g, U)
               /\ \A k \in 0 .. n : g[k] = f[k]
               /\ g[n + 1] = Close(f[n], U, n + 1)
  BY <1>2, OpenProlonged
<1>4. x \in 1 .. n /\ f[n] \subseteq 1 .. n
  BY <1>1, <1>2 DEF LastOpen
<1>5. U[x] = T[x]
  BY <1>4 DEF Prolongs
<1>6. Close(f[n], U, n + 1) = f[n] \ {x}
  <2> DEFINE open == f[n]
  <2>1. open \in SUBSET (Nat \ {0}) /\ x \in open /\ \A y \in open : y <= x
    BY <1>4 DEF LastOpen
  <2>2. U[x].type \in StartTypes /\ U[n + 1].type = Closing[U[x].type] /\ U[n + 1].status = "VALID"
    BY <1>5
  <2> HIDE DEF open, n
  <2>3. Close(open, U, n + 1) = open \ {x}
    BY <2>1, <2>2, CloseEnd
  <2> QED
    BY <2>3 DEF open
<1>7. ASSUME NEW i \in 1 .. Len(K), K[i].mapStart # 0 PROVE CanBegin(U, J, R, g, K[i])
  <2> DEFINE m == K[i].mapStart
  <2>1. m \in Nat /\ m < x /\ CanBegin(T, J, R, f, K[i])
    BY <1>7 DEF BeginBefore
  <2>2. EndedBehind(T, f, m)
    BY <2>1 DEF CanBegin
  <2> HIDE DEF m
  <2>3. \E y \in f[n] : y > m
    BY <1>4, <2>1 DEF LastOpen
  <2>4. EndedBehind(U, g, m)
    BY <1>3, <2>1, <2>2, <2>3, EndedProlonged
  <2> QED
    BY <2>1, <2>4 DEF CanBegin, m
<1>8. OpenFlows(U, G, R, p)
  BY FlowsProlonged
<1>9. g[n + 1] = OpenBlocks(J, R) \cup {p[i] : i \in 1 .. Len(G)}
  BY <1>3, <1>6
<1>10. g[n + 1] \subseteq 1 .. n
  BY <1>3, <1>4, <1>6
<1> HIDE DEF n
<1>11. ASSUME NEW k \in 0 .. (n + 1) PROVE g[k] \subseteq 1 .. k
  <2>1. CASE k = n + 1
    <3>1. 1 .. n \subseteq 1 .. k
      BY <1>1, <2>1
    <3> QED
      BY <1>10, <2>1, <3>1
  <2>2. CASE k # n + 1
    <3>1. k \in 0 .. n
      BY <1>1, <2>2
    <3> QED
      BY <1>2, <1>3, <3>1
  <2> QED
    BY <2>1, <2>2
<1> QED
  BY <1>1, <1>3, <1>7, <1>8, <1>9, <1>11 DEF Nested

\* The queue of a sound scanner.
LEMMA SoundQueue ==
    ASSUME NEW T, NEW front, NEW K, NEW F, NEW I, NEW R, Sound(T, front, K, F, I, R)
    PROVE  /\ Queued(T, front) /\ KeysOpen(T, front, K, F) /\ Indented(T, I, R) /\ IsSequence(T)
           /\ Len(T) \in Nat /\ front \in 1 .. (Len(T) + 1) /\ front \in Nat \ {0}
<1>1. Queued(T, front) /\ Len(T) \in Nat
  BY Appended DEF Sound, Queued
<1>2. \A n \in Nat : front \in 1 .. (n + 1) => front \in Nat \ {0}
  OBVIOUS
<1> QED
  BY <1>1, <1>2 DEF Sound, Queued

LEMMA SoundPop ==
    ASSUME NEW T, NEW front, NEW K, NEW I, NEW R, Sound(T, front, K, <<>>, I, R), I # <<>>,
           R[Last(I)].status = "VALID", R[Last(I)].type \in {"SEQ", "MAP"},
           NEW token, IsToken(token), token.status = "VALID", token.type = BlockEnd(R[Last(I)].type)
    PROVE  Sound(Append(T, token), front, K, <<>>, Front(I), R)
<1> DEFINE U == Append(T, token)
           x == R[Last(I)].start
           n == Len(T)
           k == Len(I)
<1>1. /\ Queued(T, front) /\ KeysOpen(T, front, K, <<>>) /\ Indented(T, I, R) /\ IsSequence(T)
      /\ n \in Nat /\ front \in Nat \ {0}
  BY SoundQueue
<1>2. Prolongs(U, T) /\ U[n + 1] = token
  BY <1>1, AppendProlongs
<1> HIDE DEF U
<1>3. PICK f, p : Nested(T, K, <<>>, I, R, f, p)
  BY DEF Sound
<1>4. f[n] = OpenBlocks(I, R)
  <2>1. f[n] = OpenBlocks(I, R) \cup {p[i] : i \in 1 .. Len(<<>>)}
    BY <1>3 DEF Nested
  <2>2. {p[i] : i \in 1 .. Len(<<>>)} = {}
    OBVIOUS
  <2> QED
    BY <2>1, <2>2
<1>5. /\ Len(Front(I)) = k - 1 /\ k \in Nat \ {0} /\ Last(I) = I[k] /\ Last(I) \in 1 .. Len(R)
      /\ \A i \in 1 .. (k - 1) : /\ Front(I)[i] = I[i] /\ I[i] \in 1 .. Len(R)
                                 /\ R[I[i]].start < x
  BY <1>1, IndentsInFront
<1>6. x \in 1 .. n /\ T[x].type = BlockStart(R[Last(I)].type)
  BY <1>1, <1>5 DEF Indented, IsIndent
<1>7. LastOpen(OpenBlocks(I, R), x)
  <2>1. x \in OpenBlocks(I, R)
    <3>1. k \in 1 .. k
      BY <1>5
    <3>2. R[I[k]].type # "NONE" /\ R[I[k]].status = "VALID" /\ x = R[I[k]].start
      BY <1>5
    <3> QED
      BY <3>1, <3>2 DEF OpenBlocks
  <2>2. ASSUME NEW y \in OpenBlocks(I, R) PROVE y <= x
    <3>1. PICK i \in 1 .. k : y = R[I[i]].start
      BY <2>2 DEF OpenBlocks
    <3>2. CASE i = k
      BY <1>5, <1>6, <3>1, <3>2
    <3>3. CASE i # k
      <4>1. i \in 1 .. (k - 1)
        BY <1>5, <3>3
      <4>2. y < x
        BY <1>5, <3>1, <4>1
      <4>3. y \in Int
        BY <1>1, <3>1 DEF Indented, IsIndent
      <4> HIDE DEF x
      <4> QED
        BY <1>6, <4>2, <4>3
    <3> QED
      BY <3>2, <3>3
  <2> QED
    BY <2>1, <2>2 DEF LastOpen
<1>8. T[x].type \in StartTypes /\ U[n + 1].type = Closing[T[x].type] /\ U[n + 1].status = "VALID"
  BY <1>2, <1>6, Closings
<1>9. BeginBefore(T, K, Front(I), R, f, x)
  <2>1. ASSUME NEW i \in 1 .. Len(K), K[i].mapStart # 0
        PROVE  K[i].mapStart \in Nat /\ K[i].mapStart < x /\ CanBegin(T, Front(I), R, f, K[i])
    <3>1. CanBegin(T, I, R, f, K[i])
      BY <1>3, <2>1 DEF Nested
    <3>2. K[i].indent # Last(I)
      BY <3>1 DEF CanBegin
    <3>3. OpenKey(T, front, <<>>, K[i])
      BY <1>1 DEF KeysOpen
    <3>4. K[i].mapStart \in Nat
      BY <1>1, <2>1, <3>3, KeyPositions
    <3> QED
      BY <1>1, <3>1, <3>2, <3>4, BeginsInFront
  <2> QED
    BY <2>1 DEF BeginBefore
<1>10. OpenFlows(T, <<>>, R, p)
  BY <1>3 DEF Nested
<1>11. f[n] \ {x} = OpenBlocks(Front(I), R) \cup {p[i] : i \in 1 .. Len(<<>>)}
  <2>1. OpenBlocks(Front(I), R) = OpenBlocks(I, R) \ {x}
    BY <1>1, BlocksInFront
  <2> QED
    BY <1>4, <2>1
<1>12. LastOpen(f[n], x)
  BY <1>4, <1>7
<1> HIDE DEF x
<1>13. \E g : Nested(U, K, <<>>, Front(I), R, g, p)
  BY <1>2, <1>3, <1>8, <1>9, <1>10, <1>11, <1>12, NestedEnd
<1>14. Queued(U, front) /\ KeysOpen(U, front, K, <<>>) /\ Indented(U, Front(I), R)
  BY <1>1, <1>2, QueuedProlonged, KeysProlonged, IndentsInFront, IndentedProlonged
<1> QED
  BY <1>13, <1>14 DEF Sound, U

-----------------------------------------------------------------------------
(* A flow begins and ends                                                  *)

LEMMA KeysDeeper ==
    ASSUME NEW T, NEW front, NEW K, NEW F, NEW G, KeysOpen(T, front, K, F), G \in Seq({"FLOW_SEQ", "FLOW_MAP"}),
           \A i \in 1 .. Len(K) : K[i].flowLevel \in 0 .. Len(G)
    PROVE  KeysOpen(T, front, K, G)
<1>1. \A i \in 1 .. Len(K) : OpenKey(T, front, G, K[i])
  BY DEF KeysOpen, OpenKey
<1> QED
  BY <1>1 DEF KeysOpen

\* If the last key is not of the innermost flow, none is.
LEMMA KeysShallow ==
    ASSUME NEW T, NEW front, NEW K, NEW F, KeysOpen(T, front, K, F), K # <<>> => Last(K).flowLevel # Len(F)
    PROVE  Len(F) \in Nat /\ \A i \in 1 .. Len(K) : K[i].flowLevel \in 0 .. Len(F) /\ K[i].flowLevel < Len(F)
<1> DEFINE k == Len(K)
           d == Len(F)
<1>1. k \in Nat /\ d \in Nat
  BY DEF KeysOpen, IsSequence
<1>2. \A i \in 1 .. k : K[i].flowLevel \in 0 .. d
  BY DEF KeysOpen, OpenKey
<1>3. \A i, j \in 1 .. k : i < j => K[i].flowLevel < K[j].flowLevel
  BY DEF KeysOpen
<1>4. K # <<>> => Last(K) = K[k]
  BY InFront DEF KeysOpen
<1>5. K = <<>> => k = 0
  OBVIOUS
<1> HIDE DEF k, d
<1>6. ASSUME NEW i \in 1 .. k PROVE K[i].flowLevel < d
  <2>1. k # 0 /\ k \in 1 .. k
    BY <1>1
  <2>2. K[k].flowLevel # d
    BY <1>4, <1>5, <2>1 DEF d
  <2>3. K[k].flowLevel < d
    BY <1>1, <1>2, <2>1, <2>2
  <2>4. CASE i = k
    BY <2>3, <2>4
  <2>5. CASE i # k
    <3>1. i < k
      BY <1>1, <2>5
    <3>2. K[i].flowLevel < K[k].flowLevel
      BY <1>3, <2>1, <3>1
    <3> QED
      BY <1>1, <1>2, <2>1, <2>3, <3>2
  <2> QED
    BY <2>4, <2>5
<1> QED
  BY <1>1, <1>2, <1>6 DEF k, d

\* At q what is open at p, and what is at position new.
FlowsToo(U, G, R, q, F, p, new) ==
    /\ OpenFlows(U, G, R, q)
    /\ {q[i] : i \in 1 .. Len(G)} = {p[i] : i \in 1 .. Len(F)} \cup {new}

LEMMA FlowsOn ==
    ASSUME NEW T, NEW U, NEW F, NEW G, NEW R, NEW p, NEW I, OpenFlows(T, F, R, p), Indented(T, I, R),
           Prolongs(U, T), Prolongs(G, F), U[Len(T) + 1].status = "VALID",
           U[Len(T) + 1].type = FlowStart(G[Len(F) + 1])
    PROVE  \E q : FlowsToo(U, G, R, q, F, p, Len(T) + 1)
<1> DEFINE d == Len(F)
           n == Len(T)
           q == [i \in 1 .. (d + 1) |-> IF i = d + 1 THEN n + 1 ELSE p[i]]
<1>1. /\ d \in Nat /\ Len(G) = d + 1 /\ \A i \in 1 .. d : G[i] = F[i]
      /\ n \in Nat /\ Len(U) = n + 1
  BY DEF Prolongs
<1>2. /\ \A i \in 1 .. d : /\ p[i] \in 1 .. (n + 1) /\ U[p[i]].status = "VALID" /\ U[p[i]].type = FlowStart(F[i])
                           /\ \A r \in 1 .. Len(R) : R[r].start < p[i]
      /\ \A i, j \in 1 .. d : i < j => p[i] < p[j]
  <2>1. OpenFlows(U, F, R, p)
    BY FlowsProlonged
  <2> QED
    BY <1>1, <2>1 DEF OpenFlows
<1>3. \A i \in 1 .. d : p[i] \in 1 .. n
  BY DEF OpenFlows
<1>4. \A r \in 1 .. Len(R) : R[r].start \in 0 .. n
  BY <1>1, StartsBefore DEF Indented
<1>5. U[n + 1].status = "VALID" /\ U[n + 1].type = FlowStart(G[d + 1])
  OBVIOUS
<1> HIDE DEF n, d
<1>6. \A i \in 1 .. d : q[i] = p[i] /\ i \in 1 .. (d + 1)
  BY <1>1
<1>7. q[d + 1] = n + 1 /\ d + 1 \in 1 .. (d + 1)
  BY <1>1
<1>8. \A i \in 1 .. (d + 1) : i \in 1 .. d \/ i = d + 1
  BY <1>1
<1> HIDE DEF q
<1>9. ASSUME NEW i \in 1 .. (d + 1)
      PROVE  /\ q[i] \in 1 .. (n + 1) /\ U[q[i]].status = "VALID" /\ U[q[i]].type = FlowStart(G[i])
             /\ \A r \in 1 .. Len(R) : R[r].start < q[i]
  <2>1. CASE i \in 1 .. d
    BY <1>1, <1>2, <1>6, <2>1
  <2>2. CASE i = d + 1
    <3>1. q[i] = n + 1 /\ n + 1 \in 1 .. (n + 1)
      BY <1>1, <1>7, <2>2
    <3>2. \A r \in 1 .. Len(R) : R[r].start < n + 1
      BY <1>1, <1>4
    <3> QED
      BY <1>5, <2>2, <3>1, <3>2
  <2> QED
    BY <1>8, <2>1, <2>2
<1>10. ASSUME NEW i \in 1 .. (d + 1), NEW j \in 1 .. (d + 1), i < j PROVE q[i] < q[j]
  <2>1. i \in 1 .. d /\ q[i] = p[i] /\ p[i] \in 1 .. n
    BY <1>1, <1>3, <1>6, <1>10
  <2>2. CASE j = d + 1
    BY <1>1, <1>7, <2>1, <2>2
  <2>3. CASE j \in 1 .. d
    BY <1>2, <1>6, <1>10, <2>1, <2>3
  <2> QED
    BY <1>8, <2>2, <2>3
<1>11. OpenFlows(U, G, R, q)
  BY <1>1, <1>9, <1>10 DEF OpenFlows
<1>12. {q[i] : i \in 1 .. (d + 1)} = {p[i] : i \in 1 .. d} \cup {n + 1}
  BY <1>6, <1>7, <1>8
<1>13. {q[i] : i \in 1 .. Len(G)} = {p[i] : i \in 1 .. Len(F)} \cup {Len(T) + 1}
  BY <1>1, <1>12, Zenon DEF n, d
<1>14. FlowsToo(U, G, R, q, F, p, Len(T) + 1)
  BY <1>11, <1>13, Zenon DEF FlowsToo
<1> QED
  BY <1>14, Zenon

LEMMA SoundFlowStart ==
    ASSUME NEW T, NEW front, NEW K, NEW F, NEW I, NEW R, Sound(T, front, K, F, I, R),
           NEW type \in {"FLOW_SEQ", "FLOW_MAP"},
           NEW token, IsToken(token), token.status = "VALID", token.type = FlowStart(type)
    PROVE  Sound(Append(T, token), front, K, Append(F, type), I, R)
<1> DEFINE U == Append(T, token)
           G == Append(F, type)
           n == Len(T)
           d == Len(F)
<1>1. /\ Queued(T, front) /\ KeysOpen(T, front, K, F) /\ Indented(T, I, R) /\ IsSequence(T)
      /\ n \in Nat /\ front \in Nat \ {0}
  BY SoundQueue
<1>2. Prolongs(U, T) /\ U[n + 1] = token
  BY <1>1, AppendProlongs
<1>3. F \in Seq({"FLOW_SEQ", "FLOW_MAP"}) /\ IsSequence(F)
  BY <1>1 DEF KeysOpen, IsSequence
<1>4. Prolongs(G, F) /\ G[d + 1] = type
  BY <1>3, AppendProlongs
<1>5. G \in Seq({"FLOW_SEQ", "FLOW_MAP"})
  BY <1>3
<1> HIDE DEF U, G
<1>6. PICK f, p : Nested(T, K, F, I, R, f, p)
  BY DEF Sound
<1>7. U[n + 1].status = "VALID" /\ U[n + 1].type = FlowStart(G[d + 1])
  BY <1>2, <1>4
<1>8. OpenFlows(T, F, R, p) /\ IsOpen(f, T) /\ \A k \in 0 .. n : f[k] \subseteq 1 .. k
  BY <1>6 DEF Nested
<1>9. PICK q : FlowsToo(U, G, R, q, F, p, n + 1)
  BY <1>1, <1>2, <1>4, <1>7, <1>8, FlowsOn
<1>10. OpenFlows(U, G, R, q) /\ {q[i] : i \in 1 .. Len(G)} = {p[i] : i \in 1 .. d} \cup {n + 1}
  BY <1>9 DEF FlowsToo
<1>11. PICK g : /\ IsOpen(g, U)
                /\ \A k \in 0 .. n : g[k] = f[k]
                /\ g[n + 1] = Close(f[n], U, n + 1)
  BY <1>2, <1>8, OpenProlonged
<1>12. U[n + 1].type \in StartTypes /\ ~Ending(U[n + 1])
  BY <1>2 DEF FlowStart, StartTypes, Ending
<1>13. g[n + 1] = f[n] \cup {n + 1}
  BY <1>7, <1>11, <1>12, CloseStart
<1>14. f[n] = OpenBlocks(I, R) \cup {p[i] : i \in 1 .. d}
  BY <1>6 DEF Nested
<1>15. ASSUME NEW i \in 1 .. Len(K), K[i].mapStart # 0 PROVE CanBegin(U, I, R, g, K[i])
  <2> DEFINE m == K[i].mapStart
  <2>1. CanBegin(T, I, R, f, K[i])
    BY <1>6, <1>15 DEF Nested
  <2>2. OpenKey(T, front, F, K[i])
    BY <1>1 DEF KeysOpen
  <2>3. m \in Nat
    BY <1>1, <1>15, <2>2, KeyPositions
  <2>4. EndedBehind(T, f, m)
    BY <2>1 DEF CanBegin
  <2> HIDE DEF m
  <2>5. EndedBehind(U, g, m)
    BY <1>2, <1>11, <1>12, <2>3, <2>4, EndedProlonged
  <2> QED
    BY <2>1, <2>5 DEF CanBegin, m
<1>16. Len(U) = n + 1 /\ Len(G) = d + 1 /\ d \in Nat
  BY <1>2, <1>4 DEF Prolongs
<1>17. g[n + 1] = OpenBlocks(I, R) \cup {q[i] : i \in 1 .. Len(G)}
  BY <1>10, <1>13, <1>14
<1>18. KeysOpen(U, front, K, F)
  BY <1>1, <1>2, KeysProlonged
<1>19. KeysOpen(U, front, K, G)
  <2>1. \A i \in 1 .. Len(K) : K[i].flowLevel \in 0 .. d
    BY <1>1 DEF KeysOpen, OpenKey
  <2> HIDE DEF d
  <2>2. \A i \in 1 .. Len(K) : K[i].flowLevel \in 0 .. (d + 1)
    BY <1>16, <2>1
  <2> QED
    BY <1>5, <1>16, <1>18, <2>2, KeysDeeper
<1> HIDE DEF n
<1>20. ASSUME NEW k \in 0 .. (n + 1) PROVE g[k] \subseteq 1 .. k
  <2>1. CASE k = n + 1
    <3>1. f[n] \subseteq 1 .. n /\ 1 .. n \subseteq 1 .. k /\ n + 1 \in 1 .. k
      BY <1>1, <1>8, <2>1
    <3> QED
      BY <1>13, <2>1, <3>1
  <2>2. CASE k # n + 1
    <3>1. k \in 0 .. n
      BY <1>1, <2>2
    <3> QED
      BY <1>8, <1>11, <3>1
  <2> QED
    BY <2>1, <2>2
<1>21. Nested(U, K, G, I, R, g, q)
  BY <1>10, <1>11, <1>15, <1>16, <1>17, <1>20 DEF Nested
<1>22. Queued(U, front) /\ Indented(U, I, R)
  BY <1>1, <1>2, QueuedProlonged, IndentedProlonged DEF n
<1> QED
  BY <1>19, <1>21, <1>22 DEF Sound, U, G

\* G is F without the last.
Leads(G, F, d) == d \in Nat /\ Len(F) = d + 1 /\ Len(G) = d /\ \A i \in 1 .. d : G[i] = F[i]

OpenIs(open, F, I, R, p) == open = OpenBlocks(I, R) \cup {p[i] : i \in 1 .. Len(F)}

\* At x the innermost flow of F was opened, G are the others.
Innermost(T, F, G, I, R, p, open, x) ==
    /\ LastOpen(open, x) /\ OpenFlows(T, G, R, p)
    /\ open \ {x} = OpenBlocks(I, R) \cup {p[i] : i \in 1 .. Len(G)}
    /\ x \in 1 .. Len(T) /\ T[x].type = FlowStart(F[Len(F)])
    /\ \A r \in 1 .. Len(R) : R[r].start < x

\* The innermost flow is what was opened last.
LEMMA FlowIsLast ==
    ASSUME NEW T, NEW F, NEW G, NEW I, NEW R, NEW p, NEW d, OpenFlows(T, F, R, p), Indented(T, I, R),
           Leads(G, F, d), Len(T) \in Nat, NEW open, OpenIs(open, F, I, R, p)
    PROVE  Innermost(T, F, G, I, R, p, open, p[d + 1])
<1> DEFINE n == Len(T)
           x == p[d + 1]
<1> USE DEF Leads, OpenIs
<1>1. /\ \A i \in 1 .. (d + 1) : /\ p[i] \in 1 .. n /\ T[p[i]].status = "VALID" /\ T[p[i]].type = FlowStart(F[i])
                                 /\ \A r \in 1 .. Len(R) : R[r].start < p[i]
      /\ \A i, j \in 1 .. (d + 1) : i < j => p[i] < p[j]
  BY DEF OpenFlows
<1>2. ASSUME NEW y \in OpenBlocks(I, R) PROVE \E r \in 1 .. Len(R) : y = R[r].start /\ y \in 0 .. n
  <2>1. PICK i \in 1 .. Len(I) : y = R[I[i]].start
    BY <1>2 DEF OpenBlocks
  <2>2. I[i] \in 1 .. Len(R)
    BY DEF Indented
  <2>3. y \in 0 .. n
    BY <2>1, <2>2, StartsBefore DEF Indented
  <2> QED
    BY <2>1, <2>2, <2>3
<1>3. n \in Nat
  OBVIOUS
<1> HIDE DEF n
<1>4. d + 1 \in 1 .. (d + 1) /\ \A i \in 1 .. d : i \in 1 .. (d + 1) /\ i < d + 1
  OBVIOUS
<1>5. x \in 1 .. n /\ T[x].type = FlowStart(F[d + 1]) /\ \A r \in 1 .. Len(R) : R[r].start < x
  BY <1>1, <1>4
<1> HIDE DEF x
<1>6. \A i \in 1 .. d : p[i] < x /\ p[i] \in 1 .. n
  BY <1>1, <1>4 DEF x
<1>7. \A y \in OpenBlocks(I, R) : y < x /\ y \in Int
  BY <1>2, <1>3, <1>5
<1>8. \A i \in 1 .. (d + 1) : i \in 1 .. d \/ i = d + 1
  OBVIOUS
<1>9. {p[i] : i \in 1 .. (d + 1)} = {p[i] : i \in 1 .. d} \cup {x}
  BY <1>4, <1>8 DEF x
<1>10. open = OpenBlocks(I, R) \cup {p[i] : i \in 1 .. d} \cup {x}
  BY <1>9
<1>11. ASSUME NEW y \in open PROVE y <= x /\ (y \in OpenBlocks(I, R) \cup {p[i] : i \in 1 .. d} => y # x)
  <2>1. CASE y \in OpenBlocks(I, R)
    BY <1>3, <1>5, <1>7, <2>1
  <2>2. CASE y \in {p[i] : i \in 1 .. d}
    BY <1>3, <1>5, <1>6, <2>2
  <2>3. CASE y = x /\ y \notin OpenBlocks(I, R) \cup {p[i] : i \in 1 .. d}
    BY <1>5, <2>3
  <2> QED
    BY <1>10, <2>1, <2>2, <2>3
<1>12. LastOpen(open, x)
  BY <1>10, <1>11 DEF LastOpen
<1>13. x \notin OpenBlocks(I, R) \cup {p[i] : i \in 1 .. d}
  BY <1>10, <1>11
<1>14. open \ {x} = OpenBlocks(I, R) \cup {p[i] : i \in 1 .. d}
  BY <1>10, <1>13
<1>15. OpenFlows(T, G, R, p)
  BY <1>1, <1>4 DEF OpenFlows, n
<1> QED
  BY <1>5, <1>12, <1>14, <1>15 DEF x, n, Innermost

LEMMA SoundFlowEnd ==
    ASSUME NEW T, NEW front, NEW K, NEW F, NEW I, NEW R, Sound(T, front, K, F, I, R), F # <<>>,
           K # <<>> => Last(K).flowLevel # Len(F),
           NEW token, IsToken(token), token.status = "VALID", token.type = FlowEnd(Last(F))
    PROVE  Sound(Append(T, token), front, K, Front(F), I, R)
<1> DEFINE U == Append(T, token)
           G == Front(F)
           n == Len(T)
           d == Len(F) - 1
<1>1. /\ Queued(T, front) /\ KeysOpen(T, front, K, F) /\ Indented(T, I, R) /\ IsSequence(T)
      /\ n \in Nat /\ front \in Nat \ {0}
  BY SoundQueue
<1>2. Prolongs(U, T) /\ U[n + 1] = token
  BY <1>1, AppendProlongs
<1>3. F \in Seq({"FLOW_SEQ", "FLOW_MAP"}) /\ IsSequence(F)
  BY <1>1 DEF KeysOpen, IsSequence
<1>4. /\ G \in Seq({"FLOW_SEQ", "FLOW_MAP"}) /\ Len(G) = d /\ d \in Nat /\ Len(F) = d + 1
      /\ \A i \in 1 .. d : G[i] = F[i]
      /\ Last(F) = F[d + 1] /\ Last(F) \in {"FLOW_SEQ", "FLOW_MAP"}
  <2>1. /\ G \in Seq({"FLOW_SEQ", "FLOW_MAP"}) /\ Len(G) = Len(F) - 1 /\ Len(F) \in Nat \ {0}
        /\ \A i \in 1 .. Len(F) - 1 : G[i] = F[i]
    BY <1>3, FrontProperties
  <2>2. Last(F) = F[Len(F)]
    BY <1>3, InFront
  <2>3. \A l \in Nat \ {0} : l - 1 \in Nat /\ l = l - 1 + 1 /\ l \in 1 .. l
    OBVIOUS
  <2>4. \A i \in 1 .. Len(F) : F[i] \in {"FLOW_SEQ", "FLOW_MAP"}
    BY <1>3
  <2> HIDE DEF G
  <2>5. d \in Nat /\ Len(F) = d + 1 /\ Len(F) \in 1 .. Len(F)
    BY <2>1, <2>3
  <2> QED
    BY <2>1, <2>2, <2>4, <2>5
<1> HIDE DEF U, G, d
<1>5. PICK f, p : Nested(T, K, F, I, R, f, p)
  BY DEF Sound
<1> DEFINE x == p[d + 1]
           open == f[n]
<1>6. OpenFlows(T, F, R, p) /\ OpenIs(open, F, I, R, p) /\ Leads(G, F, d)
  BY <1>4, <1>5 DEF Nested, OpenIs, Leads
<1>7. /\ LastOpen(open, x) /\ OpenFlows(T, G, R, p)
      /\ open \ {x} = OpenBlocks(I, R) \cup {p[i] : i \in 1 .. Len(G)}
      /\ T[x].type = FlowStart(F[d + 1])
      /\ \A r \in 1 .. Len(R) : R[r].start < x
  <2> HIDE DEF open
  <2>1. Innermost(T, F, G, I, R, p, open, p[d + 1])
    BY <1>1, <1>6, FlowIsLast
  <2> QED
    BY <1>4, <2>1 DEF Innermost
<1>8. T[x].type \in StartTypes /\ U[n + 1].type = Closing[T[x].type] /\ U[n + 1].status = "VALID"
  BY <1>2, <1>4, <1>7, Closings
<1>9. BeginBefore(T, K, I, R, f, x)
  <2>1. ASSUME NEW i \in 1 .. Len(K), K[i].mapStart # 0
        PROVE  K[i].mapStart \in Nat /\ K[i].mapStart < x /\ CanBegin(T, I, R, f, K[i])
    <3>1. CanBegin(T, I, R, f, K[i])
      BY <1>5, <2>1 DEF Nested
    <3>2. OpenKey(T, front, F, K[i])
      BY <1>1 DEF KeysOpen
    <3>3. K[i].mapStart \in Nat
      BY <1>1, <2>1, <3>2, KeyPositions
    <3>4. R[K[i].indent].start = K[i].mapStart /\ K[i].indent \in 1 .. Len(R)
      BY <1>1, <3>1 DEF CanBegin, Indented
    <3> HIDE DEF x
    <3>5. K[i].mapStart < x
      BY <1>7, <3>4
    <3> QED
      BY <3>1, <3>3, <3>5
  <2> QED
    BY <2>1 DEF BeginBefore
<1> HIDE DEF x
<1>10. \E g : Nested(U, K, G, I, R, g, p)
  BY <1>2, <1>5, <1>7, <1>8, <1>9, NestedEnd
<1>11. Queued(U, front) /\ KeysOpen(U, front, K, F) /\ Indented(U, I, R)
  BY <1>1, <1>2, QueuedProlonged, KeysProlonged, IndentedProlonged
<1>12. KeysOpen(U, front, K, G)
  <2>1. \A i \in 1 .. Len(K) : K[i].flowLevel \in 0 .. Len(F) /\ K[i].flowLevel < Len(F)
    BY <1>1, KeysShallow
  <2>2. \A i \in 1 .. Len(K) : K[i].flowLevel \in 0 .. Len(G)
    BY <1>4, <2>1
  <2> QED
    BY <1>4, <1>11, <2>2, KeysDeeper
<1> QED
  BY <1>10, <1>11, <1>12 DEF Sound, U, G

-----------------------------------------------------------------------------
(* The document ends, and the parser takes a token                         *)

LEMMA SoundDropKeys ==
    ASSUME NEW T, NEW front, NEW K, NEW F, NEW I, NEW R, Sound(T, front, K, F, I, R)
    PROVE  Sound(T, front, <<>>, F, I, R)
<1>1. Queued(T, front) /\ KeysOpen(T, front, K, F) /\ Indented(T, I, R)
  BY DEF Sound
<1>2. PICK f, p : Nested(T, K, F, I, R, f, p)
  BY DEF Sound
<1>3. Len(<<>>) = 0 /\ IsSequence(<<>>)
  <2>1. <<>> \in Seq({}) /\ Len(<<>>) = 0
    OBVIOUS
  <2> QED
    BY <2>1 DEF IsSequence
<1>4. \A i : i \notin 1 .. 0
  OBVIOUS
<1>5. KeysOpen(T, front, <<>>, F)
  BY <1>1, <1>3, <1>4 DEF KeysOpen
<1>6. Nested(T, <<>>, F, I, R, f, p)
  BY <1>2, <1>3, <1>4 DEF Nested
<1> QED
  BY <1>1, <1>5, <1>6 DEF Sound

\* The token before which all are invalid, if it is verified or no key is open.
LEMMA SoundTake ==
    ASSUME NEW T, NEW front, NEW K, NEW F, NEW I, NEW R, Sound(T, front, K, F, I, R),
           NEW at \in front .. Len(T), \A i \in front .. (at - 1) : T[i].status = "INVALID",
           T[at].status = "VALID" \/ K = <<>>
    PROVE  Sound(T, at + 1, K, F, I, R)
<1> DEFINE n == Len(T)
<1>1. /\ Queued(T, front) /\ KeysOpen(T, front, K, F) /\ Indented(T, I, R) /\ IsSequence(T)
      /\ n \in Nat /\ front \in 1 .. (n + 1) /\ front \in Nat \ {0}
  BY SoundQueue
<1>2. at \in front .. n
  OBVIOUS
<1>3. Queued(T, at + 1)
  <2> HIDE DEF n
  <2>1. at + 1 \in 1 .. (n + 1)
    BY <1>1, <1>2
  <2> QED
    BY <1>1, <2>1 DEF Queued, n
<1>4. CASE K = <<>>
  <2>1. Len(<<>>) = 0 /\ \A i : i \notin 1 .. 0
    OBVIOUS
  <2>2. KeysOpen(T, at + 1, K, F)
    BY <1>1, <1>4, <2>1 DEF KeysOpen
  <2> QED
    BY <1>3, <2>2 DEF Sound
<1>5. CASE T[at].status = "VALID"
  <2>1. ASSUME NEW i, NEW type, Undecided(T, front, i, type) PROVE Undecided(T, at + 1, i, type)
    <3>1. i \in front .. n /\ T[i].status = "UNVERIFIED" /\ T[i].type = type
      BY <2>1 DEF Undecided
    <3>2. i # at /\ i \notin front .. (at - 1)
      BY <1>5, <3>1
    <3> HIDE DEF n
    <3>3. i \in (at + 1) .. n
      BY <1>1, <1>2, <3>1, <3>2
    <3> QED
      BY <3>1, <3>3 DEF Undecided, n
  <2>2. ASSUME NEW i \in 1 .. Len(K) PROVE OpenKey(T, at + 1, F, K[i])
    <3>1. OpenKey(T, front, F, K[i])
      BY <1>1 DEF KeysOpen
    <3>2. Undecided(T, at + 1, K[i].token, "KEY")
      BY <2>1, <3>1 DEF OpenKey
    <3>3. K[i].mapStart # 0 => Undecided(T, at + 1, K[i].mapStart, "BLOCK_MAP_START")
      BY <2>1, <3>1 DEF OpenKey
    <3> QED
      BY <3>1, <3>2, <3>3 DEF OpenKey
  <2>3. KeysOpen(T, at + 1, K, F)
    BY <1>1, <2>2 DEF KeysOpen
  <2> QED
    BY <1>3, <2>3 DEF Sound
<1> QED
  BY <1>4, <1>5

\* Nothing was scanned yet.
LEMMA SoundEmpty ==
    ASSUME NEW I, NEW R, Indented(<<>>, I, R), OpenBlocks(I, R) = {}
    PROVE  Sound(<<>>, 1, <<>>, <<>>, I, R)
<1> DEFINE f == [n \in 0 .. 0 |-> {}]
<1>1. Len(<<>>) = 0 /\ IsSequence(<<>>) /\ <<>> \in Seq({"FLOW_SEQ", "FLOW_MAP"})
  <2>1. <<>> \in Seq({}) /\ Len(<<>>) = 0 /\ <<>> \in Seq({"FLOW_SEQ", "FLOW_MAP"})
    OBVIOUS
  <2> QED
    BY <2>1 DEF IsSequence
<1>2. \A i : i \notin 1 .. 0
  OBVIOUS
<1>3. Queued(<<>>, 1)
  BY <1>1, <1>2 DEF Queued
<1>4. KeysOpen(<<>>, 1, <<>>, <<>>)
  BY <1>1, <1>2 DEF KeysOpen
<1>5. f = [n \in 0 .. 0 |-> IF n = 0 THEN {} ELSE Close(f[n - 1], <<>>, n)]
  OBVIOUS
<1>6. IsOpen(f, <<>>)
  <2> HIDE DEF f
  <2> QED
    BY <1>1, <1>5 DEF IsOpen
<1>7. \A n \in 0 .. 0 : f[n] = {}
  OBVIOUS
<1> HIDE DEF f
<1>8. {<<>>[i] : i \in 1 .. 0} = {}
  BY <1>2
<1>9. f[0] = OpenBlocks(I, R) \cup {<<>>[i] : i \in 1 .. Len(<<>>)}
  BY <1>1, <1>7, <1>8
<1>10. OpenFlows(<<>>, <<>>, R, <<>>)
  BY <1>1, <1>2 DEF OpenFlows
<1>11. \A n \in 0 .. 0 : f[n] \subseteq 1 .. n
  BY <1>7
<1>12. Nested(<<>>, <<>>, <<>>, I, R, f, <<>>)
  BY <1>1, <1>2, <1>6, <1>9, <1>10, <1>11 DEF Nested
<1> QED
  BY <1>3, <1>4, <1>12 DEF Sound

-----------------------------------------------------------------------------
(* What the scanner does with its state                                    *)

\* Nothing that the invariant is about.
Alters(s, t) ==
    /\ DOMAIN t = ScannerFields
    /\ t.tokens = s.tokens /\ t.front = s.front /\ t.branch = s.branch /\ t.endedStream = s.endedStream
    /\ t.simpleKeys = s.simpleKeys /\ t.indents = s.indents /\ t.indentRefs = s.indentRefs
    /\ t.flows = s.flows

\* Something, but nothing that was handed out.
Advances(s, t) ==
    /\ IsScanner(t) /\ t.front = s.front /\ t.branch = s.branch /\ t.endedStream = s.endedStream
    /\ SameBefore(s.tokens, t.tokens, s.front)

LEMMA ScannerIs ==
    ASSUME NEW s, IsScanner(s)
    PROVE  /\ DOMAIN s = ScannerFields
           /\ Sound(s.tokens, s.front, s.simpleKeys, s.flows, s.indents, s.indentRefs)
           /\ Len(s.tokens) \in Nat /\ s.front \in 1 .. (Len(s.tokens) + 1)
BY SoundQueue DEF IsScanner

LEMMA AdvancesSelf ==
    ASSUME NEW s, IsScanner(s)
    PROVE  Advances(s, s)
BY ScannerIs DEF Advances, SameBefore

LEMMA AdvancesAltered ==
    ASSUME NEW s, NEW t, NEW u, Advances(s, t), Alters(t, u)
    PROVE  Advances(s, u)
BY DEF Advances, Alters, IsScanner

LEMMA AdvancesTwice ==
    ASSUME NEW s, NEW t, NEW u, Advances(s, t), Advances(t, u), IsScanner(s)
    PROVE  Advances(s, u)
<1>1. /\ Len(s.tokens) \in Nat /\ Len(t.tokens) \in Nat /\ Len(u.tokens) \in Nat
  BY ScannerIs DEF Advances
<1>2. SameBefore(s.tokens, u.tokens, s.front)
  <2>1. SameBefore(s.tokens, t.tokens, s.front) /\ SameBefore(t.tokens, u.tokens, s.front)
    BY DEF Advances
  <2>2. Len(s.tokens) <= Len(u.tokens)
    BY <1>1, <2>1 DEF SameBefore
  <2>3. \A i \in 1 .. (s.front - 1) : u.tokens[i] = s.tokens[i]
    BY <2>1 DEF SameBefore
  <2> QED
    BY <2>2, <2>3 DEF SameBefore
<1> QED
  BY <1>2 DEF Advances

LEMMA Altered ==
    ASSUME NEW s, DOMAIN s = ScannerFields
    PROVE  /\ \A n : Alters(s, [s EXCEPT !.at = n])
           /\ \A a : Alters(s, [s EXCEPT !.simpleKeyAllowed = a])
           /\ \A n, a : Alters(s, [s EXCEPT !.at = n, !.simpleKeyAllowed = a])
           /\ \A n : Alters(s, Eat(s, n))
           /\ \A key, json : Alters(s, Allow(s, key, json))
           /\ \A what : Alters(s, Throw(s, what))
BY DEF Alters, ScannerFields, Eat, Allow, Throw

LEMMA AltersTwice ==
    ASSUME NEW s, NEW t, NEW u, Alters(s, t), Alters(t, u)
    PROVE  Alters(s, u)
BY DEF Alters

\* Token types that neither start nor end anything.
LEMMA Tokens ==
    /\ \A type : /\ IsToken(Token(type)) /\ Token(type).type = type /\ Token(type).status = "VALID"
                 /\ IsToken(Unverified(type)) /\ Unverified(type).type = type
                 /\ Unverified(type).status = "UNVERIFIED"
    /\ \A type, v : /\ IsToken(ValueToken(type, v)) /\ ValueToken(type, v).type = type
                    /\ ValueToken(type, v).status = "VALID"
BY DEF IsToken, Token, Unverified, ValueToken, Statuses

LEMMA Appends ==
    ASSUME NEW T, NEW token, NEW front, IsSequence(T), front \in 1 .. (Len(T) + 1)
    PROVE  SameBefore(T, Append(T, token), front)
<1> DEFINE n == Len(T)
<1>1. /\ Len(Append(T, token)) = n + 1 /\ n \in Nat /\ front \in 1 .. (n + 1)
      /\ \A i \in 1 .. n : Append(T, token)[i] = T[i]
  BY Appended
<1> HIDE DEF n
<1>2. \A i \in 1 .. (front - 1) : i \in 1 .. n
  BY <1>1
<1>3. n <= n + 1
  BY <1>1
<1> QED
  BY <1>1, <1>2, <1>3 DEF SameBefore, n

LEMMA PushNeutral ==
    ASSUME NEW s, IsScanner(s), NEW token, IsToken(token), token.type \notin StartTypes \cup EndTypes
    PROVE  /\ Advances(s, Push(s, token)) /\ Push(s, token).flows = s.flows
           /\ Push(s, token).simpleKeys = s.simpleKeys /\ Push(s, token).indents = s.indents
           /\ Push(s, token).indentRefs = s.indentRefs
<1> DEFINE t == Push(s, token)
<1>1. /\ DOMAIN s = ScannerFields /\ Sound(s.tokens, s.front, s.simpleKeys, s.flows, s.indents, s.indentRefs)
      /\ s.front \in 1 .. (Len(s.tokens) + 1) /\ IsSequence(s.tokens)
  BY ScannerIs, SoundQueue
<1>2. /\ DOMAIN t = ScannerFields /\ t.tokens = Append(s.tokens, token) /\ t.front = s.front
      /\ t.branch = s.branch /\ t.endedStream = s.endedStream /\ t.simpleKeys = s.simpleKeys
      /\ t.indents = s.indents /\ t.indentRefs = s.indentRefs /\ t.flows = s.flows
  BY <1>1 DEF Push, ScannerFields
<1> HIDE DEF t
<1>3. Sound(Append(s.tokens, token), s.front, s.simpleKeys, s.flows, s.indents, s.indentRefs)
  BY <1>1, SoundNeutral
<1>4. SameBefore(s.tokens, t.tokens, s.front)
  BY <1>1, <1>2, Appends
<1> QED
  BY <1>2, <1>3, <1>4 DEF Advances, IsScanner, t

\* After it the key of the innermost flow is decided; without a flow no key is open.
NoActiveKey(t) == ~ActiveSimpleKey(t) /\ (t.flows = <<>> => t.simpleKeys = <<>>)

\* The state t is s with the last key decided.
IsDecided(s, t, status) ==
    /\ DOMAIN t = ScannerFields /\ t.front = s.front /\ t.branch = s.branch /\ t.endedStream = s.endedStream
    /\ t.indents = s.indents /\ t.flows = s.flows /\ t.simpleKeys = Front(s.simpleKeys)
    /\ t.tokens = DecidedTokens(s.tokens, Last(s.simpleKeys), status)
    /\ t.indentRefs = DecidedRefs(s.indentRefs, Last(s.simpleKeys), status)

LEMMA DecideIs ==
    ASSUME NEW s, DOMAIN s = ScannerFields, NEW status
    PROVE  IsDecided(s, Decide(s, Last(s.simpleKeys), status), status)
<1> DEFINE key == Last(s.simpleKeys)
           T == DecidedTokens(s.tokens, key, status)
           R == DecidedRefs(s.indentRefs, key, status)
           K == Front(s.simpleKeys)
           t == Decide(s, key, status)
<1>1. t = [s EXCEPT !.tokens = T, !.indentRefs = R, !.simpleKeys = K]
  BY Zenon DEF Decide, DecidedTokens, DecidedRefs
<1> HIDE DEF T, R, K, t
<1>2. /\ DOMAIN t = ScannerFields /\ t.front = s.front /\ t.branch = s.branch /\ t.endedStream = s.endedStream
      /\ t.indents = s.indents /\ t.flows = s.flows /\ t.simpleKeys = K /\ t.tokens = T /\ t.indentRefs = R
  BY <1>1 DEF ScannerFields
<1> QED
  BY <1>2 DEF IsDecided, T, R, K, t

LEMMA Decided ==
    ASSUME NEW s, IsScanner(s), NEW t, NEW status, Decision(status), ActiveSimpleKey(s), IsDecided(s, t, status)
    PROVE  Advances(s, t) /\ NoActiveKey(t)
<1> DEFINE K == s.simpleKeys
<1>1. /\ Sound(s.tokens, s.front, K, s.flows, s.indents, s.indentRefs)
      /\ KeysOpen(s.tokens, s.front, K, s.flows)
  BY ScannerIs, SoundQueue
<1>2. K # <<>> /\ Last(K).flowLevel = Len(s.flows)
  BY DEF ActiveSimpleKey, FlowLevel
<1>3. /\ Sound(t.tokens, s.front, Front(K), s.flows, s.indents, t.indentRefs)
      /\ SameBefore(s.tokens, t.tokens, s.front)
  BY <1>1, <1>2, SoundDecide DEF IsDecided
<1>4. Advances(s, t)
  BY <1>3 DEF Advances, IsScanner, IsDecided
<1>5. Front(K) # <<>> => Last(Front(K)).flowLevel < Last(K).flowLevel
  BY <1>1, <1>2, KeysFurtherOut
<1>6. KeysOpen(t.tokens, s.front, Front(K), s.flows)
  BY <1>3, SoundQueue
<1>7. Front(K) # <<>> => Last(Front(K)).flowLevel \in 0 .. Len(s.flows)
  <2> DEFINE L == Front(K)
             l == Len(L)
  <2>1. ASSUME L # <<>> PROVE Last(L).flowLevel \in 0 .. Len(s.flows)
    <3>1. Last(L) = L[l] /\ l \in Nat \ {0}
      BY <1>6, <2>1, InFront DEF KeysOpen
    <3> HIDE DEF l
    <3>2. l \in 1 .. l
      BY <3>1
    <3> QED
      BY <1>6, <3>1, <3>2 DEF KeysOpen, OpenKey, l
  <2> QED
    BY <2>1
<1>8. Len(s.flows) \in Nat /\ (s.flows = <<>> => Len(s.flows) = 0)
  BY <1>1 DEF KeysOpen
<1>9. t.simpleKeys = Front(K) /\ t.flows = s.flows
  BY DEF IsDecided
<1> HIDE DEF K
<1>10. ~ActiveSimpleKey(t)
  BY <1>2, <1>5, <1>7, <1>8, <1>9 DEF ActiveSimpleKey, FlowLevel
<1>11. t.flows = <<>> => t.simpleKeys = <<>>
  BY <1>2, <1>5, <1>7, <1>8, <1>9
<1> QED
  BY <1>4, <1>10, <1>11 DEF NoActiveKey

LEMMA NotActive ==
    ASSUME NEW s, IsScanner(s), ~ActiveSimpleKey(s)
    PROVE  NoActiveKey(s)
<1> DEFINE K == s.simpleKeys
           k == Len(K)
<1>1. KeysOpen(s.tokens, s.front, K, s.flows)
  BY ScannerIs, SoundQueue
<1>2. ASSUME s.flows = <<>>, K # <<>> PROVE FALSE
  <2>1. Last(K) = K[k] /\ k \in Nat \ {0}
    BY <1>1, <1>2, InFront DEF KeysOpen
  <2> HIDE DEF k
  <2>2. k \in 1 .. k
    BY <2>1
  <2>3. K[k].flowLevel \in 0 .. Len(s.flows)
    BY <1>1, <2>2 DEF KeysOpen, OpenKey, k
  <2>4. Last(K).flowLevel = Len(s.flows)
    BY <1>2, <2>1, <2>3
  <2> QED
    BY <1>2, <2>4 DEF ActiveSimpleKey, FlowLevel
<1> QED
  BY <1>2 DEF NoActiveKey

LEMMA Invalidated ==
    ASSUME NEW s, IsScanner(s)
    PROVE  /\ Advances(s, InvalidateSimpleKey(s)) /\ NoActiveKey(InvalidateSimpleKey(s))
           /\ InvalidateSimpleKey(s).flows = s.flows /\ InvalidateSimpleKey(s).indents = s.indents
           /\ IF ActiveSimpleKey(s) THEN IsDecided(s, InvalidateSimpleKey(s), "INVALID")
              ELSE InvalidateSimpleKey(s) = s
<1> DEFINE t == InvalidateSimpleKey(s)
<1>1. CASE ActiveSimpleKey(s)
  <2>1. t = Decide(s, Last(s.simpleKeys), "INVALID")
    BY <1>1 DEF InvalidateSimpleKey
  <2>2. IsDecided(s, t, "INVALID")
    BY <2>1, ScannerIs, DecideIs
  <2> HIDE DEF t
  <2>3. Decision("INVALID")
    BY DEF Decision
  <2>4. Advances(s, t) /\ NoActiveKey(t)
    BY <1>1, <2>2, <2>3, Decided
  <2> QED
    BY <1>1, <2>2, <2>4 DEF IsDecided, t
<1>2. CASE ~ActiveSimpleKey(s)
  <2>1. t = s
    BY <1>2 DEF InvalidateSimpleKey
  <2> QED
    BY <1>2, <2>1, NotActive, AdvancesSelf
<1> QED
  BY <1>1, <1>2

LEMMA Verified ==
    ASSUME NEW s, IsScanner(s)
    PROVE  /\ Advances(s, VerifySimpleKey(s)) /\ NoActiveKey(VerifySimpleKey(s))
           /\ VerifySimpleKey(s).flows = s.flows
<1> DEFINE t == VerifySimpleKey(s)
<1>1. CASE IsSimpleKey(s)
  <2>1. t = Decide(s, Last(s.simpleKeys), "VALID")
    BY <1>1 DEF VerifySimpleKey
  <2>2. IsDecided(s, t, "VALID")
    BY <2>1, ScannerIs, DecideIs
  <2> HIDE DEF t
  <2>3. Decision("VALID") /\ ActiveSimpleKey(s)
    BY <1>1 DEF Decision, IsSimpleKey
  <2>4. Advances(s, t) /\ NoActiveKey(t)
    BY <2>2, <2>3, Decided
  <2> QED
    BY <2>2, <2>4 DEF IsDecided, t
<1>2. CASE ~IsSimpleKey(s)
  <2>1. t = InvalidateSimpleKey(s)
    BY <1>2 DEF VerifySimpleKey
  <2> QED
    BY <2>1, Invalidated
<1> QED
  BY <1>1, <1>2

\* A sequence is its length and its elements.
LEMMA SameSequence ==
    ASSUME NEW s, NEW t, IsSequence(s), IsSequence(t), Len(s) = Len(t), \A i \in 1 .. Len(s) : s[i] = t[i]
    PROVE  s = t
<1>1. s = [i \in 1 .. Len(s) |-> s[i]]
  BY DEF IsSequence
<1>2. t = [i \in 1 .. Len(t) |-> t[i]]
  BY DEF IsSequence
<1>3. [i \in 1 .. Len(s) |-> s[i]] = [i \in 1 .. Len(s) |-> t[i]]
  OBVIOUS
<1> QED
  BY <1>1, <1>2, <1>3

\* The sequence s with e at position k.
SetAt(s, k, e) == [s EXCEPT ![k] = e]

LEMMA SetAtIs ==
    ASSUME NEW s, NEW e, NEW k, IsSequence(s)
    PROVE  /\ IsSequence(SetAt(s, k, e)) /\ Len(SetAt(s, k, e)) = Len(s)
           /\ \A i \in 1 .. Len(s) : SetAt(s, k, e)[i] = IF i = k THEN e ELSE s[i]
<1> DEFINE n == Len(s)
           t == SetAt(s, k, e)
<1>1. n \in Nat /\ DOMAIN s = 1 .. n
  BY DEF IsSequence
<1>2. t = [i \in 1 .. n |-> IF i = k THEN e ELSE s[i]]
  BY <1>1 DEF SetAt
<1>3. t = [i \in 1 .. n |-> t[i]]
  BY <1>2
<1>4. \A i \in 1 .. n : t[i] = IF i = k THEN e ELSE s[i]
  BY <1>2
<1> HIDE DEF t
<1>5. IsSequence(t) /\ Len(t) = n
  BY <1>1, <1>3, SequenceOf
<1> QED
  BY <1>4, <1>5 DEF t

LEMMA SetLast ==
    ASSUME NEW T, NEW a, NEW b, IsSequence(T)
    PROVE  SetAt(Append(T, a), Len(T) + 1, b) = Append(T, b)
<1> DEFINE n == Len(T)
           A == Append(T, a)
           B == Append(T, b)
           C == SetAt(A, n + 1, b)
<1>1. /\ IsSequence(A) /\ Len(A) = n + 1 /\ n \in Nat /\ \A i \in 1 .. n : A[i] = T[i]
  BY Appended
<1>2. /\ IsSequence(B) /\ Len(B) = n + 1 /\ B[n + 1] = b /\ \A i \in 1 .. n : B[i] = T[i]
  BY Appended
<1> HIDE DEF A, B
<1>3. /\ IsSequence(C) /\ Len(C) = Len(A)
      /\ \A i \in 1 .. Len(A) : C[i] = IF i = n + 1 THEN b ELSE A[i]
  BY <1>1, SetAtIs
<1> HIDE DEF C, n
<1>4. \A i \in 1 .. (n + 1) : i = n + 1 \/ (i \in 1 .. n /\ i # n + 1)
  BY <1>1
<1>5. \A i \in 1 .. Len(C) : C[i] = B[i]
  BY <1>1, <1>2, <1>3, <1>4
<1>6. C = B
  BY <1>1, <1>2, <1>3, <1>5, SameSequence
<1> QED
  BY <1>6 DEF A, B, C, n

LEMMA SetBeforeLast ==
    ASSUME NEW T, NEW a, NEW b, NEW c, IsSequence(T)
    PROVE  SetAt(Append(Append(T, a), c), Len(T) + 1, b) = Append(Append(T, b), c)
<1> DEFINE n == Len(T)
           A == Append(T, a)
           B == Append(T, b)
           D == Append(A, c)
           E == Append(B, c)
           C == SetAt(D, n + 1, b)
<1>1. /\ IsSequence(A) /\ Len(A) = n + 1 /\ n \in Nat /\ \A i \in 1 .. n : A[i] = T[i]
  BY Appended
<1>2. /\ IsSequence(B) /\ Len(B) = n + 1 /\ B[n + 1] = b /\ \A i \in 1 .. n : B[i] = T[i]
  BY Appended
<1> HIDE DEF A, B, n
<1>3. IsSequence(D) /\ Len(D) = n + 1 + 1 /\ D[n + 1 + 1] = c /\ \A i \in 1 .. (n + 1) : D[i] = A[i]
  BY <1>1, Appended
<1>4. IsSequence(E) /\ Len(E) = n + 1 + 1 /\ E[n + 1 + 1] = c /\ \A i \in 1 .. (n + 1) : E[i] = B[i]
  BY <1>2, Appended
<1> HIDE DEF D, E
<1>5. /\ IsSequence(C) /\ Len(C) = Len(D)
      /\ \A i \in 1 .. Len(D) : C[i] = IF i = n + 1 THEN b ELSE D[i]
  BY <1>3, SetAtIs
<1> HIDE DEF C
<1>6. ASSUME NEW i \in 1 .. Len(C) PROVE C[i] = E[i]
  <2>0. i \in 1 .. (n + 1 + 1)
    BY <1>3, <1>5
  <2>1. CASE i = n + 1
    <3>1. i \in 1 .. (n + 1) /\ i \in 1 .. Len(D)
      BY <1>1, <1>3, <2>1
    <3> QED
      BY <1>2, <1>4, <1>5, <2>1, <3>1
  <2>2. CASE i = n + 1 + 1
    <3>1. i # n + 1 /\ i \in 1 .. Len(D)
      BY <1>1, <1>3, <2>2
    <3> QED
      BY <1>3, <1>4, <1>5, <2>2, <3>1
  <2>3. CASE i \in 1 .. n
    <3>1. i # n + 1 /\ i \in 1 .. Len(D) /\ i \in 1 .. (n + 1)
      BY <1>1, <1>3, <2>3
    <3> QED
      BY <1>1, <1>2, <1>3, <1>4, <1>5, <2>3, <3>1
  <2> QED
    BY <1>1, <2>0, <2>1, <2>2, <2>3
<1>7. C = E
  BY <1>3, <1>4, <1>5, <1>6, SameSequence
<1> QED
  BY <1>7 DEF A, B, C, D, E, n

\* The indent of a block that begins with token.
IsBlockRef(ref, token, start) ==
    /\ DOMAIN ref = {"column", "type", "status", "start"} /\ ref.type \in {"SEQ", "MAP"}
    /\ token.type = BlockStart(ref.type) /\ ref.start = start
    /\ ref.status = "VALID" <=> token.status = "VALID"

\* t is s with the block begun.
BeginsBlock(s, t, token, ref) ==
    /\ DOMAIN t = ScannerFields /\ t.front = s.front /\ t.branch = s.branch /\ t.endedStream = s.endedStream
    /\ t.flows = s.flows /\ t.simpleKeys = s.simpleKeys
    /\ t.tokens = Append(s.tokens, token)
    /\ t.indents = Append(s.indents, Len(s.indentRefs) + 1)
    /\ t.indentRefs = Append(s.indentRefs, ref)

LEMMA BlockBegun ==
    ASSUME NEW s, IsScanner(s), s.flows = <<>>, NEW token, IsToken(token), NEW ref, NEW t,
           IsBlockRef(ref, token, Len(s.tokens) + 1), BeginsBlock(s, t, token, ref)
    PROVE  Advances(s, t)
<1>1. /\ Sound(s.tokens, s.front, s.simpleKeys, <<>>, s.indents, s.indentRefs)
      /\ s.front \in 1 .. (Len(s.tokens) + 1) /\ IsSequence(s.tokens)
  BY ScannerIs, SoundQueue
<1>2. Sound(Append(s.tokens, token), s.front, s.simpleKeys, <<>>, Append(s.indents, Len(s.indentRefs) + 1),
            Append(s.indentRefs, ref))
  BY <1>1, SoundIndent DEF IsBlockRef
<1>3. SameBefore(s.tokens, Append(s.tokens, token), s.front)
  BY <1>1, Appends
<1> QED
  BY <1>2, <1>3 DEF Advances, IsScanner, BeginsBlock

LEMMA IndentPushed ==
    ASSUME NEW s, IsScanner(s), NEW type \in {"SEQ", "MAP"}
    PROVE  /\ Advances(s, PushIndentTo(s, type)) /\ PushIndentTo(s, type).flows = s.flows
           /\ PushIndentTo(s, type).simpleKeys = s.simpleKeys
<1>1. CASE Indents(s, type)
  <2> DEFINE t == PushIndent(s, type)
             token == Token(IF type = "SEQ" THEN "BLOCK_SEQ_START" ELSE "BLOCK_MAP_START")
             ref == [column |-> Column(s.at), type |-> type, status |-> "VALID", start |-> Len(s.tokens) + 1]
  <2>1. DOMAIN s = ScannerFields
    BY ScannerIs
  <2>2. t = [Push(s, token) EXCEPT !.indents = Append(@, Len(s.indentRefs) + 1), !.indentRefs = Append(@, ref)]
    BY Zenon DEF PushIndent
  <2>3. token.status = "VALID" /\ IsToken(token) /\ token.type = BlockStart(type)
    BY Tokens DEF BlockStart
  <2>4. IsBlockRef(ref, token, Len(s.tokens) + 1)
    BY <2>3 DEF IsBlockRef
  <2> HIDE DEF token, ref, t
  <2>5. BeginsBlock(s, t, token, ref)
    BY <2>1, <2>2 DEF BeginsBlock, Push, ScannerFields
  <2>6. s.flows = <<>>
    BY <1>1 DEF Indents, InBlockContext
  <2>7. Advances(s, t)
    BY <2>3, <2>4, <2>5, <2>6, BlockBegun
  <2>8. PushIndentTo(s, type) = t
    BY <1>1 DEF PushIndentTo, t
  <2> QED
    BY <2>5, <2>7, <2>8 DEF BeginsBlock
<1>2. CASE ~Indents(s, type)
  BY <1>2, AdvancesSelf DEF PushIndentTo
<1> QED
  BY <1>1, <1>2

\* v is u with the key opened.
OpensKey(u, v, key) ==
    /\ DOMAIN v = ScannerFields /\ v.front = u.front /\ v.branch = u.branch /\ v.endedStream = u.endedStream
    /\ v.flows = u.flows /\ v.indents = u.indents /\ v.indentRefs = u.indentRefs
    /\ v.tokens = Append(u.tokens, Unverified("KEY"))
    /\ v.simpleKeys = Append(u.simpleKeys, key)

LEMMA KeyOpened ==
    ASSUME NEW u, IsScanner(u), ~ActiveSimpleKey(u), NEW key,
           NewKey(u.tokens, u.front, u.flows, u.indents, u.indentRefs, key), NEW v, OpensKey(u, v, key)
    PROVE  Advances(u, v)
<1> DEFINE token == Unverified("KEY")
<1>1. /\ Sound(u.tokens, u.front, u.simpleKeys, u.flows, u.indents, u.indentRefs)
      /\ u.front \in 1 .. (Len(u.tokens) + 1) /\ IsSequence(u.tokens)
  BY ScannerIs, SoundQueue
<1>2. IsToken(token) /\ token.status = "UNVERIFIED" /\ token.type = "KEY"
  BY Tokens
<1>3. u.simpleKeys # <<>> => Last(u.simpleKeys).flowLevel # Len(u.flows)
  BY DEF ActiveSimpleKey, FlowLevel
<1> HIDE DEF token
<1>4. Sound(Append(u.tokens, token), u.front, Append(u.simpleKeys, key), u.flows, u.indents, u.indentRefs)
  BY <1>1, <1>2, <1>3, SoundKey
<1>5. SameBefore(u.tokens, Append(u.tokens, token), u.front)
  BY <1>1, Appends
<1> QED
  BY <1>4, <1>5 DEF Advances, IsScanner, OpensKey, token

\* A key that is to begin a block, behind the start of the block.
LEMMA BlockKeyInserted ==
    ASSUME NEW s, IsScanner(s), s.simpleKeyAllowed, ~ActiveSimpleKey(s), Indents(s, "MAP")
    PROVE  Advances(s, InsertPotentialSimpleKey(s)) /\ InsertPotentialSimpleKey(s).flows = s.flows
<1> DEFINE T == s.tokens
           I == s.indents
           R == s.indentRefs
           start == Token("BLOCK_MAP_START")
           ref == [column |-> Column(s.at), type |-> "MAP", status |-> "VALID", start |-> Len(T) + 1]
           unknown == [column |-> Column(s.at), type |-> "MAP", status |-> "UNKNOWN", start |-> Len(T) + 1]
           t == PushIndent(s, "MAP")
           n == Len(t.tokens)
           l == Len(t.indentRefs)
           key == [at |-> s.at, flowLevel |-> FlowLevel(s), token |-> n + 1, mapStart |-> n, indent |-> l]
           u == [s EXCEPT !.tokens = Append(@, Unverified("BLOCK_MAP_START")),
                          !.indents = Append(@, Len(R) + 1), !.indentRefs = Append(@, unknown)]
           v == InsertPotentialSimpleKey(s)
           begun == Unverified("BLOCK_MAP_START")
<1>1. DOMAIN s = ScannerFields /\ s.flows = <<>> /\ s.front \in 1 .. (Len(T) + 1)
  BY ScannerIs DEF Indents, InBlockContext
<1>2. IsSequence(T) /\ IsSequence(I) /\ IsSequence(R)
  BY ScannerIs, SoundQueue DEF Indented
<1>3. t = [Push(s, start) EXCEPT !.indents = Append(@, Len(R) + 1), !.indentRefs = Append(@, ref)]
  BY Zenon DEF PushIndent
<1>4. PushIndentTo(s, "MAP") = t
  BY DEF PushIndentTo
<1> HIDE DEF start, ref, t
<1>5. /\ DOMAIN t = ScannerFields /\ t.front = s.front /\ t.branch = s.branch /\ t.endedStream = s.endedStream
      /\ t.flows = s.flows /\ t.simpleKeys = s.simpleKeys
      /\ t.tokens = Append(T, start) /\ t.indents = Append(I, Len(R) + 1) /\ t.indentRefs = Append(R, ref)
  BY <1>1, <1>3 DEF Push, ScannerFields
<1>6. n = Len(T) + 1 /\ l = Len(R) + 1 /\ t.tokens[n] = start /\ t.indentRefs[l] = ref
      /\ Len(T) \in Nat /\ Len(R) \in Nat /\ Len(I) \in Nat
  BY <1>2, <1>5, Appended
<1>7. v = [Push(t, Unverified("KEY")) EXCEPT
                !.tokens = [@ EXCEPT ![n].status = "UNVERIFIED"],
                !.indentRefs = [@ EXCEPT ![Len(@)].status = "UNKNOWN"],
                !.simpleKeys = Append(@, key)]
  BY <1>4 DEF InsertPotentialSimpleKey
<1> HIDE DEF v, key
<1>8. /\ DOMAIN v = ScannerFields /\ v.front = t.front /\ v.branch = t.branch /\ v.endedStream = t.endedStream
      /\ v.flows = t.flows /\ v.indents = t.indents /\ v.simpleKeys = Append(t.simpleKeys, key)
  BY <1>5, <1>7 DEF Push, ScannerFields
<1>9. v.tokens = [Append(t.tokens, Unverified("KEY")) EXCEPT ![n].status = "UNVERIFIED"]
  BY <1>5, <1>7 DEF Push, ScannerFields
<1>10. v.indentRefs = [t.indentRefs EXCEPT ![l].status = "UNKNOWN"]
  BY <1>5, <1>7 DEF Push, ScannerFields
<1>11. v.tokens = Append(Append(T, begun), Unverified("KEY"))
  <2> DEFINE A == Append(t.tokens, Unverified("KEY"))
  <2>1. A[n] = start
    <3>1. /\ IsSequence(t.tokens) /\ n \in 1 .. n
      BY <1>2, <1>5, <1>6, Appended
    <3>2. A[n] = t.tokens[n]
      BY <3>1, Appended
    <3> QED
      BY <1>6, <3>2
  <2>2. [start EXCEPT !.status = "UNVERIFIED"] = begun
    BY DEF start, Token, Unverified
  <2> HIDE DEF A, begun, n
  <2>3. v.tokens = SetAt(A, n, begun)
    BY <1>9, <2>1, <2>2 DEF SetAt, A
  <2> QED
    BY <1>2, <1>5, <1>6, <2>3, SetBeforeLast DEF A
<1>12. v.indentRefs = Append(R, unknown)
  <2>1. [ref EXCEPT !.status = "UNKNOWN"] = unknown
    BY DEF ref
  <2> HIDE DEF unknown, l
  <2>2. v.indentRefs = SetAt(t.indentRefs, l, unknown)
    BY <1>6, <1>10, <2>1 DEF SetAt
  <2> QED
    BY <1>2, <1>5, <1>6, <2>2, SetLast
<1>13. IsToken(begun) /\ begun.type = "BLOCK_MAP_START" /\ begun.status = "UNVERIFIED"
  BY Tokens
<1>14. IsBlockRef(unknown, begun, Len(T) + 1)
  BY <1>13 DEF IsBlockRef, BlockStart
<1>15. unknown.start = Len(T) + 1 /\ unknown.status = "UNKNOWN"
  OBVIOUS
<1> HIDE DEF begun, unknown
<1>16. BeginsBlock(s, u, begun, unknown)
  BY <1>1 DEF BeginsBlock, ScannerFields, begun
<1> HIDE DEF u
<1>17. Advances(s, u)
  BY <1>1, <1>13, <1>14, <1>16, BlockBegun
<1>18. IsScanner(u) /\ ~ActiveSimpleKey(u)
  BY <1>16, <1>17 DEF Advances, ActiveSimpleKey, FlowLevel, BeginsBlock
<1>19. OpensKey(u, v, key)
  BY <1>5, <1>8, <1>11, <1>12, <1>16 DEF OpensKey, BeginsBlock
<1>20. NewKey(u.tokens, u.front, u.flows, u.indents, u.indentRefs, key)
  <2>1. /\ u.tokens = Append(T, begun) /\ u.indents = Append(I, Len(R) + 1) /\ u.indentRefs = Append(R, unknown)
        /\ u.flows = <<>> /\ u.front = s.front
    BY <1>1, <1>16 DEF BeginsBlock
  <2>2. /\ Len(u.tokens) = n /\ u.tokens[n] = begun /\ Len(u.indentRefs) = l /\ u.indentRefs[l] = unknown
        /\ Len(u.indents) = Len(I) + 1 /\ u.indents[Len(I) + 1] = l
    BY <1>2, <1>6, <2>1, Appended
  <2>3. key.flowLevel = Len(u.flows) /\ key.token = n + 1 /\ key.mapStart = n /\ key.indent = l
    BY <1>1, <2>1 DEF key, FlowLevel
  <2>4. n \in s.front .. n
    BY <1>1, <1>6
  <2>5. Len(I) + 1 \in 1 .. Len(u.indents)
    BY <1>6, <2>2
  <2> HIDE DEF n, l
  <2>6. Undecided(u.tokens, u.front, n, "BLOCK_MAP_START")
    BY <1>13, <2>1, <2>2, <2>4 DEF Undecided
  <2>7. unknown.start = n /\ unknown.status # "VALID"
    BY <1>6, <1>15
  <2>8. \E i \in 1 .. Len(u.indents) : u.indents[i] = l
    BY <2>2, <2>5
  <2> QED
    BY <2>1, <2>2, <2>3, <2>6, <2>7, <2>8 DEF NewKey
<1>21. Advances(u, v)
  BY <1>18, <1>19, <1>20, KeyOpened
<1>22. Advances(s, v)
  BY <1>17, <1>21, AdvancesTwice
<1> QED
  BY <1>5, <1>8, <1>22 DEF v

LEMMA KeyInserted ==
    ASSUME NEW s, IsScanner(s)
    PROVE  Advances(s, InsertPotentialSimpleKey(s)) /\ InsertPotentialSimpleKey(s).flows = s.flows
<1>1. CASE ~s.simpleKeyAllowed \/ ActiveSimpleKey(s)
  BY <1>1, AdvancesSelf DEF InsertPotentialSimpleKey
<1>2. CASE ~(~s.simpleKeyAllowed \/ ActiveSimpleKey(s)) /\ Indents(s, "MAP")
  BY <1>2, BlockKeyInserted
<1>3. CASE ~(~s.simpleKeyAllowed \/ ActiveSimpleKey(s)) /\ ~Indents(s, "MAP")
  <2> DEFINE n == Len(s.tokens)
             key == [at |-> s.at, flowLevel |-> FlowLevel(s), token |-> n + 1, mapStart |-> 0, indent |-> 0]
             v == InsertPotentialSimpleKey(s)
  <2>1. PushIndentTo(s, "MAP") = s
    BY <1>3 DEF PushIndentTo
  <2>2. v = [Push(s, Unverified("KEY")) EXCEPT
                !.tokens = @, !.indentRefs = @, !.simpleKeys = Append(@, key)]
    BY <1>3, <2>1 DEF InsertPotentialSimpleKey
  <2>3. key.flowLevel = Len(s.flows) /\ key.token = n + 1 /\ key.mapStart = 0 /\ key.indent = 0
    BY DEF FlowLevel
  <2> HIDE DEF v, key
  <2>4. OpensKey(s, v, key)
    <3>1. DOMAIN s = ScannerFields
      BY ScannerIs
    <3> QED
      BY <2>2, <3>1 DEF OpensKey, Push, ScannerFields
  <2>5. NewKey(s.tokens, s.front, s.flows, s.indents, s.indentRefs, key)
    BY <2>3 DEF NewKey
  <2>6. Advances(s, v)
    BY <1>3, <2>4, <2>5, KeyOpened
  <2> QED
    BY <2>4, <2>6 DEF OpensKey, v
<1> QED
  BY <1>1, <1>2, <1>3

\* The last indent is valid: no key is to begin it.
LEMMA ValidNotOfKey ==
    ASSUME NEW T, NEW front, NEW K, NEW F, NEW I, NEW R, Sound(T, front, K, F, I, R), R[Last(I)].status = "VALID"
    PROVE  NotOfKey(K, I)
BY DEF Sound, Nested, CanBegin, NotOfKey

LEMMA InvalidIndentPopped ==
    ASSUME NEW s, IsScanner(s), s.flows = <<>>, s.indents # <<>>, TopIndent(s).status # "VALID"
    PROVE  Advances(s, PopIndent(s)) /\ PopIndent(s).flows = <<>>
<1> DEFINE t == [s EXCEPT !.indents = Front(@)]
           u == InvalidateSimpleKey(s)
           v == InvalidateSimpleKey(t)
           top == Last(s.indents)
<1>1. DOMAIN s = ScannerFields /\ Indented(s.tokens, s.indents, s.indentRefs)
  BY ScannerIs, SoundQueue
<1>2. PopIndent(s) = v
  BY DEF PopIndent
<1>3. /\ DOMAIN t = ScannerFields /\ t.tokens = s.tokens /\ t.front = s.front /\ t.branch = s.branch
      /\ t.endedStream = s.endedStream /\ t.simpleKeys = s.simpleKeys /\ t.indentRefs = s.indentRefs
      /\ t.flows = s.flows /\ t.indents = Front(s.indents)
  BY <1>1 DEF ScannerFields
<1>4. /\ Advances(s, u) /\ NoActiveKey(u) /\ u.flows = <<>> /\ u.indents = s.indents
      /\ IF ActiveSimpleKey(s) THEN IsDecided(s, u, "INVALID") ELSE u = s
  BY Invalidated
<1>5. ActiveSimpleKey(t) <=> ActiveSimpleKey(s)
  BY <1>3 DEF ActiveSimpleKey, FlowLevel
<1>6. IF ActiveSimpleKey(s) THEN IsDecided(t, v, "INVALID") ELSE v = t
  <2>1. IF ActiveSimpleKey(t) THEN v = Decide(t, Last(t.simpleKeys), "INVALID") ELSE v = t
    BY DEF InvalidateSimpleKey
  <2> HIDE DEF t
  <2>2. IsDecided(t, Decide(t, Last(t.simpleKeys), "INVALID"), "INVALID")
    BY <1>3, DecideIs
  <2> QED
    BY <1>5, <2>1, <2>2
<1> HIDE DEF t, u, v
<1>7. /\ DOMAIN v = ScannerFields /\ v.tokens = u.tokens /\ v.front = u.front /\ v.branch = u.branch
      /\ v.endedStream = u.endedStream /\ v.simpleKeys = u.simpleKeys /\ v.indentRefs = u.indentRefs
      /\ v.flows = u.flows /\ v.indents = Front(u.indents)
  <2>1. CASE ActiveSimpleKey(s)
    BY <1>3, <1>4, <1>6, <2>1 DEF IsDecided
  <2>2. CASE ~ActiveSimpleKey(s)
    BY <1>3, <1>4, <1>6, <2>2
  <2> QED
    BY <2>1, <2>2
<1>8. u.indentRefs[top].status # "VALID"
  <2>1. s.indentRefs[top].status # "VALID" /\ top \in 1 .. Len(s.indentRefs)
    BY <1>1, IndentsInFront DEF TopIndent
  <2>2. CASE ActiveSimpleKey(s)
    <3> DEFINE key == Last(s.simpleKeys)
    <3>1. Decision("INVALID")
      BY DEF Decision
    <3>2. DecidesIndent(DecidedRefs(s.indentRefs, key, "INVALID"), s.indentRefs, key.indent, "INVALID")
      BY <1>1, <3>1, RefsDecided
    <3>3. u.indentRefs = DecidedRefs(s.indentRefs, key, "INVALID")
      BY <1>4, <2>2 DEF IsDecided
    <3> QED
      BY <2>1, <3>2, <3>3 DEF DecidesIndent
  <2>3. CASE ~ActiveSimpleKey(s)
    BY <1>4, <2>1, <2>3
  <2> QED
    BY <2>2, <2>3
<1>9. u.simpleKeys = <<>>
  BY <1>4 DEF NoActiveKey
<1>10. NotOfKey(<<>>, s.indents)
  <2>1. Len(<<>>) = 0 /\ \A i : i \notin 1 .. 0
    OBVIOUS
  <2> QED
    BY <2>1 DEF NotOfKey
<1>11. Sound(u.tokens, u.front, u.simpleKeys, u.flows, s.indents, u.indentRefs)
  BY <1>4, ScannerIs DEF Advances
<1>12. Sound(u.tokens, u.front, u.simpleKeys, u.flows, Front(s.indents), u.indentRefs)
  BY <1>8, <1>9, <1>10, <1>11, SoundDropIndent
<1> QED
  BY <1>2, <1>4, <1>7, <1>12 DEF Advances, IsScanner

LEMMA IndentPopped ==
    ASSUME NEW s, IsScanner(s), s.flows = <<>>, s.indents # <<>>
    PROVE  Advances(s, PopIndent(s)) /\ PopIndent(s).flows = <<>>
<1> DEFINE t == [s EXCEPT !.indents = Front(@)]
           top == TopIndent(s)
           token == Token(BlockEnd(top.type))
<1>1. /\ DOMAIN s = ScannerFields /\ Indented(s.tokens, s.indents, s.indentRefs) /\ IsSequence(s.tokens)
      /\ Sound(s.tokens, s.front, s.simpleKeys, <<>>, s.indents, s.indentRefs)
      /\ Len(s.tokens) \in Nat /\ s.front \in 1 .. (Len(s.tokens) + 1)
  BY ScannerIs, SoundQueue
<1>2. /\ DOMAIN t = ScannerFields /\ t.tokens = s.tokens /\ t.front = s.front /\ t.branch = s.branch
      /\ t.endedStream = s.endedStream /\ t.simpleKeys = s.simpleKeys /\ t.indentRefs = s.indentRefs
      /\ t.flows = s.flows /\ t.indents = Front(s.indents)
  BY <1>1 DEF ScannerFields
<1>3. top.type \in {"SEQ", "MAP", "NONE"}
  <2>1. Last(s.indents) \in 1 .. Len(s.indentRefs)
    BY <1>1, IndentsInFront
  <2>2. IsIndent(s.tokens, s.indentRefs[Last(s.indents)])
    BY <1>1, <2>1 DEF Indented
  <2> QED
    BY <2>2 DEF IsIndent, TopIndent
<1>4. CASE top.status # "VALID"
  BY <1>4, InvalidIndentPopped
<1>5. CASE top.status = "VALID" /\ top.type \in {"SEQ", "MAP"}
  <2> DEFINE v == Push(t, token)
  <2>1. PopIndent(s) = v
    BY <1>5 DEF PopIndent, BlockEnd
  <2>2. IsToken(token) /\ token.status = "VALID" /\ token.type = BlockEnd(s.indentRefs[Last(s.indents)].type)
    BY Tokens DEF TopIndent
  <2> HIDE DEF t, token
  <2>3. /\ DOMAIN v = ScannerFields /\ v.tokens = Append(s.tokens, token) /\ v.front = s.front
        /\ v.branch = s.branch /\ v.endedStream = s.endedStream /\ v.simpleKeys = s.simpleKeys
        /\ v.indentRefs = s.indentRefs /\ v.flows = <<>> /\ v.indents = Front(s.indents)
    BY <1>2 DEF Push, ScannerFields
  <2>4. Sound(Append(s.tokens, token), s.front, s.simpleKeys, <<>>, Front(s.indents), s.indentRefs)
    BY <1>1, <1>5, <2>2, SoundPop DEF TopIndent
  <2>5. SameBefore(s.tokens, Append(s.tokens, token), s.front)
    BY <1>1, Appends
  <2> QED
    BY <2>1, <2>3, <2>4, <2>5 DEF Advances, IsScanner
<1>6. CASE top.status = "VALID" /\ top.type = "NONE"
  <2>1. PopIndent(s) = t
    BY <1>6 DEF PopIndent
  <2> HIDE DEF t
  <2>2. NotOfKey(s.simpleKeys, s.indents)
    BY <1>1, <1>6, ValidNotOfKey DEF TopIndent
  <2>3. Sound(s.tokens, s.front, s.simpleKeys, <<>>, Front(s.indents), s.indentRefs)
    BY <1>1, <1>6, <2>2, SoundDropIndent DEF TopIndent
  <2>4. SameBefore(s.tokens, s.tokens, s.front)
    BY <1>1 DEF SameBefore
  <2> QED
    BY <1>2, <2>1, <2>3, <2>4 DEF Advances, IsScanner
<1> QED
  BY <1>3, <1>4, <1>5, <1>6

-----------------------------------------------------------------------------
(* The handlers                                                            *)

LEMMA Soloed ==
    ASSUME NEW s, IsScanner(s)
    PROVE  /\ Advances(s, SoloEntry(s)) /\ SoloEntry(s).flows = s.flows
           /\ s.flows # <<>> => ~ActiveSimpleKey(SoloEntry(s))
<1> DEFINE t == VerifySimpleKey(s)
           u == Push(t, Token("VALUE"))
<1>1. CASE s.flows = <<>>
  BY <1>1, AdvancesSelf DEF SoloEntry, InBlockContext
<1>2. CASE s.flows # <<>> /\ Last(s.flows) = "FLOW_SEQ"
  <2>1. SoloEntry(s) = InvalidateSimpleKey(s)
    BY <1>2 DEF SoloEntry, InBlockContext
  <2> QED
    BY <2>1, Invalidated DEF NoActiveKey
<1>3. CASE s.flows # <<>> /\ Last(s.flows) # "FLOW_SEQ"
  <2>1. SoloEntry(s) = IF IsSimpleKey(s) THEN u ELSE t
    BY <1>3 DEF SoloEntry, InBlockContext
  <2>2. Advances(s, t) /\ NoActiveKey(t) /\ t.flows = s.flows
    BY Verified
  <2> HIDE DEF t
  <2>3. IsScanner(t)
    BY <2>2 DEF Advances
  <2>4. IsToken(Token("VALUE")) /\ Token("VALUE").type \notin StartTypes \cup EndTypes
    BY Tokens DEF StartTypes, EndTypes
  <2>5. Advances(t, u) /\ u.flows = t.flows /\ u.simpleKeys = t.simpleKeys
    BY <2>3, <2>4, PushNeutral
  <2> HIDE DEF u
  <2>6. Advances(s, u)
    BY <2>2, <2>5, AdvancesTwice
  <2>7. ~ActiveSimpleKey(u) /\ ~ActiveSimpleKey(t)
    BY <2>2, <2>5 DEF NoActiveKey, ActiveSimpleKey, FlowLevel
  <2> QED
    BY <2>1, <2>2, <2>5, <2>6, <2>7
<1> QED
  BY <1>1, <1>2, <1>3

\* The steps that only read on, queue a neutral token or fail.
LEMMA ReadsOn ==
    ASSUME NEW s, NEW t, Advances(s, t), IsScanner(s)
    PROVE  /\ \A n : Advances(s, Eat(t, n))
           /\ \A key, json : Advances(s, Allow(t, key, json))
           /\ \A what : Advances(s, Throw(t, what))
           /\ \A a : Advances(s, [t EXCEPT !.simpleKeyAllowed = a])
           /\ \A n : Advances(s, [t EXCEPT !.at = n])
<1>1. DOMAIN t = ScannerFields
  BY ScannerIs DEF Advances
<1> QED
  BY <1>1, Altered, AdvancesAltered

\* The tokens that neither start nor end anything and are valid.
Neutral == {"DIRECTIVE", "DOC_START", "DOC_END", "FLOW_ENTRY", "BLOCK_ENTRY", "KEY", "VALUE", "ALIAS",
            "ANCHOR", "TAG", "PLAIN_SCALAR", "NON_PLAIN_SCALAR"}

LEMMA QueuesNeutral ==
    ASSUME NEW s, NEW t, Advances(s, t), IsScanner(s)
    PROVE  /\ \A type \in Neutral : Advances(s, Push(t, Token(type)))
           /\ \A type \in Neutral : \A v : Advances(s, Push(t, ValueToken(type, v)))
<1>1. IsScanner(t)
  BY DEF Advances
<1>2. ASSUME NEW type \in Neutral PROVE type \notin StartTypes \cup EndTypes
  BY DEF Neutral, StartTypes, EndTypes
<1>3. ASSUME NEW type \in Neutral PROVE Advances(s, Push(t, Token(type)))
  <2>1. IsToken(Token(type)) /\ Token(type).type \notin StartTypes \cup EndTypes
    BY <1>2, Tokens
  <2>2. Advances(t, Push(t, Token(type)))
    BY <1>1, <2>1, PushNeutral
  <2> QED
    BY <2>2, AdvancesTwice
<1>4. ASSUME NEW type \in Neutral, NEW v PROVE Advances(s, Push(t, ValueToken(type, v)))
  <2>1. IsToken(ValueToken(type, v)) /\ ValueToken(type, v).type \notin StartTypes \cup EndTypes
    BY <1>2, Tokens
  <2>2. Advances(t, Push(t, ValueToken(type, v)))
    BY <1>1, <2>1, PushNeutral
  <2> QED
    BY <2>2, AdvancesTwice
<1> QED
  BY <1>3, <1>4

LEMMA ScalarRead ==
    ASSUME NEW s, NEW t, Advances(s, t), IsScanner(s), NEW type \in Neutral, NEW read, NEW key, NEW json
    PROVE  Advances(s, ReadScalar(t, type, read, key, json))
<1> DEFINE u == Allow(t, key, json)
           v == Push(u, ValueToken(type, read.scalar))
<1>1. Advances(s, u)
  BY ReadsOn
<1>2. Advances(s, v)
  <2> HIDE DEF u
  <2> QED
    BY <1>1, QueuesNeutral
<1>3. ReadScalar(t, type, read, key, json) =
        IF read.error # "none" THEN Throw(t, read.error) ELSE [v EXCEPT !.at = read.at]
  BY DEF ReadScalar
<1> HIDE DEF v
<1>4. Advances(s, [v EXCEPT !.at = read.at]) /\ Advances(s, Throw(t, read.error))
  BY <1>2, ReadsOn
<1> QED
  BY <1>3, <1>4, Zenon

\* The branch for the characters is one of a handler.
HandledBranches ==
    {"EndStream", "Directive", "DocStart", "DocEnd", "FlowStart", "FlowEnd", "FlowEntry", "BlockEntry",
     "Key", "Value", "AnchorOrAlias", "Tag", "BlockScalar", "QuotedScalar", "PlainScalar", "Unknown"}

LEMMA BranchIs ==
    ASSUME NEW s
    PROVE  Branch(s) \in HandledBranches
<1> DEFINE B == Branches(s)
           D == {n \in DOMAIN B : B[n][2]}
<1>1. DOMAIN B = 1 .. 16 /\ B[16][2] = TRUE /\ \A n \in 1 .. 16 : B[n][1] \in HandledBranches
  BY DEF Branches, HandledBranches
<1> HIDE DEF B
<1>2. D \in SUBSET Nat /\ 16 \in D
  BY <1>1
<1>3. Min(D) \in D
  BY <1>2, MinIs
<1>4. Min(D) \in 1 .. 16
  BY <1>1, <1>3
<1>5. Branch(s) = B[Min(D)][1]
  BY Zenon DEF Branch, B
<1> HIDE DEF D
<1> QED
  BY <1>1, <1>4, <1>5

\* A step of the scanner, from s to t.
Keeps(s, t) == IsScanner(t) /\ StartedAndEnded(t) /\ SameBefore(s.tokens, t.tokens, s.front)

LEMMA Scanned ==
    ASSUME ScannerInv, NEW b \in HandledBranches, NEW u, Advances(scanner, u), Scan(b, u)
    PROVE  Keeps(scanner, scanner')
<1> DEFINE t == [u EXCEPT !.branch = "none"]
<1>1. scanner' = t /\ scanner.branch = b
  BY DEF Scan
<1>2. DOMAIN u = ScannerFields /\ IsScanner(u)
  BY ScannerIs DEF Advances
<1>3. /\ DOMAIN t = ScannerFields /\ t.tokens = u.tokens /\ t.front = u.front /\ t.branch = "none"
      /\ t.endedStream = u.endedStream /\ t.simpleKeys = u.simpleKeys /\ t.indents = u.indents
      /\ t.indentRefs = u.indentRefs /\ t.flows = u.flows
  BY <1>2 DEF ScannerFields
<1> HIDE DEF t
<1>4. IsScanner(t)
  BY <1>2, <1>3 DEF IsScanner
<1>5. ~scanner.endedStream
  BY <1>1 DEF ScannerInv, StartedAndEnded, HandledBranches
<1>6. StartedAndEnded(t)
  BY <1>3, <1>5 DEF StartedAndEnded, Advances
<1> QED
  BY <1>1, <1>3, <1>4, <1>6 DEF Keeps, Advances

LEMMA FromScanner ==
    ASSUME ScannerInv
    PROVE  IsScanner(scanner) /\ Advances(scanner, scanner)
BY AdvancesSelf DEF ScannerInv

\* The keys are dropped at the end of the document.
LEMMA KeysDropped ==
    ASSUME ScannerInv
    PROVE  /\ Advances(scanner, PopAllSimpleKeys(scanner)) /\ Advances(scanner, DocumentEnded)
<1> DEFINE t == PopAllSimpleKeys(scanner)
<1>1. IsScanner(scanner) /\ DOMAIN scanner = ScannerFields
  BY ScannerIs DEF ScannerInv
<1>2. /\ DOMAIN t = ScannerFields /\ t.tokens = scanner.tokens /\ t.front = scanner.front
      /\ t.branch = scanner.branch /\ t.endedStream = scanner.endedStream /\ t.simpleKeys = <<>>
      /\ t.indents = scanner.indents /\ t.indentRefs = scanner.indentRefs /\ t.flows = scanner.flows
  BY <1>1 DEF PopAllSimpleKeys, ScannerFields
<1> HIDE DEF t
<1>3. Sound(t.tokens, t.front, t.simpleKeys, t.flows, t.indents, t.indentRefs)
  BY <1>1, <1>2, SoundDropKeys DEF IsScanner
<1>4. SameBefore(scanner.tokens, t.tokens, scanner.front)
  BY <1>1, <1>2, ScannerIs DEF SameBefore
<1>5. Advances(scanner, t)
  BY <1>2, <1>3, <1>4 DEF Advances, IsScanner
<1>6. Advances(scanner, Allow(t, FALSE, FALSE))
  BY <1>1, <1>5, ReadsOn
<1> QED
  BY <1>5, <1>6 DEF DocumentEnded, t

\* A token that may begin a key.
LEMMA KeyBegun ==
    ASSUME ScannerInv
    PROVE  /\ Advances(scanner, InsertPotentialSimpleKey(scanner))
           /\ \A key, json : Advances(scanner, Allow(InsertPotentialSimpleKey(scanner), key, json))
BY FromScanner, KeyInserted, ReadsOn

LEMMA DocumentMarks ==
    ASSUME ScannerInv, ScanDirective \/ ScanDocStart \/ ScanDocEnd
    PROVE  Keeps(scanner, scanner')
<1>1. IsScanner(scanner) /\ Advances(scanner, DocumentEnded)
  BY FromScanner, KeysDropped
<1>2. CASE ScanDirective
  <2> DEFINE end    == Min({j \in From(scanner.at + 1) : Ends(j)})
             params == Parameters(end)
             value  == [name |-> SubSeq(text, scanner.at + 1, end - 1), params |-> params.list]
             t      == Push(DocumentEnded, ValueToken("DIRECTIVE", value))
             u      == [t EXCEPT !.at = params.at]
  <2>1. Scan("Directive", u)
    BY <1>2, Zenon DEF ScanDirective
  <2> HIDE DEF value, params
  <2>2. Advances(scanner, t)
    BY <1>1, QueuesNeutral DEF Neutral
  <2> HIDE DEF t
  <2>3. Advances(scanner, u)
    BY <1>1, <2>2, ReadsOn
  <2> HIDE DEF u
  <2> QED
    BY <2>1, <2>3, Scanned DEF HandledBranches
<1>3. CASE ScanDocStart
  <2> DEFINE t == Push(DocumentEnded, Token("DOC_START"))
  <2>1. Advances(scanner, t)
    BY <1>1, QueuesNeutral DEF Neutral
  <2>2. Advances(scanner, Eat(t, 3))
    BY <1>1, <2>1, ReadsOn
  <2> QED
    BY <1>3, <2>2, Scanned DEF HandledBranches, ScanDocStart
<1>4. CASE ScanDocEnd
  <2> DEFINE t == Push(DocumentEnded, Token("DOC_END"))
  <2>1. Advances(scanner, t)
    BY <1>1, QueuesNeutral DEF Neutral
  <2>2. Advances(scanner, Eat(t, 3))
    BY <1>1, <2>1, ReadsOn
  <2> QED
    BY <1>4, <2>2, Scanned DEF HandledBranches, ScanDocEnd
<1> QED
  BY <1>2, <1>3, <1>4

LEMMA Scalars ==
    ASSUME ScannerInv, ScanPlainScalar \/ ScanQuotedScalar \/ ScanBlockScalar
    PROVE  Keeps(scanner, scanner')
<1>1. /\ IsScanner(scanner) /\ Advances(scanner, scanner) /\ Advances(scanner, InsertPotentialSimpleKey(scanner))
  BY FromScanner, KeyBegun
<1>2. ASSUME NEW t, Advances(scanner, t), NEW read, NEW key, NEW json
      PROVE  /\ Advances(scanner, ReadScalar(t, "PLAIN_SCALAR", read, key, json))
             /\ Advances(scanner, ReadScalar(t, "NON_PLAIN_SCALAR", read, key, json))
  <2>1. "PLAIN_SCALAR" \in Neutral /\ "NON_PLAIN_SCALAR" \in Neutral
    BY DEF Neutral
  <2> QED
    BY <1>1, <1>2, <2>1, ScalarRead
<1>3. CASE ScanPlainScalar
  <2>1. PICK read : Scan("PlainScalar", ReadScalar(InsertPotentialSimpleKey(scanner), "PLAIN_SCALAR", read,
                                                   read.leadingSpaces, FALSE))
    BY <1>3, Zenon DEF ScanPlainScalar
  <2> DEFINE u == ReadScalar(InsertPotentialSimpleKey(scanner), "PLAIN_SCALAR", read, read.leadingSpaces, FALSE)
  <2>2. Advances(scanner, u)
    BY <1>1, <1>2
  <2> HIDE DEF u
  <2> QED
    BY <2>1, <2>2, Scanned DEF HandledBranches, u
<1>4. CASE ScanQuotedScalar
  <2>1. PICK read : Scan("QuotedScalar", ReadScalar(InsertPotentialSimpleKey(scanner), "NON_PLAIN_SCALAR", read,
                                                    FALSE, TRUE))
    BY <1>4, Zenon DEF ScanQuotedScalar
  <2> DEFINE u == ReadScalar(InsertPotentialSimpleKey(scanner), "NON_PLAIN_SCALAR", read, FALSE, TRUE)
  <2>2. Advances(scanner, u)
    BY <1>1, <1>2
  <2>3. Scan("QuotedScalar", u)
    BY <2>1, Zenon
  <2>4. "QuotedScalar" \in HandledBranches
    BY DEF HandledBranches
  <2> HIDE DEF u
  <2> QED
    BY <2>2, <2>3, <2>4, Scanned
<1>5. CASE ScanBlockScalar
  <2>1. PICK chomp, line, read :
          Scan("BlockScalar",
               IF Contains(chomp, "0") THEN Throw(scanner, "ZERO_INDENT_IN_BLOCK")
               ELSE IF More(line) /\ ~BreakAt(line) THEN Throw(scanner, "CHAR_IN_BLOCK")
               ELSE ReadScalar(scanner, "NON_PLAIN_SCALAR", read, TRUE, FALSE))
    BY <1>5, Zenon DEF ScanBlockScalar
  <2> DEFINE a == Throw(scanner, "ZERO_INDENT_IN_BLOCK")
             b == Throw(scanner, "CHAR_IN_BLOCK")
             c == ReadScalar(scanner, "NON_PLAIN_SCALAR", read, TRUE, FALSE)
             u == IF Contains(chomp, "0") THEN a ELSE IF More(line) /\ ~BreakAt(line) THEN b ELSE c
  <2>2. Advances(scanner, a) /\ Advances(scanner, b) /\ Advances(scanner, c)
    BY <1>1, <1>2, ReadsOn
  <2>3. Scan("BlockScalar", u)
    BY <2>1
  <2> HIDE DEF a, b, c
  <2>4. Advances(scanner, u)
    BY <2>2, Zenon
  <2> HIDE DEF u
  <2> QED
    BY <2>3, <2>4, Scanned DEF HandledBranches
<1> QED
  BY <1>3, <1>4, <1>5

LEMMA Entries ==
    ASSUME ScannerInv, ScanFlowEntry \/ ScanBlockEntry \/ UnknownToken
    PROVE  Keeps(scanner, scanner')
<1>1. IsScanner(scanner) /\ Advances(scanner, scanner)
  BY FromScanner
<1>2. CASE ScanFlowEntry
  <2> DEFINE t == SoloEntry(scanner)
             v == Allow(t, TRUE, FALSE)
             w == Push(v, Token("FLOW_ENTRY"))
  <2>1. Advances(scanner, t)
    BY <1>1, Soloed
  <2>2. Scan("FlowEntry", Eat(w, 1))
    BY <1>2, Zenon DEF ScanFlowEntry
  <2> HIDE DEF t
  <2>3. Advances(scanner, v)
    BY <1>1, <2>1, ReadsOn
  <2> HIDE DEF v
  <2>4. Advances(scanner, w)
    BY <1>1, <2>3, QueuesNeutral DEF Neutral
  <2> HIDE DEF w
  <2>5. Advances(scanner, Eat(w, 1))
    BY <1>1, <2>4, ReadsOn
  <2> QED
    BY <2>2, <2>5, Scanned DEF HandledBranches
<1>3. CASE ScanBlockEntry
  <2> DEFINE t == PushIndentTo(scanner, "SEQ")
             v == Allow(t, TRUE, FALSE)
             w == Push(v, Token("BLOCK_ENTRY"))
             a == Throw(scanner, "BLOCK_ENTRY")
             u == IF InFlowContext(scanner) \/ ~scanner.simpleKeyAllowed THEN a ELSE Eat(w, 1)
  <2>1. Advances(scanner, t)
    BY <1>1, IndentPushed
  <2>2. Scan("BlockEntry", u)
    BY <1>3, Zenon DEF ScanBlockEntry
  <2> HIDE DEF t
  <2>3. Advances(scanner, v) /\ Advances(scanner, a)
    BY <1>1, <2>1, ReadsOn
  <2> HIDE DEF v, a
  <2>4. Advances(scanner, w)
    BY <1>1, <2>3, QueuesNeutral DEF Neutral
  <2> HIDE DEF w
  <2>5. Advances(scanner, Eat(w, 1))
    BY <1>1, <2>4, ReadsOn
  <2>6. Advances(scanner, u)
    BY <2>3, <2>5, Zenon
  <2> HIDE DEF u
  <2> QED
    BY <2>2, <2>6, Scanned DEF HandledBranches
<1>4. CASE UnknownToken
  <2>1. Advances(scanner, Throw(scanner, "UNKNOWN_TOKEN"))
    BY <1>1, ReadsOn
  <2> QED
    BY <1>4, <2>1, Scanned DEF HandledBranches, UnknownToken
<1> QED
  BY <1>2, <1>3, <1>4

LEMMA KeysAndValues ==
    ASSUME ScannerInv, ScanKey \/ ScanValue
    PROVE  Keeps(scanner, scanner')
<1>1. IsScanner(scanner) /\ Advances(scanner, scanner)
  BY FromScanner
<1>2. CASE ScanKey
  <2> DEFINE t == PushIndentTo(scanner, "MAP")
             v == [t EXCEPT !.simpleKeyAllowed = InBlockContext(scanner)]
             w == Push(v, Token("KEY"))
             a == Throw(scanner, "MAP_KEY")
             u == IF InBlockContext(scanner) /\ ~scanner.simpleKeyAllowed THEN a ELSE Eat(w, 1)
  <2>1. Advances(scanner, t)
    BY <1>1, IndentPushed
  <2>2. Scan("Key", u)
    BY <1>2, Zenon DEF ScanKey
  <2> HIDE DEF t
  <2>3. Advances(scanner, v) /\ Advances(scanner, a)
    BY <1>1, <2>1, ReadsOn
  <2> HIDE DEF v, a
  <2>4. Advances(scanner, w)
    BY <1>1, <2>3, QueuesNeutral DEF Neutral
  <2> HIDE DEF w
  <2>5. Advances(scanner, Eat(w, 1))
    BY <1>1, <2>4, ReadsOn
  <2>6. Advances(scanner, u)
    BY <2>3, <2>5, Zenon
  <2> HIDE DEF u
  <2> QED
    BY <2>2, <2>6, Scanned DEF HandledBranches
<1>3. CASE ScanValue
  <2> DEFINE k == VerifySimpleKey(scanner)
             t == PushIndentTo(k, "MAP")
             v == Allow(t, InBlockContext(scanner), FALSE)
             w == Push(v, Token("VALUE"))
             x == Allow(k, FALSE, FALSE)
             y == Push(x, Token("VALUE"))
             a == Throw(scanner, "MAP_VALUE")
             u == IF IsSimpleKey(scanner) THEN Eat(y, 1)
                  ELSE IF InBlockContext(scanner) /\ ~scanner.simpleKeyAllowed THEN a ELSE Eat(w, 1)
  <2>1. Advances(scanner, k)
    BY <1>1, Verified
  <2>2. Scan("Value", u)
    BY <1>3, Zenon DEF ScanValue
  <2> HIDE DEF k
  <2>3. Advances(scanner, t)
    <3>1. IsScanner(k)
      BY <2>1 DEF Advances
    <3>2. Advances(k, t)
      BY <3>1, IndentPushed
    <3> QED
      BY <1>1, <2>1, <3>2, AdvancesTwice
  <2> HIDE DEF t
  <2>4. Advances(scanner, v) /\ Advances(scanner, a) /\ Advances(scanner, x)
    BY <1>1, <2>1, <2>3, ReadsOn
  <2> HIDE DEF v, a, x
  <2>5. Advances(scanner, w) /\ Advances(scanner, y)
    BY <1>1, <2>4, QueuesNeutral DEF Neutral
  <2> HIDE DEF w, y
  <2>6. Advances(scanner, Eat(w, 1)) /\ Advances(scanner, Eat(y, 1))
    BY <1>1, <2>5, ReadsOn
  <2>7. Advances(scanner, u)
    BY <2>4, <2>6, Zenon
  <2> HIDE DEF u
  <2> QED
    BY <2>2, <2>7, Scanned DEF HandledBranches
<1> QED
  BY <1>2, <1>3

LEMMA Properties ==
    ASSUME ScannerInv, ScanAnchorOrAlias \/ ScanTag
    PROVE  Keeps(scanner, scanner')
<1> DEFINE s == Allow(InsertPotentialSimpleKey(scanner), FALSE, FALSE)
<1>1. IsScanner(scanner) /\ Advances(scanner, s)
  BY FromScanner, KeyBegun
<1>2. ASSUME NEW type \in Neutral, NEW value, NEW at
      PROVE  Advances(scanner, [Push(s, ValueToken(type, value)) EXCEPT !.at = at])
  <2> DEFINE t == Push(s, ValueToken(type, value))
  <2> HIDE DEF s
  <2>1. Advances(scanner, t)
    BY <1>1, QueuesNeutral
  <2> HIDE DEF t
  <2>2. Advances(scanner, [t EXCEPT !.at = at])
    BY <1>1, <2>1, ReadsOn
  <2> QED
    BY <2>2 DEF t
<1>3. \A what : Advances(scanner, Throw(s, what))
  <2> HIDE DEF s
  <2> QED
    BY <1>1, ReadsOn
<1>4. CASE ScanAnchorOrAlias
  <2> DEFINE type == IF Char(s.at) = "*" THEN "ALIAS" ELSE "ANCHOR"
             end == Min({i \in From(s.at + 1) : ~More(i) \/ ~AnchorChar(i)})
             value == SubSeq(text, s.at + 1, end - 1)
             a == Throw(s, "ANCHOR_NOT_FOUND")
             b == Throw(s, "CHAR_IN_ANCHOR")
             c == [Push(s, ValueToken(type, value)) EXCEPT !.at = end]
             u == IF end = s.at + 1 THEN a ELSE IF More(end) /\ ~AnchorEnd(end) THEN b ELSE c
  <2>1. Scan("AnchorOrAlias", u)
    BY <1>4, Zenon DEF ScanAnchorOrAlias
  <2>2. type \in Neutral
    BY DEF Neutral
  <2> HIDE DEF s, value, type, end
  <2>3. Advances(scanner, a) /\ Advances(scanner, b) /\ Advances(scanner, c)
    BY <1>2, <1>3, <2>2, Zenon
  <2> HIDE DEF a, b, c
  <2>4. Advances(scanner, u)
    BY <2>3, Zenon
  <2> HIDE DEF u
  <2> QED
    BY <2>1, <2>4, Scanned DEF HandledBranches
<1>5. CASE ScanTag
  <2> DEFINE i      == s.at + 1
             word   == Min({j \in From(i) : ~Word(j)})
             handle == ~More(word) \/ Char(word) = "!"
             end    == IF handle THEN word ELSE Min({j \in From(word) : ~TagChar(j)})
             close  == Min({j \in From(i + 1) : ~UriChar(j)})
             suffix == Min({j \in From(end + 1) : ~TagChar(j)})
             Tag(type, value, rest, at) ==
                 [Push(s, ValueToken("TAG", [type |-> type, value |-> value, suffix |-> rest]))
                  EXCEPT !.at = at]
             type   == IF end > i THEN "PRIMARY_HANDLE"
                       ELSE IF handle THEN "SECONDARY_HANDLE" ELSE "NON_SPECIFIC"
             a == Tag("VERBATIM", SubSeq(text, i + 1, close - 1), <<>>, close + 1)
             b == Throw(s, "END_OF_VERBATIM_TAG")
             c == Throw(s, "CHAR_IN_TAG_HANDLE")
             d == Throw(s, "TAG_WITH_NO_SUFFIX")
             e == Tag("NAMED_HANDLE", SubSeq(text, i, end - 1), SubSeq(text, end + 1, suffix - 1), suffix)
             f == Tag(type, SubSeq(text, i, end - 1), <<>>, end)
             u == IF Char(i) = "<" THEN IF Char(close) = ">" THEN a ELSE b
                  ELSE IF ~handle /\ Char(end) = "!" THEN c
                  ELSE IF Char(end) = "!" THEN IF suffix = end + 1 THEN d ELSE e
                  ELSE f
  <2>1. Scan("Tag", u)
    BY <1>5, Zenon DEF ScanTag
  <2> HIDE DEF s, type, word, handle, end, close, suffix
  <2>2. "TAG" \in Neutral
    BY DEF Neutral
  <2>3. Advances(scanner, a) /\ Advances(scanner, e) /\ Advances(scanner, f)
    BY <1>2, <2>2, Zenon
  <2>4. Advances(scanner, b) /\ Advances(scanner, c) /\ Advances(scanner, d)
    BY <1>3, Zenon
  <2> HIDE DEF a, b, c, d, e, f
  <2>5. Advances(scanner, u)
    BY <2>3, <2>4, Zenon
  <2> HIDE DEF u
  <2> QED
    BY <2>1, <2>5, Scanned DEF HandledBranches
<1> QED
  BY <1>4, <1>5

LEMMA FlowStarts ==
    ASSUME ScannerInv, ScanFlowStart
    PROVE  Keeps(scanner, scanner')
<1> DEFINE s == Allow(InsertPotentialSimpleKey(scanner), TRUE, FALSE)
           type == IF Char(s.at) = "[" THEN "FLOW_SEQ" ELSE "FLOW_MAP"
           token == Token(FlowStart(type))
           flows == Append(s.flows, type)
           T == Append(s.tokens, token)
           u == Push([s EXCEPT !.flows = flows], token)
<1>1. IsScanner(scanner) /\ Advances(scanner, s)
  BY FromScanner, KeyBegun
<1>2. Scan("FlowStart", Eat(u, 1))
  BY Zenon DEF ScanFlowStart, FlowStart
<1>3. type \in {"FLOW_SEQ", "FLOW_MAP"}
  OBVIOUS
<1> HIDE DEF s, type
<1>4. IsToken(token) /\ token.status = "VALID" /\ token.type = FlowStart(type)
  BY Tokens
<1>5. /\ DOMAIN s = ScannerFields /\ Sound(s.tokens, s.front, s.simpleKeys, s.flows, s.indents, s.indentRefs)
      /\ IsSequence(s.tokens) /\ s.front \in 1 .. (Len(s.tokens) + 1)
  BY <1>1, ScannerIs, SoundQueue DEF Advances
<1> HIDE DEF token
<1>6. Sound(T, s.front, s.simpleKeys, flows, s.indents, s.indentRefs)
  BY <1>3, <1>4, <1>5, SoundFlowStart
<1>7. SameBefore(s.tokens, T, s.front)
  BY <1>5, Appends
<1> HIDE DEF flows
<1>8. /\ DOMAIN u = ScannerFields /\ u.tokens = T /\ u.front = s.front /\ u.branch = s.branch
      /\ u.endedStream = s.endedStream /\ u.simpleKeys = s.simpleKeys /\ u.flows = flows
      /\ u.indents = s.indents /\ u.indentRefs = s.indentRefs
  BY <1>5 DEF Push, ScannerFields
<1> HIDE DEF u, T
<1>9. Advances(s, u)
  BY <1>6, <1>7, <1>8 DEF Advances, IsScanner
<1>10. Advances(scanner, Eat(u, 1))
  BY <1>1, <1>9, AdvancesTwice, ReadsOn
<1> QED
  BY <1>2, <1>10, Scanned DEF HandledBranches

LEMMA FlowEnds ==
    ASSUME ScannerInv, ScanFlowEnd
    PROVE  Keeps(scanner, scanner')
<1> DEFINE solo == SoloEntry(scanner)
           s == Allow(solo, FALSE, TRUE)
           type == IF Char(scanner.at) = "]" THEN "FLOW_SEQ" ELSE "FLOW_MAP"
           token == Token(FlowEnd(type))
           flows == Front(s.flows)
           T == Append(s.tokens, token)
           u == Push([s EXCEPT !.flows = flows], token)
           wrong == InBlockContext(scanner) \/ Last(scanner.flows) # type
           a == Throw(scanner, "FLOW_END")
<1>1. IsScanner(scanner) /\ Advances(scanner, scanner)
  BY FromScanner
<1>2. Scan("FlowEnd", IF wrong THEN a ELSE Eat(u, 1))
  BY Zenon DEF ScanFlowEnd, FlowEnd
<1>3. CASE wrong
  <2>1. Advances(scanner, a)
    BY <1>1, ReadsOn
  <2> HIDE DEF a, u, wrong
  <2>2. Scan("FlowEnd", a)
    BY <1>2, <1>3
  <2> QED
    BY <2>1, <2>2, Scanned DEF HandledBranches
<1>4. CASE ~wrong
  <2>1. Scan("FlowEnd", Eat(u, 1))
    BY <1>2, <1>4, Zenon
  <2>2. scanner.flows # <<>> /\ Last(scanner.flows) = type
    BY <1>4 DEF InBlockContext
  <2>3. Advances(scanner, solo) /\ solo.flows = scanner.flows /\ ~ActiveSimpleKey(solo)
    BY <1>1, <2>2, Soloed
  <2> HIDE DEF type, wrong, solo
  <2>4. Advances(scanner, s)
    BY <1>1, <2>3, ReadsOn
  <2>5. s.flows = scanner.flows /\ ~ActiveSimpleKey(s)
    <3>1. Alters(solo, s)
      BY <2>3, ScannerIs, Altered DEF Advances
    <3> HIDE DEF s
    <3> QED
      BY <2>3, <3>1 DEF Alters, ActiveSimpleKey, FlowLevel
  <2> HIDE DEF s
  <2>6. IsToken(token) /\ token.status = "VALID" /\ token.type = FlowEnd(type)
    BY Tokens
  <2>7. /\ DOMAIN s = ScannerFields /\ Sound(s.tokens, s.front, s.simpleKeys, s.flows, s.indents, s.indentRefs)
        /\ IsSequence(s.tokens) /\ s.front \in 1 .. (Len(s.tokens) + 1)
    BY <2>4, ScannerIs, SoundQueue DEF Advances
  <2>8. s.simpleKeys # <<>> => Last(s.simpleKeys).flowLevel # Len(s.flows)
    BY <2>5 DEF ActiveSimpleKey, FlowLevel
  <2> HIDE DEF token
  <2>9. Sound(T, s.front, s.simpleKeys, flows, s.indents, s.indentRefs)
    BY <2>2, <2>5, <2>6, <2>7, <2>8, SoundFlowEnd
  <2>10. SameBefore(s.tokens, T, s.front)
    BY <2>7, Appends
  <2> HIDE DEF flows
  <2>11. /\ DOMAIN u = ScannerFields /\ u.tokens = T /\ u.front = s.front /\ u.branch = s.branch
         /\ u.endedStream = s.endedStream /\ u.simpleKeys = s.simpleKeys /\ u.flows = flows
         /\ u.indents = s.indents /\ u.indentRefs = s.indentRefs
    BY <2>7 DEF Push, ScannerFields
  <2> HIDE DEF u, T
  <2>12. Advances(s, u)
    BY <2>9, <2>10, <2>11 DEF Advances, IsScanner
  <2>13. Advances(scanner, Eat(u, 1))
    BY <1>1, <2>4, <2>12, AdvancesTwice, ReadsOn
  <2> QED
    BY <2>1, <2>13, Scanned DEF HandledBranches
<1> QED
  BY <1>3, <1>4

\* The text is at its end, and all blocks that can be ended are.
LEMMA NoneIsFirst ==
    ASSUME NEW T, NEW I, NEW R, Indented(T, I, R), I = <<>> \/ R[Last(I)].type = "NONE"
    PROVE  OpenBlocks(I, R) = {}
<1>1. IsSequence(I)
  BY DEF Indented
<1>2. CASE I = <<>>
  <2>1. Len(I) = 0
    BY <1>2
  <2>2. \A j : j \notin 1 .. Len(I)
    BY <2>1
  <2> QED
    BY <2>2 DEF OpenBlocks
<1>3. CASE I # <<>> /\ R[Last(I)].type = "NONE"
  <2> DEFINE n == Len(I)
  <2>1. Last(I) = I[n] /\ n \in Nat \ {0}
    BY <1>1, <1>3, InFront
  <2>2. n \in 1 .. n
    BY <2>1
  <2>3. ASSUME NEW j \in 1 .. n, R[I[j]].type # "NONE" PROVE FALSE
    <3>1. j # n
      BY <1>3, <2>1, <2>3
    <3>2. j < n
      BY <2>1, <3>1
    <3>3. I[j] < I[n] /\ I[j] \in 1 .. Len(R) /\ I[n] \in 1 .. Len(R)
      BY <2>2, <3>2 DEF Indented
    <3>4. R[I[j]].start < R[I[n]].start /\ IsIndent(T, R[I[j]]) /\ IsIndent(T, R[I[n]])
      BY <3>3 DEF Indented
    <3>5. R[I[n]].start = 0
      BY <1>3, <2>1, <3>4 DEF IsIndent
    <3>6. R[I[j]].start \in 1 .. Len(T)
      BY <2>3, <3>4 DEF IsIndent
    <3> QED
      BY <3>4, <3>5, <3>6
  <2> QED
    BY <2>3 DEF OpenBlocks
<1> QED
  BY <1>2, <1>3

LEMMA StreamEnds ==
    ASSUME ScannerInv, EndStream
    PROVE  Keeps(scanner, scanner')
<1> DEFINE s == PopAllSimpleKeys(scanner)
           t == [s EXCEPT !.simpleKeyAllowed = FALSE, !.endedStream = TRUE, !.branch = "none"]
<1>1. IsScanner(scanner) /\ DOMAIN scanner = ScannerFields /\ Advances(scanner, s)
  BY ScannerIs, KeysDropped DEF ScannerInv
<1>2. /\ scanner.branch = "EndStream" /\ ~IndentsToPop(scanner)
      /\ scanner' = [[s EXCEPT !.simpleKeyAllowed = FALSE, !.endedStream = TRUE] EXCEPT !.branch = "none"]
  BY DEF EndStream, Scan
<1>3. /\ s.simpleKeys = <<>> /\ s.indents = scanner.indents /\ s.indentRefs = scanner.indentRefs
      /\ s.flows = scanner.flows /\ s.tokens = scanner.tokens /\ DOMAIN s = ScannerFields /\ s.front = scanner.front
  BY <1>1 DEF PopAllSimpleKeys, ScannerFields
<1> HIDE DEF s
<1>4. /\ DOMAIN scanner' = ScannerFields /\ scanner'.tokens = s.tokens /\ scanner'.front = s.front
      /\ scanner'.branch = "none" /\ scanner'.simpleKeys = s.simpleKeys /\ scanner'.indents = s.indents
      /\ scanner'.indentRefs = s.indentRefs /\ scanner'.flows = s.flows
  BY <1>2, <1>3 DEF ScannerFields
<1>5. scanner.flows = <<>> => OpenBlocks(scanner.indents, scanner.indentRefs) = {}
  <2>1. scanner.flows = <<>> => scanner.indents = <<>> \/ TopIndent(scanner).type = "NONE"
    BY <1>2 DEF IndentsToPop, EndsDocument, InBlockContext
  <2>2. Indented(scanner.tokens, scanner.indents, scanner.indentRefs)
    BY <1>1, SoundQueue DEF IsScanner
  <2> QED
    BY <2>1, <2>2, NoneIsFirst DEF TopIndent
<1>6. StartedAndEnded(scanner')
  BY <1>3, <1>4, <1>5 DEF StartedAndEnded
<1>7. IsScanner(scanner')
  BY <1>1, <1>4 DEF IsScanner, Advances
<1>8. SameBefore(scanner.tokens, scanner'.tokens, scanner.front)
  BY <1>1, <1>4 DEF Advances
<1> QED
  BY <1>6, <1>7, <1>8 DEF Keeps

\* The branch b may be the next, in flows.
Enters(b, flows) == b # "StartStream" /\ (b \in {"outdented", "invalid"} => flows = <<>>)

LEMMA Rebranched ==
    ASSUME ScannerInv, ~scanner.endedStream, NEW u, Advances(scanner, u), NEW b, Enters(b, u.flows),
           scanner' = [u EXCEPT !.branch = b]
    PROVE  Keeps(scanner, scanner')
<1>1. DOMAIN u = ScannerFields /\ IsScanner(u)
  BY ScannerIs DEF Advances
<1>2. /\ DOMAIN scanner' = ScannerFields /\ scanner'.tokens = u.tokens /\ scanner'.front = u.front
      /\ scanner'.branch = b /\ scanner'.endedStream = u.endedStream /\ scanner'.simpleKeys = u.simpleKeys
      /\ scanner'.indents = u.indents /\ scanner'.indentRefs = u.indentRefs /\ scanner'.flows = u.flows
  BY <1>1 DEF ScannerFields
<1>3. IsScanner(scanner')
  BY <1>1, <1>2 DEF IsScanner
<1>4. StartedAndEnded(scanner')
  BY <1>2 DEF StartedAndEnded, Enters, Advances
<1>5. SameBefore(scanner.tokens, scanner'.tokens, scanner.front)
  BY <1>2 DEF Advances
<1> QED
  BY <1>3, <1>4, <1>5 DEF Keeps

LEMMA LineScanned ==
    ASSUME ScannerInv, ScanToNextToken
    PROVE  Keeps(scanner, scanner')
<1> DEFINE s == SkipBlanks(scanner)
           new == [s EXCEPT !.at = AfterBreak(@)]
           key == InvalidateSimpleKey(new)
           line == BeginLine(s)
           b == IF InFlowContext(s) THEN Branch(s) ELSE "outdented"
<1>1. IsScanner(scanner) /\ Advances(scanner, scanner) /\ DOMAIN scanner = ScannerFields
  BY FromScanner, ScannerIs
<1>2. ~scanner.endedStream
  BY DEF ScanToNextToken, Ensured, ScannerInv, StartedAndEnded
<1>3. scanner' = IF BreakAt(s.at) THEN [line EXCEPT !.branch = "nextLine"] ELSE [s EXCEPT !.branch = b]
  BY Zenon DEF ScanToNextToken
<1>4. Advances(scanner, s)
  <2>1. PICK n, a : s = [scanner EXCEPT !.at = n, !.simpleKeyAllowed = a]
    BY Zenon DEF SkipBlanks
  <2>2. Alters(scanner, [scanner EXCEPT !.at = n, !.simpleKeyAllowed = a])
    BY <1>1, Altered
  <2>3. Alters(scanner, s)
    BY <2>1, <2>2
  <2> HIDE DEF s
  <2> QED
    BY <1>1, <2>3, AdvancesAltered
<1>5. line = [key EXCEPT !.simpleKeyAllowed = @ \/ InBlockContext(key)]
  BY Zenon DEF BeginLine
<1> HIDE DEF s
<1>6. Advances(scanner, new)
  BY <1>1, <1>4, ReadsOn
<1> HIDE DEF new
<1>7. Advances(scanner, key)
  <2>1. IsScanner(new)
    BY <1>6 DEF Advances
  <2>2. Advances(new, key)
    BY <2>1, Invalidated
  <2> QED
    BY <1>1, <1>6, <2>2, AdvancesTwice
<1> HIDE DEF key
<1>8. Advances(scanner, line)
  <2>1. Advances(scanner, [key EXCEPT !.simpleKeyAllowed = (key.simpleKeyAllowed \/ InBlockContext(key))])
    BY <1>1, <1>7, ReadsOn
  <2> QED
    BY <1>5, <2>1
<1> HIDE DEF line
<1>9. CASE BreakAt(s.at)
  <2> DEFINE next == "nextLine"
  <2>1. Enters(next, line.flows)
    BY DEF Enters
  <2>2. scanner' = [line EXCEPT !.branch = next]
    BY <1>3, <1>9
  <2> HIDE DEF next
  <2> QED
    BY <1>2, <1>8, <2>1, <2>2, Rebranched
<1>10. CASE ~BreakAt(s.at)
  <2>1. Enters(b, s.flows)
    <3>1. CASE InFlowContext(s)
      BY <3>1, BranchIs DEF Enters, HandledBranches
    <3>2. CASE ~InFlowContext(s)
      BY <3>2 DEF Enters, InFlowContext
    <3> QED
      BY <3>1, <3>2
  <2>2. scanner' = [s EXCEPT !.branch = b]
    BY <1>3, <1>10, Zenon
  <2> HIDE DEF b
  <2> QED
    BY <1>2, <1>4, <2>1, <2>2, Rebranched
<1> QED
  BY <1>9, <1>10

\* An indent is popped, and the branch stays.
LEMMA Popped ==
    ASSUME ScannerInv, ~scanner.endedStream, scanner.branch # "StartStream", scanner.flows = <<>>,
           scanner.indents # <<>>, scanner' = PopIndent(scanner)
    PROVE  Keeps(scanner, scanner')
<1>1. Advances(scanner, scanner') /\ scanner'.flows = <<>>
  BY FromScanner, IndentPopped
<1>2. StartedAndEnded(scanner')
  BY <1>1 DEF Advances, StartedAndEnded
<1> QED
  BY <1>1, <1>2 DEF Keeps, Advances

LEMMA IndentsPopped ==
    ASSUME ScannerInv, PopOutdented \/ PopInvalid \/ PopAllIndents
    PROVE  Keeps(scanner, scanner')
<1>1. IsScanner(scanner) /\ Advances(scanner, scanner)
  BY FromScanner
<1>2. CASE PopOutdented
  <2>1. /\ scanner.branch = "outdented"
        /\ scanner' = IF Outdented(scanner) THEN PopIndent(scanner) ELSE [scanner EXCEPT !.branch = "invalid"]
    BY <1>2 DEF PopOutdented
  <2>2. scanner.flows = <<>> /\ ~scanner.endedStream
    BY <2>1 DEF ScannerInv, StartedAndEnded
  <2>3. CASE Outdented(scanner)
    BY <2>1, <2>2, <2>3, Popped DEF Outdented
  <2>4. CASE ~Outdented(scanner)
    <3> DEFINE b == "invalid"
    <3>1. Enters(b, scanner.flows)
      BY <2>2 DEF Enters
    <3>2. scanner' = [scanner EXCEPT !.branch = b]
      BY <2>1, <2>4
    <3> HIDE DEF b
    <3> QED
      BY <1>1, <2>2, <3>1, <3>2, Rebranched
  <2> QED
    BY <2>3, <2>4
<1>3. CASE PopInvalid
  <2> DEFINE b == Branch(scanner)
             invalid == scanner.indents # <<>> /\ TopIndent(scanner).status = "INVALID"
  <2>1. /\ scanner.branch = "invalid"
        /\ scanner' = IF invalid THEN PopIndent(scanner) ELSE [scanner EXCEPT !.branch = b]
    BY <1>3 DEF PopInvalid
  <2>2. scanner.flows = <<>> /\ ~scanner.endedStream
    BY <2>1 DEF ScannerInv, StartedAndEnded
  <2>3. CASE invalid
    BY <2>1, <2>2, <2>3, Popped
  <2>4. CASE ~invalid
    <3>1. Enters(b, scanner.flows)
      BY <2>2, BranchIs DEF Enters, HandledBranches
    <3>2. scanner' = [scanner EXCEPT !.branch = b]
      BY <2>1, <2>4
    <3> HIDE DEF b
    <3> QED
      BY <1>1, <2>2, <3>1, <3>2, Rebranched
  <2> QED
    BY <2>3, <2>4
<1>4. CASE PopAllIndents
  <2>1. /\ scanner.branch \in EndsDocument /\ scanner.flows = <<>> /\ scanner.indents # <<>>
        /\ scanner' = PopIndent(scanner)
    BY <1>4 DEF PopAllIndents, IndentsToPop, InBlockContext
  <2>2. ~scanner.endedStream /\ scanner.branch # "StartStream"
    BY <2>1 DEF ScannerInv, StartedAndEnded, EndsDocument
  <2> QED
    BY <2>1, <2>2, Popped
<1> QED
  BY <1>2, <1>3, <1>4

LEMMA StreamStarts ==
    ASSUME ScannerInv, StartStream
    PROVE  Keeps(scanner, scanner')
<1> DEFINE I == <<1>>
           none == [column |-> -1, type |-> "NONE", status |-> "VALID", start |-> 0]
           R == <<none>>
           u == [scanner EXCEPT !.simpleKeyAllowed = TRUE, !.indents = I, !.indentRefs = R]
<1>1. scanner.branch = "StartStream" /\ scanner' = [u EXCEPT !.branch = "none"]
  BY DEF StartStream, Scan
<1>2. DOMAIN scanner = ScannerFields
  BY ScannerIs DEF ScannerInv
<1>3. scanner.tokens = <<>> /\ scanner.simpleKeys = <<>> /\ scanner.flows = <<>> /\ ~scanner.endedStream
  BY <1>1 DEF ScannerInv, StartedAndEnded
<1>4. scanner.front = 1
  <2>1. scanner.front \in 1 .. (Len(scanner.tokens) + 1) /\ Len(scanner.tokens) = 0
    BY <1>3, ScannerIs DEF ScannerInv
  <2> QED
    BY <2>1
<1>5. /\ IsSequence(I) /\ IsSequence(R) /\ Len(I) = 1 /\ Len(R) = 1 /\ I[1] = 1 /\ R[1] = none
  <2>1. I \in Seq({1}) /\ R \in Seq({none})
    BY SMT
  <2> QED
    BY <2>1 DEF IsSequence
<1>6. IsIndent(<<>>, none) /\ none.type = "NONE" /\ none.status = "VALID" /\ none.start = 0
  BY DEF IsIndent
<1> HIDE DEF I, R, none
<1>7. \A i \in 1 .. 1 : i = 1
  OBVIOUS
<1>8. Indented(<<>>, I, R)
  BY <1>5, <1>6, <1>7 DEF Indented
<1>9. OpenBlocks(I, R) = {}
  <2>1. I # <<>> /\ Last(I) = I[1]
    BY <1>5, InFront
  <2> QED
    BY <1>5, <1>6, <1>8, <2>1, NoneIsFirst
<1>10. Sound(<<>>, 1, <<>>, <<>>, I, R)
  BY <1>8, <1>9, SoundEmpty
<1>11. /\ DOMAIN u = ScannerFields /\ u.tokens = <<>> /\ u.front = 1 /\ u.branch = scanner.branch
       /\ u.endedStream = scanner.endedStream /\ u.simpleKeys = <<>> /\ u.flows = <<>>
       /\ u.indents = I /\ u.indentRefs = R
  BY <1>2, <1>3, <1>4 DEF ScannerFields
<1> HIDE DEF u
<1>12. SameBefore(scanner.tokens, u.tokens, scanner.front)
  BY <1>3, <1>4, <1>11 DEF SameBefore
<1>13. Advances(scanner, u)
  BY <1>4, <1>10, <1>11, <1>12 DEF Advances, IsScanner
<1> DEFINE b == "none"
<1>14. Enters(b, u.flows) /\ scanner' = [u EXCEPT !.branch = b]
  BY <1>1 DEF Enters
<1> HIDE DEF b
<1> QED
  BY <1>3, <1>13, <1>14, Rebranched

\* The parser takes the front token: it is not of an open key.
LEMMA TokenTaken ==
    ASSUME ScannerInv, TakeToken
    PROVE  Keeps(scanner, scanner')
<1> DEFINE T == scanner.tokens
           n == Len(T)
           front == scanner.front
           P == {i \in front .. (n + 1) : i = n + 1 \/ T[i].status # "INVALID"}
           at == FrontOf(scanner)
<1>1. /\ IsScanner(scanner) /\ DOMAIN scanner = ScannerFields /\ n \in Nat /\ front \in 1 .. (n + 1)
      /\ Sound(T, front, scanner.simpleKeys, scanner.flows, scanner.indents, scanner.indentRefs)
  BY ScannerIs DEF ScannerInv
<1>2. /\ scanner.branch = "none" /\ Ensured(scanner) /\ ~(at > n)
      /\ scanner' = [scanner EXCEPT !.front = at + 1]
  BY DEF TakeToken, Empty, PopToken
<1>3. at = Min(P)
  BY DEF FrontOf
<1> HIDE DEF n, front, at
<1>4. P \in SUBSET Nat /\ n + 1 \in P
  BY <1>1
<1>5. Min(P) \in P /\ \A m \in P : Min(P) <= m
  BY <1>4, MinIs
<1>6. at \in front .. n
  <2>1. at \in front .. (n + 1)
    BY <1>3, <1>5
  <2> QED
    BY <1>1, <1>2, <2>1
<1>7. \A i \in front .. (at - 1) : T[i].status = "INVALID"
  <2>1. ASSUME NEW i \in front .. (at - 1), T[i].status # "INVALID" PROVE FALSE
    <3>1. i \in front .. (n + 1) /\ i < at /\ at \in Nat /\ i \in Nat
      BY <1>1, <1>6
    <3>2. i \in P
      BY <2>1, <3>1
    <3>3. at <= i
      BY <1>3, <1>5, <3>2
    <3> QED
      BY <3>1, <3>3
  <2> QED
    BY <2>1
<1>8. T[at].status = "VALID" \/ scanner.simpleKeys = <<>>
  <2>1. CASE scanner.endedStream
    BY <2>1 DEF ScannerInv, StartedAndEnded
  <2>2. CASE ~scanner.endedStream
    BY <1>2, <2>2 DEF Ensured, at
  <2> QED
    BY <2>1, <2>2
<1>9. Sound(T, at + 1, scanner.simpleKeys, scanner.flows, scanner.indents, scanner.indentRefs)
  BY <1>1, <1>6, <1>7, <1>8, SoundTake DEF n
<1>10. /\ DOMAIN scanner' = ScannerFields /\ scanner'.tokens = T /\ scanner'.front = at + 1
       /\ scanner'.branch = scanner.branch /\ scanner'.endedStream = scanner.endedStream
       /\ scanner'.simpleKeys = scanner.simpleKeys /\ scanner'.indents = scanner.indents
       /\ scanner'.indentRefs = scanner.indentRefs /\ scanner'.flows = scanner.flows
  BY <1>1, <1>2 DEF ScannerFields
<1>11. IsScanner(scanner')
  BY <1>9, <1>10 DEF IsScanner
<1>12. StartedAndEnded(scanner')
  <2>1. StartedAndEnded(scanner)
    BY DEF ScannerInv
  <2> QED
    BY <1>10, <2>1 DEF StartedAndEnded
<1>13. SameBefore(scanner.tokens, scanner'.tokens, scanner.front)
  BY <1>1, <1>10 DEF SameBefore, n
<1> QED
  BY <1>11, <1>12, <1>13 DEF Keeps

LEMMA StartsSound == ASSUME scanner = NewScanner PROVE ScannerInv
<1> DEFINE s == NewScanner
<1>1. /\ DOMAIN s = ScannerFields /\ s.tokens = <<>> /\ s.front = 1 /\ s.branch = "StartStream"
      /\ ~s.endedStream /\ s.simpleKeys = <<>> /\ s.indents = <<>> /\ s.indentRefs = <<>> /\ s.flows = <<>>
  BY DEF NewScanner, ScannerFields
<1>2. Len(<<>>) = 0 /\ IsSequence(<<>>)
  <2>1. <<>> \in Seq({}) /\ Len(<<>>) = 0
    OBVIOUS
  <2> QED
    BY <2>1 DEF IsSequence
<1>3. \A i : i \notin 1 .. 0
  OBVIOUS
<1>4. Indented(<<>>, <<>>, <<>>)
  BY <1>2, <1>3 DEF Indented
<1>5. OpenBlocks(<<>>, <<>>) = {}
  BY <1>4, NoneIsFirst
<1>6. Sound(<<>>, 1, <<>>, <<>>, <<>>, <<>>)
  BY <1>4, <1>5, SoundEmpty
<1> HIDE DEF s
<1>7. IsScanner(s)
  BY <1>1, <1>6 DEF IsScanner
<1>8. StartedAndEnded(s)
  BY <1>1 DEF StartedAndEnded
<1> QED
  BY <1>7, <1>8 DEF ScannerInv, s

LEMMA ScannerStep ==
    ASSUME ScannerInv, ScanNextToken \/ TakeToken
    PROVE  Keeps(scanner, scanner')
<1>1. CASE TakeToken
  BY <1>1, TokenTaken
<1>2. CASE ScanNextToken
  <2>1. CASE StartStream \/ EndStream
    BY <2>1, StreamStarts, StreamEnds
  <2>2. CASE ScanToNextToken \/ PopOutdented \/ PopInvalid \/ PopAllIndents
    BY <2>2, LineScanned, IndentsPopped
  <2>3. CASE ScanDirective \/ ScanDocStart \/ ScanDocEnd
    BY <2>3, DocumentMarks
  <2>4. CASE ScanFlowStart \/ ScanFlowEnd
    BY <2>4, FlowStarts, FlowEnds
  <2>5. CASE ScanFlowEntry \/ ScanBlockEntry \/ UnknownToken
    BY <2>5, Entries
  <2>6. CASE ScanKey \/ ScanValue
    BY <2>6, KeysAndValues
  <2>7. CASE ScanAnchorOrAlias \/ ScanTag
    BY <2>7, Properties
  <2>8. CASE ScanPlainScalar \/ ScanQuotedScalar \/ ScanBlockScalar
    BY <2>8, Scalars
  <2> QED
    BY <1>2, <2>1, <2>2, <2>3, <2>4, <2>5, <2>6, <2>7, <2>8 DEF ScanNextToken
<1> QED
  BY <1>1, <1>2

-----------------------------------------------------------------------------
(* Theorems                                                                *)

\* In every state the tokens queued leave open exactly the start tokens of the valid
\* indents and of the open flows, in this order, and what a key that is open is to begin
\* may still be begun there (Scanner::ScanNextToken, simplekey.cpp).
THEOREM ScannerInvariant == ScannerSpec => []ScannerInv
<1>1. scanner = NewScanner => ScannerInv
  BY StartsSound
<1>2. ScannerInv /\ [ScanNextToken \/ TakeToken]_scanner => ScannerInv'
  <2> SUFFICES ASSUME ScannerInv, [ScanNextToken \/ TakeToken]_scanner PROVE ScannerInv'
    OBVIOUS
  <2>1. CASE ScanNextToken \/ TakeToken
    <3>1. Keeps(scanner, scanner')
      BY <2>1, ScannerStep
    <3> QED
      BY <3>1 DEF Keeps, ScannerInv
  <2>2. CASE scanner' = scanner
    BY <2>2 DEF ScannerInv
  <2> QED
    BY <2>1, <2>2
<1> QED
  BY <1>1, <1>2, PTL DEF ScannerSpec

\* What the parser may look at is decided: no handler changes a token in front.
THEOREM DeliveredIsFinal == ScannerSpec => DeliveredStands
<1>1. ASSUME ScannerInv, [ScanNextToken \/ TakeToken]_scanner
      PROVE  [\A i \in 1 .. (scanner.front - 1) : scanner'.tokens[i] = scanner.tokens[i]]_scanner
  <2>1. CASE ScanNextToken \/ TakeToken
    <3>1. SameBefore(scanner.tokens, scanner'.tokens, scanner.front)
      BY <1>1, <2>1, ScannerStep DEF Keeps
    <3> QED
      BY <3>1 DEF SameBefore
  <2> QED
    BY <1>1, <2>1
<1> QED
  BY <1>1, ScannerInvariant, PTL DEF ScannerSpec, DeliveredStands

LEMMA KeysArePending == ASSUME ScannerInv PROVE KeysPending
<1> DEFINE T == scanner.tokens
           K == scanner.simpleKeys
           F == scanner.flows
           front == scanner.front
<1>1. KeysOpen(T, front, K, F)
  BY SoundQueue DEF ScannerInv, IsScanner
<1>2. DOMAIN K = 1 .. Len(K) /\ Len(K) \in Nat
  BY <1>1 DEF KeysOpen, IsSequence
<1>3. ASSUME NEW i \in DOMAIN K
      PROVE  /\ T[K[i].token].type = "KEY"
             /\ \A t \in {K[i].mapStart, K[i].token} \ {0} : front <= t /\ T[t].status = "UNVERIFIED"
             /\ i > 1 => K[i - 1].flowLevel < K[i].flowLevel
  <2>1. OpenKey(T, front, F, K[i])
    BY <1>1, <1>2 DEF KeysOpen
  <2>2. T[K[i].token].type = "KEY" /\ front <= K[i].token /\ T[K[i].token].status = "UNVERIFIED"
    BY <2>1 DEF OpenKey, Undecided
  <2>3. K[i].mapStart # 0 => front <= K[i].mapStart /\ T[K[i].mapStart].status = "UNVERIFIED"
    BY <2>1 DEF OpenKey, Undecided
  <2>4. i > 1 => i - 1 \in 1 .. Len(K) /\ i \in 1 .. Len(K) /\ i - 1 < i
    BY <1>2
  <2>5. i > 1 => K[i - 1].flowLevel < K[i].flowLevel
    BY <1>1, <2>4 DEF KeysOpen
  <2> QED
    BY <2>2, <2>3, <2>5
<1> QED
  BY <1>3 DEF KeysPending

\* A simple key that is open is in front of the parser and undecided, and its flow is
\* deeper than that of the key before it (SimpleKey, m_simpleKeys).
THEOREM OpenKeysPending == ScannerSpec => []KeysPending
BY ScannerInvariant, KeysArePending, PTL

\* The tokens leave open only one thing.
LEMMA OpenIsOne ==
    ASSUME NEW T, Len(T) \in Nat, NEW f, NEW g, IsOpen(f, T), IsOpen(g, T)
    PROVE  f = g
<1> DEFINE n == Len(T)
           D == {k \in 0 .. n : f[k] # g[k]}
<1>1. /\ f = [k \in 0 .. n |-> IF k = 0 THEN {} ELSE Close(f[k - 1], T, k)]
      /\ g = [k \in 0 .. n |-> IF k = 0 THEN {} ELSE Close(g[k - 1], T, k)]
  BY DEF IsOpen
<1>2. n \in Nat
  OBVIOUS
<1> HIDE DEF n
<1>3. /\ f[0] = {} /\ g[0] = {}
      /\ \A k \in 1 .. n : f[k] = Close(f[k - 1], T, k) /\ g[k] = Close(g[k - 1], T, k)
  <2>1. 0 \in 0 .. n /\ \A k \in 1 .. n : k \in 0 .. n /\ k # 0
    BY <1>2
  <2> QED
    BY <1>1, <2>1, Zenon
<1>4. ASSUME D # {} PROVE FALSE
  <2>1. D \in SUBSET Nat
    BY <1>2
  <2>2. PICK k \in D : \A m \in D : k <= m
    BY <1>4, <2>1, LeastOf
  <2>3. k # 0 /\ k \in 0 .. n
    BY <1>3, <2>2
  <2>4. k \in 1 .. n /\ k - 1 \in 0 .. n /\ ~(k <= k - 1)
    BY <1>2, <2>3
  <2>5. k - 1 \notin D
    BY <2>2, <2>4
  <2>6. f[k - 1] = g[k - 1]
    BY <2>4, <2>5
  <2>7. f[k] = g[k]
    BY <1>3, <2>4, <2>6
  <2> QED
    BY <2>2, <2>7
<1>5. \A k \in 0 .. n : f[k] = g[k]
  BY <1>4
<1> QED
  <2>1. f = [k \in 0 .. n |-> f[k]] /\ g = [k \in 0 .. n |-> g[k]]
    BY <1>1
  <2>2. [k \in 0 .. n |-> f[k]] = [k \in 0 .. n |-> g[k]]
    BY <1>5
  <2> QED
    BY <2>1, <2>2

LEMMA UnclosedIs ==
    ASSUME NEW T, Len(T) \in Nat, NEW f, IsOpen(f, T)
    PROVE  Unclosed(T) = f[Len(T)]
<1> DEFINE g == CHOOSE h : h = [n \in 0 .. Len(T) |-> IF n = 0 THEN {} ELSE Close(h[n - 1], T, n)]
<1>1. Unclosed(T) = g[Len(T)]
  BY DEF Unclosed
<1>2. f = [n \in 0 .. Len(T) |-> IF n = 0 THEN {} ELSE Close(f[n - 1], T, n)]
  BY DEF IsOpen
<1>3. g = [n \in 0 .. Len(T) |-> IF n = 0 THEN {} ELSE Close(g[n - 1], T, n)]
  BY <1>2, Zenon
<1> HIDE DEF g
<1>4. IsOpen(g, T)
  BY <1>3 DEF IsOpen
<1>5. f = g
  BY <1>4, OpenIsOne
<1> QED
  BY <1>1, <1>5

LEMMA BlocksAreClosed == ASSUME ScannerInv PROVE BlocksClosed
<1> DEFINE T == scanner.tokens
           n == Len(T)
           blocks == OpenBlocks(scanner.indents, scanner.indentRefs)
           F == scanner.flows
<1>1. n \in Nat
  BY ScannerIs DEF ScannerInv
<1>2. PICK f, p : Nested(T, scanner.simpleKeys, F, scanner.indents, scanner.indentRefs, f, p)
  BY DEF ScannerInv, IsScanner, Sound
<1>3. IsOpen(f, T) /\ f[n] = blocks \cup {p[i] : i \in 1 .. Len(F)} /\ \A k \in 0 .. n : f[k] \subseteq 1 .. k
  BY <1>2 DEF Nested
<1>4. Unclosed(T) = f[n]
  BY <1>1, <1>3, UnclosedIs
<1> HIDE DEF n, blocks
<1>5. n \in 0 .. n
  BY <1>1
<1>6. 0 \notin f[n]
  <2>1. f[n] \subseteq 1 .. n
    BY <1>3, <1>5
  <2>2. 0 \notin 1 .. n
    BY <1>1
  <2> QED
    BY <2>1, <2>2
<1>7. ASSUME scanner.endedStream, F = <<>> PROVE f[n] = {}
  <2>1. blocks = {}
    BY <1>7 DEF ScannerInv, StartedAndEnded, blocks
  <2>2. Len(F) = 0
    BY <1>7
  <2>3. \A i : i \notin 1 .. Len(F)
    BY <2>2
  <2> QED
    BY <1>3, <2>1, <2>3
<1> QED
  BY <1>4, <1>6, <1>7 DEF BlocksClosed

\* The ends that the columns alone bring about are nested with the starts, those of the
\* flow collections among them, also where a start becomes valid only behind others; at
\* the end of the text the blocks outside an open flow are closed (PopIndentToHere,
\* PopAllIndents, Validate).
THEOREM BlocksNested == ScannerSpec => []BlocksClosed
BY ScannerInvariant, BlocksAreClosed, PTL

-----------------------------------------------------------------------------
(* The parser                                                              *)

\* A front token that is there is taken as it may be, or not at all.
LEMMA Taking ==
    /\ \A kind : Parsing(kind) /\ ~Empty /\ PopToken => TakeToken
    /\ \A type : At(type) => ~Empty
    /\ \A types : AtOneOf(types) => ~Empty
    /\ KeepToken => UNCHANGED scanner
    /\ \A what : Refuse(what) => UNCHANGED scanner
BY DEF Parsing, PopToken, TakeToken, At, AtOneOf, KeepToken, Refuse

LEMMA DocumentTakes ==
    ASSUME ParseDirective \/ BeginDocument \/ EndDocument \/ ScannerThrows
    PROVE  TakeToken \/ UNCHANGED scanner
<1>1. CASE ParseDirective
  BY <1>1, Taking, Zenon DEF ParseDirective
<1>2. CASE BeginDocument
  BY <1>2, Taking, Zenon DEF BeginDocument
<1>3. CASE EndDocument
  BY <1>3, Taking, Zenon DEF EndDocument
<1>4. CASE ScannerThrows
  BY <1>4, Taking, Zenon DEF ScannerThrows
<1> QED
  BY <1>1, <1>2, <1>3, <1>4

LEMMA NodeTakes ==
    ASSUME \/ NodeTooDeep \/ EmptyNode \/ ValueNode \/ AliasNode \/ ParseTag \/ ParseAnchor
           \/ Scalar_Node \/ SequenceNode \/ MapNode \/ CompactMapNode \/ MissingNode
    PROVE  TakeToken \/ UNCHANGED scanner
<1>1. HandleNode => Parsing("Node")
  BY DEF HandleNode
<1>2. CASE NodeTooDeep
  BY <1>2, Taking, Zenon DEF NodeTooDeep
<1>3. CASE EmptyNode \/ MissingNode
  BY <1>3, Taking, Zenon DEF EmptyNode, MissingNode
<1>4. CASE ValueNode
  BY <1>1, <1>4, Taking, Zenon DEF ValueNode
<1>5. CASE AliasNode
  BY <1>1, <1>5, Taking, Zenon DEF AliasNode
<1>6. CASE ParseTag
  BY <1>1, <1>6, Taking, Zenon DEF ParseTag
<1>7. CASE ParseAnchor
  BY <1>1, <1>7, Taking, Zenon DEF ParseAnchor
<1>8. CASE Scalar_Node
  BY <1>1, <1>8, Taking, Zenon DEF Scalar_Node
<1>9. CASE SequenceNode
  BY <1>1, <1>9, Taking, Zenon DEF SequenceNode
<1>10. CASE MapNode
  BY <1>1, <1>10, Taking, Zenon DEF MapNode
<1>11. CASE CompactMapNode
  BY <1>1, <1>11, Taking, Zenon DEF CompactMapNode
<1> QED
  BY <1>2, <1>3, <1>4, <1>5, <1>6, <1>7, <1>8, <1>9, <1>10, <1>11

LEMMA CollectionTakes ==
    ASSUME ParseBlockSeq \/ ParseBlockSeqEntry \/ ParseFlowSeq \/ ParseBlockMap \/ ParseFlowMap \/ EndCompactMap
    PROVE  TakeToken \/ UNCHANGED scanner
<1>1. CASE ParseBlockSeq
  BY <1>1, Taking, Zenon DEF ParseBlockSeq, EndOf
<1>2. CASE ParseBlockSeqEntry
  BY <1>2, Taking, Zenon DEF ParseBlockSeqEntry
<1>3. CASE ParseFlowSeq
  BY <1>3, Taking, Zenon DEF ParseFlowSeq, EndOf
<1>4. CASE ParseBlockMap
  BY <1>4, Taking, Zenon DEF ParseBlockMap, EndOf
<1>5. CASE ParseFlowMap
  BY <1>5, Taking, Zenon DEF ParseFlowMap, EndOf
<1>6. CASE EndCompactMap
  BY <1>6, Taking, Zenon DEF EndCompactMap
<1> QED
  BY <1>1, <1>2, <1>3, <1>4, <1>5, <1>6

LEMMA BetweenTakes ==
    /\ \A kind, next, end, error : ParseSeparator(kind, next, end, error) => TakeToken \/ UNCHANGED scanner
    /\ \A kind, next : ParseValue(kind, next) => TakeToken \/ UNCHANGED scanner
<1>1. ASSUME NEW kind, NEW next, NEW end, NEW error, ParseSeparator(kind, next, end, error)
      PROVE  TakeToken \/ UNCHANGED scanner
  BY <1>1, Taking, Zenon DEF ParseSeparator
<1>2. ASSUME NEW kind, NEW next, ParseValue(kind, next) PROVE TakeToken \/ UNCHANGED scanner
  BY <1>2, Taking, Zenon DEF ParseValue
<1> QED
  BY <1>1, <1>2

\* Whatever calls of the parser are open, it takes no token but the front one, and that
\* only when the scanner has decided it or has read all the text.  So with the parser as
\* its reader, and with whatever else leaves the tokens alone, the scanner behaves as
\* ScannerSpec says, and the theorems above hold of a load (Scanner::peek and pop in
\* SingleDocParser and Parser).
THEOREM ParserTakesDecided ==
    scanner = NewScanner /\ [][ScanNextToken \/ HandleDocument]_scanner => ScannerSpec
<1>1. HandleDocument => TakeToken \/ UNCHANGED scanner
  BY DocumentTakes, NodeTakes, CollectionTakes, BetweenTakes, Zenon DEF HandleDocument
<1>2. [ScanNextToken \/ HandleDocument]_scanner => [ScanNextToken \/ TakeToken]_scanner
  BY <1>1
<1> QED
  BY <1>2, PTL DEF ScannerSpec
=============================================================================
