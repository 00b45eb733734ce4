----------------------- MODULE ServiceSchedulerProofs -----------------------
(***************************************************************************)
(* Cron expressions, for every text: the parser accepts the texts that are *)
(* valid, and an expression matches the minutes its text means, but for    *)
(* what it makes of the end of a text.  Then the constructor, which reads  *)
(* the texts of a schedule one after another.                              *)
(***************************************************************************)
EXTENDS ServiceScheduler, TLAPS

-----------------------------------------------------------------------------
(* Sequences of anything                                                   *)

IsSequence(s) == \E S : s \in Seq(S)

\* What is behind the head of a sequence.
LEMMA TailOf ==
    ASSUME NEW s, IsSequence(s), s # <<>>
    PROVE  /\ IsSequence(Tail(s)) /\ Len(Tail(s)) = Len(s) - 1 /\ Len(s) \in Nat \ {0}
           /\ \A i \in 1 .. Len(s) - 1 : Tail(s)[i] = s[i + 1]
           /\ Head(s) = s[1]
<1>1. PICK S : s \in Seq(S)
  BY DEF IsSequence
<1>2. Tail(s) \in Seq(S) /\ Len(Tail(s)) = Len(s) - 1 /\ Len(s) \in Nat \ {0}
  BY <1>1
<1>3. \A i \in 1 .. Len(s) - 1 : Tail(s)[i] = s[i + 1]
  BY <1>1
<1> QED
  BY <1>1, <1>2, <1>3 DEF IsSequence

\* Append keeps what is there.
LEMMA AppendOf ==
    ASSUME NEW s, NEW e, IsSequence(s)
    PROVE  /\ IsSequence(Append(s, e)) /\ Len(Append(s, e)) = Len(s) + 1 /\ Len(s) \in Nat
           /\ \A i \in 1 .. Len(s) : Append(s, e)[i] = s[i]
           /\ Append(s, e)[Len(s) + 1] = e
<1>1. PICK S : s \in Seq(S)
  BY DEF IsSequence
<1> DEFINE T == S \cup {e}
<1>2. s \in Seq(T) /\ e \in T
  BY <1>1
<1> HIDE DEF T
<1>3. /\ Append(s, e) \in Seq(T) /\ Len(Append(s, e)) = Len(s) + 1 /\ Len(s) \in Nat
      /\ \A i \in 1 .. Len(s) : Append(s, e)[i] = s[i]
      /\ Append(s, e)[Len(s) + 1] = e
  BY <1>2
<1> QED
  BY <1>3 DEF IsSequence

\* There is nothing in the empty sequence.
LEMMA EmptySequence == IsSequence(<<>>) /\ Len(<<>>) = 0
<1>1. <<>> \in Seq({})
  OBVIOUS
<1> QED
  BY <1>1 DEF IsSequence

-----------------------------------------------------------------------------
(* One range and one field                                                 *)

\* The numbers of a range without a step are all those of its span.
LEMMA EveryNumber == \A n \in Int : n % 1 = 0
  BY SMT

\* Before a comma or a blank a range is accepted if and only if it is valid, and
\* then it sets the elements of its numbers.
LEMMA RangeRead ==
    ASSUME NEW r \in Ranges, NEW low \in Nat, NEW high \in Nat, low <= high,
           NEW next, next # "end",
           NEW result, result = get_range(r, low, high, next)
    PROVE  /\ ~result.eof <=> ValidRange(r, low, high)
           /\ ~result.eof => result.bits = {n - low : n \in Numbers(r, low, high)}
<1> DEFINE first == IF r.what = "*" THEN low ELSE r.from
           final == IF r.what = "*" THEN high ELSE r.to
           by    == IF r.by = NoStep THEN 1 ELSE r.by
           read  == /\ r.what # "word"
                    /\ r.what = "n" => r.by = NoStep
                    /\ next = "end" => r.what = "*" /\ r.by = NoStep
                    /\ first <= final
                    /\ by # 0
           numbers == {n \in first .. final : read /\ (n - first) % by = 0}
           stops(n) == n \in numbers /\ ~InBounds(n, low, high)
<1>1. /\ r.what \in {"*", "n", "n-m", "word"} /\ r.from \in Nat /\ r.to \in Nat
      /\ r.by \in Nat \cup {NoStep} /\ (r.what \in {"*", "n"} => r.from = r.to)
  BY DEF Ranges
<1>2. /\ result.bits = {n - low : n \in {m \in numbers : \A k \in first .. m : ~stops(k)}}
      /\ result.eof <=> next = "end" \/ ~read \/ \E n \in numbers : stops(n)
  BY DEF get_range
<1>3. first \in Nat /\ final \in Nat
  BY <1>1
<1>4. read <=> r.what # "word" /\ r.by # 0 /\ (r.what = "n" => r.by = NoStep) /\ r.from <= r.to
  BY <1>1 DEF NoStep
<1>5. Numbers(r, low, high) = {n \in first .. final : r.by = NoStep \/ (n - first) % r.by = 0}
  BY DEF Numbers
<1>6. \A n \in first .. final : (n - first) % by = 0 <=> r.by = NoStep \/ (n - first) % r.by = 0
  <2> SUFFICES ASSUME NEW n \in first .. final
               PROVE  (n - first) % by = 0 <=> r.by = NoStep \/ (n - first) % r.by = 0
    OBVIOUS
  <2>1. n - first \in Int
    BY <1>3
  <2> HIDE DEF first
  <2> QED
    BY <2>1, EveryNumber
<1> HIDE DEF first, final, by, read
<1>7. read => numbers = Numbers(r, low, high)
  BY <1>5, <1>6
<1>8. ~read => numbers = {}
  OBVIOUS
<1> HIDE DEF numbers
<1>9. numbers \subseteq first .. final
  BY <1>7, <1>8, <1>5
<1>10. ~result.eof <=> read /\ \A n \in numbers : InBounds(n, low, high)
  BY <1>2
<1>11. (\A n \in numbers : InBounds(n, low, high)) <=> numbers \subseteq low .. high
  BY <1>3, <1>9 DEF InBounds
<1>12. ~result.eof <=> ValidRange(r, low, high)
  BY <1>4, <1>7, <1>10, <1>11 DEF ValidRange
<1>13. ~result.eof => result.bits = {n - low : n \in Numbers(r, low, high)}
  <2> SUFFICES ASSUME ~result.eof PROVE result.bits = {n - low : n \in Numbers(r, low, high)}
    OBVIOUS
  <2>1. {m \in numbers : \A k \in first .. m : ~stops(k)} = numbers
    BY <1>10
  <2> QED
    BY <1>2, <1>7, <1>10, <2>1
<1> QED
  BY <1>12, <1>13

\* A star is read to its end wherever it stands, though at the end of the text it
\* seems not to be.
LEMMA StarRead ==
    ASSUME NEW low \in Nat, NEW high \in Nat, low <= high, NEW next,
           NEW result, result = get_range(Star, low, high, next)
    PROVE  /\ result.eof <=> next = "end"
           /\ result.bits = {n - low : n \in Numbers(Star, low, high)}
<1> DEFINE first == IF Star.what = "*" THEN low ELSE Star.from
           final == IF Star.what = "*" THEN high ELSE Star.to
           by    == IF Star.by = NoStep THEN 1 ELSE Star.by
           read  == /\ Star.what # "word"
                    /\ Star.what = "n" => Star.by = NoStep
                    /\ next = "end" => Star.what = "*" /\ Star.by = NoStep
                    /\ first <= final
                    /\ by # 0
           numbers == {n \in first .. final : read /\ (n - first) % by = 0}
           stops(n) == n \in numbers /\ ~InBounds(n, low, high)
<1>1. /\ result.bits = {n - low : n \in {m \in numbers : \A k \in first .. m : ~stops(k)}}
      /\ result.eof <=> next = "end" \/ ~read \/ \E n \in numbers : stops(n)
  BY DEF get_range
<1>2. Star.what = "*" /\ Star.by = NoStep
  BY DEF Star, Piece
<1>3. first = low /\ final = high /\ by = 1 /\ read
  BY <1>2
<1> HIDE DEF first, final, by, read
<1>4. numbers = low .. high
  BY <1>3, EveryNumber
<1>5. Numbers(Star, low, high) = low .. high
  BY <1>2 DEF Numbers
<1> HIDE DEF numbers
<1>6. \A k \in numbers : InBounds(k, low, high)
  BY <1>4 DEF InBounds
<1>7. {m \in numbers : \A k \in first .. m : ~stops(k)} = numbers
  BY <1>6
<1> QED
  BY <1>1, <1>3, <1>4, <1>5, <1>6, <1>7

FieldOf(field, low, high) == UNION {Numbers(field[j], low, high) : j \in DOMAIN field}

\* Before a blank a field is accepted if and only if its ranges are valid, and then
\* it sets the elements of their numbers.
LEMMA ListRead ==
    ASSUME NEW field \in Seq(Ranges), NEW low \in Nat, NEW high \in Nat, low <= high,
           NEW next, next # "end",
           NEW list, list = get_list(field, low, high, next)
    PROVE  /\ ~list.eof <=> \A j \in DOMAIN field : ValidRange(field[j], low, high)
           /\ ~list.eof => list.bits = {n - low : n \in FieldOf(field, low, high)}
<1> DEFINE result(i) == get_range(field[i], low, high, IF i < Len(field) THEN "," ELSE next)
           read == {i \in DOMAIN field : \A j \in 1 .. i - 1 : ~result(j).eof}
<1>1. /\ list.bits = UNION {result(i).bits : i \in read}
      /\ list.eof <=> \E i \in DOMAIN field : result(i).eof
  BY DEF get_list
<1>2. Len(field) \in Nat /\ DOMAIN field = 1 .. Len(field)
  OBVIOUS
<1>3. ASSUME NEW i \in DOMAIN field
      PROVE  /\ ~result(i).eof <=> ValidRange(field[i], low, high)
             /\ ~result(i).eof => result(i).bits = {n - low : n \in Numbers(field[i], low, high)}
  <2> DEFINE after == IF i < Len(field) THEN "," ELSE next
             r == field[i]
             here == get_range(r, low, high, after)
  <2>1. r \in Ranges /\ after # "end"
    OBVIOUS
  <2> HIDE DEF after, r
  <2>2. /\ ~here.eof <=> ValidRange(r, low, high)
        /\ ~here.eof => here.bits = {n - low : n \in Numbers(r, low, high)}
    BY <2>1, RangeRead
  <2> QED
    BY <2>2 DEF after, r
<1> HIDE DEF result
<1>4. ~list.eof => list.bits = {n - low : n \in FieldOf(field, low, high)}
  <2> SUFFICES ASSUME ~list.eof PROVE list.bits = {n - low : n \in FieldOf(field, low, high)}
    OBVIOUS
  <2>1. read = DOMAIN field
    BY <1>1, <1>2
  <2>2. \A i \in DOMAIN field : result(i).bits = {n - low : n \in Numbers(field[i], low, high)}
    BY <1>1, <1>3
  <2>3. list.bits = UNION {{n - low : n \in Numbers(field[i], low, high)} : i \in DOMAIN field}
    BY <1>1, <2>1, <2>2
  <2> QED
    BY <2>3 DEF FieldOf
<1> QED
  BY <1>1, <1>3, <1>4

\* A list of stars sets every element, though the end of the text ends it.
LEMMA StarsRead ==
    ASSUME NEW field \in Seq(Ranges), NEW low \in Nat, NEW high \in Nat, low <= high,
           \A j \in DOMAIN field : field[j] = Star,
           NEW next, NEW list, list = get_list(field, low, high, next)
    PROVE  list.bits = {n - low : n \in FieldOf(field, low, high)}
<1> DEFINE result(i) == get_range(field[i], low, high, IF i < Len(field) THEN "," ELSE next)
           read == {i \in DOMAIN field : \A j \in 1 .. i - 1 : ~result(j).eof}
<1>1. list.bits = UNION {result(i).bits : i \in read}
  BY DEF get_list
<1>2. Len(field) \in Nat /\ DOMAIN field = 1 .. Len(field)
  OBVIOUS
<1>3. ASSUME NEW i \in DOMAIN field
      PROVE  /\ result(i).eof <=> (IF i < Len(field) THEN "," ELSE next) = "end"
             /\ result(i).bits = {n - low : n \in Numbers(field[i], low, high)}
  <2> DEFINE after == IF i < Len(field) THEN "," ELSE next
             here == get_range(Star, low, high, after)
  <2> HIDE DEF after
  <2>1. here.eof <=> after = "end"
    BY StarRead
  <2>2. here.bits = {n - low : n \in Numbers(Star, low, high)}
    BY StarRead
  <2> QED
    BY <2>1, <2>2 DEF after
<1> HIDE DEF result
<1>4. read = DOMAIN field
  BY <1>2, <1>3
<1>5. list.bits = UNION {{n - low : n \in Numbers(field[i], low, high)} : i \in DOMAIN field}
  BY <1>1, <1>3, <1>4
<1> QED
  BY <1>5 DEF FieldOf

-----------------------------------------------------------------------------
(* One text                                                                *)

\* What load_entry makes of field i, with what is behind it.
ListOf(text, i) ==
    get_list(text.fields[i], Low[i], High[i], IF i < Len(text.fields) THEN "blank" ELSE text.last)

\* Where load_entry gives up.
Bad(text, i) ==
    /\ i <= Len(text.fields)
    /\ IF i < 5 THEN i = Len(text.fields) \/ ListOf(text, i).eof
       ELSE ~ListOf(text, i).eof /\ Len(text.fields) > 5

LEMMA TextOf ==
    ASSUME NEW text \in Texts
    PROVE  /\ Len(text.fields) \in Nat /\ DOMAIN text.fields = 1 .. Len(text.fields)
           /\ text.shortcut # "none" => text.fields = <<>>
           /\ text.fields = <<>> <=> Len(text.fields) = 0
           /\ text.last \in {"end", "blank"}
           /\ \A i \in DOMAIN text.fields :
                 /\ text.fields[i] \in Seq(Ranges) /\ text.fields[i] # <<>>
                 /\ Len(text.fields[i]) \in Nat \ {0}
                 /\ DOMAIN text.fields[i] = 1 .. Len(text.fields[i])
<1>1. text.fields \in Seq(Seq(Ranges) \ {<<>>})
  BY DEF Texts
<1>2. \A field \in Seq(Ranges) \ {<<>>} :
         /\ field \in Seq(Ranges) /\ field # <<>> /\ Len(field) \in Nat \ {0}
         /\ DOMAIN field = 1 .. Len(field)
  OBVIOUS
<1>3. \A i \in DOMAIN text.fields : text.fields[i] \in Seq(Ranges) \ {<<>>}
  BY <1>1
<1> QED
  BY <1>1, <1>2, <1>3 DEF Texts

LEMMA BoundsOf == \A i \in 1..5 : Low[i] \in Nat /\ High[i] \in Nat /\ Low[i] <= High[i]
<1> SUFFICES ASSUME NEW i \in 1..5 PROVE Low[i] \in Nat /\ High[i] \in Nat /\ Low[i] <= High[i]
  OBVIOUS
<1>1. i \in {1, 2, 3, 4, 5}
  OBVIOUS
<1> QED
  BY <1>1 DEF Low, High

\* A field with a blank behind it is read if and only if it is valid.
LEMMA FieldRead ==
    ASSUME NEW text \in Texts, NEW i \in 1..5, i <= Len(text.fields),
           i < Len(text.fields) \/ text.last = "blank"
    PROVE  /\ ~ListOf(text, i).eof <=> ValidField(text, i)
           /\ ~ListOf(text, i).eof =>
                 ListOf(text, i).bits = {n - Low[i] : n \in FieldNumbers(text, i)}
<1> DEFINE after == IF i < Len(text.fields) THEN "blank" ELSE text.last
           field == text.fields[i]
           low == Low[i]
           high == High[i]
           list == get_list(field, low, high, after)
<1>1. field \in Seq(Ranges)
  BY TextOf
<1>2. after # "end" /\ ListOf(text, i) = list
  BY DEF ListOf
<1>3. ValidField(text, i) <=> \A j \in DOMAIN field : ValidRange(field[j], low, high)
  BY DEF ValidField
<1>4. FieldNumbers(text, i) = FieldOf(field, low, high)
  BY DEF FieldNumbers, FieldOf
<1>5. low \in Nat /\ high \in Nat /\ low <= high
  BY BoundsOf
<1> HIDE DEF after, field, low, high
<1>6. /\ ~list.eof <=> \A j \in DOMAIN field : ValidRange(field[j], low, high)
      /\ ~list.eof => list.bits = {n - low : n \in FieldOf(field, low, high)}
  BY <1>1, <1>2, <1>5, ListRead
<1> QED
  BY <1>2, <1>3, <1>4, <1>6 DEF low

\* How load_entry ends.
LEMMA EntryLoaded ==
    ASSUME NEW text \in Texts, NEW load, load = load_entry(text)
    PROVE  /\ text.shortcut \in DOMAIN ShortcutEntry =>
                 load.error = "none" /\ load.entry = ShortcutEntry[text.shortcut]
           /\ text.shortcut \notin DOMAIN ShortcutEntry /\ text.shortcut # "none" => load.error # "none"
           /\ text.shortcut = "none" /\ text.fields = <<>> => load.error = "none" /\ load.entry = NoEntry
           /\ text.fields # <<>> =>
                 /\ load.error = "none" <=> \A i \in 1..5 : ~Bad(text, i)
                 /\ load.error = "none" => load.entry =
                       Entry(ListOf(text, 1).bits, ListOf(text, 2).bits, ListOf(text, 3).bits,
                             ListOf(text, 4).bits, ListOf(text, 5).bits,
                             (IF text.fields[3][1].what = "*" THEN {"DOM_STAR"} ELSE {}) \cup
                             (IF text.fields[5][1].what = "*" THEN {"DOW_STAR"} ELSE {}))
<1> DEFINE fields == text.fields
           list(i) == get_list(fields[i], Low[i], High[i],
                               IF i < Len(fields) THEN "blank" ELSE text.last)
           bad(i)  == i <= Len(fields) /\
                      IF i < 5 THEN i = Len(fields) \/ list(i).eof
                      ELSE ~list(i).eof /\ Len(fields) > 5
           star(i, flag) == IF fields[i][1].what = "*" THEN {flag} ELSE {}
           failed(what) == [entry |-> NoEntry, error |-> what]
           loaded(entry) == [entry |-> entry, error |-> "none"]
           found == Entry(list(1).bits, list(2).bits, list(3).bits, list(4).bits,
                          list(5).bits, star(3, "DOM_STAR") \cup star(5, "DOW_STAR"))
           first == CHOOSE i \in 1..5 : bad(i) /\ \A j \in 1 .. i - 1 : ~bad(j)
<1>1. load = IF text.shortcut \in DOMAIN ShortcutEntry THEN loaded(ShortcutEntry[text.shortcut])
             ELSE IF text.shortcut # "none" THEN failed("timespec")
             ELSE IF fields = <<>> THEN failed("none")
             ELSE IF \E i \in 1..5 : bad(i) THEN failed(FieldName[first])
             ELSE loaded(found)
  BY DEF load_entry
<1>2. \A i : bad(i) <=> Bad(text, i)
  BY DEF Bad, ListOf
<1>3. "none" \notin DOMAIN ShortcutEntry
  BY DEF ShortcutEntry
<1>4. text.fields # <<>> => text.shortcut = "none"
  BY TextOf
<1> DEFINE wanted == Entry(ListOf(text, 1).bits, ListOf(text, 2).bits, ListOf(text, 3).bits,
                           ListOf(text, 4).bits, ListOf(text, 5).bits,
                           (IF text.fields[3][1].what = "*" THEN {"DOM_STAR"} ELSE {}) \cup
                           (IF text.fields[5][1].what = "*" THEN {"DOW_STAR"} ELSE {}))
<1>5. found = wanted
  BY DEF ListOf
<1> HIDE DEF found, bad, list, star, wanted
<1>6. (\E i \in 1..5 : bad(i)) => FieldName[first] # "none"
  <2> SUFFICES ASSUME \E i \in 1..5 : bad(i) PROVE FieldName[first] # "none"
    OBVIOUS
  <2>1. \E i \in 1..5 : bad(i) /\ \A j \in 1 .. i - 1 : ~bad(j)
    <3>1. bad(1) \/ bad(2) \/ bad(3) \/ bad(4) \/ bad(5)
      <4>1. \A i \in 1..5 : i = 1 \/ i = 2 \/ i = 3 \/ i = 4 \/ i = 5
        OBVIOUS
      <4> QED
        BY <4>1
    <3>2. /\ 1 .. 1 - 1 = {} /\ 1 .. 2 - 1 = {1} /\ 1 .. 3 - 1 = {1, 2}
          /\ 1 .. 4 - 1 = {1, 2, 3} /\ 1 .. 5 - 1 = {1, 2, 3, 4}
      OBVIOUS
    <3>3. CASE bad(1)
      BY <3>2, <3>3
    <3>4. CASE ~bad(1) /\ bad(2)
      BY <3>2, <3>4
    <3>5. CASE ~bad(1) /\ ~bad(2) /\ bad(3)
      BY <3>2, <3>5
    <3>6. CASE ~bad(1) /\ ~bad(2) /\ ~bad(3) /\ bad(4)
      BY <3>2, <3>6
    <3>7. CASE ~bad(1) /\ ~bad(2) /\ ~bad(3) /\ ~bad(4) /\ bad(5)
      BY <3>2, <3>7
    <3> QED
      BY <3>1, <3>3, <3>4, <3>5, <3>6, <3>7
  <2>2. first \in 1..5
    BY <2>1
  <2> HIDE DEF first
  <2>3. first \in {1, 2, 3, 4, 5}
    BY <2>2
  <2> QED
    BY <2>3 DEF FieldName
<1> HIDE DEF first
<1>7. text.shortcut \in DOMAIN ShortcutEntry =>
         load.error = "none" /\ load.entry = ShortcutEntry[text.shortcut]
  BY <1>1
<1>8. text.shortcut \notin DOMAIN ShortcutEntry /\ text.shortcut # "none" => load.error # "none"
  BY <1>1
<1>9. text.shortcut = "none" /\ text.fields = <<>> => load.error = "none" /\ load.entry = NoEntry
  BY <1>1, <1>3
<1>10. text.fields # <<>> =>
         /\ load.error = "none" <=> \A i \in 1..5 : ~Bad(text, i)
         /\ load.error = "none" => load.entry = wanted
  <2> SUFFICES ASSUME text.fields # <<>>
               PROVE  /\ load.error = "none" <=> \A i \in 1..5 : ~Bad(text, i)
                      /\ load.error = "none" => load.entry = wanted
    OBVIOUS
  <2>1. load = IF \E i \in 1..5 : bad(i) THEN failed(FieldName[first]) ELSE loaded(found)
    BY <1>1, <1>3, <1>4
  <2>2. CASE \E i \in 1..5 : bad(i)
    BY <1>2, <1>6, <2>1, <2>2
  <2>3. CASE ~\E i \in 1..5 : bad(i)
    BY <1>2, <1>5, <2>1, <2>3
  <2> QED
    BY <2>2, <2>3
<1> QED
  BY <1>7, <1>8, <1>9, <1>10 DEF wanted

\* The names of the shortcuts.
LEMMA ShortcutNames ==
    /\ DOMAIN ShortcutEntry = DOMAIN Abbreviated \cup {"reboot"}
    /\ DOMAIN Abbreviated =
          {"yearly", "annually", "monthly", "weekly", "daily", "midnight", "hourly"}
    /\ "none" \notin DOMAIN ShortcutEntry
<1>1. DOMAIN ShortcutEntry = {"reboot", "yearly", "annually", "monthly", "weekly", "daily",
                              "midnight", "hourly"}
  BY DEF ShortcutEntry
<1>2. DOMAIN Abbreviated =
         {"yearly", "annually", "monthly", "weekly", "daily", "midnight", "hourly"}
  BY DEF Abbreviated
<1> QED
  BY <1>1, <1>2

\* The parser reports nothing for the cron expressions and for what it overlooks, and an
\* error for any other text.
LEMMA TextAccepted ==
    ASSUME NEW text \in Texts
    PROVE  load_entry(text).error = "none" <=> WellFormed(text) \/ Overlooked(text)
<1> DEFINE load == load_entry(text)
           n == Len(text.fields)
<1>1. n \in Nat /\ (text.fields = <<>> <=> n = 0)
  BY TextOf
<1>2. CASE text.fields = <<>>
  <2>1. load.error = "none" <=> text.shortcut = "none" \/ text.shortcut \in DOMAIN ShortcutEntry
    <3>1. load.error = "none" => text.shortcut = "none" \/ text.shortcut \in DOMAIN ShortcutEntry
      BY EntryLoaded
    <3>2. text.shortcut = "none" => load.error = "none"
      BY <1>2, EntryLoaded
    <3>3. text.shortcut \in DOMAIN ShortcutEntry => load.error = "none"
      BY EntryLoaded
    <3> QED
      BY <3>1, <3>2, <3>3
  <2>2. WellFormed(text) <=> text.shortcut \in DOMAIN ShortcutEntry
    BY <1>1, <1>2, ShortcutNames DEF WellFormed
  <2>3. Overlooked(text) <=> text.shortcut = "none"
    BY <1>1, <1>2 DEF Overlooked, Empty
  <2> HIDE DEF load
  <2>4. load.error = "none" <=> WellFormed(text) \/ Overlooked(text)
    BY <2>1, <2>2, <2>3
  <2> QED
    BY <2>4 DEF load
<1>3. CASE text.fields # <<>>
  <2> DEFINE first == \A i \in 1..4 : ValidField(text, i)
  <2>1. load.error = "none" <=> \A i \in 1..5 : ~Bad(text, i)
    BY <1>3, EntryLoaded
  <2>2. text.shortcut = "none"
    BY <1>3, TextOf
  <2>3. WellFormed(text) <=> n = 5 /\ first /\ ValidField(text, 5)
    <3>1. \A i : i \in 1..5 <=> i \in 1..4 \/ i = 5
      OBVIOUS
    <3> QED
      BY <2>2, <3>1, ShortcutNames DEF WellFormed
  <2>4. Overlooked(text) <=> n >= 5 /\ first /\ ~ValidField(text, 5)
    BY <1>3 DEF Overlooked, Empty
  <2>5. ASSUME NEW i \in 1..4, i < n
        PROVE  Bad(text, i) <=> ~ValidField(text, i)
    <3>1. ~ListOf(text, i).eof <=> ValidField(text, i)
      BY <1>1, <2>5, FieldRead
    <3>2. Bad(text, i) <=> i <= n /\ (i = n \/ ListOf(text, i).eof)
      BY DEF Bad
    <3> QED
      BY <1>1, <2>5, <3>1, <3>2
  <2>6. ASSUME NEW i \in 1..4, i = n PROVE Bad(text, i)
    <3>1. i <= i /\ i < 5
      OBVIOUS
    <3>2. Len(text.fields) = i
      BY <2>6
    <3>3. Bad(text, i) <=> i <= i /\ IF i < 5 THEN i = i \/ ListOf(text, i).eof
                                     ELSE ~ListOf(text, i).eof /\ i > 5
      BY <3>2, Zenon DEF Bad
    <3> QED
      BY <3>1, <3>3
  <2>7. ASSUME n >= 5 PROVE Bad(text, 5) <=> n > 5 /\ ValidField(text, 5)
    <3>1. Bad(text, 5) <=> n > 5 /\ ~ListOf(text, 5).eof
      BY <1>1, <2>7 DEF Bad
    <3>2. n > 5 => (~ListOf(text, 5).eof <=> ValidField(text, 5))
      BY <1>1, FieldRead
    <3> QED
      BY <3>1, <3>2
  <2> HIDE DEF load, n
  <2>8. CASE n < 5
    <3>1. n \in 1..4
      BY <1>1, <1>3, <2>8
    <3>2. Bad(text, n) /\ n \in 1..5
      BY <2>6, <3>1
    <3> QED
      BY <1>1, <2>1, <2>3, <2>4, <2>8, <3>2 DEF load
  <2>9. CASE n >= 5
    <3>1. \A i \in 1..4 : i < n
      BY <1>1, <2>9
    <3>2. (\A i \in 1..4 : ~Bad(text, i)) <=> first
      BY <2>5, <3>1
    <3>3. \A i : i \in 1..5 <=> i \in 1..4 \/ i = 5
      OBVIOUS
    <3>4. (\A i \in 1..5 : ~Bad(text, i)) <=> first /\ ~(n > 5 /\ ValidField(text, 5))
      BY <2>7, <2>9, <3>2, <3>3
    <3> HIDE DEF first
    <3>5. n > 5 \/ n = 5
      BY <1>1, <2>9
    <3>6. ~(n > 5 /\ n = 5)
      BY <1>1
    <3>7. load.error = "none" <=> WellFormed(text) \/ Overlooked(text)
      BY <2>1, <2>3, <2>4, <2>9, <3>4, <3>5, <3>6
    <3> QED
      BY <3>7 DEF load
  <2> QED
    BY <1>1, <2>8, <2>9
<1> QED
  BY <1>2, <1>3

\* The elements set for each field of a well-formed text whose last field is read to
\* its end are those of the numbers written.
LEMMA BitsOf ==
    ASSUME NEW text \in Texts, text.fields # <<>>, WellFormed(text), Closed(text),
           NEW i \in 1..5
    PROVE  ListOf(text, i).bits = {n - Low[i] : n \in FieldNumbers(text, i)}
<1>0. text.shortcut = "none"
  BY TextOf
<1>1. Len(text.fields) = 5 /\ ValidField(text, i)
  BY <1>0, ShortcutNames DEF WellFormed
<1>2. CASE i < 5 \/ text.last = "blank"
  <2>1. i <= Len(text.fields) /\ (i < Len(text.fields) \/ text.last = "blank")
    BY <1>1, <1>2
  <2>2. ~ListOf(text, i).eof <=> ValidField(text, i)
    BY <2>1, FieldRead
  <2>3. ~ListOf(text, i).eof => ListOf(text, i).bits = {n - Low[i] : n \in FieldNumbers(text, i)}
    BY <2>1, FieldRead
  <2> QED
    BY <1>1, <2>2, <2>3
<1>3. CASE i = 5 /\ text.last # "blank"
  <2> DEFINE field == text.fields[i]
             low == Low[i]
             high == High[i]
             list == get_list(field, low, high, text.last)
  <2>1. ListOf(text, i) = list
    BY <1>1, <1>3 DEF ListOf
  <2>2. \A j \in DOMAIN field : field[j] = Star
    BY <1>0, <1>3 DEF Closed
  <2>3. field \in Seq(Ranges) /\ low \in Nat /\ high \in Nat /\ low <= high
    BY <1>1, TextOf, BoundsOf
  <2>4. FieldNumbers(text, i) = FieldOf(field, low, high)
    BY DEF FieldNumbers, FieldOf
  <2> HIDE DEF field, low, high
  <2>5. list.bits = {n - low : n \in FieldOf(field, low, high)}
    BY <2>2, <2>3, StarsRead
  <2> QED
    BY <2>1, <2>4, <2>5 DEF low
<1> QED
  BY <1>2, <1>3

\* The numbers a valid field means are within its bounds.
LEMMA NumbersWithin ==
    ASSUME NEW text \in Texts, NEW i \in 1..5, ValidField(text, i)
    PROVE  FieldNumbers(text, i) \subseteq Low[i] .. High[i]
  BY DEF FieldNumbers, ValidField, ValidRange

\* An element is set if and only if its number is written.
LEMMA ElementSet ==
    ASSUME NEW S, NEW low \in Int, NEW high \in Int, S \subseteq low .. high, NEW k \in Int
    PROVE  k \in {n - low : n \in S} <=> k + low \in S
<1>1. S \subseteq Int
  OBVIOUS
<1>2. ASSUME k \in {n - low : n \in S} PROVE k + low \in S
  <2>1. PICK n \in S : k = n - low
    BY <1>2
  <2>2. n \in Int
    BY <1>1
  <2>3. k + low = n
    BY <2>1, <2>2
  <2> QED
    BY <2>3
<1>3. ASSUME k + low \in S PROVE k \in {n - low : n \in S}
  <2>1. k = (k + low) - low
    OBVIOUS
  <2> QED
    BY <1>3, <2>1
<1> QED
  BY <1>2, <1>3

\* The parts of a time.
LEMMA TimeOf ==
    ASSUME NEW t \in CronTimes
    PROVE  /\ t.minute \in 0..59 /\ t.hour \in 0..23 /\ t.dom \in 0..30 /\ t.month \in 0..11
           /\ t.dow \in 0..6
  BY DEF CronTimes

\* Five fields, the last of which is read to its end, match the minutes they mean:
\* both kinds of days as the flags of their stars have it, Sunday as 0 and as 7.
LEMMA MatchIsMeant ==
    ASSUME NEW text \in Texts, text.fields # <<>>, WellFormed(text), Closed(text),
           NEW t \in CronTimes, NEW entry, entry = load_entry(text).entry
    PROVE  /\ load_entry(text).error = "none" /\ ~cron_expr_match_reboot(entry)
           /\ cron_expr_match(entry, t) <=> Meant(text, t)
<1> DEFINE bits(i) == ListOf(text, i).bits
           flags == (IF text.fields[3][1].what = "*" THEN {"DOM_STAR"} ELSE {}) \cup
                    (IF text.fields[5][1].what = "*" THEN {"DOW_STAR"} ELSE {})
<1>1. Len(text.fields) = 5 /\ \A i \in 1..5 : ValidField(text, i)
  <2>1. text.shortcut = "none"
    BY TextOf
  <2> QED
    BY <2>1, ShortcutNames DEF WellFormed
<1>3. load_entry(text).error = "none"
  BY TextAccepted
<1>4. entry = Entry(bits(1), bits(2), bits(3), bits(4), bits(5), flags)
  BY <1>3, EntryLoaded
<1>5. \A i \in 1..5 : bits(i) = {n - Low[i] : n \in FieldNumbers(text, i)}
  BY BitsOf
<1>6. /\ "DOM_STAR" \in flags <=> text.fields[3][1].what = "*"
      /\ "DOW_STAR" \in flags <=> text.fields[5][1].what = "*"
      /\ flags \subseteq {"DOM_STAR", "DOW_STAR"}
  OBVIOUS
<1> HIDE DEF bits, flags
<1>7. ASSUME NEW i \in 1..5, NEW k \in Int
      PROVE  k \in bits(i) <=> k + Low[i] \in FieldNumbers(text, i)
  <2>1. FieldNumbers(text, i) \subseteq Low[i] .. High[i]
    BY <1>1, NumbersWithin
  <2>2. Low[i] \in Int /\ High[i] \in Int
    BY BoundsOf
  <2> QED
    BY <1>5, <2>1, <2>2, ElementSet
<1>8. /\ entry.minute = bits(1) /\ entry.hour = bits(2) /\ entry.dom = bits(3)
      /\ entry.month = bits(4) /\ entry.dow = Sundays(bits(5)) /\ entry.flags = flags
  BY <1>4 DEF Entry
<1>9. entry # NoEntry /\ ~cron_expr_match_reboot(entry)
  <2>1. "NULL" \notin flags /\ "WHEN_REBOOT" \notin flags
    BY <1>6
  <2>2. NoEntry.flags = {"NULL"}
    BY DEF NoEntry
  <2> QED
    BY <1>8, <2>1, <2>2 DEF cron_expr_match_reboot
<1>10. /\ t.minute \in Int /\ t.hour \in Int /\ t.dom \in Int /\ t.month \in Int /\ t.dow \in 0..6
  <2>1. \A m \in Nat : \A n \in 0..m : n \in Int
    OBVIOUS
  <2> QED
    BY <2>1, TimeOf
<1>11. Low[1] = 0 /\ Low[2] = 0 /\ Low[3] = FIRST_DOM /\ Low[4] = FIRST_MONTH /\ Low[5] = 0
  BY DEF Low, FIRST_DOM, FIRST_MONTH
<1>12. /\ t.minute \in entry.minute <=> t.minute \in FieldNumbers(text, 1)
       /\ t.hour \in entry.hour <=> t.hour \in FieldNumbers(text, 2)
       /\ t.dom \in entry.dom <=> t.dom + FIRST_DOM \in FieldNumbers(text, 3)
       /\ t.month \in entry.month <=> t.month + FIRST_MONTH \in FieldNumbers(text, 4)
  <2>1. t.minute \in bits(1) <=> t.minute + Low[1] \in FieldNumbers(text, 1)
    BY <1>7, <1>10
  <2>2. t.hour \in bits(2) <=> t.hour + Low[2] \in FieldNumbers(text, 2)
    BY <1>7, <1>10
  <2>3. t.dom \in bits(3) <=> t.dom + Low[3] \in FieldNumbers(text, 3)
    BY <1>7, <1>10
  <2>4. t.month \in bits(4) <=> t.month + Low[4] \in FieldNumbers(text, 4)
    BY <1>7, <1>10
  <2>5. t.minute + 0 = t.minute /\ t.hour + 0 = t.hour
    BY <1>10
  <2> QED
    BY <1>8, <1>11, <2>1, <2>2, <2>3, <2>4, <2>5
<1>13. t.dow \in entry.dow <=>
          {t.dow, IF t.dow = 0 THEN 7 ELSE t.dow} \cap FieldNumbers(text, 5) # {}
  <2>1. ASSUME NEW k \in Int PROVE k \in bits(5) <=> k \in FieldNumbers(text, 5)
    <3>1. k + 0 = k
      OBVIOUS
    <3> QED
      BY <1>7, <1>11, <3>1
  <2>2. CASE t.dow = 0
    <3>1. t.dow \in entry.dow <=> bits(5) \cap {0, 7} # {}
      BY <1>8, <2>2 DEF Sundays
    <3>2. bits(5) \cap {0, 7} # {} <=> 0 \in FieldNumbers(text, 5) \/ 7 \in FieldNumbers(text, 5)
      BY <2>1
    <3> QED
      BY <2>2, <3>1, <3>2
  <2>3. CASE t.dow # 0
    <3>1. t.dow \in entry.dow <=> t.dow \in bits(5)
      BY <1>8, <1>10, <2>3 DEF Sundays
    <3> QED
      BY <1>10, <2>1, <2>3, <3>1
  <2> QED
    BY <2>2, <2>3
<1>14. entry.flags \cap {"DOM_STAR", "DOW_STAR"} # {} <=>
          text.fields[3][1].what = "*" \/ text.fields[5][1].what = "*"
  BY <1>6, <1>8
<1>15. cron_expr_match(entry, t) <=> Meant(text, t)
  BY <1>9, <1>12, <1>13, <1>14 DEF cron_expr_match, Meant
<1> QED
  BY <1>3, <1>9, <1>15

\* The numbers of a field that is one star or one number.
LEMMA NumbersOf ==
    ASSUME NEW text, NEW i \in 1..5
    PROVE  /\ text.fields[i] = <<Star>> => FieldNumbers(text, i) = Low[i] .. High[i]
           /\ \A k \in Nat : text.fields[i] = <<Number(k)>> => FieldNumbers(text, i) = {k}
<1>1. Low[i] \in Int /\ High[i] \in Int
  BY BoundsOf
<1>2. ASSUME NEW r, text.fields[i] = <<r>>
      PROVE  FieldNumbers(text, i) = Numbers(r, Low[i], High[i])
  <2>1. DOMAIN <<r>> = {1} /\ <<r>>[1] = r
    OBVIOUS
  <2> QED
    BY <1>2, <2>1 DEF FieldNumbers
<1>3. ASSUME NEW low \in Int, NEW high \in Int
      PROVE  /\ Numbers(Star, low, high) = low .. high
             /\ \A k \in Nat : Numbers(Number(k), low, high) = {k}
  <2>1. Star.what = "*" /\ Star.by = NoStep
    BY DEF Star, Piece
  <2>2. \A k \in Nat : Number(k).what = "n" /\ Number(k).from = k /\ Number(k).to = k /\
                       Number(k).by = NoStep
    BY DEF Number, Piece
  <2>3. Numbers(Star, low, high) = low .. high
    BY <2>1 DEF Numbers
  <2>4. ASSUME NEW k \in Nat PROVE Numbers(Number(k), low, high) = {k}
    <3>1. k .. k = {k}
      OBVIOUS
    <3> QED
      BY <2>2, <3>1 DEF Numbers
  <2> QED
    BY <2>3, <2>4
<1> QED
  BY <1>1, <1>2, <1>3

\* The entry of a shortcut matches the minutes of the fields it stands for.
LEMMA ShortcutIsMeant ==
    ASSUME NEW name \in DOMAIN Abbreviated, NEW t \in CronTimes,
           NEW text, text = Fields(Abbreviated[name], "blank")
    PROVE  /\ ~cron_expr_match_reboot(ShortcutEntry[name])
           /\ cron_expr_match(ShortcutEntry[name], t) <=> Meant(text, t)
<1> DEFINE entry == ShortcutEntry[name]
           field(i) == text.fields[i]
           number(i) == FieldNumbers(text, i)
           weekday == {t.dow, IF t.dow = 0 THEN 7 ELSE t.dow} \cap number(5) # {}
<1>1. /\ t.minute \in 0..59 /\ t.hour \in 0..23 /\ t.dom \in 0..30 /\ t.month \in 0..11
      /\ t.dow \in 0..6
  BY TimeOf
<1>2. text.fields = Abbreviated[name]
  BY DEF Fields
<1>3. ASSUME NEW i \in 1..5
      PROVE  /\ field(i) = <<Star>> => number(i) = Low[i] .. High[i]
             /\ field(i) = <<Number(0)>> => number(i) = {0}
             /\ field(i) = <<Number(1)>> => number(i) = {1}
  BY NumbersOf
<1>4. /\ Low[1] = 0 /\ Low[2] = 0 /\ Low[3] = 1 /\ Low[4] = 1 /\ Low[5] = 0
      /\ High[1] = 59 /\ High[2] = 23 /\ High[3] = 31 /\ High[4] = 12 /\ High[5] = 7
  BY DEF Low, High
<1>5. /\ field(1) = <<Number(0)>>
      /\ field(2) = IF name = "hourly" THEN <<Star>> ELSE <<Number(0)>>
      /\ field(3) = IF name \in {"yearly", "annually", "monthly"} THEN <<Number(1)>> ELSE <<Star>>
      /\ field(4) = IF name \in {"yearly", "annually"} THEN <<Number(1)>> ELSE <<Star>>
      /\ field(5) = IF name = "weekly" THEN <<Number(0)>> ELSE <<Star>>
  <2>1. CASE name = "yearly"
    BY <1>2, <2>1 DEF Abbreviated
  <2>2. CASE name = "annually"
    BY <1>2, <2>2 DEF Abbreviated
  <2>3. CASE name = "monthly"
    BY <1>2, <2>3 DEF Abbreviated
  <2>4. CASE name = "weekly"
    BY <1>2, <2>4 DEF Abbreviated
  <2>5. CASE name = "daily"
    BY <1>2, <2>5 DEF Abbreviated
  <2>6. CASE name = "midnight"
    BY <1>2, <2>6 DEF Abbreviated
  <2>7. CASE name = "hourly"
    BY <1>2, <2>7 DEF Abbreviated
  <2> QED
    BY <2>1, <2>2, <2>3, <2>4, <2>5, <2>6, <2>7, ShortcutNames
<1>6. /\ entry.minute = {0}
      /\ entry.hour = IF name = "hourly" THEN 0..23 ELSE {0}
      /\ entry.dom = IF name \in {"yearly", "annually", "monthly"} THEN {0} ELSE 0..30
      /\ entry.month = IF name \in {"yearly", "annually"} THEN {0} ELSE 0..11
      /\ entry.dow = Sundays(IF name = "weekly" THEN {0} ELSE 0..7)
      /\ entry.flags = IF name \in {"yearly", "annually", "monthly", "weekly"} THEN {"DOW_STAR"}
                       ELSE {}
  <2>1. CASE name = "yearly"
    BY <2>1 DEF ShortcutEntry, Entry
  <2>2. CASE name = "annually"
    BY <2>2 DEF ShortcutEntry, Entry
  <2>3. CASE name = "monthly"
    BY <2>3 DEF ShortcutEntry, Entry
  <2>4. CASE name = "weekly"
    BY <2>4 DEF ShortcutEntry, Entry
  <2>5. CASE name = "daily"
    BY <2>5 DEF ShortcutEntry, Entry
  <2>6. CASE name = "midnight"
    BY <2>6 DEF ShortcutEntry, Entry
  <2>7. CASE name = "hourly"
    BY <2>7 DEF ShortcutEntry, Entry
  <2> QED
    BY <2>1, <2>2, <2>3, <2>4, <2>5, <2>6, <2>7, ShortcutNames
<1>7. Star.what = "*" /\ Number(0).what = "n" /\ Number(1).what = "n"
  BY DEF Star, Number, Piece
<1> HIDE DEF entry, number
<1>8. t.minute \in entry.minute <=> t.minute \in number(1)
  BY <1>3, <1>5, <1>6
<1>9. t.hour \in entry.hour <=> t.hour \in number(2)
  BY <1>1, <1>3, <1>4, <1>5, <1>6
<1>10. t.dom \in entry.dom <=> t.dom + FIRST_DOM \in number(3)
  <2>1. CASE name \in {"yearly", "annually", "monthly"}
    <3>1. number(3) = {1} /\ entry.dom = {0}
      BY <1>3, <1>5, <1>6, <2>1
    <3> QED
      BY <1>1, <3>1 DEF FIRST_DOM
  <2>2. CASE name \notin {"yearly", "annually", "monthly"}
    <3>1. number(3) = 1..31 /\ entry.dom = 0..30
      <4>1. field(3) = <<Star>>
        BY <1>5, <2>2
      <4>2. entry.dom = 0..30
        BY <1>6, <2>2
      <4> HIDE DEF field
      <4>3. 3 \in 1..5
        OBVIOUS
      <4>4. number(3) = Low[3] .. High[3]
        BY <1>3, <4>1, <4>3
      <4> QED
        BY <1>4, <4>2, <4>4
    <3>2. \A n \in 0..30 : n + 1 \in 1..31
      OBVIOUS
    <3> QED
      BY <1>1, <3>1, <3>2 DEF FIRST_DOM
  <2> QED
    BY <2>1, <2>2
<1>11. t.month \in entry.month <=> t.month + FIRST_MONTH \in number(4)
  <2>1. CASE name \in {"yearly", "annually"}
    <3>1. number(4) = {1} /\ entry.month = {0}
      BY <1>3, <1>5, <1>6, <2>1
    <3> QED
      BY <1>1, <3>1 DEF FIRST_MONTH
  <2>2. CASE name \notin {"yearly", "annually"}
    <3>1. number(4) = 1..12 /\ entry.month = 0..11
      BY <1>3, <1>4, <1>5, <1>6, <2>2
    <3> QED
      BY <1>1, <3>1 DEF FIRST_MONTH
  <2> QED
    BY <2>1, <2>2
<1>12. t.dow \in entry.dow <=> weekday
  <2>1. CASE name = "weekly"
    <3>1. number(5) = {0}
      BY <1>3, <1>5, <2>1
    <3>2. t.dow \in entry.dow <=> t.dow = 0
      BY <1>1, <1>6, <2>1 DEF Sundays
    <3> QED
      BY <1>1, <3>1, <3>2
  <2>2. CASE name # "weekly"
    <3>1. number(5) = 0..7
      BY <1>3, <1>4, <1>5, <2>2
    <3>2. t.dow \in entry.dow
      BY <1>1, <1>6, <2>2 DEF Sundays
    <3> QED
      BY <1>1, <3>1, <3>2
  <2> QED
    BY <2>1, <2>2
<1>13. entry # NoEntry /\ ~cron_expr_match_reboot(entry)
  <2>1. NoEntry.flags = {"NULL"}
    BY DEF NoEntry
  <2> QED
    BY <1>6, <2>1 DEF cron_expr_match_reboot
\* Both days must match but for those shortcuts whose entry has every day.
<1>14. ASSUME entry.flags = {} PROVE t.dom \in entry.dom /\ t.dow \in entry.dow
  <2>1. name \notin {"yearly", "annually", "monthly", "weekly"}
    BY <1>6, <1>14
  <2> QED
    BY <1>1, <1>6, <2>1 DEF Sundays
<1>15. field(3)[1].what = "*" \/ field(5)[1].what = "*"
  BY <1>5, <1>7
<1> DEFINE flagged == entry.flags \cap {"DOM_STAR", "DOW_STAR"} # {}
<1>16. flagged \/ entry.flags = {}
  BY <1>6
<1>17. cron_expr_match(entry, t) <=>
          /\ t.minute \in entry.minute /\ t.hour \in entry.hour /\ t.month \in entry.month
          /\ t.dow \in entry.dow /\ t.dom \in entry.dom
  <2> HIDE DEF flagged
  <2>1. cron_expr_match(entry, t) <=>
          /\ t.minute \in entry.minute /\ t.hour \in entry.hour /\ t.month \in entry.month
          /\ IF flagged THEN t.dow \in entry.dow /\ t.dom \in entry.dom
             ELSE t.dow \in entry.dow \/ t.dom \in entry.dom
    BY <1>13 DEF cron_expr_match, flagged
  <2> QED
    BY <1>14, <1>16, <2>1
<1>18. Meant(text, t) <=>
          /\ t.minute \in number(1) /\ t.hour \in number(2)
          /\ t.month + FIRST_MONTH \in number(4)
          /\ t.dom + FIRST_DOM \in number(3) /\ weekday
  BY <1>15 DEF Meant, number
<1>19. cron_expr_match(entry, t) <=> Meant(text, t)
  BY <1>8, <1>9, <1>10, <1>11, <1>12, <1>17, <1>18
<1> QED
  BY <1>13, <1>19 DEF entry

\* @reboot is the only text that is read as such, and what an empty text leaves
\* matches nothing.
LEMMA RebootText ==
    ASSUME NEW text \in Texts, NEW load, load = load_entry(text), load.error = "none"
    PROVE  /\ cron_expr_match_reboot(load.entry) <=> text.shortcut = "reboot"
           /\ text.fields = <<>> /\ text.shortcut = "none" => load.entry = NoEntry
<1>1. CASE text.shortcut \in DOMAIN ShortcutEntry
  <2>1. load.entry = ShortcutEntry[text.shortcut] /\ text.shortcut # "none"
    BY <1>1, EntryLoaded DEF ShortcutEntry
  <2>2. text.shortcut \in DOMAIN Abbreviated \cup {"reboot"}
    BY <1>1, ShortcutNames
  <2>3. ShortcutEntry["reboot"].flags = {"WHEN_REBOOT"}
    BY DEF ShortcutEntry, Entry
  <2>4. \A name \in DOMAIN Abbreviated :
           name # "reboot" /\ "WHEN_REBOOT" \notin ShortcutEntry[name].flags
    BY ShortcutNames DEF ShortcutEntry, Entry
  <2> QED
    BY <2>1, <2>2, <2>3, <2>4 DEF cron_expr_match_reboot
<1>2. CASE text.shortcut \notin DOMAIN ShortcutEntry /\ text.shortcut # "none"
  BY <1>2, EntryLoaded
<1>3. CASE text.shortcut = "none" /\ text.fields = <<>>
  <2>1. load.entry = NoEntry
    BY <1>3, EntryLoaded
  <2> QED
    BY <1>3, <2>1 DEF NoEntry, cron_expr_match_reboot
<1>4. CASE text.shortcut = "none" /\ text.fields # <<>>
  <2> DEFINE flags == (IF text.fields[3][1].what = "*" THEN {"DOM_STAR"} ELSE {}) \cup
                      (IF text.fields[5][1].what = "*" THEN {"DOW_STAR"} ELSE {})
  <2>1. load.entry = Entry(ListOf(text, 1).bits, ListOf(text, 2).bits, ListOf(text, 3).bits,
                           ListOf(text, 4).bits, ListOf(text, 5).bits, flags)
    BY <1>4, EntryLoaded
  <2>2. "WHEN_REBOOT" \notin flags
    OBVIOUS
  <2> HIDE DEF flags
  <2>3. load.entry.flags = flags
    BY <2>1 DEF Entry
  <2> QED
    BY <1>4, <2>2, <2>3 DEF cron_expr_match_reboot
<1> QED
  BY <1>1, <1>2, <1>3, <1>4

-----------------------------------------------------------------------------
(* The constructor                                                         *)

\* The texts the constructor no longer has to come to.
Behind == 1 .. Len(schedules) - Len(todo)

Read(i) == load_entry(schedules[i])

\* Those were read without an error, and their expressions were added but for those
\* of @reboot, which start the service at boot.
TextsRead ==
    /\ schedules \in Seq(Texts) /\ IsSequence(todo) /\ Len(todo) <= Len(schedules)
    /\ \A i \in 1 .. Len(todo) : todo[i] = schedules[Len(schedules) - Len(todo) + i]
    /\ \A i \in Behind : Read(i).error = "none"
    /\ error # "none" => \E i \in 1 .. Len(schedules) : Read(i).error # "none"
    /\ IsSequence(expressions)
    /\ Range(expressions) =
          {Read(i).entry : i \in {j \in Behind : ~cron_expr_match_reboot(Read(j).entry)}}
    /\ on_boot <=> schedules = <<>> \/ \E i \in Behind : cron_expr_match_reboot(Read(i).entry)

\* Nothing is read at first.
LEMMA TextsUnread ==
    /\ schedules \in Seq(Texts) /\ todo = schedules /\ expressions = <<>>
    /\ on_boot = (schedules = <<>>) /\ error = "none"
    => TextsRead
<1> SUFFICES ASSUME schedules \in Seq(Texts), todo = schedules, expressions = <<>>,
                    on_boot = (schedules = <<>>), error = "none"
             PROVE  TextsRead
  OBVIOUS
<1>1. Len(schedules) \in Nat /\ IsSequence(todo) /\ Len(todo) = Len(schedules) /\ Behind = {}
  BY DEF IsSequence, Behind
<1>2. IsSequence(expressions) /\ Range(expressions) = {}
  BY EmptySequence DEF Range
<1>3. \A i \in 1 .. Len(todo) : todo[i] = schedules[Len(schedules) - Len(todo) + i]
  BY <1>1
<1>4. {Read(i).entry : i \in {j \in Behind : ~cron_expr_match_reboot(Read(j).entry)}} = {}
  BY <1>1
<1>5. on_boot <=> schedules = <<>> \/ \E i \in Behind : cron_expr_match_reboot(Read(i).entry)
  BY <1>1, Zenon
<1>6. Len(todo) <= Len(schedules)
  BY <1>1
<1>7. \A i \in Behind : Read(i).error = "none"
  BY <1>1
<1> QED
  BY <1>1, <1>2, <1>3, <1>4, <1>5, <1>6, <1>7, Zenon DEF TextsRead

\* An element that is added at the end joins the range.
LEMMA RangeOfAppend ==
    ASSUME NEW s, NEW e, IsSequence(s)
    PROVE  Range(Append(s, e)) = Range(s) \cup {e}
<1>1. PICK S : s \in Seq(S)
  BY DEF IsSequence
<1> DEFINE T == S \cup {e}
<1>2. s \in Seq(T) /\ e \in T
  BY <1>1
<1> HIDE DEF T
<1>3. /\ Len(s) \in Nat /\ DOMAIN s = 1 .. Len(s) /\ DOMAIN Append(s, e) = 1 .. Len(s) + 1
      /\ \A i \in 1 .. Len(s) : Append(s, e)[i] = s[i]
      /\ Append(s, e)[Len(s) + 1] = e
  BY <1>2
<1>4. \A i : i \in 1 .. Len(s) + 1 <=> i \in 1 .. Len(s) \/ i = Len(s) + 1
  BY <1>3
<1> QED
  BY <1>3, <1>4 DEF Range

\* One more text is read, or the constructor throws for it.
LEMMA TextsStep == TextsRead /\ [ConstructorNext]_building => TextsRead'
<1> SUFFICES ASSUME TextsRead, [ConstructorNext]_building PROVE TextsRead'
  OBVIOUS
<1>1. CASE UNCHANGED building
  BY <1>1 DEF building, TextsRead, Behind, Read
<1>2. CASE ConstructorNext
  <2>1. todo # <<>> /\ error = "none" /\ UNCHANGED schedules
    BY <1>2 DEF ConstructorNext, ParseFails, AddReboot, AddExpression, Constructing
  <2>2. /\ IsSequence(Tail(todo)) /\ Len(Tail(todo)) = Len(todo) - 1 /\ Len(todo) \in Nat \ {0}
        /\ \A i \in 1 .. Len(todo) - 1 : Tail(todo)[i] = todo[i + 1]
        /\ Head(todo) = todo[1]
    BY <2>1, TailOf DEF TextsRead
  <2> DEFINE n == Len(schedules) - Len(todo) + 1
  <2>3. Len(schedules) \in Nat /\ n \in 1 .. Len(schedules) /\ Behind = 1 .. n - 1
        /\ parsed = Read(n)
    <3>1. Len(schedules) \in Nat
      BY DEF TextsRead
    <3>2. Head(todo) = schedules[n]
      BY <2>2, <3>1 DEF TextsRead
    <3> QED
      BY <2>2, <3>1, <3>2 DEF TextsRead, Behind, Read, parsed
  <2> HIDE DEF n
  <2>4. CASE ParseFails
    <3>1. /\ UNCHANGED <<schedules, todo, expressions, on_boot>>
          /\ Read(n).error # "none"
      BY <2>3, <2>4 DEF ParseFails
    <3> QED
      BY <2>3, <3>1 DEF TextsRead, Behind, Read
  <2>5. CASE AddReboot \/ AddExpression
    <3>1. todo' = Tail(todo) /\ error' = error /\ Read(n).error = "none"
      BY <2>3, <2>5 DEF AddReboot, AddExpression
    <3>2. /\ \A i : Read(i)' = Read(i)
          /\ Behind' = 1 .. n /\ n \in Nat /\ Len(schedules') - Len(todo') = n
          /\ \A i : i \in 1 .. n <=> i \in Behind \/ i = n
      <4>1. Len(schedules') - Len(todo') = n /\ n \in Nat
        BY <2>1, <2>2, <2>3, <3>1 DEF n
      <4>2. \A i : i \in 1 .. n <=> i \in 1 .. n - 1 \/ i = n
        BY <2>3
      <4> QED
        BY <2>1, <2>3, <4>1, <4>2 DEF Behind, Read
    <3>3. /\ schedules' \in Seq(Texts) /\ IsSequence(todo') /\ Len(todo') <= Len(schedules')
          /\ \A i \in 1 .. Len(todo') : todo'[i] = schedules'[Len(schedules') - Len(todo') + i]
      <4>1. \A i \in 1 .. Len(todo') : todo'[i] = schedules[n + i]
        BY <2>2, <2>3, <3>1 DEF TextsRead, n
      <4> QED
        BY <2>1, <2>2, <2>3, <3>1, <3>2, <4>1 DEF TextsRead
    <3>4. /\ \A i \in Behind' : Read(i)'.error = "none"
          /\ error' = "none"
      BY <2>1, <3>1, <3>2 DEF TextsRead
    <3>5. CASE AddReboot
      <4>1. cron_expr_match_reboot(Read(n).entry) /\ on_boot' = TRUE /\ expressions' = expressions
        BY <2>3, <3>5 DEF AddReboot
      <4>2. {j \in Behind' : ~cron_expr_match_reboot(Read(j).entry)} =
            {j \in Behind : ~cron_expr_match_reboot(Read(j).entry)}
        BY <3>2, <4>1
      <4>3. IsSequence(expressions') /\ Range(expressions') =
              {Read(i).entry : i \in {j \in Behind' : ~cron_expr_match_reboot(Read(j).entry)}}
        BY <4>1, <4>2 DEF TextsRead
      <4>4. on_boot' /\ \E i \in Behind' : cron_expr_match_reboot(Read(i).entry)
        BY <3>2, <4>1
      <4> QED
        BY <3>2, <3>3, <3>4, <4>3, <4>4 DEF TextsRead
    <3>6. CASE AddExpression
      <4>1. /\ ~cron_expr_match_reboot(Read(n).entry) /\ on_boot' = on_boot
            /\ expressions' = Append(expressions, Read(n).entry)
        BY <2>3, <3>6 DEF AddExpression
      <4>2. {j \in Behind' : ~cron_expr_match_reboot(Read(j).entry)} =
            {j \in Behind : ~cron_expr_match_reboot(Read(j).entry)} \cup {n}
        BY <3>2, <4>1
      <4>3. IsSequence(expressions') /\ Range(expressions') = Range(expressions) \cup {Read(n).entry}
        BY <4>1, AppendOf, RangeOfAppend DEF TextsRead
      <4>4. Range(expressions') =
              {Read(i).entry : i \in {j \in Behind' : ~cron_expr_match_reboot(Read(j).entry)}}
        BY <4>2, <4>3 DEF TextsRead
      <4>5. on_boot' <=> schedules = <<>> \/ \E i \in Behind' : cron_expr_match_reboot(Read(i).entry)
        BY <3>2, <4>1 DEF TextsRead
      <4>6. IsSequence(expressions') /\ Range(expressions') =
              {Read(i)'.entry : i \in {j \in Behind' : ~cron_expr_match_reboot(Read(j)'.entry)}}
        BY <3>2, <4>3, <4>4
      <4>7. on_boot' <=>
              schedules' = <<>> \/ \E i \in Behind' : cron_expr_match_reboot(Read(i)'.entry)
        BY <2>1, <3>2, <4>5
      <4>8. \A i \in Behind' : Read(i)'.error = "none"
        BY <3>2, <3>4
      <4> QED
        BY <3>3, <3>4, <4>6, <4>7, <4>8 DEF TextsRead
    <3> QED
      BY <2>5, <3>5, <3>6
  <2> QED
    BY <1>2, <2>4, <2>5 DEF ConstructorNext
<1> QED
  BY <1>1, <1>2

\* What was read is what the properties ask for.
LEMMA TextsReadRight == TextsRead => RefusedUnlessOverlooked /\ FiresWhenMeant
<1> SUFFICES ASSUME TextsRead PROVE RefusedUnlessOverlooked /\ FiresWhenMeant
  OBVIOUS
<1>1. /\ schedules \in Seq(Texts) /\ Len(schedules) \in Nat /\ DOMAIN schedules = 1 .. Len(schedules)
      /\ Range(schedules) = {schedules[i] : i \in 1 .. Len(schedules)}
      /\ \A i \in 1 .. Len(schedules) : schedules[i] \in Texts
  BY DEF TextsRead, Range
<1>2. Constructed => /\ Behind = 1 .. Len(schedules)
                     /\ \A i \in 1 .. Len(schedules) : Read(i).error = "none"
  BY <1>1, EmptySequence DEF Constructed, Behind, TextsRead
<1>3. RefusedUnlessOverlooked
  <2>1. ASSUME Constructed, NEW text \in Range(schedules)
        PROVE  WellFormed(text) \/ Overlooked(text)
    <3>1. text \in Texts /\ load_entry(text).error = "none"
      BY <1>1, <1>2, <2>1 DEF Read
    <3> QED
      BY <3>1, TextAccepted
  <2>2. ASSUME error # "none"
        PROVE  \E text \in Range(schedules) : ~WellFormed(text) /\ ~Overlooked(text)
    <3>1. PICK i \in 1 .. Len(schedules) : load_entry(schedules[i]).error # "none"
      BY <2>2 DEF TextsRead, Read
    <3>2. ~WellFormed(schedules[i]) /\ ~Overlooked(schedules[i])
      BY <1>1, <3>1, TextAccepted
    <3> QED
      BY <1>1, <3>2
  <2> QED
    BY <2>1, <2>2 DEF RefusedUnlessOverlooked
<1>4. FiresWhenMeant
  <2> SUFFICES ASSUME Constructed,
                      \A text \in Range(schedules) :
                         Empty(text) \/ (WellFormed(text) /\ Closed(text)),
                      NEW t \in Times
               PROVE  Matched(t) <=> Awaited(t)
    BY DEF FiresWhenMeant
  <2>1. t \in CronTimes
    BY TextsAssumption
  <2>2. ASSUME NEW i \in 1 .. Len(schedules)
        PROVE  ~cron_expr_match_reboot(Read(i).entry) /\ cron_expr_match(Read(i).entry, t) <=>
                  AwaitedBy(schedules[i], t)
    <3> DEFINE text == schedules[i]
    <3>1. text \in Texts /\ text \in Range(schedules) /\ load_entry(text).error = "none"
      BY <1>1, <1>2 DEF Read
    <3>2. Empty(text) \/ (WellFormed(text) /\ Closed(text))
      BY <3>1
    <3> HIDE DEF text
    <3> DEFINE fires == /\ ~cron_expr_match_reboot(load_entry(text).entry)
                        /\ cron_expr_match(load_entry(text).entry, t)
    <3>3. ASSUME text.fields # <<>> PROVE fires <=> AwaitedBy(text, t)
      <4>1. ~Empty(text) /\ text.shortcut = "none"
        BY <3>1, <3>3, TextOf DEF Empty
      <4>2. Unabbreviated(text) = text
        BY <4>1, ShortcutNames DEF Unabbreviated
      <4>3. /\ ~cron_expr_match_reboot(load_entry(text).entry)
            /\ cron_expr_match(load_entry(text).entry, t) <=> Meant(text, t)
        BY <2>1, <3>1, <3>2, <3>3, <4>1, MatchIsMeant
      <4> QED
        BY <4>1, <4>2, <4>3 DEF AwaitedBy
    <3>4. ASSUME text.shortcut = "none" /\ text.fields = <<>> PROVE fires <=> AwaitedBy(text, t)
      <4>1. load_entry(text).entry = NoEntry
        BY <3>1, <3>4, RebootText
      <4> QED
        BY <3>4, <4>1 DEF cron_expr_match, AwaitedBy, Empty
    <3>5. ASSUME text.shortcut = "reboot" PROVE fires <=> AwaitedBy(text, t)
      <4>1. cron_expr_match_reboot(load_entry(text).entry)
        BY <3>1, <3>5, RebootText
      <4> QED
        BY <3>5, <4>1 DEF AwaitedBy
    <3>6. ASSUME text.shortcut \notin {"none", "reboot"} PROVE fires <=> AwaitedBy(text, t)
      <4>1. text.fields = <<>> /\ Len(text.fields) = 0
        BY <3>1, <3>6, TextOf
      <4>2. text.shortcut \in DOMAIN Abbreviated
        BY <3>2, <3>6, <4>1 DEF WellFormed, Empty
      <4>3. load_entry(text).entry = ShortcutEntry[text.shortcut]
        BY <3>1, <4>2, EntryLoaded, ShortcutNames
      <4>4. Unabbreviated(text) = Fields(Abbreviated[text.shortcut], "blank")
        BY <4>2 DEF Unabbreviated
      <4>5. /\ ~cron_expr_match_reboot(load_entry(text).entry)
            /\ cron_expr_match(load_entry(text).entry, t) <=> Meant(Unabbreviated(text), t)
        BY <2>1, <4>2, <4>3, <4>4, ShortcutIsMeant
      <4> QED
        BY <3>6, <4>5 DEF AwaitedBy, Empty
    <3>7. fires <=> AwaitedBy(text, t)
      <4>1. text.fields # <<>> => text.shortcut = "none"
        BY <3>1, TextOf
      <4> HIDE DEF fires
      <4> QED
        BY <3>3, <3>4, <3>5, <3>6
    <3> QED
      BY <3>7 DEF text, Read
  <2>3. Matched(t) <=> \E i \in 1 .. Len(schedules) :
           ~cron_expr_match_reboot(Read(i).entry) /\ cron_expr_match(Read(i).entry, t)
    BY <1>2 DEF Matched, CheckTime, TextsRead
  <2>4. Awaited(t) <=> \E i \in 1 .. Len(schedules) : AwaitedBy(schedules[i], t)
    BY <1>1 DEF Awaited
  <2> QED
    BY <2>2, <2>3, <2>4
<1> QED
  BY <1>3, <1>4

\* The invariant of the constructor on its own.
LEMMA ConstructorReads == ConstructorSpec => []TextsRead
<1>1. ConstructorInit => TextsRead
  <2> SUFFICES ASSUME ConstructorInit PROVE TextsRead
    OBVIOUS
  <2>1. schedules \in Seq(Texts)
    BY TextsAssumption DEF ConstructorInit
  <2> QED
    BY <2>1, TextsUnread DEF ConstructorInit
<1> QED
  BY <1>1, TextsStep, PTL DEF ConstructorSpec

\* Whatever the texts of a service are, the constructor throws if and only if one of them
\* is neither a cron expression, five valid fields or a shortcut, nor overlooked.
THEOREM TextsRefused == ConstructorSpec => []RefusedUnlessOverlooked
<1>1. TextsRead => RefusedUnlessOverlooked
  BY TextsReadRight
<1> QED
  BY <1>1, ConstructorReads, PTL

\* Whatever cron expressions a service has and however many, shortcuts or fields, it is
\* started at exactly the minutes they mean, if the last field of each was read to its
\* end.
THEOREM ServicesFire == ConstructorSpec => []FiresWhenMeant
<1>1. TextsRead => FiresWhenMeant
  BY TextsReadRight
<1> QED
  BY <1>1, ConstructorReads, PTL
=============================================================================
