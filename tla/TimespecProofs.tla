--------------------------- MODULE TimespecProofs ---------------------------
(***************************************************************************)
(* Timespecs count nanoseconds, whichever operand a result is written to.  *)
(***************************************************************************)
EXTENDS Timespec, TLAPS

Nanoseconds(t) == t.tv_sec * NANOS + t.tv_nsec

LEMMA NanosPositive == NANOS \in Int /\ 0 < NANOS
  BY SMT DEF NANOS

LEMMA Fields ==
    ASSUME NEW t \in Timespecs
    PROVE  t.tv_sec \in Int /\ t.tv_nsec \in Int /\ 0 <= t.tv_nsec /\ t.tv_nsec < NANOS
  BY NanosPositive DEF Timespecs

LEMMA IsTimespec ==
    ASSUME NEW sec \in Int, NEW nsec \in Int, 0 <= nsec, nsec < NANOS
    PROVE  /\ [tv_sec |-> sec, tv_nsec |-> nsec] \in Timespecs
           /\ [tv_sec |-> sec, tv_nsec |-> nsec].tv_sec = sec
           /\ [tv_sec |-> sec, tv_nsec |-> nsec].tv_nsec = nsec
  BY NanosPositive DEF Timespecs

LEMMA SetSecSets ==
    ASSUME NEW cells, NEW c \in DOMAIN cells, NEW n
    PROVE  /\ DOMAIN SetSec(cells, c, n) = DOMAIN cells
           /\ SetSec(cells, c, n)[c].tv_sec = n
  BY SMT DEF SetSec

LEMMA SetSecKeeps ==
    ASSUME NEW cells, NEW c \in DOMAIN cells, NEW n, NEW d \in DOMAIN cells
    PROVE  /\ d # c => SetSec(cells, c, n)[d] = cells[d]
           /\ SetSec(cells, c, n)[d].tv_nsec = cells[d].tv_nsec
  BY SMT DEF SetSec

LEMMA SetNsecSets ==
    ASSUME NEW cells, NEW c \in DOMAIN cells, NEW n
    PROVE  /\ DOMAIN SetNsec(cells, c, n) = DOMAIN cells
           /\ SetNsec(cells, c, n)[c] = [tv_sec |-> cells[c].tv_sec, tv_nsec |-> n]
  BY SMT DEF SetNsec

LEMMA SetNsecKeeps ==
    ASSUME NEW cells, NEW c \in DOMAIN cells, NEW n, NEW d \in DOMAIN cells
    PROVE  d # c => SetNsec(cells, c, n)[d] = cells[d]
  BY SMT DEF SetNsec

-----------------------------------------------------------------------------

\* timespec_cmp compares the nanoseconds.
THEOREM CmpIsOrder ==
    ASSUME NEW a \in Timespecs, NEW b \in Timespecs
    PROVE  /\ timespec_cmp(a, b) = -1 <=> Nanoseconds(a) < Nanoseconds(b)
           /\ timespec_cmp(a, b) = 0 <=> Nanoseconds(a) = Nanoseconds(b)
           /\ timespec_cmp(a, b) = 1 <=> Nanoseconds(a) > Nanoseconds(b)
  BY SMT, Fields DEF timespec_cmp, Nanoseconds, NANOS

\* timespec_add writes the sum of the two times, normalised, and nothing else,
\* wherever the result is: timeout_from_now writes it to the second operand.
THEOREM AddIsSum ==
    ASSUME NEW Cell, NEW cells \in [Cell -> Timespecs],
           NEW time1 \in Cell, NEW time2 \in Cell, NEW result \in Cell,
           NEW after, after = timespec_add(cells, time1, time2, result)
    PROVE  /\ after[result] \in Timespecs
           /\ Nanoseconds(after[result])
                 = Nanoseconds(cells[time1]) + Nanoseconds(cells[time2])
           /\ \A c \in Cell \ {result} : after[c] = cells[c]
<1> DEFINE sec  == cells[time1].tv_sec + cells[time2].tv_sec
           nsec == cells[time1].tv_nsec + cells[time2].tv_nsec
           one  == SetSec(cells, result, sec)
           two  == SetNsec(one, result, one[time1].tv_nsec + one[time2].tv_nsec)
           up   == SetSec(two, result, sec + 1)
<1>1. DOMAIN cells = Cell
  OBVIOUS
<1>2. \A c \in Cell : /\ cells[c].tv_sec \in Int /\ cells[c].tv_nsec \in Int
                      /\ 0 <= cells[c].tv_nsec /\ cells[c].tv_nsec < NANOS
  BY SMT, Fields
<1>3. /\ sec \in Int /\ nsec \in Int
      /\ 0 <= nsec /\ nsec < NANOS + NANOS
      /\ sec * NANOS + nsec = Nanoseconds(cells[time1]) + Nanoseconds(cells[time2])
  BY SMT, <1>2 DEF Nanoseconds, NANOS
<1>4. /\ DOMAIN one = Cell
      /\ one[result].tv_sec = sec
      /\ one[time1].tv_nsec + one[time2].tv_nsec = nsec
      /\ \A c \in Cell \ {result} : one[c] = cells[c]
  <2> HIDE DEF sec
  <2>1. DOMAIN one = Cell /\ one[result].tv_sec = sec
    BY <1>1, SetSecSets
  <2>2. \A c \in Cell : /\ c # result => one[c] = cells[c]
                        /\ one[c].tv_nsec = cells[c].tv_nsec
    BY <1>1, SetSecKeeps
  <2> HIDE DEF one
  <2>3. one[time1].tv_nsec + one[time2].tv_nsec = nsec
    BY <2>2
  <2>4. \A c \in Cell \ {result} : one[c] = cells[c]
    BY <2>2
  <2> QED
    BY <2>1, <2>3, <2>4
<1> HIDE DEF one, nsec, sec
<1>5. /\ DOMAIN two = Cell
      /\ two[result] = [tv_sec |-> sec, tv_nsec |-> nsec]
      /\ \A c \in Cell \ {result} : two[c] = cells[c]
  <2>1. two = SetNsec(one, result, nsec)
    BY <1>4
  <2> HIDE DEF two
  <2>2. DOMAIN two = Cell /\ two[result] = [tv_sec |-> sec, tv_nsec |-> nsec]
    BY <1>4, <2>1, SetNsecSets
  <2>3. \A c \in Cell : c # result => two[c] = one[c]
    BY <1>4, <2>1, SetNsecKeeps
  <2> QED
    BY <1>4, <2>2, <2>3
<1>6. after = CarryOver(two, result)
  BY DEF timespec_add, one, sec
<1> HIDE DEF two
<1>7. CASE nsec >= NANOS
  <2>1. DOMAIN up = Cell /\ up[result].tv_sec = sec + 1
    BY <1>5, SetSecSets
  <2>2. \A c \in Cell : c # result => up[c] = two[c]
    BY <1>5, SetSecKeeps
  <2>3. /\ after[result] = [tv_sec |-> sec + 1, tv_nsec |-> nsec - NANOS]
        /\ \A c \in Cell \ {result} : after[c] = cells[c]
    <3>1. after = SetNsec(up, result, nsec - NANOS)
      BY ONLY SMT, <1>5, <1>6, <1>7 DEF CarryOver, up
    <3> HIDE DEF up
    <3>2. after[result] = [tv_sec |-> sec + 1, tv_nsec |-> nsec - NANOS]
      BY <2>1, <3>1, SetNsecSets
    <3>3. \A c \in Cell : c # result => after[c] = up[c]
      BY <2>1, <3>1, SetNsecKeeps
    <3> QED
      BY <1>5, <2>2, <3>2, <3>3
  <2> HIDE DEF up
  <2>4. /\ sec + 1 \in Int /\ nsec - NANOS \in Int
        /\ 0 <= nsec - NANOS /\ nsec - NANOS < NANOS
        /\ (sec + 1) * NANOS + (nsec - NANOS) = sec * NANOS + nsec
    BY SMT, <1>3, <1>7 DEF NANOS
  <2>5. /\ after[result] \in Timespecs
        /\ after[result].tv_sec = sec + 1 /\ after[result].tv_nsec = nsec - NANOS
    BY ONLY <2>3, <2>4, IsTimespec
  <2> QED
    BY ONLY SMT, <1>3, <2>3, <2>4, <2>5 DEF Nanoseconds
<1>8. CASE ~(nsec >= NANOS)
  <2>1. after = two
    BY ONLY SMT, <1>5, <1>6, <1>8 DEF CarryOver
  <2>2. nsec < NANOS
    BY SMT, <1>3, <1>8 DEF NANOS
  <2>3. after[result] \in Timespecs
    BY ONLY <1>3, <1>5, <2>1, <2>2, IsTimespec
  <2> QED
    BY ONLY SMT, <1>3, <1>5, <2>1, <2>3 DEF Nanoseconds
<1> QED
  BY <1>7, <1>8

\* timespec_diff writes the difference; it returns -1 exactly if that is negative.
THEOREM DiffIsDifference ==
    ASSUME NEW Cell, NEW cells \in [Cell -> Timespecs],
           NEW start \in Cell, NEW stop \in Cell, NEW result \in Cell,
           NEW diff, diff = timespec_diff(cells, start, stop, result)[result]
    PROVE  /\ diff \in Timespecs
           /\ Nanoseconds(diff) = Nanoseconds(cells[stop]) - Nanoseconds(cells[start])
           /\ Negative(diff) <=> Nanoseconds(cells[stop]) < Nanoseconds(cells[start])
<1> DEFINE borrow == IF cells[start].tv_nsec > cells[stop].tv_nsec THEN 1 ELSE 0
           sec  == cells[stop].tv_sec - cells[start].tv_sec - borrow
           one  == SetSec(cells, result, sec)
           nsec == one[stop].tv_nsec - one[start].tv_nsec + borrow * NANOS
<1>1. DOMAIN cells = Cell
  OBVIOUS
<1>2. \A c \in Cell : /\ cells[c].tv_sec \in Int /\ cells[c].tv_nsec \in Int
                      /\ 0 <= cells[c].tv_nsec /\ cells[c].tv_nsec < NANOS
  BY SMT, Fields
<1>3. \A c \in Cell : one[c].tv_nsec = cells[c].tv_nsec
  <2> HIDE DEF sec
  <2> QED
    BY <1>1, SetSecKeeps
<1>4. DOMAIN one = Cell /\ one[result].tv_sec = sec
  <2> HIDE DEF sec
  <2> QED
    BY <1>1, SetSecSets
<1>5. diff = SetNsec(one, result, nsec)[result]
  BY DEF timespec_diff
<1> HIDE DEF one
<1>6. /\ sec \in Int /\ nsec \in Int
      /\ 0 <= nsec /\ nsec < NANOS
      /\ sec * NANOS + nsec = Nanoseconds(cells[stop]) - Nanoseconds(cells[start])
  <2>1. CASE cells[start].tv_nsec > cells[stop].tv_nsec
    <3>1. borrow = 1
      BY <2>1
    <3> HIDE DEF borrow
    <3> QED
      BY SMT, <1>2, <1>3, <2>1, <3>1 DEF Nanoseconds, NANOS
  <2>2. CASE ~(cells[start].tv_nsec > cells[stop].tv_nsec)
    <3>1. borrow = 0
      BY <2>2
    <3> HIDE DEF borrow
    <3> QED
      BY SMT, <1>2, <1>3, <2>2, <3>1 DEF Nanoseconds, NANOS
  <2> QED
    BY <2>1, <2>2
<1> HIDE DEF nsec, sec
<1>7. diff = [tv_sec |-> sec, tv_nsec |-> nsec]
  BY <1>4, <1>5, SetNsecSets
<1>8. diff \in Timespecs /\ diff.tv_sec = sec /\ diff.tv_nsec = nsec
  BY ONLY <1>6, <1>7, IsTimespec
<1>9. /\ diff.tv_sec < 0 <=> Nanoseconds(cells[stop]) < Nanoseconds(cells[start])
      /\ Nanoseconds(cells[stop]) \in Int /\ Nanoseconds(cells[start]) \in Int
  BY SMT, <1>2, <1>6, <1>8 DEF Nanoseconds, NANOS
<1> QED
  BY ONLY <1>6, <1>8, <1>9 DEF Nanoseconds, Negative

\* WaitSignal waits until the timeout and not beyond: if the timeout is still to
\* come, sigtimedwait is given exactly what is left of it, otherwise 0.
THEOREM RemainingEndsAtTimeout ==
    ASSUME NEW Cell, NEW cells \in [Cell -> Timespecs],
           NEW now \in Cell, NEW timeout \in Cell, NEW result \in Cell,
           NEW left, left = Remaining(cells, now, timeout, result)
    PROVE  /\ left \in Timespecs
           /\ timeout_expired(cells[now], cells[timeout]) => Nanoseconds(left) = 0
           /\ ~timeout_expired(cells[now], cells[timeout]) =>
                 Nanoseconds(cells[now]) + Nanoseconds(left) = Nanoseconds(cells[timeout])
<1> DEFINE diff == timespec_diff(cells, now, timeout, result)[result]
           zero == [tv_sec |-> 0, tv_nsec |-> 0]
<1>1. /\ diff \in Timespecs
      /\ Nanoseconds(diff) = Nanoseconds(cells[timeout]) - Nanoseconds(cells[now])
      /\ Negative(diff) <=> Nanoseconds(cells[timeout]) < Nanoseconds(cells[now])
  BY DiffIsDifference
<1>2. left = IF Negative(diff) THEN zero ELSE diff
  BY DEF Remaining
<1> HIDE DEF diff
<1>3. cells[now] \in Timespecs /\ cells[timeout] \in Timespecs
  OBVIOUS
<1>4. /\ Nanoseconds(cells[now]) \in Int /\ Nanoseconds(cells[timeout]) \in Int
      /\ Nanoseconds(diff) \in Int
  BY SMT, <1>1, <1>3, Fields DEF Nanoseconds, NANOS
<1>5. timeout_expired(cells[now], cells[timeout])
        <=> Nanoseconds(cells[now]) >= Nanoseconds(cells[timeout])
  BY SMT, <1>3, Fields DEF timeout_expired, timespec_cmp, Nanoseconds, NANOS
<1>6. zero \in Timespecs /\ Nanoseconds(zero) = 0
  <2>1. 0 < NANOS /\ 0 * NANOS + 0 = 0
    BY SMT DEF NANOS
  <2>2. zero \in Timespecs /\ zero.tv_sec = 0 /\ zero.tv_nsec = 0
    <3>1. 0 \in Int /\ 0 <= 0
      BY SMT
    <3> QED
      BY ONLY <2>1, <3>1, IsTimespec
  <2> QED
    BY ONLY <2>1, <2>2 DEF Nanoseconds
<1> HIDE DEF zero
<1>7. CASE Negative(diff)
  BY ONLY SMT, <1>1, <1>2, <1>4, <1>5, <1>6, <1>7
<1>8. CASE ~Negative(diff)
  BY ONLY SMT, <1>1, <1>2, <1>4, <1>5, <1>8
<1> QED
  BY <1>7, <1>8
=============================================================================
