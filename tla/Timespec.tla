------------------------------ MODULE Timespec ------------------------------
(***************************************************************************)
(* The timespecs of utils/time.cpp.  A function writes its result through  *)
(* a reference that may be one of its operands (timeout_from_now adds in   *)
(* place), so it is modelled on the cells that hold timespecs, assignment  *)
(* by assignment.  Seconds do not overflow: the monotonic clock starts     *)
(* near 0, and what is added to it is a few seconds.                       *)
(***************************************************************************)
EXTENDS Integers

NANOS == 1000000000

Timespecs == [tv_sec: Int, tv_nsec: 0 .. NANOS - 1]

timespec_cmp(a, b) ==
    IF a.tv_sec < b.tv_sec THEN -1
    ELSE IF a.tv_sec > b.tv_sec THEN 1
    ELSE IF a.tv_nsec < b.tv_nsec THEN -1
    ELSE IF a.tv_nsec > b.tv_nsec THEN 1
    ELSE 0

timeout_expired(now, time) == timespec_cmp(now, time) >= 0

\* Assignments to a field of a cell.
SetSec(cells, cell, sec) ==
    [cells EXCEPT ![cell] = [tv_sec |-> sec, tv_nsec |-> cells[cell].tv_nsec]]
SetNsec(cells, cell, nsec) ==
    [cells EXCEPT ![cell] = [tv_sec |-> cells[cell].tv_sec, tv_nsec |-> nsec]]

CarryOver(cells, cell) ==
    IF cells[cell].tv_nsec >= NANOS
    THEN SetNsec(SetSec(cells, cell, cells[cell].tv_sec + 1), cell, cells[cell].tv_nsec - NANOS)
    ELSE cells

timespec_add(cells, time1, time2, result) ==
    LET sec  == SetSec(cells, result, cells[time1].tv_sec + cells[time2].tv_sec)
        nsec == SetNsec(sec, result, sec[time1].tv_nsec + sec[time2].tv_nsec)
    IN  CarryOver(nsec, result)

\* The duration in the cell time becomes a timeout.
timeout_from_now(cells, now, time) == timespec_add(cells, now, time, time)

timespec_diff(cells, start, stop, result) ==
    LET borrow == IF cells[start].tv_nsec > cells[stop].tv_nsec THEN 1 ELSE 0
        sec    == SetSec(cells, result, cells[stop].tv_sec - cells[start].tv_sec - borrow)
    IN  SetNsec(sec, result, sec[stop].tv_nsec - sec[start].tv_nsec + borrow * NANOS)

\* timespec_diff returns -1.
Negative(time) == time.tv_sec < 0

\* The time sigtimedwait is given: what is left of a timeout, or none.
Remaining(cells, now, timeout, result) ==
    LET left == timespec_diff(cells, now, timeout, result)[result]
    IN  IF Negative(left) THEN [tv_sec |-> 0, tv_nsec |-> 0] ELSE left
=============================================================================
