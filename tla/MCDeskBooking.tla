--------------------------- MODULE MCDeskBooking ---------------------------
(***************************************************************************)
(* Values of the constants of DeskBooking for TLC.  A day is 10 units: the *)
(* office opens at 1 and closes at 8, a reservation lasts at most 6, an    *)
(* NFC scan may be one unit early or late, a web check-in two early.       *)
(***************************************************************************)
EXTENDS DeskBooking, TLC

\* Two slots that overlap and one the second can be moved to.
MorningSlots == {[date |-> 0, start |-> 1, end |-> 3], [date |-> 0, start |-> 2, end |-> 4]}

OneSlot == {[date |-> 0, start |-> 1, end |-> 2]}

NoSeries == {}

TwoDaySeries == {<<[date |-> 0, start |-> 1, end |-> 3],
                   [date |-> 1, start |-> 11, end |-> 13]>>}

Symmetry == Permutations(Threads) \cup Permutations(Ids) \cup Permutations(Desks)
=============================================================================
