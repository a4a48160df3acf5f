------------------------------ MODULE HistScan ------------------------------
(***************************************************************************)
(* The loop of hist_find_last (src/src/hist.c:125-182) written as the loop *)
(* it is, to compare it with the operator Scan of HistLog that the models  *)
(* and the proofs use.                                                     *)
(***************************************************************************)
EXTENDS HistLog

\* last_valid_history_entry and last_valid_loc with nothing found, cleared to
\* zeros; done once the loop has been left.
NothingFound == [rst |-> 0, minute |-> 0, at |-> 0, done |-> FALSE]

\* The comparison of the loop: a later cycle, or the same one and no earlier
\* minute.
IsNewer(e, found) ==
    \/ e.rst > found.rst
    \/ e.rst = found.rst /\ e.minute >= found.minute

\* The turn of the loop at entry i: an "open" one is not among those that
\* fcb_getnext returns, a "bad" one fails the CRC and is passed over, and the
\* first good one that steps back ends the loop.
Turn(found, l, i) ==
    IF found.done \/ l[i].state # "good" THEN found
    ELSE IF IsNewer(l[i], found)
    THEN [rst |-> l[i].rst, minute |-> l[i].minute, at |-> i, done |-> FALSE]
    ELSE [found EXCEPT !.done = TRUE]

\* What the loop has found after each position of the log.
Turns(l, from) ==
    LET found[i \in from - 1 .. Len(l)] ==
            IF i = from - 1 THEN NothingFound ELSE Turn(found[i - 1], l, i)
    IN  found

FindLast(l, from) == Turns(l, from)[Len(l)].at
=============================================================================
