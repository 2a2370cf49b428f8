--------------------------- MODULE MCFinanceJobs ---------------------------
(* Instances of FinanceJobs for TLC.                                       *)
EXTENDS FinanceJobs, TLC

\* west of Greenwich, UTC, east of it
MCZones == {-1, 0, 1}

MCSubChanges == {<<>>, [due |-> 2]}
MCConfChanges == {[zone |-> 0]}

MCSymmetry == Permutations(Requests)
=============================================================================
