------------------------- MODULE MCQotCoordinator -------------------------
(* Model-checking instance of QotCoordinator: one timeline, two node      *)
(* names, demands that are tighter and looser than the defaults.          *)
EXTENDS QotCoordinator

MCAccIn  == {0, 500, 2000000000}
MCResIn  == {50, 1000}
MCMetaIn == {"domain1"}

\* Smaller inputs for the runs with connection faults.
MCAccInFaults == {0, 500}
MCResInFaults == {50}
=============================================================================
