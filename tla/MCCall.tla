------------------------------- MODULE MCCall -------------------------------
(***************************************************************************)
(* Call for TLC.                                                           *)
(***************************************************************************)
EXTENDS Call

\* Bound: only a directory of fewer than MaxFiles files is larger when it is walked than
\* it was when it was counted.
MCInit == Init /\ (present = MaxFiles => announced = MaxFiles)

MCSpec == MCInit /\ [][Next]_vars /\ Fairness
=============================================================================
