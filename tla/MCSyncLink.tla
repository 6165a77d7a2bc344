----------------------------- MODULE MCSyncLink -----------------------------
(* SyncLink with three threads on each of the three back ends.             *)
EXTENDS SyncLink

\* A refusal on QSEE goes unnoticed: the two sides are built from one header
\* there (Layout: OneBuildAccepts).
MCFailures ==
  [qsee |-> {"lost", "late"}, isee |-> {"lost", "late", "refused"},
   gp |-> {"lost", "late", "refused"}]
=============================================================================
