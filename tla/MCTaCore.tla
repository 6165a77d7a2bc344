------------------------------ MODULE MCTaCore ------------------------------
(* Clients are interchangeable: no action names one.                        *)
EXTENDS TaCore, TLC

Symmetry == Permutations(Clients)
=============================================================================
