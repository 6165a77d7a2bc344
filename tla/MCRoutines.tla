----------------------------- MODULE MCRoutines -----------------------------
(* All routines, of the HAL and of the trusted application. *)
EXTENDS Routine, HalTables, TaTables

MCCode == HalCode @@ TaCode
MCContract == HalContract @@ TaContract
MCDepends == HalDepends \union TaDepends
MCLeaky == HalLeaky \union TaLeaky
MCDeaf == HalDeaf \union TaDeaf
=============================================================================
