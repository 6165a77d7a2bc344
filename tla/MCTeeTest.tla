----------------------------- MODULE MCTeeTest -----------------------------
(* TeeTest with a few commands and rounds, a short second and narrow words. *)
EXTENDS TeeTest

MCCommands == 0 .. 2
=============================================================================
