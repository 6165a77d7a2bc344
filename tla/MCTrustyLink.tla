---------------------------- MODULE MCTrustyLink ----------------------------
(* TrustyLink with three threads. *)
EXTENDS TrustyLink
=============================================================================
