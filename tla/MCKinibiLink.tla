---------------------------- MODULE MCKinibiLink ---------------------------
(* KinibiLink with up to three threads, with and without the timeout of     *)
(* mcWaitNotification running out.                                          *)
EXTENDS KinibiLink
=============================================================================
