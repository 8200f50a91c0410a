------------------------------ MODULE MCPhone -------------------------------
(***************************************************************************)
(* TLC instances of Phone; its constants are all numbers and sets of them.  *)
(***************************************************************************)
EXTENDS Phone

=============================================================================
