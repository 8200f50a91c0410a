------------------------- MODULE MCObservedTransfer -------------------------
(***************************************************************************)
(* TLC instances of ObservedTransfer, with the files of MCTransfer.         *)
(***************************************************************************)
EXTENDS MCTransfer, ObservedTransfer

=============================================================================
