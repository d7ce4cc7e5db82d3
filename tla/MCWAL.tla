-------------------------------- MODULE MCWAL --------------------------------
(***************************************************************************)
(* Model-checking instance of WAL: two tasks append three operations.      *)
(***************************************************************************)
EXTENDS WAL

=============================================================================
