------------------------------ MODULE MCHelper ------------------------------
(***************************************************************************)
(* Model of Helper for TLC.                                                *)
(***************************************************************************)
EXTENDS Helper

=============================================================================
