-------------------------- MODULE MCContentScript --------------------------
(***************************************************************************)
(* Model of ContentScript for TLC.                                         *)
(***************************************************************************)
EXTENDS ContentScript

=============================================================================
