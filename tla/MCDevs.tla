------------------------------- MODULE MCDevs -------------------------------
(***************************************************************************)
(* Model of Devs for TLC: what its source says of max_index.  MCDevices    *)
(* checks what the table keeps.                                            *)
(***************************************************************************)
EXTENDS Devs, TLC

CONSTANTS p1, p2

Symmetry == Permutations({p1, p2})

=============================================================================
