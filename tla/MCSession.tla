----------------------------- MODULE MCSession -----------------------------
(***************************************************************************)
(* Model of Session for TLC.  The requests are interchangeable: nothing in *)
(* Session orders or names them, and the runs that use the symmetry check  *)
(* no liveness property.                                                   *)
(***************************************************************************)
EXTENDS Session, TLC

CONSTANTS r1, r2, r3, w1, w2

Symmetry == Permutations({r1, r2, r3} \cap Requests)

=============================================================================
