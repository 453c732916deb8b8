----------------------------- MODULE MCXhttpApply -----------------------------
(***************************************************************************)
(* Small instances of XhttpApply.  The model values of Secrets are named   *)
(* here so that they can be exchanged for one another: no definition       *)
(* singles one of them out.                                                *)
(***************************************************************************)
EXTENDS XhttpApply, TLC

CONSTANTS r1, r2, d1, d2, s1, s2

Symmetry == Permutations({s1, s2})

=============================================================================
