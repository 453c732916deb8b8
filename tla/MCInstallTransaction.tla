-------------------------- MODULE MCInstallTransaction --------------------------
(***************************************************************************)
(* Small instances of InstallTransaction.  The model values of Versions    *)
(* are named here so that they can be exchanged for one another.           *)
(***************************************************************************)
EXTENDS InstallTransaction, TLC

CONSTANTS v1, v2

Symmetry == Permutations({v1, v2})

=============================================================================
