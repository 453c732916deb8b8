--------------------------- MODULE MCSnapshotStore ---------------------------
(***************************************************************************)
(* Small instances of SnapshotStore: on server a operations overlap, on    *)
(* server b they do not, and both use one key.                             *)
(***************************************************************************)
EXTENDS SnapshotStore, TLC

CONSTANTS a, b, o1, o2, o3

Symmetry == Permutations({o1, o2, o3})

=============================================================================
