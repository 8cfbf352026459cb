---------------------------- MODULE MCOrderDesk ----------------------------
(* Small instances of OrderDesk for TLC. *)
EXTENDS OrderDesk, TLC

Symmetry == Permutations(Pages)

=============================================================================
