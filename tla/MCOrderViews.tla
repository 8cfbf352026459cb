---------------------------- MODULE MCOrderViews ----------------------------
(* Small instances of OrderViews for TLC. *)
EXTENDS OrderViews

=============================================================================
