----------------------------- MODULE MCGridStore -----------------------------
(* Small instances of GridStore: see the cfg files for the sizes. *)
EXTENDS GridStore
=============================================================================
