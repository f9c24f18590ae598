---------------------------- MODULE MCCollection ----------------------------
(* Small instances of Collection, which needs no definitions beyond its own. *)
EXTENDS Collection
=============================================================================
