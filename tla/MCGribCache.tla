---------------------------- MODULE MCGribCache -----------------------------
(* Small instances of GribCache: a file of every kind, or two W files. *)
EXTENDS GribCache
MCKind == [w |-> "W", u |-> "grid", p |-> "kept"]
MCTwoW == [w1 |-> "W", w2 |-> "W", u |-> "grid"]
=============================================================================
