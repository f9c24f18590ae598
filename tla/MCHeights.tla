----------------------------- MODULE MCHeights ------------------------------
(* Small instances of Heights: four half-levels up to five metres high. *)
EXTENDS Heights
MCTargets == <<0, 1, 2, 3, 5>>
=============================================================================
