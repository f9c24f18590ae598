-------------------------- MODULE MCDeaccumulation --------------------------
(* Small instances of Deaccumulation. *)
EXTENDS Deaccumulation

\* The two components of solar radiation, totals that may stand still.
MCComponents == {"ASWDIR_S", "ASWDIFD_S"}
MCTotals     == 0..2
=============================================================================
