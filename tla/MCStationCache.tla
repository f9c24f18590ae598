--------------------------- MODULE MCStationCache ---------------------------
(* Small instances of StationCache. *)
EXTENDS StationCache

\* Two fields of a surface hour, and one field at two heights of a profile,
\* the lower of which lies below the terrain.
MCCells == [station  |-> {"wind_speed", "precipitation"},
            altitude |-> {"low.wind_speed", "high.wind_speed"}]
MCWindCells    == {"wind_speed", "low.wind_speed", "high.wind_speed"}
MCBelowTerrain == {"low.wind_speed"}

LostFrom(h) == {<<i, c>> : i \in h..(Ch1Hours - 1), c \in CellNames}

\* A complete run, and one whose hours are missing from h1 on.
MCLostSets == {{}, LostFrom(1)}

=============================================================================
