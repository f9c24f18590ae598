---------------------------- MODULE MCTelemetry -----------------------------
(* Four errors in three groups: one of the client, one of the server in two *)
(* forms that are the same once they are sanitized, and one of a download.   *)
EXTENDS Telemetry
MCErrors  == {"404", "500", "500<b>", "DL-ERR"}
MCGroups  == {"404", "500", "DL-ERR"}
MCGroupOf == [e \in MCErrors |-> IF e = "500<b>" THEN "500" ELSE e]

MCSymmetry == Permutations(Requests)
=============================================================================
