---------------------------- MODULE MCPersistence ----------------------------
(* Small instances of Persistence. *)
EXTENDS Persistence

MCBoth == {"icon-ch1", "icon-ch2"}
=============================================================================
