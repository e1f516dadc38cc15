---------------------------- MODULE MCPersistence ----------------------------
(* Two configurations, and a clock that wraps every 16 units.             *)
EXTENDS Persistence

MCValues == {0, 1}
=============================================================================
