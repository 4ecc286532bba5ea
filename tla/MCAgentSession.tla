--------------------------- MODULE MCAgentSession ---------------------------
(* Instances of AgentSession: its constants are plain values in the .cfg   *)
(* files.                                                                  *)
EXTENDS AgentSession
=============================================================================
