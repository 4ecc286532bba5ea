--------------------------- MODULE MCPluginStreams ---------------------------
(* Instances of PluginStreams: its constants are plain values in the .cfg. *)
EXTENDS PluginStreams
=============================================================================
