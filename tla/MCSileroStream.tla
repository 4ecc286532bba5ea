--------------------------- MODULE MCSileroStream ---------------------------
(* Instances of SileroStream: its constants are plain values in the .cfg.  *)
EXTENDS SileroStream
=============================================================================
