-------------------------------- MODULE MCCli --------------------------------
(* Instances of Cli: its constants are plain values in the .cfg.           *)
EXTENDS Cli
=============================================================================
