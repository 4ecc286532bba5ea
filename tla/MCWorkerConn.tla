---------------------------- MODULE MCWorkerConn ----------------------------
(* Instances of WorkerConn.                                                *)
EXTENDS WorkerConn
=============================================================================
