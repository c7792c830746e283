---------------------------- MODULE MCServerRun -----------------------------
(* ServerRun with three client connections.                                *)
EXTENDS ServerRun
=============================================================================
