------------------------------- MODULE MCTray -------------------------------
(* Two settings that name different ports.                                 *)
EXTENDS TrayLifecycle

TrayPorts == <<1443, 1444>>
=============================================================================
