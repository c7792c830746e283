------------------------------ MODULE MCWsPool ------------------------------
(* WsPool on small instances.  Sockets are interchangeable.                *)
EXTENDS WsPool, TLC

CONSTANTS s1, s2, s3, k1, k2

SockSymmetry == Permutations(Sock)
=============================================================================
