---------------------------- MODULE MCCfFallback ----------------------------
(* A download brings a list that shares a domain with the default one.    *)
EXTENDS CfFallback

CONSTANTS d2, d3

McPools == {{d2, d3}}
=============================================================================
