------------------------------ MODULE MCBridge ------------------------------
(* Sessions of three streams: whole packets with a cut-off one at the end,  *)
(* an empty packet in the middle, a long-length header; words of one byte.  *)
EXTENDS Bridge

MCStreams == {<<1, 5, 2, 5, 5, 3, 5>>, <<1, 5, 0, 1, 5>>, <<127, 2, 0, 0, 5, 5>>}
=============================================================================
