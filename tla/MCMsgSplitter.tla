--------------------------- MODULE MCMsgSplitter ----------------------------
(* Every stream of up to MaxLen bytes from a few: an empty packet, short    *)
(* lengths with and without the quick-ack bit, and the long-length mark.    *)
(* With words of one byte a packet fits into so few bytes.                  *)
EXTENDS MsgSplitter

CONSTANTS MaxLen, Bytes

MCStreams == UNION {[1..n -> Bytes] : n \in 1..MaxLen}
=============================================================================
