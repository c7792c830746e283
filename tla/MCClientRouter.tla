--------------------------- MODULE MCClientRouter ---------------------------
(* Two clients; DC 2 is redirected to an IP and DC 5 is not; the test key   *)
(* of DC 2 has no CF proxy and no pool.                                     *)
EXTENDS ClientRouter

MCKeys == {"2", "2t", "5"}
MCDcOf == [k \in MCKeys |-> IF k = "5" THEN 5 ELSE 2]
MCTarget == [d \in {2} |-> "ip"]
=============================================================================
