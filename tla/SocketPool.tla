----------------------------- MODULE SocketPool -----------------------------
(***************************************************************************)
(* What a pool of pre-opened connections promises its callers, whatever     *)
(* its tasks do inside: a bounded number of connections per key, each lent  *)
(* to at most one session between its opening and its closing, never one    *)
(* that went stale while it waited, and none that is handed out again       *)
(* after it was retired.                                                    *)
(***************************************************************************)
EXTENDS Naturals, FiniteSets

CONSTANTS Keys, Sock, Bound

VARIABLES
  pooled,     \* the connections kept ready for each key
  stale,      \* the pooled ones that must not be lent any more
  lent,       \* connections a client session owns
  retired     \* connections on their way to be closed

vars == <<pooled, stale, lent, retired>>

AllPooled == UNION {pooled[k] : k \in Keys}
Held == AllPooled \cup lent \cup retired

Init ==
  /\ pooled = [k \in Keys |-> {}]
  /\ stale = {} /\ lent = {} /\ retired = {}

Add(k, s) ==
  /\ s \in Sock \ Held
  /\ Cardinality(pooled[k]) < Bound
  /\ pooled' = [pooled EXCEPT ![k] = @ \cup {s}]
  /\ UNCHANGED <<stale, lent, retired>>

(* A get may throw stale connections of its key away on the way.           *)
Lend(k, s, D) ==
  /\ s \in pooled[k] \ stale
  /\ D \subseteq pooled[k] \cap stale
  /\ pooled' = [pooled EXCEPT ![k] = @ \ (D \cup {s})]
  /\ stale' = stale \ D
  /\ lent' = lent \cup {s}
  /\ retired' = retired \cup D

Discard(k, D) ==
  /\ D \subseteq pooled[k]
  /\ pooled' = [pooled EXCEPT ![k] = @ \ D]
  /\ stale' = stale \ D
  /\ retired' = retired \cup D
  /\ UNCHANGED lent

Spoil(S) ==
  /\ S \subseteq AllPooled
  /\ stale' = stale \cup S
  /\ UNCHANGED <<pooled, lent, retired>>

Close(s) ==
  /\ s \in lent \cup retired
  /\ lent' = lent \ {s}
  /\ retired' = retired \ {s}
  /\ UNCHANGED <<pooled, stale>>

Reset ==
  /\ pooled' = [k \in Keys |-> {}]
  /\ stale' = {} /\ lent' = {}
  /\ retired' = retired \cup AllPooled

Next ==
  \/ \E k \in Keys : \/ \E s \in Sock : Add(k, s)
                     \/ \E s \in Sock, D \in SUBSET Sock : Lend(k, s, D)
                     \/ \E D \in SUBSET Sock : Discard(k, D)
  \/ \E S \in SUBSET Sock : Spoil(S)
  \/ \E s \in Sock : Close(s)
  \/ Reset

Spec == Init /\ [][Next]_vars
=============================================================================
