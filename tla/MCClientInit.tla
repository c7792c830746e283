---------------------------- MODULE MCClientInit ----------------------------
(* An init of two bytes, reads of two, records of up to four bytes with    *)
(* another type, an empty record or the end of the connection between.     *)
EXTENDS ClientInit

App(n) == [type |-> "app", len |-> n, has |-> n]
Cut(n, k) == [type |-> "app", len |-> n, has |-> k]
Ccs(n) == [type |-> "ccs", len |-> n, has |-> n]
CcsCut == [type |-> "ccs", len |-> 2, has |-> 1]
Alert == [type |-> "other", len |-> 2, has |-> 2]

(* Each with the payload bytes before it.                                  *)
Numbered(w) ==
  LET from[i \in 1..Len(w)] == IF i = 1 THEN 0 ELSE from[i - 1] + Own(w[i - 1])
  IN  [i \in 1..Len(w) |-> [type |-> w[i].type, from |-> from[i],
                            len |-> w[i].len, has |-> w[i].has]]

McWires == {Numbered(w) : w \in
  {<<>>, <<Alert, App(2)>>, <<Ccs(1)>>, <<App(1)>>, <<App(0), App(3)>>,
   <<Ccs(1), App(2), App(3)>>, <<App(1), Ccs(0), App(4)>>,
   <<App(4), App(0), App(1)>>, <<App(3), Ccs(1), Ccs(1), App(1), Cut(3, 2)>>,
   <<App(3), CcsCut>>, <<App(2), Alert, App(1)>>, <<App(1), App(1), App(1), App(1)>>,
   <<Cut(4, 0)>>, <<App(4), Cut(4, 3)>>}}
=============================================================================
