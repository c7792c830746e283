-------------------------- MODULE ClientInitProofs --------------------------
(***************************************************************************)
(* Proofs about FakeTls and ClientInit: a client may send any sequence of  *)
(* records that Sendable allows, and they may arrive in any pieces.        *)
(*                                                                         *)
(* StreamExact: what is left on the wire is the client's sequence from     *)
(* some record on, the first perhaps begun, and the payload read so far is *)
(* that of the records gone (WireInv).  A call of _read_tls_payload keeps  *)
(* the place (PayloadKeeps), and one that finds nothing has met the end of *)
(* what the client said (OverSaid).  readexactly() and read() move numbered*)
(* bytes between the wire, the buffer and the callers (BufInv), and read() *)
(* is not called before readexactly() has returned.                        *)
(*                                                                         *)
(* Disguised: whoever is at a step of the handler has proved, or failed to *)
(* prove, what that step takes for granted (PathInv).                      *)
(***************************************************************************)
EXTENDS ClientInit, SequenceTheorems, WellFoundedInduction, TLAPS

(* Every set of numbers that is not empty has a least one.                 *)
LEMMA LeastNat ==
  ASSUME NEW T \in SUBSET Nat, T # {}
  PROVE  \E m \in T : \A n \in T : m <= n
  <1>1. PICK m \in T : \A n \in T : ~(<<n, m>> \in OpToRel(<, Nat))
    BY NatLessThanWellFounded, WFMin
  <1>2. \A n \in T : ~(n < m)
    BY <1>1 DEF OpToRel
  <1> QED
    BY <1>2

(* The payload in the first n records of s.                                *)
Pos(s, n) == IF n = 0 THEN 0 ELSE s[n].from + Own(s[n])

(* The records of s as the next call of _read_tls_payload finds them after *)
(* c bytes of payload: g of them are gone and R is what is left, the first *)
(* perhaps begun.                                                          *)
Faces(s, g, R, c) ==
  /\ g \in 0..Len(s) /\ R \in Seq(Records) /\ Len(R) = Len(s) - g
  /\ \A i \in 1..g : ~Stops(s[i])
  /\ \A i \in 2..Len(R) : R[i] = s[g + i]
  /\ Len(R) = 0 => c = Pos(s, Len(s))
  /\ Len(R) > 0 =>
       /\ R[1].type = s[g + 1].type
       /\ R[1].type # "app" => Stops(s[g + 1]) /\ c = s[g + 1].from
       /\ R[1].type = "app" =>
            /\ R[1].from = c /\ R[1].has <= R[1].len
            /\ c + R[1].has = Pos(s, g + 1)
            /\ R[1].has = R[1].len <=> Whole(s[g + 1])
            /\ R[1].len > 0 => s[g + 1].len > 0
            /\ R[1].has = 0 => Stops(s[g + 1])

Gone == Len(script) - Len(wire)
Between ==
  /\ \A i \in 1..Gone : ~Stops(script[i])
  /\ \A i \in 1..Len(wire) : wire[i] = script[Gone + i]
  /\ count = Pos(script, Gone)
Within ==
  /\ Faces(script, Gone, wire, count)
  /\ Len(wire) > 0 /\ wire[1].type = "app" /\ wire[1].len = left

(* Between two records the wire holds the rest of the client's; within one *)
(* the first is what is left of it.                                        *)
WireInv ==
  /\ Sendable(script)
  /\ wire \in Seq(Records) /\ Len(wire) <= Len(script)
  /\ left \in Nat /\ count \in Nat
  /\ IF left = 0 THEN Between ELSE Within

(* One record.                                                             *)
LEMMA OneRecord ==
  ASSUME NEW r \in Records
  PROVE  /\ r.type \in {"app", "ccs", "other"}
         /\ r.from \in Nat /\ r.len \in Nat /\ r.has \in Nat
         /\ Own(r) \in Nat
  BY DEF Records, Own

(* A record among those of a client.                                       *)
LEMMA OfClient ==
  ASSUME NEW s, Sendable(s), NEW i \in 1..Len(s)
  PROVE  /\ s \in Seq(Records) /\ Len(s) \in Nat /\ s[i] \in Records
         /\ s[i].has <= s[i].len /\ (i < Len(s) => Whole(s[i]))
         /\ s[i].from = Pos(s, i - 1) /\ Pos(s, i) = s[i].from + Own(s[i])
  <1>1. s \in Seq(Records) /\ DOMAIN s = 1..Len(s) /\ Len(s) \in Nat
    BY LenProperties DEF Sendable
  <1>2. s[i] \in Records
    BY <1>1, ElementOfSeq
  <1>3. i = 1 <=> i - 1 = 0
    BY <1>1
  <1>4. i # 0
    BY <1>1
  <1> QED
    BY <1>1, <1>2, <1>3, <1>4 DEF Sendable, Pos

(* The first record that is not dropped.                                   *)
LEMMA FirstKeptIs ==
  ASSUME NEW w \in Seq(Records)
  PROVE  /\ FirstKept(w) \in 1..(Len(w) + 1)
         /\ FirstKept(w) <= Len(w) => ~Skipped(w[FirstKept(w)])
         /\ \A j \in 1..(FirstKept(w) - 1) : Skipped(w[j])
  <1> DEFINE T == {i \in 1..(Len(w) + 1) : i <= Len(w) => ~Skipped(w[i])}
  <1>0. Len(w) \in Nat
    BY LenProperties
  <1>1. T \in SUBSET Nat /\ Len(w) + 1 \in T
    BY <1>0
  <1>2. PICK m \in T : \A n \in T : m <= n
    <2> HIDE DEF T
    <2> QED
      BY <1>1, LeastNat
  <1>3. \A j \in 1..(m - 1) : j \in 1..(Len(w) + 1) /\ j < m /\ j \notin T
    <2>1. m \in 1..(Len(w) + 1)
      BY <1>2
    <2> HIDE DEF T
    <2> QED
      BY <1>0, <1>1, <1>2, <2>1
  <1>4. \A j \in 1..(m - 1) : Skipped(w[j])
    BY <1>3
  <1>5. \E k \in 1..(Len(w) + 1) : /\ k <= Len(w) => ~Skipped(w[k])
                                   /\ \A j \in 1..(k - 1) : Skipped(w[j])
    BY <1>2, <1>4
  <1> QED
    BY <1>5, Zenon DEF FirstKept

(* Dropped records carry no payload.                                       *)
LEMMA SkippedCarryNone ==
  ASSUME NEW s, Sendable(s), NEW g \in 0..Len(s), NEW k \in Nat, g + k <= Len(s),
         \A j \in 1..k : Skipped(s[g + j])
  PROVE  Pos(s, g + k) = Pos(s, g)
  <1> DEFINE T == {m \in Nat : m <= k /\ Pos(s, g + m) # Pos(s, g)}
  <1>0. Len(s) \in Nat /\ g \in Nat
    BY LenProperties DEF Sendable
  <1>1. T = {}
    <2> SUFFICES ASSUME T # {} PROVE FALSE
      OBVIOUS
    <2>1. T \in SUBSET Nat
      OBVIOUS
    <2>2. PICK m \in T : \A n \in T : m <= n
      <3> HIDE DEF T
      <3> QED
        BY <2>1, LeastNat
    <2>3. m \in Nat /\ m <= k /\ Pos(s, g + m) # Pos(s, g)
      BY <2>2
    <2>4. m # 0
      BY <1>0, <2>3
    <2>5. m - 1 \in Nat /\ m - 1 \notin T
      <3> HIDE DEF T
      <3> QED
        BY <2>2, <2>3, <2>4
    <2>6. Pos(s, g + (m - 1)) = Pos(s, g)
      BY <2>3, <2>5
    <2>7. g + m \in 1..Len(s) /\ (g + m) - 1 = g + (m - 1) /\ m \in 1..k
      BY <1>0, <2>3, <2>4
    <2>8. /\ s[g + m].from = Pos(s, g + (m - 1)) /\ s[g + m] \in Records
          /\ Pos(s, g + m) = s[g + m].from + Own(s[g + m])
      BY <2>7, OfClient
    <2>9. Own(s[g + m]) = 0 /\ s[g + m].from \in Nat
      BY <2>7, <2>8, OneRecord DEF Skipped, Own
    <2> QED
      BY <2>3, <2>6, <2>8, <2>9
  <1>2. k \notin T
    <2> HIDE DEF T
    <2> QED
      BY <1>1
  <1>3. k <= k
    OBVIOUS
  <1> QED
    BY <1>2, <1>3, Zenon

(* What a call finds at the beginning of a record.                         *)
LEMMA FreshFaces ==
  ASSUME NEW s, Sendable(s), NEW w \in Seq(Records), Len(w) <= Len(s), NEW c \in Nat,
         NEW g, g = Len(s) - Len(w),
         \A i \in 1..g : ~Stops(s[i]),
         \A i \in 1..Len(w) : w[i] = s[g + i],
         c = Pos(s, g)
  PROVE  \E h : Faces(s, h, SubSeq(w, FirstKept(w), Len(w)), c)
  <1> DEFINE k == FirstKept(w)
             R == SubSeq(w, k, Len(w))
             h == g + (k - 1)
  <1>0. s \in Seq(Records) /\ Len(s) \in Nat /\ Len(w) \in Nat /\ g \in 0..Len(s)
    BY LenProperties DEF Sendable
  <1>1. /\ k \in 1..(Len(w) + 1)
        /\ k <= Len(w) => ~Skipped(w[k])
        /\ \A j \in 1..(k - 1) : Skipped(w[j])
    BY FirstKeptIs
  <1> HIDE DEF k
  <1>2. /\ R \in Seq(Records)
        /\ Len(R) = Len(w) - (k - 1)
        /\ \A i \in 1..Len(R) : R[i] = w[k + i - 1]
    <2>1. \A i \in k..Len(w) : w[i] \in Records
      BY <1>0, <1>1, ElementOfSeq
    <2>2. k \in Int /\ Len(w) \in Int
      BY <1>0, <1>1
    <2>3. /\ R \in Seq(Records)
          /\ Len(R) = IF k <= Len(w) THEN Len(w) - k + 1 ELSE 0
          /\ \A i \in 1..(Len(w) - k + 1) : R[i] = w[k + i - 1]
      BY <2>1, <2>2, SubSeqProperties
    <2> HIDE DEF R
    <2> QED
      BY <1>0, <1>1, <2>3
  <1> HIDE DEF R
  <1>3. /\ h \in 0..Len(s) /\ Len(R) = Len(s) - h /\ k - 1 \in Nat /\ g + (k - 1) <= Len(s)
        /\ \A j \in 1..(k - 1) : j \in 1..Len(w)
    BY <1>0, <1>1, <1>2
  <1>4. \A j \in 1..(k - 1) : Skipped(s[g + j])
    BY <1>1, <1>3
  <1>5. Pos(s, h) = c
    BY <1>0, <1>3, <1>4, SkippedCarryNone
  <1>6. \A i \in 1..h : ~Stops(s[i])
    <2> SUFFICES ASSUME NEW i \in 1..h, i > g PROVE ~Stops(s[i])
      BY <1>0, <1>3
    <2>1. i - g \in 1..(k - 1) /\ g + (i - g) = i
      BY <1>0, <1>1
    <2>2. Skipped(s[i])
      BY <1>4, <2>1
    <2> QED
      BY <2>2 DEF Skipped, Stops
  <1>7. \A i \in 1..Len(R) : R[i] = s[h + i]
    <2> SUFFICES ASSUME NEW i \in 1..Len(R) PROVE R[i] = s[h + i]
      OBVIOUS
    <2>1. k + i - 1 \in 1..Len(w) /\ g + (k + i - 1) = h + i
      BY <1>0, <1>1, <1>2
    <2>2. R[i] = w[k + i - 1] /\ w[k + i - 1] = s[g + (k + i - 1)]
      BY <1>2, <2>1
    <2> QED
      BY <2>1, <2>2
  <1>8. Len(R) > 0 => ~Skipped(s[h + 1]) /\ R[1] = s[h + 1]
    <2> SUFFICES ASSUME Len(R) > 0 PROVE ~Skipped(s[h + 1]) /\ R[1] = s[h + 1]
      OBVIOUS
    <2>1. k <= Len(w) /\ k \in 1..Len(w) /\ g + k = h + 1 /\ 1 \in 1..Len(R)
      BY <1>0, <1>1, <1>2
    <2> QED
      BY <1>1, <1>7, <2>1
  <1>9. Len(R) = 0 => h = Len(s)
    BY <1>0, <1>3
  <1>10. Len(R) > 0 => h + 1 \in 1..Len(s) /\ (h + 1) - 1 = h
    BY <1>0, <1>3
  <1> HIDE DEF h
  <1>11. ASSUME Len(R) > 0
         PROVE  /\ s[h + 1] \in Records /\ s[h + 1].from = c /\ ~Skipped(s[h + 1])
                /\ s[h + 1].has <= s[h + 1].len
                /\ Pos(s, h + 1) = c + Own(s[h + 1])
    <2>1. h + 1 \in 1..Len(s) /\ (h + 1) - 1 = h
      BY <1>10, <1>11
    <2>2. s[h + 1].from = Pos(s, (h + 1) - 1) /\ Pos(s, h + 1) = s[h + 1].from + Own(s[h + 1])
      BY <2>1, OfClient
    <2>3. s[h + 1] \in Records /\ s[h + 1].has <= s[h + 1].len
      BY <2>1, OfClient
    <2> QED
      BY <1>5, <1>8, <1>11, <2>1, <2>2, <2>3
  <1>12. ASSUME NEW r \in Records, ~Skipped(r)
         PROVE  /\ r.type # "app" => Stops(r)
                /\ r.type = "app" => Own(r) = r.has
                /\ r.type = "app" /\ r.has = 0 => Stops(r)
                /\ r.has = r.len <=> Whole(r)
    BY <1>12, OneRecord DEF Skipped, Stops, Own, Whole
  <1>13. ASSUME Len(R) > 0
         PROVE  /\ R[1].type # "app" => Stops(s[h + 1]) /\ c = s[h + 1].from
                /\ R[1].type = "app" =>
                     /\ R[1].from = c /\ R[1].has <= R[1].len
                     /\ c + R[1].has = Pos(s, h + 1)
                     /\ R[1].has = R[1].len <=> Whole(s[h + 1])
                     /\ R[1].has = 0 => Stops(s[h + 1])
    <2>1. R[1] = s[h + 1] /\ ~Skipped(s[h + 1])
      BY <1>8, <1>13
    <2> QED
      BY <1>11, <1>12, <1>13, <2>1
  <1>14. Faces(s, h, R, c)
    <2>1. \A i \in 2..Len(R) : i \in 1..Len(R)
      BY <1>2
    <2> QED
      BY <1>2, <1>3, <1>5, <1>6, <1>7, <1>8, <1>9, <1>13, <2>1 DEF Faces
  <1> QED
    BY <1>14 DEF R, k

(* What any call finds.                                                    *)
LEMMA ReadyFaces ==
  ASSUME WireInv
  PROVE  \E g : Faces(script, g, Ready(wire), count)
  <1>1. CASE left = 0
    <2>1. Ready(wire) = SubSeq(wire, FirstKept(wire), Len(wire))
      BY <1>1 DEF Ready
    <2> QED
      BY <1>1, <2>1, FreshFaces DEF WireInv, Between, Gone
  <1>2. CASE left > 0
    BY <1>2 DEF WireInv, Within, Ready
  <1> QED
    BY <1>1, <1>2 DEF WireInv

(* When the stream is over, everything said has been read.                 *)
LEMMA OverSaid ==
  ASSUME NEW s, Sendable(s), NEW g, NEW R, NEW c \in Nat, Faces(s, g, R, c),
         Len(R) > 0 => R[1].type # "app" \/ R[1].has = 0
  PROVE  c = Said(s)
  <1> DEFINE stops == {i \in DOMAIN s : Stops(s[i])}
             last == CHOOSE i \in stops \cup {Len(s)} : \A j \in stops : i <= j
  <1>0. /\ s \in Seq(Records) /\ Len(s) \in Nat /\ DOMAIN s = 1..Len(s)
        /\ g \in 0..Len(s) /\ Len(R) = Len(s) - g /\ Len(R) \in Nat /\ (s = <<>> <=> Len(s) = 0)
    BY LenProperties, EmptySeq DEF Sendable, Faces
  <1>1. Said(s) = IF s = <<>> THEN 0 ELSE s[last].from + Own(s[last])
    BY DEF Said
  <1>2. Said(s) = Pos(s, last) \/ s = <<>>
    <2>1. s # <<>> => last # 0
      <3> SUFFICES ASSUME s # <<>> PROVE last # 0
        OBVIOUS
      <3>1. \E i \in stops \cup {Len(s)} : \A j \in stops : i <= j
        <4>1. stops \cup {Len(s)} \in SUBSET Nat /\ stops \cup {Len(s)} # {}
          BY <1>0
        <4> HIDE DEF stops
        <4> QED
          BY <4>1, LeastNat
      <3>2. last \in stops \cup {Len(s)}
        <4> HIDE DEF stops
        <4> QED
          BY <3>1
      <3> HIDE DEF last
      <3> QED
        BY <1>0, <3>2
    <2> QED
      BY <1>1, <2>1 DEF Pos
  <1>3. CASE Len(R) = 0
    <2>1. stops = {}
      BY <1>0, <1>3 DEF Faces
    <2>2. last = Len(s)
      BY <2>1
    <2>3. c = Pos(s, Len(s))
      BY <1>3 DEF Faces
    <2> QED
      BY <1>0, <1>1, <1>2, <2>2, <2>3 DEF Pos
  <1>4. CASE Len(R) > 0
    <2>1. g + 1 \in 1..Len(s) /\ s # <<>>
      BY <1>0, <1>4
    <2>2. Stops(s[g + 1]) /\ \A i \in 1..g : ~Stops(s[i])
      BY <1>4 DEF Faces
    <2>3. g + 1 \in stops /\ \A j \in stops : g + 1 <= j
      BY <1>0, <2>1, <2>2
    <2>4. \A i \in stops \cup {Len(s)} : (\A j \in stops : i <= j) => i = g + 1
      <3>1. \A i \in stops \cup {Len(s)} : i \in Nat /\ g + 1 <= i
        BY <1>0, <2>1, <2>3
      <3> HIDE DEF stops
      <3> QED
        BY <1>0, <2>3, <3>1
    <2>5. last = g + 1
      <3> HIDE DEF stops
      <3> QED
        BY <2>3, <2>4
    <2> HIDE DEF last, stops
    <2>6. /\ s[g + 1] \in Records /\ Pos(s, g + 1) = s[g + 1].from + Own(s[g + 1])
          /\ s[g + 1].from \in Nat
      BY <2>1, OfClient, OneRecord
    <2>7. c = Pos(s, g + 1)
      <3>1. CASE R[1].type # "app"
        BY <1>4, <2>6, <3>1 DEF Faces, Own
      <3>2. CASE R[1].type = "app"
        BY <1>4, <2>6, <3>2 DEF Faces
      <3> QED
        BY <3>1, <3>2
    <2> QED
      BY <1>2, <2>1, <2>5, <2>7
  <1>5. Len(R) = 0 \/ Len(R) > 0
    <2> HIDE DEF stops, last
    <2>1. Len(R) \in Nat
      BY <1>0, Zenon
    <2> QED
      BY <2>1
  <1> QED
    BY <1>3, <1>4, <1>5, Zenon

-----------------------------------------------------------------------------
(* The front of what a call finds.                                         *)
LEMMA FrontIs ==
  ASSUME NEW R \in Seq(Records), R # <<>>
  PROVE  /\ Len(R) \in Nat /\ Len(R) > 0
         /\ Head(R) = R[1] /\ R[1] \in Records
         /\ Tail(R) \in Seq(Records) /\ Len(Tail(R)) = Len(R) - 1
         /\ \A i \in 1..(Len(R) - 1) : Tail(R)[i] = R[i + 1]
  <1>1. Len(R) \in Nat \ {0}
    BY EmptySeq
  <1>2. Head(R) = R[1]
    OBVIOUS
  <1>3. R[1] \in Records
    BY <1>1, ElementOfSeq
  <1>4. /\ Tail(R) \in Seq(Records) /\ Len(Tail(R)) = Len(R) - 1
        /\ \A i \in 1..Len(Tail(R)) : Tail(R)[i] = R[i + 1]
    BY HeadTailProperties
  <1> QED
    BY <1>1, <1>2, <1>3, <1>4

(* A call that reads a record to its end.                                  *)
LEMMA ReadWhole ==
  ASSUME NEW s, Sendable(s), NEW g, NEW R, NEW c \in Nat, Faces(s, g, R, c),
         R # <<>>, R[1].type = "app", NEW m \in 1..R[1].has, R[1].len = m
  PROVE  /\ Tail(R) \in Seq(Records) /\ Len(Tail(R)) = Len(s) - (g + 1) /\ g + 1 \in 1..Len(s)
         /\ \A i \in 1..(g + 1) : ~Stops(s[i])
         /\ \A i \in 1..Len(Tail(R)) : Tail(R)[i] = s[(g + 1) + i]
         /\ c + m = Pos(s, g + 1) /\ c + m \in Nat
  <1>0. R \in Seq(Records) /\ Len(s) \in Nat /\ g \in Nat /\ Len(R) = Len(s) - g
    BY LenProperties DEF Sendable, Faces
  <1>1. /\ Len(R) \in Nat /\ Len(R) > 0 /\ R[1] \in Records
        /\ Tail(R) \in Seq(Records) /\ Len(Tail(R)) = Len(R) - 1
        /\ \A i \in 1..(Len(R) - 1) : Tail(R)[i] = R[i + 1]
    BY <1>0, FrontIs
  <1>2. R[1].has \in Nat /\ R[1].len \in Nat /\ m \in Nat /\ R[1].has = m /\ m > 0
    BY <1>1, OneRecord DEF Faces
  <1>3. g + 1 \in 1..Len(s)
    BY <1>0, <1>1
  <1>4. /\ s[g + 1].type = "app" /\ Whole(s[g + 1]) /\ c + m = Pos(s, g + 1) /\ s[g + 1].len > 0
        /\ s[g + 1] \in Records
    BY <1>1, <1>2, <1>3, OfClient DEF Faces
  <1>5. ~Stops(s[g + 1])
    BY <1>4, OneRecord DEF Stops
  <1>6. \A i \in 1..(g + 1) : i \in 1..g \/ i = g + 1
    BY <1>0
  <1>7. ASSUME NEW n \in Nat, NEW i \in 1..(n - 1)
        PROVE  i + 1 \in 2..n /\ g + (i + 1) = (g + 1) + i
    BY <1>0
  <1>8. \A i \in 1..(Len(R) - 1) : Tail(R)[i] = s[(g + 1) + i]
    BY <1>1, <1>7 DEF Faces
  <1>9. \A i \in 1..(g + 1) : ~Stops(s[i])
    BY <1>5, <1>6 DEF Faces
  <1>10. Len(Tail(R)) = Len(s) - (g + 1) /\ c + m \in Nat
    BY <1>0, <1>1, <1>2
  <1> QED
    BY <1>1, <1>3, <1>4, <1>8, <1>9, <1>10

(* A call that reads part of one.                                          *)
LEMMA ReadPart ==
  ASSUME NEW s, Sendable(s), NEW g, NEW R, NEW c \in Nat, Faces(s, g, R, c),
         R # <<>>, R[1].type = "app", NEW m \in 1..R[1].has, R[1].len # m,
         NEW Q, Q = <<After(R[1], m)>> \o Tail(R)
  PROVE  /\ Faces(s, g, Q, c + m) /\ c + m \in Nat
         /\ Len(Q) > 0 /\ Q[1].type = "app" /\ Q[1].len = R[1].len - m /\ R[1].len - m \in Nat \ {0}
  <1>0. R \in Seq(Records) /\ Len(s) \in Nat /\ g \in Nat /\ Len(R) = Len(s) - g
    BY LenProperties DEF Sendable, Faces
  <1>1. /\ Len(R) \in Nat /\ Len(R) > 0 /\ R[1] \in Records
        /\ Tail(R) \in Seq(Records) /\ Len(Tail(R)) = Len(R) - 1
        /\ \A i \in 1..(Len(R) - 1) : Tail(R)[i] = R[i + 1]
    BY <1>0, FrontIs
  <1>2. /\ R[1].has \in Nat /\ R[1].len \in Nat /\ R[1].from \in Nat /\ m \in Nat /\ m > 0
        /\ m <= R[1].has /\ R[1].has <= R[1].len /\ R[1].from = c
        /\ c + R[1].has = Pos(s, g + 1)
        /\ R[1].has = R[1].len <=> Whole(s[g + 1])
        /\ R[1].len > 0 => s[g + 1].len > 0
        /\ s[g + 1].type = "app"
    BY <1>1, OneRecord, SMTT(30) DEF Faces
  <1> DEFINE r == After(R[1], m)
  <1>3. /\ r.type = "app" /\ r.from = R[1].from + m /\ r.len = R[1].len - m /\ r.has = R[1].has - m
        /\ r \in Records
    <2>1. /\ R[1].len - m \in Nat /\ R[1].has - m \in Nat /\ R[1].from + m \in Nat
      BY <1>2
    <2> QED
      BY <2>1 DEF Records, After
  <1> HIDE DEF r
  <1>4. Q = <<r>> \o Tail(R)
    BY DEF r
  <1>5. /\ Q \in Seq(Records) /\ Len(Q) = Len(R) /\ Q[1] = r
        /\ \A i \in 2..Len(Q) : Q[i] = R[i]
    <2>1. <<r>> \in Seq(Records) /\ Len(<<r>>) = 1 /\ <<r>>[1] = r
      BY <1>3
    <2> DEFINE p == <<r>>
    <2> HIDE DEF p
    <2>2. /\ Q \in Seq(Records) /\ Len(Q) = Len(p) + Len(Tail(R))
          /\ \A i \in 1..(Len(p) + Len(Tail(R))) :
                Q[i] = IF i <= Len(p) THEN p[i] ELSE Tail(R)[i - Len(p)]
      BY <1>1, <1>4, <2>1, ConcatProperties DEF p
    <2>3. Len(p) = 1 /\ p[1] = r
      BY <2>1 DEF p
    <2>4. Len(Q) = Len(R)
      BY <1>1, <2>2, <2>3
    <2>5. Q[1] = r
      BY <1>1, <2>2, <2>3
    <2>6. ASSUME NEW i \in 2..Len(Q) PROVE Q[i] = R[i]
      <3>1. /\ i \in 1..(Len(p) + Len(Tail(R))) /\ ~(i <= Len(p))
            /\ i - 1 \in 1..(Len(R) - 1) /\ (i - 1) + 1 = i
        BY <1>1, <2>2, <2>3, <2>4
      <3>2. Q[i] = Tail(R)[i - 1]
        BY <2>2, <2>3, <3>1
      <3>3. Tail(R)[i - 1] = R[(i - 1) + 1]
        BY <1>1, <3>1
      <3> QED
        BY <3>1, <3>2, <3>3
    <2> QED
      BY <2>2, <2>4, <2>5, <2>6
  <1>6. r.len \in Nat \ {0} /\ r.has \in Nat /\ r.has <= r.len /\ c + m \in Nat /\ r.from = c + m
    BY <1>2, <1>3
  <1>7. (c + m) + r.has = Pos(s, g + 1)
    <2>1. (c + m) + r.has = c + R[1].has
      BY <1>2, <1>3
    <2> QED
      BY <1>2, <2>1
  <1>8. r.has = r.len <=> Whole(s[g + 1])
    <2>1. r.has = r.len <=> R[1].has = R[1].len
      BY <1>2, <1>3
    <2> QED
      BY <1>2, <2>1
  <1>9. r.has = 0 => Stops(s[g + 1])
    BY <1>6, <1>8 DEF Stops
  <1>10. s[g + 1].len > 0
    BY <1>2
  <1>11. /\ g \in 0..Len(s) /\ Len(Q) = Len(s) - g
         /\ \A i \in 1..g : ~Stops(s[i])
         /\ \A i \in 2..Len(Q) : Q[i] = s[g + i]
    BY <1>0, <1>5 DEF Faces
  <1>12. Len(Q) > 0
    BY <1>1, <1>5
  <1> HIDE DEF Faces
  <1>13. Faces(s, g, Q, c + m)
    <2>1. /\ Q[1].type = s[g + 1].type /\ Q[1].type = "app"
          /\ Q[1].from = c + m /\ Q[1].has <= Q[1].len
          /\ (c + m) + Q[1].has = Pos(s, g + 1)
          /\ Q[1].has = Q[1].len <=> Whole(s[g + 1])
          /\ Q[1].has = 0 => Stops(s[g + 1])
      BY <1>2, <1>3, <1>5, <1>6, <1>7, <1>8, <1>9
    <2>2. Q \in Seq(Records) /\ Len(Q) # 0
      BY <1>5, <1>12
    <2> QED
      BY <1>10, <1>11, <2>1, <2>2, Zenon DEF Faces
  <1> QED
    BY <1>3, <1>5, <1>6, <1>12, <1>13

(* _read_tls_payload keeps the place in the client's records.              *)
LEMMA PayloadKeeps ==
  ASSUME WireInv, NEW m, Payload(m), script' = script
  PROVE  WireInv' /\ Front.from = count /\ m \in Nat \ {0} /\ count' = count + m
  <1> DEFINE R == Ready(wire)
  <1>1. PICK g : Faces(script, g, R, count)
    BY ReadyFaces
  <1>2. /\ R # <<>> /\ Head(R).type = "app" /\ m \in 1..Head(R).has
        /\ count' = count + m /\ left' = Head(R).len - m
        /\ wire' = IF Head(R).len = m THEN Tail(R)
                   ELSE <<After(Head(R), m)>> \o Tail(R)
    BY DEF Payload, Front
  <1> HIDE DEF R
  <1>3. /\ R \in Seq(Records) /\ Head(R) = R[1] /\ R[1] \in Records /\ Len(R) > 0
        /\ g \in 0..Len(script) /\ Len(R) = Len(script) - g /\ Len(R) \in Nat
        /\ Len(script) \in Nat
    BY <1>1, <1>2, FrontIs, LenProperties DEF Faces, WireInv, Sendable
  <1>4. R[1].from = count /\ m \in Nat \ {0} /\ R[1].len \in Nat
    BY <1>1, <1>2, <1>3, OneRecord DEF Faces
  <1>5. Sendable(script) /\ count \in Nat
    BY DEF WireInv
  <1>6. WireInv'
    <2>1. CASE R[1].len = m
      <3>1. wire' = Tail(R) /\ left' = 0
        BY <1>2, <1>3, <1>4, <2>1
      <3>0. R[1].type = "app" /\ m \in 1..R[1].has
        BY <1>2, <1>3
      <3>2. /\ Tail(R) \in Seq(Records) /\ Len(Tail(R)) = Len(script) - (g + 1)
            /\ g + 1 \in 1..Len(script)
            /\ \A i \in 1..(g + 1) : ~Stops(script[i])
            /\ \A i \in 1..Len(Tail(R)) : Tail(R)[i] = script[(g + 1) + i]
            /\ count + m = Pos(script, g + 1) /\ count + m \in Nat
        BY <1>1, <1>2, <1>5, <2>1, <3>0, ReadWhole, SMTT(30)
      <3>3. Gone' = g + 1 /\ Len(wire') <= Len(script)
        BY <1>3, <3>1, <3>2 DEF Gone
      <3>4. script' = script /\ count' = count + m
        BY <1>2
      <3>5. Between'
        <4>1. \A i \in 1..Gone' : ~Stops(script'[i])
          BY <3>2, <3>3, <3>4, Zenon
        <4>2. \A i \in 1..Len(wire') : wire'[i] = script'[Gone' + i]
          BY <3>1, <3>2, <3>3, <3>4, Zenon
        <4>3. count' = Pos(script', Gone')
          BY <3>2, <3>3, <3>4, Zenon
        <4> QED
          BY <4>1, <4>2, <4>3, Zenon DEF Between
      <3>6. wire' \in Seq(Records) /\ left' \in Nat /\ count' \in Nat /\ Sendable(script')
        BY <1>5, <3>1, <3>2, <3>4
      <3> QED
        BY <3>1, <3>3, <3>4, <3>5, <3>6, Zenon DEF WireInv
    <2>2. CASE R[1].len # m
      <3>1. /\ wire' = <<After(R[1], m)>> \o Tail(R)
            /\ left' = R[1].len - m
        BY <1>2, <1>3, <2>2
      <3>2. /\ Faces(script, g, wire', count + m) /\ count + m \in Nat
            /\ Len(wire') > 0 /\ wire'[1].type = "app" /\ wire'[1].len = R[1].len - m
            /\ R[1].len - m \in Nat \ {0}
        BY <1>1, <1>2, <1>3, <1>5, <2>2, <3>1, ReadPart, ZenonT(30)
      <3>3. /\ wire' \in Seq(Records) /\ Len(wire') = Len(script) - g /\ left' # 0
            /\ left' \in Nat
        BY <3>1, <3>2 DEF Faces
      <3>4. Gone' = g /\ Len(wire') <= Len(script)
        BY <1>3, <3>3 DEF Gone
      <3>5. Within'
        BY <1>2, <3>1, <3>2, <3>4 DEF Within
      <3> QED
        BY <1>2, <1>5, <3>2, <3>3, <3>4, <3>5 DEF WireInv
    <2> QED
      BY <2>1, <2>2
  <1> QED
    BY <1>2, <1>3, <1>4, <1>6 DEF Front, R

-----------------------------------------------------------------------------
(* What the callers get.                                                   *)
Early == {"proxy", "first", "hello", "init"}
BufInv ==
  /\ got \in Seq(Nat) /\ buf \in Seq(Nat)
  /\ got \o buf = Upto(0, count)
  /\ at \in Early => got = <<>>

(* Numbered bytes in a row.                                                *)
LEMMA UptoRuns ==
  ASSUME NEW a \in Nat, NEW b \in Nat, NEW c \in Nat, a <= b, b <= c
  PROVE  /\ Upto(a, b) \in Seq(Nat) /\ Upto(b, c) \in Seq(Nat)
         /\ Upto(a, b) \o Upto(b, c) = Upto(a, c)
  <1>1. ASSUME NEW d \in Nat, NEW e \in Nat, d <= e
        PROVE  /\ Upto(d, e) \in Seq(Nat) /\ Len(Upto(d, e)) = e - d
               /\ \A i \in 1..(e - d) : Upto(d, e)[i] = d + i
    BY <1>1 DEF Upto
  <1>2. /\ Upto(a, b) \in Seq(Nat) /\ Len(Upto(a, b)) = b - a
        /\ \A i \in 1..(b - a) : Upto(a, b)[i] = a + i
    BY <1>1
  <1>3. /\ Upto(b, c) \in Seq(Nat) /\ Len(Upto(b, c)) = c - b
        /\ \A i \in 1..(c - b) : Upto(b, c)[i] = b + i
    BY <1>1
  <1>4. /\ Upto(a, c) \in Seq(Nat) /\ Len(Upto(a, c)) = c - a
        /\ \A i \in 1..(c - a) : Upto(a, c)[i] = a + i
    BY <1>1
  <1> DEFINE s == Upto(a, b)
             t == Upto(b, c)
             u == s \o t
  <1> HIDE DEF s, t
  <1>5. /\ s \in Seq(Nat) /\ Len(s) = b - a /\ t \in Seq(Nat) /\ Len(t) = c - b
        /\ \A i \in 1..(b - a) : s[i] = a + i
        /\ \A i \in 1..(c - b) : t[i] = b + i
    BY <1>2, <1>3 DEF s, t
  <1>6. /\ u \in Seq(Nat) /\ Len(u) = c - a
        /\ \A i \in 1..(c - a) : u[i] = IF i <= b - a THEN s[i] ELSE t[i - (b - a)]
    <2>1. /\ u \in Seq(Nat) /\ Len(u) = Len(s) + Len(t)
          /\ \A i \in 1..(Len(s) + Len(t)) : u[i] = IF i <= Len(s) THEN s[i] ELSE t[i - Len(s)]
      BY <1>5, ConcatProperties
    <2>2. Len(s) + Len(t) = c - a
      BY <1>5
    <2> HIDE DEF u
    <2> QED
      BY <1>5, <2>1, <2>2
  <1> HIDE DEF u
  <1>7. ASSUME NEW i \in 1..(c - a) PROVE u[i] = a + i
    <2>1. CASE i <= b - a
      BY <1>5, <1>6, <2>1
    <2>2. CASE i > b - a
      <3>1. i - (b - a) \in 1..(c - b) /\ b + (i - (b - a)) = a + i
        BY <2>2
      <3> QED
        BY <1>5, <1>6, <2>2, <3>1
    <2> QED
      BY <2>1, <2>2
  <1>8. u = Upto(a, c)
    <2>1. Len(u) = Len(Upto(a, c)) /\ \A i \in 1..Len(u) : u[i] = Upto(a, c)[i]
      BY <1>4, <1>6, <1>7
    <2> QED
      BY <1>4, <1>6, <2>1, SeqEqual
  <1> QED
    BY <1>2, <1>3, <1>8 DEF u, s, t

(* Numbered bytes appended in any grouping.                                *)
LEMMA Grouping ==
  ASSUME NEW s \in Seq(Nat), NEW t \in Seq(Nat), NEW u \in Seq(Nat)
  PROVE  /\ (s \o t) \o u = s \o (t \o u)
         /\ s \o t \in Seq(Nat)
  <1>1. (s \o t) \o u = s \o (t \o u)
    BY ConcatAssociative, SMTT(30)
  <1>2. s \o t \in Seq(Nat)
    BY ConcatProperties
  <1> QED
    BY <1>1, <1>2

(* Bytes taken from the front of the buffer.                               *)
LEMMA Split ==
  ASSUME NEW s \in Seq(Nat), NEW n \in 0..Len(s)
  PROVE  /\ SubSeq(s, 1, n) \in Seq(Nat) /\ SubSeq(s, n + 1, Len(s)) \in Seq(Nat)
         /\ SubSeq(s, 1, n) \o SubSeq(s, n + 1, Len(s)) = s
  <1>0. Len(s) \in Nat
    BY LenProperties
  <1>1. /\ 1 \in 1..(Len(s) + 1) /\ n \in (1 - 1)..Len(s) /\ Len(s) \in n..Len(s)
        /\ n \in Int /\ n + 1 \in Int /\ Len(s) \in Int
    BY <1>0
  <1>2. SubSeq(s, 1, n) \o SubSeq(s, n + 1, Len(s)) = SubSeq(s, 1, Len(s))
    BY <1>1, ConcatAdjacentSubSeq
  <1>3. SubSeq(s, 1, Len(s)) = s
    BY SubSeqFull
  <1>4. \A i \in 1..n : s[i] \in Nat
    BY <1>0, ElementOfSeq
  <1>5. \A i \in (n + 1)..Len(s) : s[i] \in Nat
    BY <1>0, ElementOfSeq
  <1>6. SubSeq(s, 1, n) \in Seq(Nat)
    BY <1>1, <1>4, SubSeqProperties
  <1>7. SubSeq(s, n + 1, Len(s)) \in Seq(Nat)
    BY <1>1, <1>5, SubSeqProperties
  <1> QED
    BY <1>2, <1>3, <1>6, <1>7

(* readexactly() puts a payload at the end of the buffer.                  *)
LEMMA FillKeeps ==
  ASSUME WireInv, BufInv, FillInit, script' = script, at' = at
  PROVE  WireInv' /\ BufInv'
  <1>1. PICK m : Payload(m) /\ buf' = buf \o Upto(Front.from, Front.from + m) /\ got' = got
    BY DEF FillInit
  <1>2. WireInv' /\ Front.from = count /\ m \in Nat \ {0} /\ count' = count + m
    BY <1>1, PayloadKeeps
  <1>3. 0 \in Nat /\ count \in Nat /\ 0 <= count /\ count + m \in Nat /\ count <= count + m
    BY <1>2 DEF WireInv
  <1> DEFINE u == Upto(count, count + m)
  <1>4. u \in Seq(Nat) /\ Upto(0, count) \o u = Upto(0, count + m)
    BY <1>3, UptoRuns, Zenon
  <1> HIDE DEF u
  <1>5. buf' = buf \o u
    BY <1>1, <1>2 DEF u
  <1>6. buf' \in Seq(Nat)
    BY <1>4, <1>5, ConcatProperties DEF BufInv
  <1>7. got \o (buf \o u) = (got \o buf) \o u
    BY <1>4, Grouping, ZenonT(30) DEF BufInv
  <1>8. got' \o buf' = Upto(0, count')
    BY <1>1, <1>2, <1>4, <1>5, <1>7 DEF BufInv
  <1> QED
    BY <1>1, <1>2, <1>6, <1>8 DEF BufInv

(* ... and takes the init from its front.                                  *)
LEMMA TakeKeeps ==
  ASSUME BufInv, TakeInit, at \in Early, at' \notin Early
  PROVE  BufInv'
  <1>1. InitLen \in 0..Len(buf) /\ got = <<>>
    BY TlsAssumption, LenProperties DEF TakeInit, BufInv
  <1>2. /\ got' \in Seq(Nat) /\ buf' \in Seq(Nat) /\ got' \o buf' = buf
    BY <1>1, Split DEF TakeInit, BufInv
  <1>3. got \o buf = buf
    BY <1>1, ConcatEmptySeq DEF BufInv
  <1>4. count' = count
    BY DEF TakeInit
  <1> QED
    BY <1>2, <1>3, <1>4 DEF BufInv

(* read() from the buffer.                                                 *)
LEMMA BufferedKeeps ==
  ASSUME BufInv, ReadBuffered, at \notin Early, at' = at
  PROVE  BufInv'
  <1> DEFINE n == IF Len(buf) < ReadSize THEN Len(buf) ELSE ReadSize
  <1>1. n \in 0..Len(buf)
    BY TlsAssumption, LenProperties DEF BufInv
  <1>2. /\ got' = got \o SubSeq(buf, 1, n) /\ buf' = SubSeq(buf, n + 1, Len(buf))
        /\ count' = count
    BY DEF ReadBuffered
  <1> HIDE DEF n
  <1>3. PICK x \in Seq(Nat), y \in Seq(Nat) : x \o y = buf /\ got' = got \o x /\ buf' = y
    BY <1>1, <1>2, Split DEF BufInv
  <1>4. got \in Seq(Nat) /\ got \o buf = Upto(0, count)
    BY DEF BufInv
  <1>5. (got \o x) \o y = got \o buf /\ got \o x \in Seq(Nat)
    <2>1. got \in Seq(Nat)
      BY <1>4
    <2>2. (got \o x) \o y = got \o (x \o y) /\ got \o x \in Seq(Nat)
      BY <2>1, Grouping
    <2> QED
      BY <1>3, <2>2, Zenon
  <1> QED
    BY <1>2, <1>3, <1>4, <1>5 DEF BufInv

(* read() of a payload, the rest of which is buffered.                     *)
LEMMA ReadKeeps ==
  ASSUME WireInv, BufInv, NEW m, ReadPayload(m), at \notin Early, at' = at, script' = script
  PROVE  WireInv' /\ BufInv'
  <1> DEFINE n == IF m < ReadSize THEN m ELSE ReadSize
  <1>1. WireInv' /\ Front.from = count /\ m \in Nat \ {0} /\ count' = count + m
    BY PayloadKeeps DEF ReadPayload
  <1>2. n \in Nat /\ n <= m /\ count \in Nat
    BY <1>1, TlsAssumption DEF WireInv
  <1>3. /\ buf = <<>> /\ got' = got \o Upto(count, count + n)
        /\ buf' = Upto(count + n, count + m)
    BY <1>1 DEF ReadPayload
  <1> HIDE DEF n
  <1>4. /\ 0 \in Nat /\ 0 <= count /\ count + n \in Nat /\ count + m \in Nat
        /\ count <= count + n /\ count + n <= count + m
    BY <1>1, <1>2
  <1>5. got = Upto(0, count) /\ got \in Seq(Nat)
    BY <1>3, ConcatEmptySeq DEF BufInv
  <1>6. got' = Upto(0, count + n)
    BY <1>2, <1>3, <1>4, <1>5, UptoRuns, Zenon
  <1>7. got' \in Seq(Nat) /\ buf' \in Seq(Nat) /\ got' \o buf' = Upto(0, count + m)
    <2>1. 0 <= count + n
      BY <1>2
    <2>2. got' \in Seq(Nat)
      BY <1>4, <1>6, <2>1, UptoRuns, Zenon
    <2>3. buf' \in Seq(Nat) /\ Upto(0, count + n) \o buf' = Upto(0, count + m)
      BY <1>3, <1>4, <2>1, UptoRuns, Zenon
    <2> QED
      BY <1>6, <2>2, <2>3
  <1> QED
    BY <1>1, <1>7 DEF BufInv

-----------------------------------------------------------------------------
(* Only these steps touch the stream.                                      *)
LEMMA StreamSteps ==
  ASSUME [Next]_vars
  PROVE  /\ script' = script
         /\ \/ at = "init" /\ at' = at /\ FillInit
            \/ at = "init" /\ at' \in {"routed", "drain"} /\ TakeInit
            \/ at \notin Early /\ at' = at /\ Read
            \/ UNCHANGED tlsVars /\ (at' \in Early => at \in Early)
  <1>1. CASE Handshake
    BY <1>1 DEF Handshake, ReadProxyLine, FirstByte, Redirect, ReadHello, InitPart, InitRead,
                InitShort, PlainInit, GivesUp, Leave, Goes, Decided, InitCut, NoPayload,
                client, tlsVars, Early
  <1>2. CASE Masked
    BY <1>2 DEF Masked, DialMask, StartRelays, ForwardFails, MaskOver, RelayUp, RelayDown,
                Drained, RelayEnds, Goes, client, tlsVars, Early
  <1>3. CASE StreamRead \/ Answers \/ StreamEnds \/ Cancelled \/ CancelMask \/ UNCHANGED vars
    BY <1>3 DEF StreamRead, Answers, StreamEnds, Cancelled, CancelMask, Streaming, ReadEnds, NoPayload,
                client, tlsVars, vars, Early
  <1> QED
    BY <1>1, <1>2, <1>3 DEF Next

(* Every step keeps the place in the stream.                               *)
LEMMA StreamStep == WireInv /\ BufInv /\ [Next]_vars => (WireInv /\ BufInv)'
  <1> SUFFICES ASSUME WireInv, BufInv, [Next]_vars PROVE WireInv' /\ BufInv'
    OBVIOUS
  <1>0. script' = script
    BY StreamSteps
  <1>1. CASE at = "init" /\ at' = at /\ FillInit
    BY <1>0, <1>1, FillKeeps
  <1>2. CASE at = "init" /\ at' \in {"routed", "drain"} /\ TakeInit
    <2>1. WireInv'
      BY <1>0, <1>2 DEF TakeInit, WireInv, Between, Within, Gone
    <2> QED
      BY <1>2, <2>1, TakeKeeps DEF Early
  <1>3. CASE at \notin Early /\ at' = at /\ ReadBuffered
    <2>1. WireInv'
      BY <1>0, <1>3 DEF ReadBuffered, WireInv, Between, Within, Gone
    <2> QED
      BY <1>3, <2>1, BufferedKeeps
  <1>4. CASE at \notin Early /\ at' = at /\ \E m \in Arrived : ReadPayload(m)
    BY <1>0, <1>4, ReadKeeps
  <1>5. CASE UNCHANGED tlsVars /\ (at' \in Early => at \in Early)
    BY <1>0, <1>5 DEF tlsVars, WireInv, Between, Within, Gone, BufInv
  <1> QED
    BY <1>1, <1>2, <1>3, <1>4, <1>5, StreamSteps DEF Read

(* A client of Wires begins at its first record.                           *)
LEMMA StreamInit == Init => WireInv /\ BufInv
  <1> SUFFICES ASSUME Init PROVE WireInv /\ BufInv
    OBVIOUS
  <1>1. Sendable(script) /\ wire = script /\ left = 0 /\ count = 0 /\ buf = <<>> /\ got = <<>>
    BY WireAssumption DEF Init
  <1>2. script \in Seq(Records) /\ Len(script) \in Nat
    BY <1>1, LenProperties DEF Sendable
  <1>3. Gone = 0
    BY <1>1, <1>2 DEF Gone
  <1>4. Between
    BY <1>1, <1>2, <1>3 DEF Between, Pos
  <1>5. WireInv
    BY <1>1, <1>2, <1>4 DEF WireInv
  <1>6. <<>> \o <<>> = Upto(0, 0) /\ <<>> \in Seq(Nat)
    BY DEF Upto
  <1> QED
    BY <1>1, <1>5, <1>6 DEF BufInv

(* However the client's bytes are cut into records, whatever stands between *)
(* them and however they arrive, the callers get them each once and in     *)
(* order, and when the stream is over all of them.                         *)
THEOREM StreamExactHolds == Spec => []StreamExact
  <1>1. WireInv /\ BufInv => StreamExact
    <2> SUFFICES ASSUME WireInv, BufInv, StreamOver PROVE count = Said(script)
      BY DEF BufInv, StreamExact
    <2>1. PICK g : Faces(script, g, Ready(wire), count)
      BY ReadyFaces
    <2> DEFINE R == Ready(wire)
    <2>2. R # <<>> => Head(R).type # "app" \/ Head(R).has = 0
      BY DEF StreamOver, Front
    <2> HIDE DEF R
    <2>3. R \in Seq(Records)
      BY <2>1 DEF Faces, R
    <2>4. Len(R) > 0 => R # <<>> /\ Head(R) = R[1]
      BY <2>3, EmptySeq, FrontIs
    <2>5. Sendable(script) /\ count \in Nat
      BY DEF WireInv
    <2>6. Faces(script, g, R, count)
      BY <2>1 DEF R
    <2> QED
      BY <2>2, <2>4, <2>5, <2>6, OverSaid
  <1> QED
    BY <1>1, StreamInit, StreamStep, PTL DEF Spec

-----------------------------------------------------------------------------
(* Who gets where.                                                         *)
Unproven == masking /\ hello = "bad"
PathInv ==
  /\ hello \in {"good", "bad", "none"}
  /\ at \in {"hello", "init"} => masking /\ hello # "none"
  /\ at = "init" => hello = "good"
  /\ at = "redirect" => masking /\ hello = "none"
  /\ at \in {"plain", "routed", "drain"} => ~masking \/ hello = "good"
  /\ at \in {"dial", "forward", "mask"} => Unproven
  /\ \A d \in Directions : relay[d] # "none" => Unproven
  /\ init = "bad" => at # "routed"

(* What a client gets, and what the masking domain gets of it.             *)
OutInv ==
  /\ masking /\ hello = "bad" => out \subseteq {"mask"}
  /\ masking /\ hello = "none" => out \subseteq {"redirect"}
  /\ init = "bad" => "session" \notin out
MaskInv ==
  /\ toMask \in Seq(Int)
  /\ \A i \in 1..Len(toMask) : toMask[i] = i - 1
  /\ relay = [d \in Directions |-> relay[d]]

(* The relays change one entry of relay.                                   *)
LEMMA RelaysIs ==
  ASSUME MaskInv, NEW d \in Directions, NEW from, NEW to, Relays(d, from, to)
  PROVE  /\ relay' = [e \in Directions |-> relay'[e]]
         /\ relay[d] = from
         /\ \A e \in Directions : relay'[e] = IF e = d THEN to ELSE relay[e]
  <1>1. relay' = [relay EXCEPT ![d] = to] /\ relay[d] = from
    BY DEF Relays
  <1>2. relay = [e \in Directions |-> relay[e]]
    BY DEF MaskInv
  <1> QED
    BY <1>1, <1>2

(* The steps of the handshake.                                             *)
LEMMA PathHandshake ==
  ASSUME PathInv, OutInv, Handshake \/ StreamRead \/ Answers \/ StreamEnds
  PROVE  PathInv' /\ OutInv' /\ UNCHANGED maskVars
  <1>1. ASSUME UNCHANGED <<client, maskVars>>, out' = out, at' = at
        PROVE  PathInv' /\ OutInv' /\ UNCHANGED maskVars
    BY <1>1 DEF client, maskVars, PathInv, OutInv, Unproven
  <1>2. CASE InitPart \/ StreamRead
    BY <1>1, <1>2 DEF InitPart, StreamRead
  <1>3. ASSUME UNCHANGED <<client, maskVars>>, out' = out, at' \in {"first", "leave", "over"}
        PROVE  PathInv' /\ OutInv' /\ UNCHANGED maskVars
    BY <1>3 DEF client, maskVars, PathInv, OutInv, Unproven
  <1>4. CASE ReadProxyLine \/ GivesUp \/ Leave \/ StreamEnds \/ InitShort
    BY <1>3, <1>4 DEF ReadProxyLine, GivesUp, Leave, StreamEnds, InitShort, Goes
  <1>5. CASE FirstByte
    BY <1>5 DEF FirstByte, client, maskVars, PathInv, OutInv, Unproven
  <1>6. CASE Redirect
    BY <1>6 DEF Redirect, Goes, client, maskVars, PathInv, OutInv, Unproven
  <1>7. CASE ReadHello
    <2>1. CASE hello = "good"
      BY <1>7, <2>1 DEF ReadHello, Goes, client, maskVars, PathInv, OutInv, Unproven
    <2>2. CASE hello # "good"
      BY <1>7, <2>2 DEF ReadHello, Goes, client, maskVars, PathInv, OutInv, Unproven
    <2> QED
      BY <2>1, <2>2
  <1>8. CASE InitRead \/ PlainInit
    BY <1>8 DEF InitRead, PlainInit, Goes, Decided, client, maskVars, PathInv, OutInv, Unproven
  <1>9. CASE Answers
    BY <1>9 DEF Answers, client, maskVars, PathInv, OutInv, Unproven
  <1> QED
    BY <1>2, <1>4, <1>5, <1>6, <1>7, <1>8, <1>9 DEF Handshake

(* The relay to the masking domain.                                        *)
LEMMA PathMasked ==
  ASSUME PathInv, OutInv, MaskInv, Masked
  PROVE  PathInv' /\ OutInv'
  <1>1. CASE DialMask \/ ForwardFails \/ MaskOver
    BY <1>1 DEF DialMask, ForwardFails, MaskOver, Goes, client, PathInv, OutInv, Unproven
  <1>2. CASE StartRelays
    BY <1>2 DEF StartRelays, Goes, client, PathInv, OutInv, Unproven
  <1>3. ASSUME NEW d \in Directions, NEW from, NEW to, from # "none", Relays(d, from, to),
               UNCHANGED <<client, at>>, out' \in {out, out \cup {"mask"}}
        PROVE  PathInv' /\ OutInv'
    <2>1. relay[d] # "none" /\ \A e \in Directions : relay'[e] = IF e = d THEN to ELSE relay[e]
      BY <1>3, RelaysIs
    <2>2. Unproven
      BY <2>1 DEF PathInv
    <2> QED
      BY <1>3, <2>1, <2>2 DEF client, PathInv, OutInv, Unproven
  <1>4. ASSUME NEW n, RelayUp(n) PROVE PathInv' /\ OutInv'
    <2>1. "up" \in Directions
      BY DEF Directions
    <2> QED
      BY <1>3, <1>4, <2>1 DEF RelayUp
  <1>5. ASSUME NEW n, RelayDown(n) PROVE PathInv' /\ OutInv'
    <2>1. "down" \in Directions
      BY DEF Directions
    <2> QED
      BY <1>3, <1>5, <2>1 DEF RelayDown
  <1>6. ASSUME NEW d \in Directions, Drained(d) PROVE PathInv' /\ OutInv'
    BY <1>3, <1>6 DEF Drained
  <1>7. ASSUME NEW d \in Directions, RelayEnds(d) PROVE PathInv' /\ OutInv'
    BY <1>3, <1>7 DEF RelayEnds
  <1> QED
    BY <1>1, <1>2, <1>4, <1>5, <1>6, <1>7 DEF Masked

(* The bytes written to the masking domain stay those of the client.       *)
LEMMA MaskStep ==
  ASSUME MaskInv, [Next]_vars
  PROVE  MaskInv'
  <1>1. CASE UNCHANGED <<toMask, relay>>
    BY <1>1 DEF MaskInv
  <1>2. CASE DialMask
    <2>1. toMask' = <<0>> /\ relay' = relay
      BY <1>2 DEF DialMask
    <2>2. <<0>> \in Seq(Int) /\ Len(<<0>>) = 1 /\ <<0>>[1] = 0
      OBVIOUS
    <2> QED
      BY <2>1, <2>2 DEF MaskInv
  <1>3. CASE StartRelays \/ CancelMask
    BY <1>3 DEF StartRelays, CancelMask, MaskInv
  <1>4. ASSUME NEW n \in 1..MaxProbe, RelayUp(n) PROVE MaskInv'
    <2> DEFINE l == Len(toMask)
               u == Upto(l - 1, l - 1 + n)
    <2>1. toMask' = toMask \o u /\ Relays("up", "read", "write")
      BY <1>4 DEF RelayUp
    <2>2. l \in Nat /\ toMask \in Seq(Int) /\ \A i \in 1..l : toMask[i] = i - 1
      BY LenProperties DEF MaskInv
    <2>3. n \in Nat
      BY ProbeAssumption
    <2> HIDE DEF l
    <2>4. u \in Seq(Int) /\ Len(u) = n /\ \A i \in 1..n : u[i] = (l - 1) + i
      BY <2>2, <2>3 DEF Upto
    <2> HIDE DEF u
    <2>5. /\ toMask' \in Seq(Int) /\ Len(toMask') = l + n
          /\ \A i \in 1..(l + n) : toMask'[i] = IF i <= l THEN toMask[i] ELSE u[i - l]
      BY <2>1, <2>2, <2>4, ConcatProperties DEF l
    <2>6. ASSUME NEW i \in 1..(l + n) PROVE toMask'[i] = i - 1
      <3>1. CASE i <= l
        BY <2>2, <2>5, <3>1
      <3>2. CASE i > l
        <4>1. i - l \in 1..n /\ (l - 1) + (i - l) = i - 1
          BY <2>2, <2>3, <3>2
        <4> QED
          BY <2>2, <2>4, <2>5, <3>2, <4>1
      <3> QED
        BY <2>2, <3>1, <3>2
    <2>7. relay' = [d \in Directions |-> relay'[d]]
      <3>1. "up" \in Directions
        BY DEF Directions
      <3> QED
        BY <2>1, <3>1, RelaysIs
    <2> QED
      BY <2>5, <2>6, <2>7 DEF MaskInv
  <1>5. ASSUME NEW d \in Directions, NEW from, NEW to, Relays(d, from, to), toMask' = toMask
        PROVE MaskInv'
    BY <1>5, RelaysIs DEF MaskInv
  <1>6. ASSUME NEW n, RelayDown(n) PROVE MaskInv'
    <2>1. "down" \in Directions
      BY DEF Directions
    <2> QED
      BY <1>5, <1>6, <2>1 DEF RelayDown
  <1>7. ASSUME NEW d \in Directions, Drained(d) \/ RelayEnds(d) PROVE MaskInv'
    BY <1>5, <1>7 DEF Drained, RelayEnds
  <1>8. CASE Handshake \/ StreamRead \/ Answers \/ StreamEnds
    BY <1>1, <1>8 DEF Handshake, ReadProxyLine, FirstByte, Redirect, ReadHello, InitPart,
                InitRead, InitShort, PlainInit, GivesUp, Leave, StreamRead, Answers,
                StreamEnds, maskVars
  <1>9. CASE ForwardFails \/ MaskOver \/ Cancelled \/ UNCHANGED vars
    BY <1>1, <1>9 DEF ForwardFails, MaskOver, Cancelled, vars, maskVars
  <1> QED
    BY <1>2, <1>3, <1>4, <1>6, <1>7, <1>8, <1>9 DEF Next, Masked

(* Every step.                                                             *)
LEMMA DisguiseStep ==
  PathInv /\ OutInv /\ MaskInv /\ [Next]_vars => (PathInv /\ OutInv /\ MaskInv)'
  <1> SUFFICES ASSUME PathInv, OutInv, MaskInv, [Next]_vars
               PROVE  PathInv' /\ OutInv' /\ MaskInv'
    OBVIOUS
  <1>1. CASE Handshake \/ StreamRead \/ Answers \/ StreamEnds
    BY <1>1, PathHandshake, MaskStep
  <1>2. CASE Masked
    BY <1>2, PathMasked, MaskStep
  <1>3. CASE Cancelled
    <2>1. PathInv' /\ OutInv'
      BY <1>3 DEF Cancelled, client, PathInv, OutInv, Unproven
    <2> QED
      BY <1>3, <2>1, MaskStep
  <1>4. CASE CancelMask
    <2>1. Unproven /\ UNCHANGED <<client, out>> /\ at' \in {"mask", "leave"}
      BY <1>4 DEF CancelMask, PathInv
    <2>2. PathInv' /\ OutInv'
      BY <2>1 DEF client, PathInv, OutInv, Unproven
    <2> QED
      BY <2>2, MaskStep
  <1>5. CASE UNCHANGED vars
    BY <1>5, MaskStep DEF vars, client, maskVars, PathInv, OutInv, Unproven
  <1> QED
    BY <1>1, <1>2, <1>3, <1>4, <1>5 DEF Next

(* Whatever a client sends, it gets nothing of the proxy's own unless it    *)
(* proves that it knows the secret, but for the redirect of one that speaks *)
(* no TLS; and the masking domain gets every byte of it in order.          *)
THEOREM DisguisedHolds == Spec => []Disguised
  <1>1. Init => PathInv /\ OutInv /\ MaskInv
    <2> SUFFICES ASSUME Init PROVE PathInv /\ OutInv /\ MaskInv
      OBVIOUS
    <2>1. <<>> \in Seq(Int) /\ Len(<<>>) = 0
      OBVIOUS
    <2> QED
      BY <2>1 DEF Init, PathInv, OutInv, MaskInv, Unproven
  <1>2. PathInv /\ OutInv /\ MaskInv => Disguised
    BY DEF OutInv, MaskInv, Disguised
  <1> QED
    BY <1>1, <1>2, DisguiseStep, PTL DEF Spec

-----------------------------------------------------------------------------
(* Types.                                                                  *)

(* What TypeOK says of the handler and of the masking relay; BufInv and     *)
(* WireInv say it of the stream, MaskInv of toMask.                        *)
ClientOK ==
  /\ masking \in BOOLEAN /\ script \in Wires
  /\ hello \in {"good", "bad", "none"} /\ init \in {"good", "bad"}
  /\ garbled \in BOOLEAN /\ clientOpen \in BOOLEAN
AtOK == at \in {"proxy", "first", "redirect", "hello", "init", "plain", "dial",
                "forward", "mask", "routed", "drain", "leave", "over"}
OutOK == out \subseteq {"redirect", "server hello", "mask", "session"}
RelayOK == relay \in [Directions -> {"none", "read", "write", "closing", "done"}]
ConnOK == upConn \in {"none", "open", "closed"} /\ replied \in 0..MaxReply
Parts == ClientOK /\ AtOK /\ OutOK /\ RelayOK /\ ConnOK

(* What the client is, never changes.                                      *)
LEMMA ClientTypes == ASSUME ClientOK, [Next]_vars PROVE ClientOK'
  <1>1. UNCHANGED client
    BY DEF Next, Handshake, ReadProxyLine, FirstByte, Redirect, ReadHello, InitPart, InitRead,
           InitShort, PlainInit, GivesUp, Leave, StreamRead, Answers, StreamEnds, Cancelled,
           CancelMask, Masked, DialMask, StartRelays, ForwardFails, MaskOver, RelayUp,
           RelayDown, Drained, RelayEnds, vars
  <1>2. garbled' \in BOOLEAN
    BY DEF ClientOK, Next, Handshake, ReadProxyLine, FirstByte, Redirect, ReadHello, InitPart,
           InitRead, InitShort, PlainInit, GivesUp, Leave, StreamRead, Answers, StreamEnds,
           Cancelled, CancelMask, Masked, DialMask, StartRelays, ForwardFails, MaskOver,
           RelayUp, RelayDown, Drained, RelayEnds, vars
  <1>3. clientOpen' \in {clientOpen, FALSE, clientOpen /\ ~Begun("down")}
    BY DEF Next, Handshake, ReadProxyLine, FirstByte, Redirect, ReadHello, InitPart, InitRead,
           InitShort, PlainInit, GivesUp, Leave, StreamRead, Answers, StreamEnds, Cancelled,
           CancelMask, Masked, DialMask, StartRelays, ForwardFails, MaskOver, RelayUp,
           RelayDown, Drained, RelayEnds, vars
  <1>4. clientOpen' \in BOOLEAN
    BY <1>3, Zenon DEF ClientOK
  <1> QED
    BY <1>1, <1>2, <1>4 DEF ClientOK, client

(* The steps of the client and of the handler.                             *)
LEMMA HandlerTypes ==
  ASSUME AtOK, OutOK, RelayOK, ConnOK,
         Handshake \/ StreamRead \/ Answers \/ StreamEnds \/ Cancelled
  PROVE  AtOK' /\ OutOK' /\ RelayOK' /\ ConnOK'
  <1>1. at' = at \/ at' \in {"first", "plain", "redirect", "hello", "leave", "init", "dial",
                             "routed", "drain", "over"}
    BY DEF Handshake, ReadProxyLine, FirstByte, Redirect, ReadHello, InitPart, InitRead,
           InitShort, PlainInit, GivesUp, Leave, Goes, Decided, StreamRead, Answers,
           StreamEnds, Cancelled
  <1>2. AtOK'
    BY <1>1 DEF AtOK
  <1>3. out' \in {out, out \cup {"redirect"}, out \cup {"server hello"}, out \cup {"session"}}
    BY DEF Handshake, ReadProxyLine, FirstByte, Redirect, ReadHello, InitPart, InitRead,
           InitShort, PlainInit, GivesUp, Leave, StreamRead, Answers, StreamEnds, Cancelled
  <1>4. OutOK'
    BY <1>3, Zenon DEF OutOK
  <1>5. CASE Cancelled
    BY <1>2, <1>4, <1>5 DEF Cancelled, RelayOK, ConnOK
  <1>6. CASE UNCHANGED maskVars
    BY <1>2, <1>4, <1>6 DEF maskVars, RelayOK, ConnOK
  <1>7. Cancelled \/ UNCHANGED maskVars
    BY DEF Handshake, ReadProxyLine, FirstByte, Redirect, ReadHello, InitPart, InitRead,
           InitShort, PlainInit, GivesUp, Leave, StreamRead, Answers, StreamEnds
  <1> QED
    BY <1>5, <1>6, <1>7

(* The steps of the masking relay.                                         *)
LEMMA MaskTypes ==
  ASSUME AtOK, OutOK, RelayOK, ConnOK, Masked \/ CancelMask
  PROVE  AtOK' /\ OutOK' /\ RelayOK' /\ ConnOK'
  <1>1. CASE DialMask \/ ForwardFails \/ MaskOver
    BY <1>1 DEF DialMask, ForwardFails, MaskOver, Goes, AtOK, OutOK, RelayOK, ConnOK
  <1>2. CASE StartRelays
    BY <1>2 DEF StartRelays, Goes, AtOK, OutOK, RelayOK, ConnOK
  <1>3. ASSUME NEW d \in Directions, NEW from, NEW to \in {"read", "write", "closing", "done"},
               Relays(d, from, to)
        PROVE  RelayOK'
    BY <1>3 DEF Relays, RelayOK
  <1>4. ASSUME NEW n, RelayUp(n) PROVE AtOK' /\ OutOK' /\ RelayOK' /\ ConnOK'
    <2>1. "up" \in Directions
      BY DEF Directions
    <2> QED
      BY <1>3, <1>4, <2>1 DEF RelayUp, AtOK, OutOK, ConnOK
  <1>5. ASSUME NEW n \in 1..MaxReply, RelayDown(n) PROVE AtOK' /\ OutOK' /\ RelayOK' /\ ConnOK'
    <2>1. "down" \in Directions
      BY DEF Directions
    <2>2. RelayOK' /\ AtOK'
      BY <1>3, <1>5, <2>1 DEF RelayDown, AtOK
    <2>3. ConnOK'
      BY <1>5, ProbeAssumption DEF RelayDown, ConnOK
    <2>4. out' = out \cup {"mask"}
      BY <1>5 DEF RelayDown
    <2> QED
      BY <2>2, <2>3, <2>4 DEF OutOK
  <1>6. ASSUME NEW d \in Directions, Drained(d) PROVE AtOK' /\ OutOK' /\ RelayOK' /\ ConnOK'
    BY <1>3, <1>6 DEF Drained, AtOK, OutOK, ConnOK
  <1>7. ASSUME NEW d \in Directions, RelayEnds(d) PROVE AtOK' /\ OutOK' /\ RelayOK' /\ ConnOK'
    <2>1. RelayOK' /\ AtOK' /\ OutOK'
      BY <1>3, <1>7 DEF RelayEnds, AtOK, OutOK
    <2>2. ConnOK'
      BY <1>7 DEF RelayEnds, ConnOK
    <2> QED
      BY <2>1, <2>2
  <1>8. CASE CancelMask
    BY <1>8 DEF CancelMask, AtOK, OutOK, RelayOK, ConnOK
  <1> QED
    BY <1>1, <1>2, <1>4, <1>5, <1>6, <1>7, <1>8 DEF Masked

(* The masking domain's bytes are numbered from 0 on.                      *)
LEMMA MaskNumbers == ASSUME MaskInv PROVE toMask \in Seq(Nat)
  <1>1. \A i \in 1..Len(toMask) : toMask[i] \in Nat
    BY LenProperties DEF MaskInv
  <1> QED
    BY <1>1, LenProperties DEF MaskInv

(* Every variable of the handshake, of the client's stream and of the       *)
(* masking relay keeps its type.                                           *)
THEOREM InitTypes == Spec => []TypeOK
  <1>1. Init => Parts /\ MaskInv
    <2> SUFFICES ASSUME Init PROVE Parts /\ MaskInv
      OBVIOUS
    <2>1. <<>> \in Seq(Int) /\ Len(<<>>) = 0
      OBVIOUS
    <2>2. MaskInv
      BY <2>1 DEF Init, MaskInv
    <2>3. RelayOK /\ OutOK
      BY DEF Init, RelayOK, OutOK
    <2>4. ConnOK
      BY ProbeAssumption DEF Init, ConnOK
    <2>5. ClientOK /\ AtOK
      BY Zenon DEF Init, ClientOK, AtOK
    <2> QED
      BY <2>2, <2>3, <2>4, <2>5 DEF Parts
  <1>2. Parts /\ MaskInv /\ [Next]_vars => Parts' /\ MaskInv'
    <2> SUFFICES ASSUME Parts, MaskInv, [Next]_vars PROVE Parts' /\ MaskInv'
      OBVIOUS
    <2>1. AtOK' /\ OutOK' /\ RelayOK' /\ ConnOK'
      <3>1. CASE UNCHANGED vars
        BY <3>1 DEF vars, maskVars, Parts, AtOK, OutOK, RelayOK, ConnOK
      <3> QED
        BY <3>1, HandlerTypes, MaskTypes DEF Next, Parts
    <2> QED
      BY <2>1, ClientTypes, MaskStep DEF Parts
  <1>3. Parts /\ MaskInv /\ WireInv /\ BufInv => TypeOK
    BY MaskNumbers DEF Parts, ClientOK, AtOK, OutOK, RelayOK, ConnOK, WireInv, BufInv, TypeOK
  <1> QED
    BY <1>1, <1>2, <1>3, StreamInit, StreamStep, PTL DEF Spec
=============================================================================
