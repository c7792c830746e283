---------------------------- MODULE BridgeProofs ----------------------------
(***************************************************************************)
(* Proofs about MsgSplitter and Bridge, for all streams, transports, chunks  *)
(* and limits.                                                             *)
(*                                                                         *)
(* The loop of split() is a function defined by recursion, so what it finds *)
(* is proved by induction over the buffer, from its end to its beginning;  *)
(* LeastNat stands in for the rule of induction: were a statement wrong    *)
(* for some number, it would be wrong for a least one.  The invariant of   *)
(* the splitter and that of the bridge both rest on WalkRight.             *)
(***************************************************************************)
EXTENDS Bridge, SequenceTheorems, WellFoundedInduction, TLAPS

-----------------------------------------------------------------------------
(* The length of one packet.                                               *)

(* Every set of numbers that is not empty has a least one.                 *)
LEMMA LeastNat ==
  ASSUME NEW T \in SUBSET Nat, T # {}
  PROVE  \E m \in T : \A n \in T : m <= n
  <1>1. PICK m \in T : \A n \in T : ~(<<n, m>> \in OpToRel(<, Nat))
    BY NatLessThanWellFounded, WFMin
  <1>2. \A n \in T : ~(n < m)
    BY <1>1 DEF OpToRel
  <1> QED
    BY <1>2

(* The transports whose packets are told apart, and an empty packet.       *)
Framed == proto \in {"abridged", "intermediate", "padded"}
Exact(a, b) == Claimed(a).known /\ b - a = Claimed(a).all
Void(a) == Claimed(a).known /\ Claimed(a).size = 0

Typed == plain \in Seq(0..255)

(* What the header of a packet is made of are numbers.                     *)
LEMMA ByteAt == \A o \in Nat : plain[o + 1] \in 0..255 => At(o) \in Nat
  <1> SUFFICES ASSUME NEW o \in Nat, plain[o + 1] \in 0..255 PROVE At(o) \in Nat
    OBVIOUS
  <1>1. At(o) = plain[o + 1]
    BY Zenon DEF At
  <1>2. plain[o + 1] \in Nat
    OBVIOUS
  <1> QED
    BY <1>1, <1>2

(* A byte within the stream.                                               *)
LEMMA Bytes == Typed => \A o \in Nat : o < Len(plain) => At(o) \in Nat
  <1> SUFFICES ASSUME Typed, NEW o \in Nat, o < Len(plain) PROVE At(o) \in Nat
    OBVIOUS
  <1>1. o + 1 \in 1..Len(plain)
    BY LenProperties DEF Typed
  <1>2. plain[o + 1] \in 0..255
    BY <1>1, ElementOfSeq DEF Typed
  <1> QED
    BY <1>2, ByteAt, Zenon

(* Four bytes make a length.                                               *)
LEMMA FourBytes ==
  ASSUME NEW o \in Nat, At(o) \in Nat, At(o + 1) \in Nat, At(o + 2) \in Nat, Low7(At(o + 3)) \in Nat
  PROVE  Low31(o) \in Nat
  BY DEF Low31

(* The length fields of a header that is within the stream.                *)
LEMMA Lengths ==
  ASSUME Typed, NEW o \in Nat
  PROVE  /\ o + 3 <= Len(plain) => Low24(o) \in Nat
         /\ o + 4 <= Len(plain) => Low31(o) \in Nat
         /\ o < Len(plain) => Low7(At(o)) \in Nat
  <1>0. Len(plain) \in Nat
    BY LenProperties DEF Typed
  <1>1. o < Len(plain) => At(o) \in Nat
    BY Bytes
  <1>2. o + 1 < Len(plain) => At(o + 1) \in Nat
    BY Bytes
  <1>3. o + 2 < Len(plain) => At(o + 2) \in Nat
    BY Bytes
  <1>4. o + 3 < Len(plain) => At(o + 3) \in Nat
    BY Bytes
  <1>5. \A b \in Nat : Low7(b) \in Nat
    BY DEF Low7
  <1>6. o + 3 <= Len(plain) => Low24(o) \in Nat
    BY <1>0, <1>1, <1>2, <1>3, SMTT(30) DEF Low24
  <1>7. o + 3 < Len(plain) => Low7(At(o + 3)) \in Nat
    BY <1>4, <1>5
  <1>8. o + 4 <= Len(plain) => Low31(o) \in Nat
    <2> SUFFICES ASSUME o + 4 <= Len(plain) PROVE Low31(o) \in Nat
      OBVIOUS
    <2>1. /\ At(o) \in Nat /\ At(o + 1) \in Nat /\ At(o + 2) \in Nat /\ Low7(At(o + 3)) \in Nat
      BY <1>0, <1>1, <1>2, <1>3, <1>7
    <2> QED
      BY <2>1, FourBytes, Zenon
  <1> QED
    BY <1>1, <1>5, <1>6, <1>8

(* A length in words counts bytes.                                         *)
LEMMA Words ==
  ASSUME NEW n \in Nat
  PROVE  n * Word \in Nat /\ n * Word = Word * n
  BY SplitAssumption

(* What the splitter makes of the bytes from o to f, of a stream it has not *)
(* seen the rest of, agrees with what the packet at o claims.              *)
Reads(o, f, n) ==
  /\ n \in Int
  /\ n = Incomplete \/ n = 0 \/ n \in 1..(f - o)
  /\ o = f => n = Incomplete
  /\ o < f /\ n = Incomplete => Framed /\ (Claimed(o).known => o + Claimed(o).all > f)
  /\ n = 0 => o < f /\ (Framed => Void(o))
  /\ n > 0 => (Framed => Exact(o, o + n))

(* _next_packet_len tells an unfinished packet, an empty one and a whole   *)
(* one apart as the header at o, read from the whole stream, does.         *)
LEMMA PacketLen ==
  ASSUME Typed, NEW f \in 0..Len(plain), NEW o \in 0..f
  PROVE  Reads(o, f, NextPacketLen(o, f - o))
  <1> DEFINE avail == f - o
             n == NextPacketLen(o, avail)
             room == Len(plain) - o
  <1>0. /\ o \in Nat /\ f \in Nat /\ avail \in Nat /\ Len(plain) \in Nat /\ room \in Nat
        /\ avail <= room /\ f = o + avail /\ (o < f <=> avail > 0)
    BY LenProperties DEF Typed
  <1> SUFFICES Reads(o, f, n)
    OBVIOUS
  <1>c. room = Len(plain) - o
    OBVIOUS
  <1> HIDE DEF avail, room
  <1>1. CASE avail = 0
    <2>1. n = Incomplete
      BY <1>1 DEF NextPacketLen
    <2> HIDE DEF n
    <2> QED
      BY <1>0, <1>1, <2>1 DEF Reads, Incomplete
  <1>2. CASE avail > 0 /\ proto = "abridged"
    <2> DEFINE long == At(o) \in {127, 255}
               size == IF long THEN Low24(o + 1) * Word ELSE Low7(At(o)) * Word
               head == IF long THEN 4 ELSE 1
               c == Claimed(o)
    <2>1. n = IF long /\ avail < 4 THEN Incomplete ELSE Packet(head, size, avail)
      BY <1>0, <1>2 DEF NextPacketLen, NextAbridgedLen
    <2>2. o + 1 \in Nat /\ o < Len(plain) /\ (room >= 4 => (o + 1) + 3 <= Len(plain))
      BY <1>0, <1>2 DEF room
    <2>3. room >= head =>
            /\ size \in Nat
            /\ size = IF long THEN Word * Low24(o + 1) ELSE Word * Low7(At(o))
      BY <1>0, <2>2, Lengths, Words
    <2>4. c = IF Len(plain) - o < head THEN [known |-> FALSE, size |-> 0, all |-> 0]
              ELSE LET s == IF long THEN Word * Low24(o + 1) ELSE Word * (At(o) % 128)
                   IN  [known |-> TRUE, size |-> s, all |-> head + s]
      BY <1>2, ZenonT(30) DEF Claimed
    <2>5. c = IF room < head THEN [known |-> FALSE, size |-> 0, all |-> 0]
              ELSE [known |-> TRUE, size |-> size, all |-> head + size]
      <3>1. CASE room < head
        BY <1>c, <2>4, <3>1
      <3>2. CASE room >= head /\ long
        BY <1>c, <1>0, <2>3, <2>4, <3>2
      <3>3. CASE room >= head /\ ~long
        BY <1>c, <1>0, <2>3, <2>4, <3>3 DEF Low7
      <3> QED
        BY <1>0, <3>1, <3>2, <3>3
    <2>6. head \in {1, 4} /\ (long <=> head = 4)
      OBVIOUS
    <2> HIDE DEF long, size, n, head, c
    <2>7. /\ c.known => c.size = size /\ c.all = head + size /\ size \in Nat
          /\ c.known <=> room >= head
      BY <1>0, <2>3, <2>5, <2>6
    <2>8. Reads(o, f, n) <=> /\ n = Incomplete \/ n = 0 \/ n \in 1..avail
                             /\ n = Incomplete => (c.known => head + size > avail)
                             /\ n = 0 => c.known /\ size = 0
                             /\ n > 0 => c.known /\ n = head + size
      BY <1>0, <1>2, <2>6, <2>7 DEF Reads, Incomplete, Framed, Void, Exact, c
    <2> QED
      BY <1>0, <1>2, <2>1, <2>3, <2>6, <2>7, <2>8 DEF Packet, Incomplete
  <1>3. CASE avail > 0 /\ proto \in {"intermediate", "padded"}
    <2> DEFINE c == Claimed(o)
    <2>1. n = IF avail < 4 THEN Incomplete ELSE Packet(4, Low31(o), avail)
      BY <1>0, <1>3 DEF NextPacketLen, NextIntermediateLen
    <2>2. room >= 4 => Low31(o) \in Nat
      BY <1>0, Lengths DEF room
    <2>3. c = IF room < 4 THEN [known |-> FALSE, size |-> 0, all |-> 0]
              ELSE [known |-> TRUE, size |-> Low31(o), all |-> 4 + Low31(o)]
      BY <1>3, <1>c DEF Claimed
    <2> HIDE DEF n, c
    <2>4. /\ c.known => c.size = Low31(o) /\ c.all = 4 + Low31(o) /\ Low31(o) \in Nat
          /\ c.known <=> room >= 4
      BY <1>0, <2>2, <2>3
    <2>5. Reads(o, f, n) <=> /\ n = Incomplete \/ n = 0 \/ n \in 1..avail
                             /\ n = Incomplete => (c.known => 4 + Low31(o) > avail)
                             /\ n = 0 => c.known /\ Low31(o) = 0
                             /\ n > 0 => c.known /\ n = 4 + Low31(o)
      BY <1>0, <1>3, <2>4 DEF Reads, Incomplete, Framed, Void, Exact, c
    <2> QED
      BY <1>0, <1>3, <2>1, <2>2, <2>4, <2>5 DEF Packet, Incomplete
  <1>4. CASE avail > 0 /\ ~Framed
    <2>1. n = 0
      BY <1>0, <1>4 DEF NextPacketLen, Framed
    <2> HIDE DEF n
    <2> QED
      BY <1>0, <1>4, <2>1 DEF Reads, Incomplete
  <1> QED
    BY <1>0, <1>1, <1>2, <1>3, <1>4 DEF Framed

-----------------------------------------------------------------------------
(* The loop of split().                                                    *)

(* What the loop finds at o depends only on what it finds further on.      *)
LEMMA PartsAgree ==
  ASSUME Typed, NEW f \in 0..Len(plain), NEW o \in 0..f, NEW g, NEW h,
         \A q \in (o + 1)..f : g[q] = h[q]
  PROVE  PartsAt(f, o, g) = PartsAt(f, o, h)
  <1> DEFINE n == NextPacketLen(o, f - o)
  <1>1. Reads(o, f, n)
    BY PacketLen
  <1>2. n = Incomplete \/ n <= 0 \/ o + n \in (o + 1)..f
    <2> HIDE DEF n
    <2> QED
      BY <1>1 DEF Reads
  <1>3. n = Incomplete \/ n <= 0 \/ g[o + n] = h[o + n]
    BY <1>2
  <1> QED
    BY <1>3 DEF PartsAt

(* So the loop can be followed back from the end of the buffer.            *)
Partial(f, k, g) == g = [o \in (f - k + 1)..f |-> PartsAt(f, o, g)]

(* From the steps of the loop after f - k to those from there.             *)
LEMMA OneMore ==
  ASSUME Typed, NEW f \in 0..Len(plain), NEW k \in 0..f, NEW g, Partial(f, k, g)
  PROVE  \E h : Partial(f, k + 1, h)
  <1> DEFINE a == f - k
             h == [o \in a..f |-> IF o = a THEN PartsAt(f, a, g) ELSE g[o]]
  <1>0. f \in Nat /\ k \in Nat /\ a \in 0..f /\ f - k + 1 = a + 1 /\ f - (k + 1) + 1 = a
    BY LenProperties DEF Typed
  <1>1. g = [o \in (a + 1)..f |-> PartsAt(f, o, g)]
    BY <1>0 DEF Partial
  <1> HIDE DEF a
  <1>2. \A o \in (a + 1)..f : o \in a..f /\ o # a /\ h[o] = g[o]
    BY <1>0
  <1>3. ASSUME NEW o \in a..f PROVE h[o] = PartsAt(f, o, h)
    <2>1. o \in 0..f /\ (o # a => o \in (a + 1)..f)
      BY <1>0
    <2>2. \A q \in (o + 1)..f : q \in (a + 1)..f
      BY <1>0
    <2>3. \A q \in (o + 1)..f : g[q] = h[q]
      BY <1>2, <2>2
    <2>4. PartsAt(f, o, g) = PartsAt(f, o, h)
      <3> HIDE DEF h
      <3> QED
        BY <2>1, <2>3, PartsAgree
    <2>5. h[o] = PartsAt(f, o, g)
      <3>1. CASE o = a
        BY <3>1
      <3>2. CASE o # a
        BY <1>1, <1>2, <2>1, <3>2
      <3> QED
        BY <3>1, <3>2
    <2> QED
      BY <2>4, <2>5
  <1>4. h = [o \in a..f |-> h[o]]
    OBVIOUS
  <1> HIDE DEF h
  <1>5. h = [o \in a..f |-> PartsAt(f, o, h)]
    BY <1>3, <1>4, Zenon
  <1>6. Partial(f, k + 1, h)
    BY <1>0, <1>5 DEF Partial
  <1> QED
    BY <1>6

(* From the end of the buffer back to any position: were there a length    *)
(* for which it fails, there would be a least one.                         *)
LEMMA Followed ==
  ASSUME Typed, NEW f \in 0..Len(plain), NEW k \in 0..(f + 1)
  PROVE  \E g : Partial(f, k, g)
  <1> DEFINE T == {m \in 0..(f + 1) : ~\E g : Partial(f, m, g)}
  <1>0. f \in Nat
    BY LenProperties DEF Typed
  <1> SUFFICES ASSUME T # {} PROVE FALSE
    OBVIOUS
  <1>1. T \in SUBSET Nat
    BY <1>0
  <1>2. PICK m \in T : \A n \in T : m <= n
    <2> HIDE DEF T
    <2> QED
      BY <1>1, LeastNat
  <1>3. CASE m = 0
    <2> DEFINE g == [o \in (f + 1)..f |-> <<>>]
    <2>1. (f + 1)..f = {} /\ f - 0 + 1 = f + 1
      BY <1>0
    <2>2. g = [o \in (f + 1)..f |-> PartsAt(f, o, g)]
      BY <2>1
    <2> HIDE DEF g
    <2>3. Partial(f, 0, g)
      BY <2>1, <2>2 DEF Partial
    <2> QED
      BY <1>2, <1>3, <2>3
  <1>4. CASE m > 0
    <2>1. m - 1 \in 0..f /\ m - 1 \notin T /\ m - 1 \in 0..(f + 1) /\ (m - 1) + 1 = m
      BY <1>0, <1>2, <1>4
    <2>2. PICK g : Partial(f, m - 1, g)
      BY <2>1
    <2>3. \E h : Partial(f, m, h)
      BY <2>1, <2>2, OneMore
    <2> QED
      BY <1>2, <2>3
  <1> QED
    BY <1>0, <1>2, <1>3, <1>4

(* The recursion of the loop defines a function.                           *)
LEMMA WalkEquation ==
  ASSUME Typed, NEW f \in 0..Len(plain), Sent \in 0..f
  PROVE  \A o \in Sent..f : WalkFrom(f)[o] = PartsAt(f, o, WalkFrom(f))
  <1>1. f - Sent + 1 \in 0..(f + 1) /\ f - (f - Sent + 1) + 1 = Sent
    BY LenProperties DEF Typed
  <1>2. PICK g : Partial(f, f - Sent + 1, g)
    BY <1>1, Followed
  <1>3. g = [o \in Sent..f |-> PartsAt(f, o, g)]
    BY <1>1, <1>2 DEF Partial
  <1>4. WalkFrom(f) = [o \in Sent..f |-> PartsAt(f, o, WalkFrom(f))]
    BY <1>3, Zenon DEF WalkFrom
  <1> QED
    BY <1>4, Zenon

-----------------------------------------------------------------------------
(* Frames in a row.                                                        *)

(* The frames that end at the positions p, the first of which begins at o. *)
Begin(o, p, i) == IF i = 1 THEN o ELSE p[i - 1]
End(o, p) == IF p = <<>> THEN o ELSE p[Len(p)]
Chain(o, f, p) ==
  /\ p \in Seq(Nat)
  /\ \A i \in DOMAIN p : Begin(o, p, i) < p[i] /\ p[i] <= f
MeetsVoid(o, p) == \E j \in DOMAIN p : Void(Begin(o, p, j))
Cut(o, p) ==
  Framed => \A i \in DOMAIN p : \/ Exact(Begin(o, p, i), p[i])
                                \/ \E j \in 1..i : Void(Begin(o, p, j))
(* What is left from e to f begins one packet and does not end it.         *)
Rest(e, f) == e < f => Framed /\ (Claimed(e).known => e + Claimed(e).all > f)

(* Frames p followed by frames q, seen by their ends.                      *)
LEMMA Concat ==
  ASSUME NEW o \in Nat, NEW p \in Seq(Nat), NEW q \in Seq(Nat)
  PROVE  /\ p \o q \in Seq(Nat) /\ Len(p \o q) = Len(p) + Len(q)
         /\ DOMAIN p = 1..Len(p) /\ DOMAIN q = 1..Len(q)
         /\ DOMAIN (p \o q) = 1..(Len(p) + Len(q))
         /\ Len(p) \in Nat /\ Len(q) \in Nat
         /\ \A i \in 1..Len(p) : /\ (p \o q)[i] = p[i]
                                 /\ Begin(o, p \o q, i) = Begin(o, p, i)
         /\ \A i \in 1..Len(q) : /\ (p \o q)[Len(p) + i] = q[i]
                                 /\ Begin(o, p \o q, Len(p) + i) = Begin(End(o, p), q, i)
         /\ End(o, p \o q) = End(End(o, p), q)
  <1>1. /\ p \o q \in Seq(Nat) /\ Len(p \o q) = Len(p) + Len(q)
        /\ Len(p) \in Nat /\ Len(q) \in Nat
        /\ DOMAIN p = 1..Len(p) /\ DOMAIN q = 1..Len(q)
        /\ DOMAIN (p \o q) = 1..(Len(p) + Len(q))
    BY ConcatProperties, LenProperties
  <1>2. \A i \in 1..(Len(p) + Len(q)) :
           (p \o q)[i] = IF i <= Len(p) THEN p[i] ELSE q[i - Len(p)]
    BY ConcatProperties
  <1>3. ASSUME NEW i \in 1..Len(p)
        PROVE (p \o q)[i] = p[i] /\ Begin(o, p \o q, i) = Begin(o, p, i)
    <2>1. (p \o q)[i] = p[i]
      BY <1>1, <1>2
    <2>2. i # 1 => (p \o q)[i - 1] = p[i - 1]
      BY <1>1, <1>2
    <2> QED
      BY <2>1, <2>2 DEF Begin
  <1>4. p = <<>> <=> Len(p) = 0
    BY EmptySeq
  <1>5. q = <<>> <=> Len(q) = 0
    BY EmptySeq
  <1>6. ASSUME NEW i \in 1..Len(q)
        PROVE /\ (p \o q)[Len(p) + i] = q[i]
              /\ Begin(o, p \o q, Len(p) + i) = Begin(End(o, p), q, i)
    <2>1. (p \o q)[Len(p) + i] = q[i]
      BY <1>1, <1>2
    <2>2. i # 1 => (p \o q)[Len(p) + i - 1] = q[i - 1]
      BY <1>1, <1>2
    <2>3. i = 1 /\ Len(p) > 0 => (p \o q)[Len(p) + i - 1] = p[Len(p)]
      BY <1>1, <1>2
    <2> QED
      BY <1>1, <1>4, <2>1, <2>2, <2>3 DEF Begin, End
  <1>7. End(o, p \o q) = End(End(o, p), q)
    <2>1. CASE Len(q) = 0
      <3>1. p \o q = p
        BY <1>5, <2>1, ConcatEmptySeq
      <3> QED
        BY <1>5, <2>1, <3>1 DEF End
    <2>2. CASE Len(q) > 0
      <3>1. p \o q # <<>> /\ (p \o q)[Len(p \o q)] = q[Len(q)]
        BY <1>1, <1>2, <2>2, EmptySeq
      <3> QED
        BY <1>1, <1>5, <2>2, <3>1 DEF End
    <2> QED
      BY <1>1, <2>1, <2>2
  <1> QED
    BY <1>1, <1>3, <1>6, <1>7

(* Frames within the bytes fed end within them.                            *)
LEMMA ChainEnd ==
  ASSUME NEW o \in Nat, NEW f \in Nat, NEW p, Chain(o, f, p), o <= f
  PROVE  End(o, p) \in Nat /\ End(o, p) <= f
  <1>1. p \in Seq(Nat) /\ (p # <<>> => Len(p) \in DOMAIN p)
    BY EmptySeq, LenProperties DEF Chain
  <1>2. p # <<>> => p[Len(p)] \in Nat /\ p[Len(p)] <= f
    BY <1>1, ElementOfSeq, LenProperties DEF Chain
  <1> QED
    BY <1>2 DEF End

(* Frames that follow each other do so when more are appended.             *)
LEMMA ChainConcat ==
  ASSUME NEW o \in Nat, NEW f \in Nat, NEW g \in Nat, f <= g,
         NEW p, Chain(o, f, p), NEW q, Chain(End(o, p), g, q)
  PROVE  Chain(o, g, p \o q)
  <1>1. p \in Seq(Nat) /\ q \in Seq(Nat)
    BY DEF Chain
  <1> DEFINE r == p \o q
  <1>2. /\ r \in Seq(Nat)
        /\ DOMAIN r = 1..(Len(p) + Len(q)) /\ Len(p) \in Nat /\ Len(q) \in Nat
        /\ DOMAIN p = 1..Len(p) /\ DOMAIN q = 1..Len(q)
        /\ \A i \in 1..Len(p) : r[i] = p[i] /\ Begin(o, r, i) = Begin(o, p, i)
        /\ \A i \in 1..Len(q) : /\ r[Len(p) + i] = q[i]
                                /\ Begin(o, r, Len(p) + i) = Begin(End(o, p), q, i)
    BY <1>1, Concat
  <1> HIDE DEF r
  <1>3. ASSUME NEW i \in DOMAIN r PROVE Begin(o, r, i) < r[i] /\ r[i] <= g
    <2>1. CASE i <= Len(p)
      <3>1. i \in 1..Len(p)
        BY <1>2, <2>1
      <3>2. Begin(o, p, i) < p[i] /\ p[i] <= f /\ p[i] \in Nat
        BY <1>1, <1>2, <3>1, ElementOfSeq DEF Chain
      <3>3. r[i] = p[i] /\ Begin(o, r, i) = Begin(o, p, i)
        BY <1>2, <3>1
      <3> QED
        BY <3>2, <3>3
    <2>2. CASE i > Len(p)
      <3>1. PICK j \in 1..Len(q) : i = Len(p) + j
        <4>1. i - Len(p) \in 1..Len(q) /\ i = Len(p) + (i - Len(p))
          BY <1>2, <2>2
        <4> QED
          BY <4>1
      <3>2. Begin(End(o, p), q, j) < q[j] /\ q[j] <= g
        BY <1>2, <3>1 DEF Chain
      <3>3. r[i] = q[j] /\ Begin(o, r, i) = Begin(End(o, p), q, j)
        BY <1>2, <3>1
      <3> QED
        BY <3>2, <3>3
    <2> QED
      BY <1>2, <2>1, <2>2
  <1> QED
    BY <1>2, <1>3 DEF Chain, r

(* Frames that are packets stay so when packets follow, and whatever       *)
(* follows once an empty packet was met.                                   *)
LEMMA CutConcat ==
  ASSUME NEW o \in Nat, NEW p \in Seq(Nat), NEW q \in Seq(Nat),
         Cut(o, p), Cut(End(o, p), q) \/ (Framed => MeetsVoid(o, p))
  PROVE  Cut(o, p \o q)
  <1> DEFINE r == p \o q
  <1>2. /\ DOMAIN r = 1..(Len(p) + Len(q)) /\ Len(p) \in Nat /\ Len(q) \in Nat
        /\ DOMAIN p = 1..Len(p) /\ DOMAIN q = 1..Len(q)
        /\ \A i \in 1..Len(p) : r[i] = p[i] /\ Begin(o, r, i) = Begin(o, p, i)
        /\ \A i \in 1..Len(q) : /\ r[Len(p) + i] = q[i]
                                /\ Begin(o, r, Len(p) + i) = Begin(End(o, p), q, i)
    BY Concat
  <1> HIDE DEF r
  <1> SUFFICES ASSUME Framed, NEW i \in DOMAIN r
               PROVE  Exact(Begin(o, r, i), r[i]) \/ \E j \in 1..i : Void(Begin(o, r, j))
    BY DEF Cut, r
  <1>3. CASE i <= Len(p)
    <2>1. i \in 1..Len(p) /\ \A j \in 1..i : j \in 1..Len(p)
      BY <1>2, <1>3
    <2>2. Exact(Begin(o, p, i), p[i]) \/ \E j \in 1..i : Void(Begin(o, p, j))
      BY <1>2, <2>1 DEF Cut
    <2> QED
      BY <1>2, <2>1, <2>2
  <1>4. CASE i > Len(p) /\ MeetsVoid(o, p)
    <2>1. PICK j \in 1..Len(p) : Void(Begin(o, p, j))
      BY <1>2, <1>4 DEF MeetsVoid
    <2>2. j \in 1..i /\ Begin(o, r, j) = Begin(o, p, j)
      BY <1>2, <1>4
    <2> QED
      BY <2>1, <2>2
  <1>5. CASE i > Len(p) /\ ~MeetsVoid(o, p)
    <2>1. PICK k \in 1..Len(q) : i = Len(p) + k
      <3>1. i - Len(p) \in 1..Len(q) /\ i = Len(p) + (i - Len(p))
        BY <1>2, <1>5
      <3> QED
        BY <3>1
    <2>2. \/ Exact(Begin(End(o, p), q, k), q[k])
          \/ \E j \in 1..k : Void(Begin(End(o, p), q, j))
      BY <1>2, <1>5, <2>1 DEF Cut
    <2>3. \A j \in 1..k : /\ j \in 1..Len(q) /\ Len(p) + j \in 1..i
      BY <1>2, <2>1
    <2>4. r[i] = q[k] /\ Begin(o, r, i) = Begin(End(o, p), q, k)
      BY <1>2, <2>1
    <2>5. \A j \in 1..k : Begin(o, r, Len(p) + j) = Begin(End(o, p), q, j)
      BY <1>2, <2>3
    <2>6. CASE Exact(Begin(End(o, p), q, k), q[k])
      BY <2>4, <2>6
    <2>7. CASE \E j \in 1..k : Void(Begin(End(o, p), q, j))
      <3>1. PICK j \in 1..k : Void(Begin(End(o, p), q, j))
        BY <2>7
      <3>2. Void(Begin(o, r, Len(p) + j)) /\ Len(p) + j \in 1..i
        BY <2>3, <2>5, <3>1
      <3> QED
        BY <3>2
    <2> QED
      BY <2>2, <2>6, <2>7
  <1> QED
    BY <1>2, <1>3, <1>4, <1>5

(* An empty packet that was met stays met.                                 *)
LEMMA VoidConcat ==
  ASSUME NEW o \in Nat, NEW p \in Seq(Nat), NEW q \in Seq(Nat),
         MeetsVoid(o, p) \/ MeetsVoid(End(o, p), q)
  PROVE  MeetsVoid(o, p \o q)
  <1> DEFINE r == p \o q
  <1>2. /\ DOMAIN r = 1..(Len(p) + Len(q)) /\ Len(p) \in Nat /\ Len(q) \in Nat
        /\ DOMAIN p = 1..Len(p) /\ DOMAIN q = 1..Len(q)
        /\ \A i \in 1..Len(p) : Begin(o, r, i) = Begin(o, p, i)
        /\ \A i \in 1..Len(q) : Begin(o, r, Len(p) + i) = Begin(End(o, p), q, i)
    BY Concat
  <1> HIDE DEF r
  <1>3. CASE MeetsVoid(o, p)
    <2>1. PICK j \in 1..Len(p) : Void(Begin(o, p, j))
      BY <1>2, <1>3 DEF MeetsVoid
    <2>2. j \in DOMAIN r /\ Begin(o, r, j) = Begin(o, p, j)
      BY <1>2
    <2> QED
      BY <2>1, <2>2 DEF MeetsVoid, r
  <1>4. CASE MeetsVoid(End(o, p), q)
    <2>1. PICK j \in 1..Len(q) : Void(Begin(End(o, p), q, j))
      BY <1>2, <1>4 DEF MeetsVoid
    <2>2. Len(p) + j \in DOMAIN r /\ Begin(o, r, Len(p) + j) = Begin(End(o, p), q, j)
      BY <1>2
    <2> QED
      BY <2>1, <2>2 DEF MeetsVoid, r
  <1> QED
    BY <1>3, <1>4

-----------------------------------------------------------------------------
(* What the loop finds is right.                                           *)

(* One frame from o to e.                                                  *)
LEMMA OnePart ==
  ASSUME NEW o \in Nat, NEW f \in Nat, NEW e \in Nat, o < e, e <= f
  PROVE  /\ <<e>> \in Seq(Nat) /\ Chain(o, f, <<e>>) /\ End(o, <<e>>) = e
         /\ (Framed => Exact(o, e) \/ Void(o)) => Cut(o, <<e>>)
         /\ (Framed => Void(o)) => (Framed => MeetsVoid(o, <<e>>))
  <1>1. /\ <<e>> \in Seq(Nat) /\ DOMAIN <<e>> = 1..1 /\ <<e>>[1] = e /\ Len(<<e>>) = 1
        /\ <<e>> # <<>> /\ 1 \in 1..1 /\ 1..1 = {1}
    OBVIOUS
  <1>2. Begin(o, <<e>>, 1) = o
    BY DEF Begin
  <1>3. Chain(o, f, <<e>>)
    BY <1>1, <1>2 DEF Chain
  <1>4. End(o, <<e>>) = e
    BY <1>1 DEF End
  <1>5. (Framed => Exact(o, e) \/ Void(o)) => Cut(o, <<e>>)
    <2> SUFFICES ASSUME Framed => Exact(o, e) \/ Void(o) PROVE Cut(o, <<e>>)
      OBVIOUS
    <2> SUFFICES ASSUME Framed, NEW i \in DOMAIN <<e>>
                 PROVE  \/ Exact(Begin(o, <<e>>, i), <<e>>[i])
                        \/ \E j \in 1..i : Void(Begin(o, <<e>>, j))
      BY DEF Cut
    <2>1. i = 1 /\ 1 \in 1..i
      BY <1>1
    <2> QED
      BY <1>1, <1>2, <2>1, Zenon
  <1>6. (Framed => Void(o)) => (Framed => MeetsVoid(o, <<e>>))
    BY <1>1, <1>2, Zenon DEF MeetsVoid
  <1> QED
    BY <1>1, <1>3, <1>4, <1>5, <1>6

(* No frame.                                                               *)
LEMMA NoPart ==
  ASSUME NEW o \in Nat, NEW f \in Nat
  PROVE  /\ <<>> \in Seq(Nat) /\ Chain(o, f, <<>>) /\ Cut(o, <<>>) /\ End(o, <<>>) = o
  <1>1. <<>> \in Seq(Nat) /\ DOMAIN <<>> = {}
    OBVIOUS
  <1> QED
    BY <1>1 DEF Chain, Cut, End

(* What the loop finds between o and f is right.                           *)
Parted(o, f, w) ==
  /\ Chain(o, f, w.parts) /\ Cut(o, w.parts)
  /\ w.zero \in BOOLEAN
  /\ w.zero => End(o, w.parts) = f /\ (Framed => MeetsVoid(o, w.parts))
  /\ ~w.zero => Rest(End(o, w.parts), f)

(* One turn of the loop at o, when the turns further on are right.         *)
LEMMA PartsRight ==
  ASSUME Typed, NEW f \in 0..Len(plain), NEW o \in 0..f, NEW rest,
         \A q \in (o + 1)..f : Parted(q, f, rest[q])
  PROVE  Parted(o, f, PartsAt(f, o, rest))
  <1> DEFINE n == NextPacketLen(o, f - o)
             w == PartsAt(f, o, rest)
             d == rest[o + n]
  <1>0. f \in Nat /\ o \in Nat /\ o <= f
    BY LenProperties DEF Typed
  <1>1. Reads(o, f, n)
    BY PacketLen
  <1>2. w = IF n = Incomplete THEN [parts |-> <<>>, zero |-> FALSE]
            ELSE IF n <= 0 THEN [parts |-> <<f>>, zero |-> TRUE]
            ELSE [parts |-> <<o + n>> \o d.parts, zero |-> d.zero]
    BY DEF PartsAt
  <1> HIDE DEF n, w
  <1>3. CASE n = Incomplete
    <2>1. w.parts = <<>> /\ w.zero = FALSE
      BY <1>2, <1>3
    <2>2. Rest(o, f)
      BY <1>0, <1>1, <1>3 DEF Reads, Rest
    <2> QED
      BY <1>0, <2>1, <2>2, NoPart DEF Parted, w
  <1>4. CASE n = 0
    <2>1. w.parts = <<f>> /\ w.zero = TRUE
      BY <1>2, <1>4 DEF Incomplete
    <2>2. o < f /\ (Framed => Void(o))
      BY <1>1, <1>4 DEF Reads
    <2>3. /\ Chain(o, f, w.parts) /\ Cut(o, w.parts) /\ End(o, w.parts) = f
          /\ Framed => MeetsVoid(o, w.parts)
      BY <1>0, <2>1, <2>2, OnePart
    <2> QED
      BY <2>1, <2>3 DEF Parted, w
  <1>5. CASE n \in 1..(f - o)
    <2> DEFINE e == o + n
               p == <<e>>
    <2>0. e \in Nat /\ o < e /\ e <= f /\ e \in (o + 1)..f
      BY <1>0, <1>5
    <2>1. w.parts = p \o d.parts /\ w.zero = d.zero
      <3>1. n # Incomplete /\ ~(n <= 0)
        BY <1>0, <1>5 DEF Incomplete
      <3> HIDE DEF d
      <3> QED
        BY <1>2, <3>1
    <2>2. Parted(e, f, d)
      BY <2>0
    <2>3. Framed => Exact(o, e)
      BY <1>0, <1>1, <1>5 DEF Reads
    <2>4. /\ p \in Seq(Nat) /\ Chain(o, f, p) /\ End(o, p) = e /\ Cut(o, p)
      BY <1>0, <2>0, <2>3, OnePart
    <2> HIDE DEF e, d, p
    <2>5. d.parts \in Seq(Nat)
      BY <2>2 DEF Parted, Chain
    <2>6. Chain(o, f, w.parts)
      <3>1. Chain(End(o, p), f, d.parts)
        BY <2>2, <2>4 DEF Parted
      <3> QED
        BY <1>0, <2>1, <2>4, <3>1, ChainConcat
    <2>7. Cut(o, w.parts)
      <3>1. Cut(End(o, p), d.parts)
        BY <2>2, <2>4 DEF Parted
      <3> QED
        BY <1>0, <2>1, <2>4, <2>5, <3>1, CutConcat
    <2>8. End(o, w.parts) = End(e, d.parts)
      BY <1>0, <2>1, <2>4, <2>5, Concat
    <2>9. MeetsVoid(e, d.parts) => MeetsVoid(o, w.parts)
      BY <1>0, <2>1, <2>4, <2>5, VoidConcat
    <2> QED
      BY <2>1, <2>2, <2>6, <2>7, <2>8, <2>9 DEF Parted, w
  <1> QED
    BY <1>1, <1>3, <1>4, <1>5 DEF Reads

(* The loop of split() as a whole: were it wrong from some position, there *)
(* would be a last such position, and PartsRight speaks against it.        *)
LEMMA WalkRight ==
  ASSUME Typed, NEW f \in 0..Len(plain), Sent \in 0..f
  PROVE  Parted(Sent, f, Walk(f))
  <1> DEFINE W == WalkFrom(f)
             T == {k \in 0..f : f - k \in Sent..f /\ ~Parted(f - k, f, W[f - k])}
  <1>0. f \in Nat /\ Sent \in Nat /\ Sent <= f
    BY LenProperties DEF Typed
  <1>1. \A o \in Sent..f : W[o] = PartsAt(f, o, W)
    BY WalkEquation
  <1> HIDE DEF W
  <1>2. T = {}
    <2> SUFFICES ASSUME T # {} PROVE FALSE
      OBVIOUS
    <2>1. T \in SUBSET Nat
      OBVIOUS
    <2>2. PICK k \in T : \A n \in T : k <= n
      <3> HIDE DEF T
      <3> QED
        BY <2>1, LeastNat
    <2> DEFINE o == f - k
    <2>3. k \in 0..f /\ o \in Sent..f /\ o \in 0..f /\ ~Parted(o, f, W[o])
      BY <1>0, <2>2
    <2>4. ASSUME NEW q \in (o + 1)..f PROVE Parted(q, f, W[q])
      <3>1. /\ f - q \in 0..f /\ f - q < k /\ f - (f - q) = q /\ q \in Sent..f
        BY <1>0, <2>3
      <3>2. f - q \notin T
        <4> HIDE DEF T
        <4> QED
          BY <1>0, <2>2, <2>3, <3>1
      <3> QED
        BY <3>1, <3>2
    <2>5. Parted(o, f, PartsAt(f, o, W))
      <3> HIDE DEF o
      <3> QED
        BY <2>3, <2>4, PartsRight
    <2> QED
      BY <1>1, <2>3, <2>5
  <1>3. f - Sent \in 0..f /\ f - (f - Sent) = Sent /\ Sent \in Sent..f
    BY <1>0
  <1>4. Parted(Sent, f, W[Sent])
    BY <1>2, <1>3
  <1> QED
    BY <1>4 DEF Walk, W

-----------------------------------------------------------------------------
(* The calls.                                                              *)

(* The bytes already returned end where the last frame does.               *)
LEMMA SentIsEnd == Sent = End(0, ends)
  BY DEF Sent, End

(* split() of a chunk of n bytes leaves frames without gap or overlap.     *)
LEMMA SplitKeepsChain ==
  ASSUME Typed, fed \in 0..Len(plain), Chain(0, fed, ends), disabled => Sent = fed,
         NEW n \in 1..(Len(plain) - fed), Split(n)
  PROVE  /\ Typed' /\ fed' \in 0..Len(plain') /\ Chain(0, fed', ends')
         /\ fed' = fed + n
         /\ ~disabled => Parted(Sent, fed', [parts |-> Walk(fed').parts, zero |-> disabled'])
                         /\ ends' = ends \o Walk(fed').parts
         /\ disabled' => Sent' = fed'
  <1>1. /\ fed' = fed + n /\ fed' \in 0..Len(plain) /\ fed' \in Nat /\ fed \in Nat
        /\ fed < fed' /\ plain' = plain
    BY LenProperties DEF Split, Typed
  <1>2. Sent \in Nat /\ Sent <= fed /\ Sent = End(0, ends)
    BY <1>1, ChainEnd, SentIsEnd
  <1>3. Sent' = End(0, ends')
    BY DEF Sent, End
  <1>4. ends \in Seq(Nat)
    BY DEF Chain
  <1>5. CASE disabled
    <2> DEFINE q == <<fed'>>
    <2>1. ends' = Append(ends, fed') /\ disabled' = disabled
      BY <1>5 DEF Split
    <2>2. ends' = ends \o q
      BY <1>1, <1>4, <2>1, AppendIsConcat
    <2>3. q \in Seq(Nat) /\ Chain(Sent, fed', q) /\ End(Sent, q) = fed'
      BY <1>1, <1>2, OnePart
    <2> HIDE DEF q
    <2>4. Chain(0, fed', ends')
      BY <1>1, <1>2, <2>2, <2>3, ChainConcat
    <2>5. Sent' = fed'
      BY <1>2, <1>3, <1>4, <2>2, <2>3, Concat
    <2> QED
      BY <1>1, <1>5, <2>4, <2>5 DEF Typed
  <1>6. CASE ~disabled
    <2> DEFINE w == Walk(fed')
    <2>1. ends' = ends \o w.parts /\ disabled' = w.zero
      BY <1>1, <1>6 DEF Split
    <2>2. Parted(Sent, fed', w)
      BY <1>1, <1>2, WalkRight
    <2> HIDE DEF w
    <2>3. w.parts \in Seq(Nat) /\ Chain(Sent, fed', w.parts)
      BY <2>2 DEF Parted, Chain
    <2>4. Chain(0, fed', ends')
      BY <1>1, <1>2, <2>1, <2>3, ChainConcat
    <2>5. Sent' = End(Sent, w.parts)
      BY <1>2, <1>3, <1>4, <2>1, <2>3, Concat
    <2>6. Parted(Sent, fed', [parts |-> w.parts, zero |-> disabled'])
      BY <2>1, <2>2 DEF Parted
    <2>7. disabled' => Sent' = fed'
      BY <2>1, <2>2, <2>5 DEF Parted
    <2> QED
      BY <1>1, <2>1, <2>4, <2>6, <2>7 DEF Typed, w
  <1> QED
    BY <1>5, <1>6

(* flush() does too, and leaves nothing.                                   *)
LEMMA FlushKeepsChain ==
  ASSUME Typed, fed \in 0..Len(plain), Chain(0, fed, ends), Flush
  PROVE  /\ Typed' /\ fed' \in 0..Len(plain') /\ Chain(0, fed', ends') /\ Sent' = fed'
         /\ ends' = ends \/ ends' = ends \o <<fed>>
  <1>1. fed' = fed /\ plain' = plain /\ fed \in Nat
    BY LenProperties DEF Flush, Typed
  <1>2. Sent \in Nat /\ Sent <= fed /\ Sent = End(0, ends) /\ ends \in Seq(Nat)
    BY <1>1, ChainEnd, SentIsEnd DEF Chain
  <1>3. Sent' = End(0, ends')
    BY DEF Sent, End
  <1>4. CASE Sent < fed
    <2> DEFINE q == <<fed>>
    <2>1. ends' = ends \o q
      BY <1>1, <1>2, <1>4, AppendIsConcat DEF Flush
    <2>2. q \in Seq(Nat) /\ Chain(Sent, fed, q) /\ End(Sent, q) = fed
      BY <1>1, <1>2, <1>4, OnePart
    <2> HIDE DEF q
    <2>3. Chain(0, fed, ends')
      BY <1>1, <1>2, <2>1, <2>2, ChainConcat
    <2>4. End(0, ends \o q) = End(End(0, ends), q)
      BY <1>2, <2>2, Concat
    <2>5. Sent' = fed
      BY <1>2, <1>3, <2>1, <2>2, <2>4
    <2> QED
      BY <1>1, <2>1, <2>3, <2>5 DEF Typed, q
  <1>5. CASE Sent = fed
    <2>1. ends' = ends
      BY <1>5 DEF Flush
    <2> QED
      BY <1>1, <1>2, <1>3, <1>5, <2>1 DEF Typed
  <1> QED
    BY <1>1, <1>2, <1>4, <1>5

(* What a packet claims does not depend on how far the stream was fed.     *)
LEMMA ClaimsKept ==
  ASSUME UNCHANGED <<plain, proto>>
  PROVE  \A o : Claimed(o)' = Claimed(o)
  BY DEF Claimed, Low24, Low31, Low7, At

(* Nor does the transport.                                                 *)
LEMMA FramedKept == UNCHANGED <<plain, proto>> => Framed' = Framed
  BY DEF Framed

(* The two ways to say where a frame begins agree.                         *)
LEMMA StartIsBegin == \A i : Start(i) = Begin(0, ends, i)
  BY DEF Start, Begin

(* Until flush() the property of the frames is Cut.                        *)
LEMMA FramesFromCut == Cut(0, ends) => FramesArePackets
  BY DEF Cut, FramesArePackets, Framed, Exact, Void, Start, Begin

(* And the other way round.                                                *)
LEMMA CutFromFrames == FramesArePackets /\ ~flushed => Cut(0, ends)
  BY DEF Cut, FramesArePackets, Framed, Exact, Void, Start, Begin

(* What split() and flush() keep: with the properties themselves, that     *)
(* splitting is only off when an empty packet was met and then nothing is  *)
(* held back.                                                              *)
SplitInv ==
  /\ Typed /\ fed \in 0..Len(plain) /\ Chain(0, fed, ends)
  /\ disabled \in BOOLEAN /\ flushed \in BOOLEAN
  /\ disabled => Sent = fed
  /\ flushed => Sent = fed
  /\ FramesArePackets
  /\ ~flushed => IF disabled THEN Framed => MeetsVoid(0, ends) ELSE Rest(Sent, fed)

(* A new splitter.                                                         *)
LEMMA SplitInvInit == SplitInit => SplitInv
  <1> SUFFICES ASSUME SplitInit PROVE SplitInv
    OBVIOUS
  <1>1. Typed /\ fed \in 0..Len(plain) /\ fed = 0 /\ ends = <<>> /\ Sent = 0
    BY SplitAssumption, LenProperties DEF SplitInit, Typed, Sent
  <1>2. Chain(0, fed, ends) /\ Cut(0, ends)
    BY <1>1, NoPart
  <1>3. Rest(Sent, fed)
    BY <1>1 DEF Rest
  <1>4. FramesArePackets
    BY <1>2, FramesFromCut
  <1>5. disabled = FALSE /\ flushed = FALSE
    BY DEF SplitInit
  <1> QED
    BY <1>1, <1>2, <1>3, <1>4, <1>5, Zenon DEF SplitInv

(* A chunk, in each of the two modes.                                      *)
LEMMA SplitInvChunk ==
  ASSUME SplitInv, ~flushed, NEW n \in 1..(Len(plain) - fed), Split(n)
  PROVE  SplitInv'
  <1>1. UNCHANGED <<plain, proto, flushed>> /\ fed' = fed + n
    BY DEF Split
  <1>2. /\ Typed' /\ fed' \in 0..Len(plain') /\ Chain(0, fed', ends')
        /\ disabled' => Sent' = fed'
        /\ ~disabled => /\ Parted(Sent, fed', [parts |-> Walk(fed').parts, zero |-> disabled'])
                        /\ ends' = ends \o Walk(fed').parts
    BY SplitKeepsChain DEF SplitInv
  <1>3. \A o : Claimed(o)' = Claimed(o)
    BY <1>1, ClaimsKept
  <1>4. ends \in Seq(Nat) /\ Sent = End(0, ends) /\ Sent' = End(0, ends')
    BY DEF SplitInv, Chain, Sent, End
  <1>5. Cut(0, ends)
    BY CutFromFrames DEF SplitInv
  <1>6. /\ Cut(0, ends') /\ disabled' \in BOOLEAN
        /\ disabled' => (Framed => MeetsVoid(0, ends'))
        /\ ~disabled' => Rest(Sent', fed')
    <2>1. CASE disabled
      <3> DEFINE q == <<fed'>>
      <3>1. ends' = ends \o q /\ disabled' = disabled /\ q \in Seq(Nat)
        <4>1. fed' \in Nat
          BY <1>2, LenProperties DEF Typed
        <4>2. ends' = Append(ends, fed') /\ disabled' = disabled
          BY <2>1 DEF Split
        <4> QED
          BY <1>4, <4>1, <4>2, AppendIsConcat
      <3> HIDE DEF q
      <3>2. Framed => MeetsVoid(0, ends)
        BY <2>1 DEF SplitInv
      <3>3. Cut(0, ends')
        BY <1>4, <1>5, <3>1, <3>2, CutConcat
      <3>4. Framed => MeetsVoid(0, ends')
        BY <1>4, <3>1, <3>2, VoidConcat
      <3> QED
        BY <2>1, <3>1, <3>3, <3>4
    <2>2. CASE ~disabled
      <3> DEFINE q == Walk(fed').parts
      <3>1. /\ ends' = ends \o q /\ q \in Seq(Nat) /\ Cut(Sent, q) /\ disabled' \in BOOLEAN
            /\ disabled' => (Framed => MeetsVoid(Sent, q))
            /\ ~disabled' => Rest(End(Sent, q), fed')
        BY <1>2, <2>2 DEF Parted, Chain
      <3> HIDE DEF q
      <3>2. Cut(0, ends')
        BY <1>4, <1>5, <3>1, CutConcat
      <3>3. MeetsVoid(Sent, q) => MeetsVoid(0, ends')
        BY <1>4, <3>1, VoidConcat
      <3>4. End(0, ends \o q) = End(End(0, ends), q)
        BY <1>4, <3>1, Concat
      <3> QED
        BY <1>4, <3>1, <3>2, <3>3, <3>4
    <2> QED
      BY <2>1, <2>2
  <1>7. Framed' = Framed
    BY <1>1, FramedKept
  <1>8. (Framed => MeetsVoid(0, ends')) => (Framed => MeetsVoid(0, ends))'
    BY <1>3, <1>7 DEF MeetsVoid, Void, Begin
  <1>9. Cut(0, ends') => (Cut(0, ends))'
    BY <1>3, <1>7 DEF Cut, Exact, Void, Begin
  <1>10. Rest(Sent', fed') => (Rest(Sent, fed))'
    BY <1>3, <1>7 DEF Rest
  <1>11. (FramesArePackets)'
    BY <1>6, <1>9, FramesFromCut, PTL
  <1>12. ~flushed'
    BY <1>1
  <1>13. (IF disabled THEN Framed => MeetsVoid(0, ends) ELSE Rest(Sent, fed))'
    <2>1. CASE disabled'
      BY <1>6, <1>8, <2>1
    <2>2. CASE ~disabled'
      BY <1>6, <1>10, <2>2
    <2> QED
      BY <2>1, <2>2
  <1>14. flushed' \in BOOLEAN /\ disabled' \in BOOLEAN /\ (flushed' => Sent' = fed')
    BY <1>6, <1>12, <1>1 DEF SplitInv
  <1> QED
    BY <1>2, <1>11, <1>13, <1>14 DEF SplitInv

(* The flush at the end of the stream: only the last frame may be less     *)
(* than a packet.                                                          *)
LEMMA SplitInvFlush ==
  ASSUME SplitInv, ~flushed, Flush
  PROVE  SplitInv'
  <1>1. UNCHANGED <<plain, proto, disabled>> /\ fed' = fed /\ flushed' = TRUE
    BY DEF Flush
  <1>2. /\ Typed' /\ fed' \in 0..Len(plain') /\ Chain(0, fed', ends') /\ Sent' = fed'
        /\ ends' = ends \/ ends' = ends \o <<fed>>
    BY FlushKeepsChain DEF SplitInv
  <1>3. \A o : Claimed(o)' = Claimed(o)
    BY <1>1, ClaimsKept
  <1>4. Framed' = Framed
    BY <1>1, FramedKept
  <1>5. ends \in Seq(Nat) /\ Cut(0, ends)
    BY CutFromFrames DEF SplitInv, Chain
  <1>6. Len(ends') \in Nat /\ ends' \in Seq(Nat) /\ DOMAIN ends' = 1..Len(ends')
    BY <1>2, LenProperties DEF Chain
  <1>7. ASSUME NEW i \in DOMAIN ends', i < Len(ends')
        PROVE  i \in DOMAIN ends /\ ends'[i] = ends[i]
               /\ \A j \in 1..i : Begin(0, ends', j) = Begin(0, ends, j)
    <2>1. CASE ends' = ends
      BY <2>1
    <2>2. CASE ends' = ends \o <<fed>>
      <3> DEFINE q == <<fed>>
      <3>1. q \in Seq(Nat) /\ Len(q) = 1 /\ ends' = ends \o q
        BY <1>1, <1>2, <2>2, LenProperties DEF Typed
      <3> HIDE DEF q
      <3>2. /\ DOMAIN ends = 1..Len(ends) /\ Len(ends) \in Nat
            /\ Len(ends \o q) = Len(ends) + Len(q)
            /\ \A k \in 1..Len(ends) : /\ (ends \o q)[k] = ends[k]
                                       /\ Begin(0, ends \o q, k) = Begin(0, ends, k)
        BY <1>5, <3>1, Concat
      <3>3. i \in 1..Len(ends) /\ \A j \in 1..i : j \in 1..Len(ends)
        BY <1>6, <1>7, <3>1, <3>2
      <3> QED
        BY <3>1, <3>2, <3>3
    <2> QED
      BY <1>2, <2>1, <2>2
  <1>8. ASSUME Framed, NEW i \in DOMAIN ends', i < Len(ends')
        PROVE  \/ Exact(Begin(0, ends', i), ends'[i])
               \/ \E j \in 1..i : Void(Begin(0, ends', j))
    <2>1. \/ Exact(Begin(0, ends, i), ends[i])
          \/ \E j \in 1..i : Void(Begin(0, ends, j))
      BY <1>5, <1>7, <1>8 DEF Cut
    <2>2. i \in 1..i
      BY <1>6
    <2> QED
      BY <1>7, <1>8, <2>1, <2>2
  <1>9. \A i \in DOMAIN ends' : i < Len(ends') \/ i = Len(ends')
    BY <1>6
  <1>10. (FramesArePackets)'
    BY <1>1, <1>3, <1>4, <1>8, <1>9 DEF FramesArePackets, Framed, Exact, Void, Start, Begin
  <1> QED
    BY <1>1, <1>2, <1>10 DEF SplitInv

(* Every call.                                                             *)
LEMMA SplitInvStep == SplitInv /\ [SplitNext]_splitVars => SplitInv'
  <1> SUFFICES ASSUME SplitInv, [SplitNext]_splitVars PROVE SplitInv'
    OBVIOUS
  <1>1. CASE SplitNext
    BY <1>1, SplitInvChunk, SplitInvFlush DEF SplitNext
  <1>2. CASE UNCHANGED splitVars
    <2>1. UNCHANGED <<plain, proto, fed, ends, disabled, flushed>>
      BY <1>2 DEF splitVars
    <2>2. (\A o : Claimed(o)' = Claimed(o)) /\ Framed' = Framed
      BY <2>1, ClaimsKept, FramedKept
    <2>3. (FramesArePackets)'
      BY <2>1, <2>2 DEF SplitInv, FramesArePackets, Framed, Start
    <2>4. Typed' /\ Sent' = Sent
      BY <2>1 DEF SplitInv, Typed, Sent
    <2>5. (IF disabled THEN Framed => MeetsVoid(0, ends) ELSE Rest(Sent, fed))'
          <=> IF disabled THEN Framed => MeetsVoid(0, ends) ELSE Rest(Sent, fed)
      BY <2>1, <2>2, <2>4 DEF MeetsVoid, Void, Begin, Rest
    <2>6. (Chain(0, fed, ends))'
      BY <2>1 DEF SplitInv, Chain, Begin
    <2> QED
      BY <2>1, <2>3, <2>4, <2>5, <2>6 DEF SplitInv
  <1> QED
    BY <1>1, <1>2

(* The invariant of the splitter.                                          *)
THEOREM SplitInvHolds == SplitSpec => []SplitInv
  BY SplitInvInit, SplitInvStep, PTL DEF SplitSpec

(* However the stream is cut into chunks, every frame the splitter returns *)
(* is one packet, until a header announces an empty one; only the flushed  *)
(* rest is less.                                                           *)
THEOREM FramesArePacketsHolds == SplitSpec => []FramesArePackets
  <1>1. SplitInv => FramesArePackets
    BY DEF SplitInv
  <1> QED
    BY <1>1, SplitInvHolds, PTL

(* Whatever the chunks, what is held back is the beginning of one packet   *)
(* whose end has not come.                                                 *)
THEOREM HoldsOnlyBeginningHolds == SplitSpec => []HoldsOnlyBeginning
  <1>1. SplitInv => HoldsOnlyBeginning
    BY DEF SplitInv, HoldsOnlyBeginning, Rest
  <1> QED
    BY <1>1, SplitInvHolds, PTL

(* Whatever the chunks, the frames follow each other without gap or        *)
(* overlap, and after flush() they carry every byte.                       *)
THEOREM NothingDroppedHolds == SplitSpec => []NothingDropped
  <1>1. SplitInv => NothingDropped
    BY StartIsBegin DEF SplitInv, NothingDropped, Chain
  <1> QED
    BY <1>1, SplitInvHolds, PTL

-----------------------------------------------------------------------------
(* The two halves of the bridge change nothing of each other's.            *)
LEMMA UpOnly == UpStep => UNCHANGED <<downVars, main, closedBy, conn>>
  BY DEF UpStep

(* A step of ws_to_tcp leaves the other task and the bridge alone.         *)
LEMMA DownOnly == DownStep => UNCHANGED <<upVars, main, conn>>
  BY DEF DownStep

(* What a step of ws_to_tcp is.                                            *)
LEMMA DownActs ==
  DownStep => \/ \E n \in Nat, fin \in BOOLEAN : DownFrame(n, fin)
              \/ DownPing \/ DownClose \/ DownDrained \/ DownFails
  <1> SUFFICES ASSUME NEW n \in 0..(MaxDown - received) PROVE n \in Nat
    BY DEF DownStep
  <1> QED
    OBVIOUS

-----------------------------------------------------------------------------
(* Downlink.                                                               *)

DownInv ==
  /\ received \in Nat /\ delivered \in Nat /\ frag \in Nat
  /\ DownlinkExact

(* Every step accounts for the bytes of the downlink.                      *)
LEMMA DownInvStep == DownInv /\ [Next]_vars => DownInv'
  <1> SUFFICES ASSUME DownInv, [Next]_vars PROVE DownInv'
    OBVIOUS
  <1>1. CASE DownStep
    <2>1. ASSUME NEW n \in Nat, NEW fin \in BOOLEAN, DownFrame(n, fin) PROVE DownInv'
      BY <2>1, DownAssumption DEF DownFrame, DownInv, DownlinkExact
    <2>2. CASE DownPing \/ DownClose \/ DownDrained \/ DownFails
      BY <2>2, DownAssumption
         DEF DownPing, DownClose, DownDrained, DownFails, DownInv, DownlinkExact
    <2> QED
      BY <1>1, <2>1, <2>2, DownActs
  <1>2. CASE DownCancelled
    BY <1>2, DownAssumption DEF DownCancelled, DownInv, DownlinkExact, Ended
  <1>3. CASE UNCHANGED downVars
    BY <1>3 DEF downVars, DownInv, DownlinkExact
  <1>4. \/ DownStep \/ DownCancelled \/ UNCHANGED downVars
    BY UpOnly DEF Next, Teardown, CancelTasks, UpCancelled, CloseWs, CloseClient,
                  WsClosed, Done, vars
  <1> QED
    BY <1>1, <1>2, <1>3, <1>4

(* Whatever the frames, fragments and PINGs, every data byte read from     *)
(* Telegram was delivered or is part of the message being put together,    *)
(* and a message beyond the limit has ended ws_to_tcp.                     *)
THEOREM DownlinkHolds == Spec => []DownlinkExact
  <1>1. Init => DownInv
    BY DownAssumption DEF Init, DownInv, DownlinkExact
  <1>2. DownInv => DownlinkExact
    BY DEF DownInv
  <1> QED
    BY <1>1, <1>2, DownInvStep, PTL DEF Spec

-----------------------------------------------------------------------------
(* Teardown.  Once ws.close() begins both tasks are over, so nobody but    *)
(* the bridge touches the WebSocket any more.                              *)
TearInv ==
  /\ main \in {"wait", "cancel", "ws", "client", "done"}
  /\ closedBy \in {"none", "peer", "us"}
  /\ main \in {"ws", "client", "done"} => up \in Ended /\ down \in Ended /\ Closed
  /\ closedBy = "us" => main \in {"ws", "client", "done"}
  /\ main = "ws" => closedBy = "us"
  /\ main \in {"client", "done"} => (conn = "open" => closedBy = "peer")

(* A task that has ended takes no step.                                    *)
LEMMA UpActive == UpStep => up \notin Ended
  BY DEF UpStep, UpChunk, UpEof, UpDrained, UpFails, Ended

(* Nor does the other one.                                                 *)
LEMMA DownActive == DownStep => down \notin Ended
  BY DEF DownStep, DownFrame, DownPing, DownClose, DownDrained, DownFails, Ended

(* ws_to_tcp notes a close of the peer only.                               *)
LEMMA DownCloses == DownStep => closedBy' \in {closedBy, "peer"}
  BY DEF DownStep, DownFrame, DownPing, DownClose, DownDrained, DownFails

(* Every step of the teardown.                                             *)
LEMMA TearStep == TearInv /\ [Next]_vars => TearInv'
  <1> SUFFICES ASSUME TearInv, [Next]_vars PROVE TearInv'
    OBVIOUS
  <1>1. CASE UpStep
    BY <1>1, UpOnly, UpActive DEF TearInv, downVars, Closed
  <1>2. CASE DownStep
    BY <1>2, DownOnly, DownActive, DownCloses DEF TearInv, upVars, Closed
  <1>3. ASSUME NEW stopped \in BOOLEAN, CancelTasks(stopped) PROVE TearInv'
    BY <1>3 DEF CancelTasks, TearInv, Closed
  <1>4. CASE UpCancelled \/ DownCancelled
    BY <1>4 DEF UpCancelled, DownCancelled, TearInv, Closed
  <1>5. CASE CloseWs
    BY <1>5 DEF CloseWs, TearInv, Closed, upVars, downVars
  <1>6. ASSUME NEW stopped \in BOOLEAN, WsClosed(stopped) PROVE TearInv'
    BY <1>6 DEF WsClosed, TearInv, Closed, upVars, downVars
  <1>7. CASE CloseClient
    BY <1>7 DEF CloseClient, TearInv, Closed, upVars, downVars
  <1>8. CASE Done \/ UNCHANGED vars
    BY <1>8 DEF Done, vars, TearInv, Closed, upVars, downVars
  <1> QED
    BY <1>1, <1>2, <1>3, <1>4, <1>5, <1>6, <1>7, <1>8 DEF Next, Teardown

(* Before it everything is open.                                           *)
LEMMA TearInit == Init => TearInv
  BY DEF Init, TearInv, Closed

(* A session that is over has closed its WebSocket, and its transport too, *)
(* but for the two cases the property names.                               *)
THEOREM ReleasedHolds == Spec => []Released
  <1>1. TearInv => Released
    BY DEF TearInv, Released
  <1> QED
    BY <1>1, TearInit, TearStep, PTL DEF Spec

-----------------------------------------------------------------------------
(* Uplink.                                                                 *)

UpInv ==
  /\ FramesWritten
  /\ up \in {"read", "drain", "flush"} \cup Ended

(* Every step keeps the frames and the wire together.                      *)
LEMMA UpInvStep == TearInv /\ UpInv /\ [Next]_vars => UpInv'
  <1> SUFFICES ASSUME TearInv, UpInv, [Next]_vars PROVE UpInv'
    OBVIOUS
  <1>1. CASE UpStep
    <2>1. /\ up \in {"read", "drain", "flush"} /\ wire = Len(ends)
          /\ Closed => closedBy = "peer"
          /\ closedBy' = closedBy
      BY <1>1, UpActive, UpOnly DEF TearInv, UpInv, FramesWritten, Ended, Closed
    <2>2. ASSUME NEW next \in {"drain", "flush"}, Send(next) PROVE UpInv'
      BY <2>1, <2>2 DEF Send, UpInv, FramesWritten, Ended
    <2>3. ASSUME NEW n \in 1..(Len(plain) - fed), UpChunk(n) PROVE UpInv'
      BY <2>1, <2>2, <2>3 DEF UpChunk, UpInv, FramesWritten
    <2>4. CASE UpEof
      BY <2>1, <2>2, <2>4 DEF UpEof, UpInv, FramesWritten, Ended
    <2>5. CASE UpDrained \/ UpFails
      BY <2>1, <2>5 DEF UpDrained, UpFails, splitVars, UpInv, FramesWritten, Ended
    <2> QED
      BY <1>1, <2>3, <2>4, <2>5 DEF UpStep
  <1>2. CASE DownStep
    BY <1>2, DownOnly, DownCloses DEF UpInv, FramesWritten, upVars, splitVars
  <1>3. CASE UpCancelled
    BY <1>3 DEF UpCancelled, splitVars, UpInv, FramesWritten, Ended
  <1>4. CASE CloseWs
    BY <1>4 DEF CloseWs, UpInv, FramesWritten, TearInv, upVars, splitVars, Closed
  <1>5. CASE UNCHANGED <<upVars, closedBy>>
    BY <1>5 DEF UpInv, FramesWritten, upVars, splitVars
  <1>6. \/ UpStep \/ DownStep \/ UpCancelled \/ CloseWs \/ UNCHANGED <<upVars, closedBy>>
    BY DEF Next, Teardown, CancelTasks, DownCancelled, CloseClient, WsClosed, Done,
           vars, upVars
  <1> QED
    BY <1>1, <1>2, <1>3, <1>4, <1>5, <1>6

(* However the stream is cut, each frame the splitter returned is on the   *)
(* wire, unless Telegram closed first and tcp_to_ws ended with an error.   *)
THEOREM FramesWrittenHolds == Spec => []FramesWritten
  <1>1. Init => UpInv
    BY DEF Init, UpInv, FramesWritten, Ended
  <1>2. UpInv => FramesWritten
    BY DEF UpInv
  <1> QED
    BY <1>1, <1>2, TearInit, TearStep, UpInvStep, PTL DEF Spec

-----------------------------------------------------------------------------
(* No byte of the client is lost.                                          *)
FedInv ==
  /\ Typed /\ fed \in 0..Len(plain) /\ Chain(0, fed, ends)
  /\ disabled => Sent = fed
  /\ up \in {"flush", "eof"} => Sent = fed

(* A step that leaves the splitter alone.                                  *)
LEMMA FedIdle ==
  ASSUME FedInv, UNCHANGED splitVars, up' \in {"flush", "eof"} => up \in {"flush", "eof"}
  PROVE  FedInv'
  <1>1. UNCHANGED <<plain, fed, ends, disabled>>
    BY DEF splitVars
  <1>2. Typed' /\ Sent' = Sent
    BY <1>1 DEF FedInv, Typed, Sent
  <1>3. (Chain(0, fed, ends))'
    BY <1>1 DEF FedInv, Chain, Begin
  <1> QED
    BY <1>1, <1>2, <1>3 DEF FedInv

(* A chunk, of whatever size.                                              *)
LEMMA FedChunk ==
  ASSUME FedInv, NEW n \in 1..(Len(plain) - fed), UpChunk(n)
  PROVE  FedInv'
  <1>1. /\ Typed' /\ fed' \in 0..Len(plain') /\ Chain(0, fed', ends')
        /\ disabled' => Sent' = fed'
    BY SplitKeepsChain DEF UpChunk, FedInv
  <1>2. up' \notin {"flush", "eof"}
    BY DEF UpChunk, Send
  <1>3. (Chain(0, fed, ends))'
    BY <1>1 DEF Chain, Begin
  <1> QED
    BY <1>1, <1>2, <1>3 DEF FedInv

(* The client's EOF.                                                       *)
LEMMA FedEof ==
  ASSUME FedInv, UpEof
  PROVE  FedInv'
  <1>1. Typed' /\ fed' \in 0..Len(plain') /\ Chain(0, fed', ends') /\ Sent' = fed'
    BY FlushKeepsChain DEF UpEof, FedInv
  <1>2. (Chain(0, fed, ends))'
    BY <1>1 DEF Chain, Begin
  <1> QED
    BY <1>1, <1>2 DEF FedInv

(* Only tcp_to_ws feeds the splitter.                                      *)
LEMMA FedInvStep == FedInv /\ [Next]_vars => FedInv'
  <1> SUFFICES ASSUME FedInv, [Next]_vars PROVE FedInv'
    OBVIOUS
  <1>1. CASE UpStep
    <2>1. CASE UpDrained \/ UpFails
      BY <2>1, FedIdle DEF UpDrained, UpFails
    <2> QED
      BY <1>1, <2>1, FedChunk, FedEof DEF UpStep
  <1>2. CASE UpCancelled
    BY <1>2, FedIdle DEF UpCancelled
  <1>3. CASE UNCHANGED upVars
    BY <1>3, FedIdle DEF upVars
  <1>4. UpStep \/ UpCancelled \/ UNCHANGED upVars
    BY DownOnly DEF Next, Teardown, CancelTasks, DownCancelled, CloseWs, CloseClient,
                    WsClosed, Done, vars, upVars
  <1> QED
    BY <1>1, <1>2, <1>3, <1>4

(* What is fed stays a chain of frames.                                    *)
LEMMA FedInvHolds == Spec => []FedInv
  <1>1. Init => FedInv
    <2> SUFFICES ASSUME Init PROVE FedInv
      OBVIOUS
    <2>1. Typed /\ fed \in 0..Len(plain) /\ fed = 0 /\ ends = <<>> /\ Sent = 0
      BY SplitAssumption, LenProperties DEF Init, Typed, Sent
    <2>2. Chain(0, fed, ends)
      BY <2>1, NoPart
    <2> QED
      BY <2>1, <2>2 DEF FedInv
  <1> QED
    BY <1>1, FedInvStep, PTL DEF Spec

(* The client's bytes reach Telegram: however they are cut, a session whose *)
(* client came to its end has written all of them, the rest of a cut-off   *)
(* packet included, and a frame is only missing when Telegram had closed.  *)
THEOREM UplinkExactHolds == Spec => []UplinkExact
  <1>1. FedInv /\ FramesWritten => UplinkExact
    BY DEF FedInv, UplinkExact
  <1> QED
    BY <1>1, FedInvHolds, FramesWrittenHolds, PTL

(* No step of a closed WebSocket, of whichever side it was closed, writes  *)
(* a data frame.                                                           *)
THEOREM NoFrameAfterCloseHolds == Spec => NoFrameAfterClose
  <1>1. [Next]_vars => [Closed => wire' = wire]_vars
    <2> SUFFICES ASSUME Next, Closed PROVE wire' = wire
      OBVIOUS
    <2>1. CASE UpStep
      BY <2>1 DEF UpStep, UpChunk, UpEof, UpDrained, UpFails, Send
    <2>2. CASE ~UpStep
      BY <2>2, DownOnly DEF Next, Teardown, CancelTasks, UpCancelled, DownCancelled, CloseWs,
                            CloseClient, WsClosed, Done, vars, upVars
    <2> QED
      BY <2>1, <2>2
  <1> QED
    BY <1>1, PTL DEF Spec, NoFrameAfterClose

-----------------------------------------------------------------------------
(* Types.                                                                  *)

(* Frames are only added.                                                  *)
LEMMA EndsGrow ==
  ASSUME FedInv, UpStep
  PROVE  ends' \in Seq(Nat) /\ Len(ends) <= Len(ends')
  <1>0. /\ Typed /\ fed \in 0..Len(plain) /\ Chain(0, fed, ends) /\ ends \in Seq(Nat)
        /\ fed \in Nat /\ (disabled => Sent = fed)
    BY LenProperties DEF FedInv, Typed, Chain
  <1>1. ASSUME NEW q \in Seq(Nat), ends' = ends \o q
        PROVE  ends' \in Seq(Nat) /\ Len(ends) <= Len(ends')
    <2>1. Len(ends \o q) = Len(ends) + Len(q) /\ ends \o q \in Seq(Nat)
      BY <1>0, ConcatProperties
    <2> QED
      BY <1>0, <1>1, <2>1, LenProperties
  <1>2. ASSUME NEW n \in 1..(Len(plain) - fed), Split(n)
        PROVE  ends' \in Seq(Nat) /\ Len(ends) <= Len(ends')
    <2>1. CASE disabled
      <3>1. ends' = Append(ends, fed') /\ fed' \in Nat
        BY <1>0, <1>2, <2>1 DEF Split
      <3> QED
        BY <1>0, <3>1, AppendProperties, LenProperties
    <2>2. CASE ~disabled
      <3>1. /\ Parted(Sent, fed', [parts |-> Walk(fed').parts, zero |-> disabled'])
            /\ ends' = ends \o Walk(fed').parts
        BY <1>0, <1>2, <2>2, SplitKeepsChain
      <3>2. Walk(fed').parts \in Seq(Nat)
        BY <3>1 DEF Parted, Chain
      <3> QED
        BY <1>1, <3>1, <3>2
    <2> QED
      BY <2>1, <2>2
  <1>3. CASE Flush
    <2>1. ends' = ends \/ ends' = ends \o <<fed>>
      BY <1>0, <1>3, FlushKeepsChain
    <2>2. <<fed>> \in Seq(Nat)
      BY <1>0
    <2>3. ends \o <<fed>> \in Seq(Nat)
      BY <1>0, <2>2
    <2> QED
      BY <1>0, <1>1, <2>1, <2>2, <2>3, SMTT(30)
  <1>4. CASE UNCHANGED splitVars
    BY <1>0, <1>4, LenProperties DEF splitVars
  <1> QED
    BY <1>2, <1>3, <1>4 DEF UpStep, UpChunk, UpEof, UpDrained, UpFails

(* A step of tcp_to_ws.                                                    *)
LEMMA UpTypes ==
  ASSUME TypeOK, FedInv, UpStep
  PROVE  up' \in {"read", "drain", "flush"} \cup Ended /\ wire' \in 0..Len(ends')
  <1>1. wire \in 0..Len(ends') /\ Len(ends') \in 0..Len(ends')
    <2>1. Len(ends') \in Nat /\ Len(ends) \in Nat /\ Len(ends) <= Len(ends')
      BY EndsGrow, LenProperties DEF FedInv, Chain
    <2> QED
      BY <2>1 DEF TypeOK
  <1>2. ASSUME NEW next \in {"drain", "flush"}, Send(next)
        PROVE  up' \in {"read", "drain", "flush"} \cup Ended /\ wire' \in 0..Len(ends')
    BY <1>1, <1>2 DEF Send, Ended
  <1>3. ASSUME NEW n \in 1..(Len(plain) - fed), UpChunk(n)
        PROVE  up' \in {"read", "drain", "flush"} \cup Ended /\ wire' \in 0..Len(ends')
    BY <1>1, <1>2, <1>3 DEF UpChunk, TypeOK
  <1>4. CASE UpEof
    BY <1>1, <1>2, <1>4 DEF UpEof, Ended
  <1>5. CASE UpDrained \/ UpFails
    BY <1>1, <1>5 DEF UpDrained, UpFails, Ended
  <1> QED
    BY <1>3, <1>4, <1>5 DEF UpStep

(* A step of ws_to_tcp.                                                    *)
LEMMA DownTypes ==
  ASSUME TypeOK, DownInv, DownStep
  PROVE  /\ down' \in {"recv", "drain", "pong", "bye"} \cup Ended
         /\ received' \in 0..MaxDown
  <1>1. ASSUME NEW n \in 0..(MaxDown - received), NEW fin \in BOOLEAN, DownFrame(n, fin)
        PROVE  /\ down' \in {"recv", "drain", "pong", "bye"} \cup Ended
               /\ received' \in 0..MaxDown
    <2>1. received' \in 0..MaxDown
      BY <1>1, DownAssumption DEF DownFrame, TypeOK
    <2>2. down' \in {"recv", "drain", "error"}
      BY <1>1 DEF DownFrame
    <2> QED
      BY <2>1, <2>2 DEF Ended
  <1>2. CASE DownPing \/ DownClose \/ DownDrained \/ DownFails
    BY <1>2 DEF DownPing, DownClose, DownDrained, DownFails, TypeOK, Ended
  <1> QED
    BY <1>1, <1>2 DEF DownStep

(* Every step.                                                             *)
LEMMA BridgeTypeStep ==
  TypeOK /\ DownInv /\ DownInv' /\ TearInv' /\ FedInv /\ [Next]_vars => TypeOK'
  <1> SUFFICES ASSUME TypeOK, DownInv, DownInv', TearInv', FedInv, [Next]_vars PROVE TypeOK'
    OBVIOUS
  <1>1. /\ main' \in {"wait", "cancel", "ws", "client", "done"}
        /\ closedBy' \in {"none", "peer", "us"}
    BY DEF TearInv
  <1>2. up' \in {"read", "drain", "flush"} \cup Ended /\ wire' \in 0..Len(ends')
    <2>1. CASE UpStep
      BY <2>1, UpTypes
    <2>2. CASE ~UpStep
      <3>1. wire' = wire /\ ends' = ends /\ up' \in {up, "cancelled"}
        BY <2>2, DownOnly DEF Next, Teardown, CancelTasks, UpCancelled, DownCancelled, CloseWs,
                              CloseClient, WsClosed, Done, vars, upVars, splitVars
      <3> QED
        BY <3>1 DEF TypeOK, Ended
    <2> QED
      BY <2>1, <2>2
  <1>3. /\ down' \in {"recv", "drain", "pong", "bye"} \cup Ended
        /\ received' \in 0..MaxDown
    <2>1. CASE DownStep
      BY <2>1, DownTypes
    <2>2. CASE ~DownStep
      <3>1. received' = received /\ down' \in {down, "cancelled"}
        BY <2>2, UpOnly DEF Next, Teardown, CancelTasks, UpCancelled, DownCancelled, CloseWs,
                            CloseClient, WsClosed, Done, vars, downVars
      <3> QED
        BY <3>1 DEF TypeOK, Ended
    <2> QED
      BY <2>1, <2>2
  <1>4. frag' \in 0..MaxDown /\ delivered' \in 0..(MaxDown - frag')
    <2>1. /\ received' \in Nat /\ delivered' \in Nat /\ frag' \in Nat
          /\ received' = delivered' + frag'
      BY Zenon DEF DownInv, DownlinkExact
    <2>2. received' \in 0..MaxDown /\ MaxDown \in Nat
      BY <1>3, DownAssumption
    <2>3. ASSUME NEW d \in Nat, NEW f \in Nat, NEW m \in Nat, d + f \in 0..m
          PROVE  f \in 0..m /\ d \in 0..(m - f)
      <3>1. d + f <= m /\ f <= m /\ d <= m - f
        BY <2>3
      <3> QED
        BY <3>1
    <2> QED
      BY <2>1, <2>2, <2>3, Zenon
  <1>5. conn' \in {"open", "closed", "cancelled"}
    BY UpOnly, DownOnly DEF Next, Teardown, CancelTasks, UpCancelled, DownCancelled, CloseWs,
                            CloseClient, WsClosed, Done, vars, TypeOK
  <1> QED
    BY <1>1, <1>2, <1>3, <1>4, <1>5 DEF TypeOK

(* Every variable of the bridge keeps its type.                            *)
THEOREM BridgeTypes == Spec => []TypeOK
  <1>1. Init => TypeOK /\ DownInv
    <2>1. Len(<<>>) = 0
      OBVIOUS
    <2> QED
      BY <2>1, DownAssumption DEF Init, TypeOK, Ended, DownInv, DownlinkExact
  <1>2. TypeOK /\ DownInv /\ TearInv /\ FedInv /\ [Next]_vars => TypeOK' /\ DownInv' /\ TearInv'
    BY DownInvStep, TearStep, BridgeTypeStep
  <1> QED
    BY <1>1, <1>2, TearInit, FedInvHolds, PTL DEF Spec
=============================================================================
