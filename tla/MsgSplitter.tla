---------------------------- MODULE MsgSplitter -----------------------------
(***************************************************************************)
(* Class MsgSplitter of proxy/bridge.py: the re-encrypted stream towards    *)
(* Telegram is cut at the boundaries of its MTProto transport packets, so   *)
(* that each travels in a WebSocket frame of its own, however the client's  *)
(* bytes arrive.  The cipher and the plain buffer hold the same positions   *)
(* of the stream, so a frame is named by the position where it ends.        *)
(*                                                                         *)
(* An operator X_Y is a faulty variant of X that some property must catch.  *)
(***************************************************************************)
EXTENDS Integers, Sequences, FiniteSets

CONSTANTS
  Streams,   \* the plain streams a client may send, after ZERO_64
  Protos,    \* the transport protocols of the sessions
  Word       \* an abridged length counts words: 4 bytes in the code

ASSUME SplitAssumption == Streams \subseteq Seq(0..255) /\ Word \in Nat \ {0}

VARIABLES
  plain,     \* the whole plain stream of this session
  proto,     \* _proto
  fed,       \* how much of it split() was given
  ends,      \* where the frames returned so far end
  disabled,  \* _disabled
  flushed    \* flush() was called

splitVars == <<plain, proto, fed, ends, disabled, flushed>>

Incomplete == -1     \* the None of _next_packet_len

At(o) == plain[o + 1]
Low7(b) == b % 128
Low31(o) == At(o) + 256 * At(o + 1) + 65536 * At(o + 2) + 16777216 * Low7(At(o + 3))
Low24(o) == At(o) + 256 * At(o + 1) + 65536 * At(o + 2)

(* A packet of header h and payload p, when avail bytes are there.         *)
Packet_Partial(h, p, avail) ==
  IF p <= 0 THEN 0 ELSE IF avail < h + p THEN avail ELSE h + p
Packet(h, p, avail) ==
  IF p <= 0 THEN 0 ELSE IF avail < h + p THEN Incomplete ELSE h + p

NextAbridgedLen(o, avail) ==
  IF At(o) \in {127, 255}
  THEN IF avail < 4 THEN Incomplete ELSE Packet(4, Low24(o + 1) * Word, avail)
  ELSE Packet(1, Low7(At(o)) * Word, avail)

NextIntermediateLen(o, avail) ==
  IF avail < 4 THEN Incomplete ELSE Packet(4, Low31(o), avail)

NextPacketLen(o, avail) ==
  IF avail <= 0 THEN Incomplete
  ELSE CASE proto = "abridged" -> NextAbridgedLen(o, avail)
         [] proto \in {"intermediate", "padded"} -> NextIntermediateLen(o, avail)
         [] OTHER -> 0

Sent == IF ends = <<>> THEN 0 ELSE ends[Len(ends)]

(* The loop of split() over a buffer that ends at f: what it finds when it  *)
(* has come to o is the ends of the parts from there, and whether a header  *)
(* announced no payload; rest is what it finds further on.                 *)
PartsAt_First(f, o, rest) ==
  LET n == NextPacketLen(o, f - o)
  IN  IF n = Incomplete THEN [parts |-> <<>>, zero |-> FALSE]
      ELSE IF n <= 0 THEN [parts |-> <<f>>, zero |-> TRUE]
      ELSE [parts |-> <<o + n>>, zero |-> FALSE]
PartsAt(f, o, rest) ==
  LET n == NextPacketLen(o, f - o)
  IN  IF n = Incomplete THEN [parts |-> <<>>, zero |-> FALSE]
      ELSE IF n <= 0 THEN [parts |-> <<f>>, zero |-> TRUE]
      ELSE [parts |-> <<o + n>> \o rest[o + n].parts, zero |-> rest[o + n].zero]
WalkFrom(f) == LET from[o \in Sent..f] == PartsAt(f, o, from) IN from
Walk(f) == WalkFrom(f)[Sent]

SplitInit ==
  /\ plain \in Streams /\ proto \in Protos
  /\ fed = 0 /\ ends = <<>> /\ disabled = FALSE /\ flushed = FALSE

Split(n) ==
  LET f == fed + n
  IN  /\ fed' = f
      /\ IF disabled
         THEN ends' = Append(ends, f) /\ UNCHANGED disabled
         ELSE ends' = ends \o Walk(f).parts /\ disabled' = Walk(f).zero
      /\ UNCHANGED <<plain, proto, flushed>>

Flush_Clears == flushed' = TRUE /\ UNCHANGED <<plain, proto, fed, ends, disabled>>
Flush ==
  /\ ends' = IF Sent < fed THEN Append(ends, fed) ELSE ends
  /\ flushed' = TRUE
  /\ UNCHANGED <<plain, proto, fed, disabled>>

SplitNext ==
  /\ ~flushed
  /\ Flush \/ \E n \in 1..(Len(plain) - fed) : Split(n)

SplitSpec == SplitInit /\ [][SplitNext]_splitVars

-----------------------------------------------------------------------------
(* The length of the packet at o as the header says once it is there; the  *)
(* reference the frames are compared with.                                 *)
Claimed(o) ==
  LET room == Len(plain) - o
      long == proto # "abridged" \/ At(o) \in {127, 255}
      head == IF long THEN 4 ELSE 1
      size == CASE proto = "abridged" /\ long -> Word * Low24(o + 1)
                [] proto = "abridged" /\ ~long -> Word * (At(o) % 128)
                [] proto # "abridged" -> Low31(o)
  IN  IF room < head THEN [known |-> FALSE, size |-> 0, all |-> 0]
      ELSE [known |-> TRUE, size |-> size, all |-> head + size]

Start(i) == IF i = 1 THEN 0 ELSE ends[i - 1]

(* Whatever the chunks, each frame is one packet, from the first byte of   *)
(* the stream until a header announces an empty packet; only the flushed   *)
(* rest may be less than that.                                             *)
FramesArePackets ==
  proto \in {"abridged", "intermediate", "padded"} =>
    \A i \in DOMAIN ends :
      \/ Claimed(Start(i)).known /\ ends[i] - Start(i) = Claimed(Start(i)).all
      \/ \E j \in 1..i : Claimed(Start(j)).known /\ Claimed(Start(j)).size = 0
      \/ flushed /\ i = Len(ends)

(* Nothing is held back longer than needed: what split() keeps is the      *)
(* beginning of one packet whose end has not come, and nothing at all once *)
(* splitting is off.                                                       *)
HoldsOnlyBeginning ==
  \/ flushed
  \/ disabled /\ Sent = fed
  \/ /\ ~disabled
     /\ Sent < fed => LET c == Claimed(Sent) IN c.known => Sent + c.all > fed

(* The frames follow each other without gap or overlap, and after flush()  *)
(* they carry every byte the client sent.                                  *)
NothingDropped ==
  /\ \A i \in DOMAIN ends : Start(i) < ends[i] /\ ends[i] <= fed
  /\ flushed => Sent = fed
=============================================================================
