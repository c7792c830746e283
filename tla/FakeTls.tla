------------------------------- MODULE FakeTls -------------------------------
(***************************************************************************)
(* FakeTlsStream of proxy/fake_tls.py: the client's bytes are the payload   *)
(* of TLS application-data records, whose records may be cut anywhere by    *)
(* the network and may stand between others.                               *)
(*                                                                         *)
(* A record is its type, the length its header states, how many bytes of it *)
(* the client sends before its connection ends, and how many payload bytes  *)
(* the client has sent before it; payload bytes are numbered in that order. *)
(* A step is one call of _read_tls_payload with what the caller does with   *)
(* its result.  An operator X_Y is a faulty variant of X that some property *)
(* must catch.                                                             *)
(***************************************************************************)
EXTENDS Naturals, Sequences

CONSTANTS
  InitLen,   \* HANDSHAKE_LEN
  ReadSize   \* what the caller of read() asks for

ASSUME TlsAssumption == InitLen \in Nat /\ ReadSize \in Nat \ {0}

VARIABLES
  wire,      \* the records not read yet; the rest of one when left > 0
  left,      \* _read_left
  buf,       \* _read_buf
  got,       \* what readexactly() and read() have returned
  count      \* the payload bytes read from the wire

tlsVars == <<wire, left, buf, got, count>>

Upto(from, to) == [i \in 1..(to - from) |-> from + i]

Records == [type : {"app", "ccs", "other"}, from : Nat, len : Nat, has : Nat]
Whole(r) == r.has = r.len
Own(r) == IF r.type = "app" THEN r.has ELSE 0

(* What a client can send: only the last record may be short.              *)
Sendable(w) ==
  /\ w \in Seq(Records)
  /\ \A i \in DOMAIN w :
       /\ w[i].has <= w[i].len /\ (i < Len(w) => Whole(w[i]))
       /\ w[i].from = IF i = 1 THEN 0 ELSE w[i - 1].from + Own(w[i - 1])

(* Change-cipher-spec records are read and dropped.                        *)
Skipped(r) == r.type = "ccs" /\ Whole(r)
FirstKept(w) ==
  CHOOSE i \in 1..(Len(w) + 1) :
    /\ i <= Len(w) => ~Skipped(w[i])
    /\ \A j \in 1..(i - 1) : Skipped(w[j])
Ready(w) == IF left > 0 THEN w ELSE SubSeq(w, FirstKept(w), Len(w))
Front == Head(Ready(wire))
After(r, m) == [type |-> r.type, from |-> r.from + m, len |-> r.len - m, has |-> r.has - m]

(* _read_tls_payload returns m bytes, no more than have arrived; b'' at the *)
(* end of the connection, at any other record and at an empty one; and it   *)
(* raises when the connection ends where a header has to come.             *)
Payload(m) ==
  /\ Ready(wire) # <<>> /\ Front.type = "app" /\ m \in 1..Front.has
  /\ count' = count + m
  /\ left' = Front.len - m
  /\ wire' = IF Front.len = m THEN Tail(Ready(wire))
             ELSE <<After(Front, m)>> \o Tail(Ready(wire))
StreamOver == Ready(wire) # <<>> => Front.type # "app" \/ Front.has = 0
NoPayload == StreamOver /\ UNCHANGED <<wire, left, count>>
Arrived == 1..(IF Ready(wire) = <<>> THEN 0 ELSE Front.has)

(* readexactly(InitLen).                                                   *)
FillInit ==
  /\ Len(buf) < InitLen
  /\ \E m \in Arrived : Payload(m) /\ buf' = buf \o Upto(Front.from, Front.from + m)
  /\ UNCHANGED got
TakeInit ==
  /\ Len(buf) >= InitLen
  /\ got' = SubSeq(buf, 1, InitLen)
  /\ buf' = SubSeq(buf, InitLen + 1, Len(buf))
  /\ UNCHANGED <<wire, left, count>>
InitCut == Len(buf) < InitLen /\ NoPayload /\ UNCHANGED <<buf, got>>

(* read(ReadSize): what is buffered comes first.                           *)
ReadBuffered ==
  /\ buf # <<>>
  /\ LET n == IF Len(buf) < ReadSize THEN Len(buf) ELSE ReadSize
     IN  got' = got \o SubSeq(buf, 1, n) /\ buf' = SubSeq(buf, n + 1, Len(buf))
  /\ UNCHANGED <<wire, left, count>>
ReadPayload_DropsRest(m) ==
  LET n == IF m < ReadSize THEN m ELSE ReadSize
  IN  /\ buf = <<>> /\ Payload(m)
      /\ got' = got \o Upto(Front.from, Front.from + n)
      /\ UNCHANGED buf
ReadPayload(m) ==
  LET n == IF m < ReadSize THEN m ELSE ReadSize
  IN  /\ buf = <<>> /\ Payload(m)
      /\ got' = got \o Upto(Front.from, Front.from + n)
      /\ buf' = Upto(Front.from + n, Front.from + m)
ReadEnds == buf = <<>> /\ NoPayload /\ UNCHANGED <<buf, got>>

Read == ReadBuffered \/ \E m \in Arrived : ReadPayload(m)

(* What a client that sends the records of w has said before its stream    *)
(* ends: at an empty record, at one of another type, or with the connection.*)
Stops(r) == r.type = "other" \/ ~Whole(r) \/ (r.type = "app" /\ r.len = 0)
Said(w) ==
  LET stops == {i \in DOMAIN w : Stops(w[i])}
      last == CHOOSE i \in stops \cup {Len(w)} : \A j \in stops : i <= j
  IN  IF w = <<>> THEN 0 ELSE w[last].from + Own(w[last])
=============================================================================
