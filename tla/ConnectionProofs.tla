-------------------------- MODULE ConnectionProofs --------------------------
(***************************************************************************)
(* Theorems about Connection.  The numbers of chunks never wrap, their     *)
(* sequence numbers do: the invariant Inv says of each sequence number     *)
(* that is kept or in flight which chunk it stands for, and how far from   *)
(* the present that chunk can be.  Two chunks less than MAX_SEQUENCE apart *)
(* are told apart by their sequence numbers (SameWire), two that are at    *)
(* most Window apart are put in the right order by IsSeqInBackroom         *)
(* (Backroom); the rest is bookkeeping, one lemma for each action.         *)
(***************************************************************************)
EXTENDS Connection, FiniteSetTheorems, TLAPS

USE ConnectionAssumption

----------------------------------------------------------------------------
(* Sequence numbers *)

Wire(n) == n % MAX_SEQUENCE

LEMMA WireType == \A n \in Nat : Wire(n) \in Sequences
  BY SMT DEF Wire, Sequences

LEMMA WireZero == Wire(0) = 0
  BY SMT DEF Wire

(* Euclidean division, in the form the other lemmas need. *)
LEMMA Quotient == \A n \in Nat : \E q \in Nat : n = MAX_SEQUENCE * q + Wire(n)
<1> TAKE n \in Nat
<1>1. n \div MAX_SEQUENCE \in Nat BY SMT
<1>2. n = MAX_SEQUENCE * (n \div MAX_SEQUENCE) + (n % MAX_SEQUENCE) BY SMT
<1> QED BY <1>1, <1>2 DEF Wire

(* From a number to a later one of the same round or of the next. *)
LEMMA WireStep ==
  ASSUME NEW a \in Nat, NEW b \in Nat, a <= b, b < a + MAX_SEQUENCE
  PROVE  \/ Wire(b) = Wire(a) + (b - a)
         \/ Wire(b) = Wire(a) + (b - a) - MAX_SEQUENCE
<1> DEFINE M == MAX_SEQUENCE
           ra == Wire(a)
           rb == Wire(b)
<1>1. ra \in 0..(M - 1) /\ rb \in 0..(M - 1) BY WireType DEF Sequences
<1>2. PICK qa \in Nat : a = M * qa + ra BY Quotient
<1>3. PICK qb \in Nat : b = M * qb + rb BY Quotient
<1> HIDE DEF ra, rb
<1>4. M * (qb - qa) = (b - a) + ra - rb BY <1>1, <1>2, <1>3, SMT
<1>5. M * (qb - qa) < 2 * M /\ M * (qb - qa) > -M BY <1>1, <1>4
<1>6. qb - qa \in {0, 1} BY <1>5, SMTT(30)
<1>7. CASE qb - qa = 0 BY <1>7, <1>4, <1>1 DEF ra, rb
<1>8. CASE qb - qa = 1 BY <1>8, <1>4, <1>1 DEF ra, rb
<1> QED BY <1>6, <1>7, <1>8

LEMMA WireNext == \A n \in Nat : NextSequence(Wire(n)) = Wire(n + 1)
<1> TAKE n \in Nat
<1>1. Wire(n) \in 0..(MAX_SEQUENCE - 1) /\ Wire(n + 1) \in 0..(MAX_SEQUENCE - 1)
  BY WireType DEF Sequences
<1>2. \/ Wire(n + 1) = Wire(n) + 1
      \/ Wire(n + 1) = Wire(n) + 1 - MAX_SEQUENCE
  BY WireStep
<1>3. CASE Wire(n) + 1 < MAX_SEQUENCE
  <2>1. (Wire(n) + 1) % MAX_SEQUENCE = Wire(n) + 1 BY <1>1, <1>3, SMT
  <2> QED BY <2>1, <1>1, <1>2, <1>3 DEF NextSequence
<1>4. CASE Wire(n) + 1 = MAX_SEQUENCE
  <2>1. MAX_SEQUENCE % MAX_SEQUENCE = 0 BY SMT
  <2> QED BY <2>1, <1>1, <1>2, <1>4 DEF NextSequence
<1> QED BY <1>1, <1>3, <1>4

(* Fewer than MAX_SEQUENCE numbers apart, a sequence number is unambiguous. *)
LEMMA SameWire ==
  ASSUME NEW a \in Nat, NEW b \in Nat, Wire(a) = Wire(b),
         a < b + MAX_SEQUENCE, b < a + MAX_SEQUENCE
  PROVE  a = b
<1>0. Wire(a) \in Nat /\ Wire(b) \in Nat BY WireType DEF Sequences
<1>1. CASE a <= b BY <1>0, <1>1, WireStep
<1>2. CASE b <= a BY <1>0, <1>2, WireStep
<1> QED BY <1>1, <1>2

(* Within a window, IsSeqInBackroom is the order of the chunks. *)
LEMMA Backroom ==
  ASSUME NEW i \in Nat, NEW a \in Nat, i <= a + Window, a <= i + Window
  PROVE  IsSeqInBackroom(Wire(i), Wire(a)) <=> i <= a
<1> DEFINE h == MAX_SEQUENCE \div 2
<1>1. Wire(i) \in 0..(MAX_SEQUENCE - 1) /\ Wire(a) \in 0..(MAX_SEQUENCE - 1)
  BY WireType DEF Sequences
<1>2. h \in Nat /\ 2 * h <= MAX_SEQUENCE /\ MAX_SEQUENCE <= 2 * h + 1 BY SMT
<1> HIDE DEF h
<1>3. IsSeqInBackroom(Wire(i), Wire(a)) <=>
        IF Wire(a) - h < 0 THEN Wire(i) <= Wire(a) \/ Wire(i) >= Wire(a) - h + MAX_SEQUENCE
                           ELSE Wire(i) <= Wire(a) /\ Wire(i) >= Wire(a) - h
  BY <1>1, <1>2, SMT DEF IsSeqInBackroom, h
<1>4. CASE i <= a
  <2>1. \/ Wire(a) = Wire(i) + (a - i)
        \/ Wire(a) = Wire(i) + (a - i) - MAX_SEQUENCE
    BY <1>4, WireStep
  <2> QED BY <2>1, <1>1, <1>2, <1>3, <1>4
<1>5. CASE i > a
  <2>1. \/ Wire(i) = Wire(a) + (i - a)
        \/ Wire(i) = Wire(a) + (i - a) - MAX_SEQUENCE
    BY <1>5, WireStep
  <2> QED BY <2>1, <1>1, <1>2, <1>3, <1>5
<1> QED BY <1>4, <1>5

(* Feed's test of the ack passes no ack older than the last one. *)
LEMMA AckWindow ==
  ASSUME NEW c, c.sequence \in Nat, c.peerAck \in Nat,
         NEW old \in Nat, NEW new \in Nat, NEW n \in Nat,
         c.sequence = Wire(n), c.peerAck = Wire(old),
         old <= n, new <= n, n < old + MAX_SEQUENCE, n < new + MAX_SEQUENCE,
         AckInWindow(c, Wire(new))
  PROVE  old <= new
<1> SUFFICES ASSUME new < old PROVE FALSE OBVIOUS
<1>1. Wire(n) \in 0..(MAX_SEQUENCE - 1) /\ Wire(old) \in 0..(MAX_SEQUENCE - 1)
      /\ Wire(new) \in 0..(MAX_SEQUENCE - 1)
  BY WireType DEF Sequences
<1>2. \/ Wire(old) = Wire(new) + (old - new)
      \/ Wire(old) = Wire(new) + (old - new) - MAX_SEQUENCE
  BY WireStep
<1>3. \/ Wire(n) = Wire(new) + (n - new)
      \/ Wire(n) = Wire(new) + (n - new) - MAX_SEQUENCE
  BY WireStep
<1>4. \/ Wire(n) = Wire(old) + (n - old)
      \/ Wire(n) = Wire(old) + (n - old) - MAX_SEQUENCE
  BY WireStep
<1> QED BY <1>1, <1>2, <1>3, <1>4 DEF AckInWindow

----------------------------------------------------------------------------
(* The invariant *)

(* A copy of one of the first n chunks of an end, not a round old. *)
CopiesOk(chunks, n) ==
  \A i \in DOMAIN chunks :
    /\ chunks[i].seq = Wire(chunks[i].data)
    /\ chunks[i].data \in 1..n
    /\ n < chunks[i].data + Lifetime

(* The counters of an end that queued n chunks and got d, whose peer got dp. *)
CountersOk(c, n, d, dp) ==
  /\ c.sequence = Wire(n) /\ c.ack = Wire(d) /\ c.peerAck = Wire(c.acked)
  /\ c.acked <= dp /\ n <= c.acked + Window

(* The resend buffer: chunks not yet acknowledged, in order. *)
BufferOk(c, n) ==
  \A i \in DOMAIN c.buffer :
    /\ c.buffer[i].seq = Wire(c.buffer[i].data)
    /\ c.buffer[i].data \in (c.acked + 1)..n
    /\ \A j \in 1..(i - 1) : c.buffer[j].data < c.buffer[i].data

(* ... and all of them, if it has room for a window. *)
BufferFull(c, n) ==
  BufferSlots >= Window =>
    /\ Len(c.buffer) = n - c.acked
    /\ \A i \in DOMAIN c.buffer : c.buffer[i].data = c.acked + i

(* A packet of an end that queued n chunks and got at least its acked. *)
PacketOk(p, n, d) ==
  CopiesOk(p.chunks, n) /\ p.ack = Wire(p.acked) /\ p.acked <= d

InOrder(e) ==
  /\ \A i \in DOMAIN delivered[e] : delivered[e][i] = i
  /\ Len(delivered[e]) <= sent[Peer(e)]
  /\ sent[Peer(e)] <= Len(delivered[e]) + Window

Counters(e) ==
  conn[e].state # "offline" =>
    CountersOk(conn[e], sent[e], Len(delivered[e]), Len(delivered[Peer(e)]))

Buffered(e) ==
  conn[e].state = "online" => BufferOk(conn[e], sent[e]) /\ BufferFull(conn[e], sent[e])

Copies(e) == /\ CopiesOk(conn[e].construct, sent[e])
             /\ CopiesOk(conn[e].unpacked, sent[Peer(e)])
             /\ conn[e].state = "offline" => conn[e].unpacked = <<>>

Arriving(e) ==
  \A p \in net[e] :
    /\ PacketOk(p, sent[Peer(e)], Len(delivered[Peer(e)]))
    /\ conn[e].state # "offline" => sent[e] < p.acked + Lifetime

EndInv(e) == InOrder(e) /\ Counters(e) /\ Buffered(e) /\ Copies(e) /\ Arriving(e)

Inv == TypeOK /\ \A e \in Ends : EndInv(e)

LEMMA Peers ==
  \A e \in Ends : /\ Peer(e) \in Ends /\ Peer(e) # e /\ Peer(Peer(e)) = e
                  /\ \A f \in Ends : f = e \/ f = Peer(e)
  BY DEF Ends, Peer

----------------------------------------------------------------------------
(* Packing *)

LEMMA OverfullType ==
  ASSUME NEW n \in Nat
  PROVE  /\ Overfull(n) \in Nat
         /\ \A i \in 1..Overfull(n) : i * PacketChunks \in Nat /\ i * PacketChunks <= n
                                      /\ (i - 1) * PacketChunks \in Nat
                                      /\ (i - 1) * PacketChunks + PacketChunks = i * PacketChunks
         /\ Overfull(n) * PacketChunks \in Nat /\ Overfull(n) * PacketChunks <= n
<1>1. CASE n = 0 BY <1>1, SMT DEF Overfull
<1>2. CASE n > 0
  <2> DEFINE q == (n - 1) \div PacketChunks
  <2>1. q \in Nat BY <1>2, SMT
  <2>2. n - 1 = PacketChunks * q + ((n - 1) % PacketChunks) BY <1>2, SMT
  <2>3. (n - 1) % PacketChunks \in Nat BY <1>2, SMT
  <2>4. Overfull(n) = q BY <1>2 DEF Overfull
  <2> HIDE DEF q
  <2>5. q * PacketChunks \in Nat /\ q * PacketChunks <= n - 1
    BY <1>2, <2>1, <2>2, <2>3, SMT
  <2>6. ASSUME NEW i \in 1..q
        PROVE  /\ i * PacketChunks \in Nat /\ i * PacketChunks <= n
               /\ (i - 1) * PacketChunks \in Nat
               /\ (i - 1) * PacketChunks + PacketChunks = i * PacketChunks
    <3>1. i * PacketChunks <= q * PacketChunks BY <2>1, SMTT(20)
    <3>2. i * PacketChunks \in Nat /\ (i - 1) * PacketChunks \in Nat BY <2>1, SMTT(20)
    <3>3. (i - 1) * PacketChunks + PacketChunks = i * PacketChunks BY <2>1, SMTT(20)
    <3> QED BY <3>1, <3>2, <3>3, <2>5, <1>2
  <2> QED BY <2>1, <2>4, <2>5, <2>6, <1>2
<1> QED BY <1>1, <1>2

(* A part of a list of good copies is one. *)
LEMMA PartOk ==
  ASSUME NEW t \in Seq(Chunk), NEW from \in Nat, NEW to \in Nat, to <= Len(t),
         NEW n \in Nat, CopiesOk(t, n)
  PROVE  /\ SubSeq(t, from + 1, to) \in Seq(Chunk)
         /\ CopiesOk(SubSeq(t, from + 1, to), n)
<1>1. SubSeq(t, from + 1, to) \in Seq(Chunk) OBVIOUS
<1>2. ASSUME NEW i \in DOMAIN SubSeq(t, from + 1, to)
      PROVE  SubSeq(t, from + 1, to)[i] = t[from + i] /\ from + i \in DOMAIN t
  OBVIOUS
<1> QED BY <1>1, <1>2 DEF CopiesOk

LEMMA ConcatOk ==
  ASSUME NEW t \in Seq(Chunk), NEW u \in Seq(Chunk), NEW n \in Nat,
         CopiesOk(t, n), CopiesOk(u, n)
  PROVE  t \o u \in Seq(Chunk) /\ CopiesOk(t \o u, n)
<1>1. ASSUME NEW i \in DOMAIN (t \o u)
      PROVE  \/ i \in DOMAIN t /\ (t \o u)[i] = t[i]
             \/ i - Len(t) \in DOMAIN u /\ (t \o u)[i] = u[i - Len(t)]
  OBVIOUS
<1> QED BY <1>1 DEF CopiesOk

(* What an end sends: packets that are good, with its newest ack. *)
Sendable(p, e, n) ==
  /\ p \in Packet /\ CopiesOk(p.chunks, n)
  /\ p.ack = Wire(p.acked) /\ p.acked = Len(delivered[e])

LEMMA PacketOfOk ==
  ASSUME TypeOK, NEW e \in Ends, NEW c \in Conn, NEW chunks \in Seq(Chunk),
         NEW n \in Nat, CopiesOk(chunks, n), NEW r \in BOOLEAN, NEW x \in BOOLEAN,
         c.ack = Wire(Len(delivered[e]))
  PROVE  Sendable(PacketOf(c, chunks, r, x, e), e, n)
  BY DEF Sendable, PacketOf, Packet, Conn, TypeOK

(* A connection that differs in what it has packed at most. *)
Repacked(d, c, n) ==
  /\ d \in Conn /\ CopiesOk(d.construct, n)
  /\ d.state = c.state /\ d.sequence = c.sequence /\ d.ack = c.ack
  /\ d.peerAck = c.peerAck /\ d.acked = c.acked /\ d.buffer = c.buffer
  /\ d.unpacked = c.unpacked

LEMMA Packing ==
  ASSUME TypeOK, NEW e \in Ends, NEW c \in Conn, NEW chunks \in Seq(Chunk),
         NEW n \in Nat, CopiesOk(c.construct, n), CopiesOk(chunks, n),
         c.ack = Wire(Len(delivered[e]))
  PROVE  /\ \A p \in FlushedFor(c, chunks, e) : Sendable(p, e, n)
         /\ Repacked(QueueChunks(c, chunks), c, n)
<1> DEFINE t == c.construct \o chunks
           k == Overfull(Len(t)) * PacketChunks
           rest == SubSeq(t, k + 1, Len(t))
<1>1. t \in Seq(Chunk) /\ CopiesOk(t, n) BY ConcatOk DEF Conn
<1>2. Len(t) \in Nat BY <1>1
<1>3. ASSUME NEW i \in 1..Overfull(Len(t))
      PROVE  Sendable(PacketOf(c, PacketPart(t, i), c.resend /\ i = 1, FALSE, e), e, n)
  <2>1. /\ i * PacketChunks \in Nat /\ i * PacketChunks <= Len(t)
        /\ (i - 1) * PacketChunks \in Nat
    BY <1>2, <1>3, OverfullType
  <2>2. PacketPart(t, i) \in Seq(Chunk) /\ CopiesOk(PacketPart(t, i), n)
    BY <1>1, <2>1, PartOk DEF PacketPart
  <2>3. (c.resend /\ i = 1) \in BOOLEAN OBVIOUS
  <2> QED BY <2>2, <2>3, PacketOfOk
<1>4. \A p \in FlushedFor(c, chunks, e) : Sendable(p, e, n)
  BY <1>3 DEF FlushedFor
<1>5. k \in Nat BY <1>2, OverfullType
<1>6. QueueChunks(c, chunks) =
        [c EXCEPT !.construct = rest, !.resend = c.resend /\ Overfull(Len(t)) = 0]
  BY DEF QueueChunks
<1>7. (c.resend /\ Overfull(Len(t)) = 0) \in BOOLEAN OBVIOUS
<1>8. rest \in Seq(Chunk) /\ CopiesOk(rest, n)
  <2> HIDE DEF t, k
  <2>1. Len(t) <= Len(t) BY <1>2
  <2> QED BY <1>1, <1>2, <1>5, <2>1, PartOk
<1> HIDE DEF t, k, rest
<1>9. ASSUME NEW r \in BOOLEAN
      PROVE  Repacked([c EXCEPT !.construct = rest, !.resend = r], c, n)
  BY <1>8 DEF Repacked, Conn
<1> QED BY <1>4, <1>6, <1>7, <1>9

LEMMA Flushing ==
  ASSUME TypeOK, NEW e \in Ends, NEW c \in Conn, NEW n \in Nat,
         CopiesOk(c.construct, n), c.ack = Wire(Len(delivered[e]))
  PROVE  /\ \A p \in FlushPackets(c, e) : Sendable(p, e, n)
         /\ Repacked(Flush(c), c, n)
<1>1. c.construct \in Seq(Chunk) /\ c.resend \in BOOLEAN BY DEF Conn
<1>2. Sendable(PacketOf(c, c.construct, c.resend, FALSE, e), e, n)
  BY <1>1, PacketOfOk
<1>3. CopiesOk(<<>>, n) BY DEF CopiesOk
<1>4. Repacked(Flush(c), c, n)
  <2>1. <<>> \in Seq(Chunk) OBVIOUS
  <2>2. Flush(c) = [c EXCEPT !.construct = <<>>, !.resend = FALSE] BY DEF Flush
  <2> QED BY <1>3, <2>1, <2>2 DEF Repacked, Conn
<1> QED BY <1>2, <1>4 DEF FlushPackets

----------------------------------------------------------------------------
(* Acknowledging *)

(* A set of the numbers 1..m with everything below its members is 1..k. *)
LEMMA Prefix ==
  ASSUME NEW m \in Nat, NEW S \in SUBSET (1..m),
         \A i \in S : \A j \in 1..i : j \in S
  PROVE  /\ Cardinality(S) \in 0..m
         /\ \A i \in 1..m : i \in S <=> i <= Cardinality(S)
<1>1. /\ IsFiniteSet(1..m) /\ Cardinality(1..m) = m BY FS_Interval
<1>2. IsFiniteSet(S) /\ Cardinality(S) \in Nat /\ Cardinality(S) <= m
  <2>1. IsFiniteSet(S) /\ Cardinality(S) <= Cardinality(1..m) BY <1>1, FS_Subset
  <2> QED BY <1>1, <2>1, FS_CardinalityType
<1>3. ASSUME NEW i \in 1..m, i \in S PROVE i <= Cardinality(S)
  <2>1. 1..i \subseteq S BY <1>3
  <2>2. Cardinality(1..i) <= Cardinality(S) BY <1>2, <2>1, FS_Subset
  <2>3. Cardinality(1..i) = i BY FS_Interval
  <2> QED BY <2>2, <2>3
<1>4. ASSUME NEW i \in 1..m, i \notin S PROVE Cardinality(S) < i
  <2>1. S \subseteq 1..(i - 1)
    <3> SUFFICES ASSUME NEW j \in S PROVE j \in 1..(i - 1) OBVIOUS
    <3>1. ~(i \in 1..j) BY <1>4
    <3> QED BY <3>1
  <2>2. IsFiniteSet(1..(i - 1)) /\ Cardinality(1..(i - 1)) = i - 1
    <3>1. 1 \in Int /\ i - 1 \in Int /\ i - 1 - 1 + 1 = i - 1 OBVIOUS
    <3> QED BY <3>1, FS_Interval
  <2>3. Cardinality(S) <= i - 1 BY ZenonT(60), <2>1, <2>2, FS_Subset
  <2> QED BY <2>3, <1>2
<1> QED BY <1>2, <1>3, <1>4

(* AckChunks keeps exactly the chunks after the acknowledged one. *)
LEMMA Acknowledging ==
  ASSUME NEW c \in Conn, NEW n \in Nat, NEW a \in Nat,
         BufferOk(c, n), BufferFull(c, n),
         c.acked <= a, a <= n, n <= c.acked + Window
  PROVE  /\ AckChunks(c.buffer, Wire(a)) \in Seq(Chunk)
         /\ \A x \in Conn : x.buffer = AckChunks(c.buffer, Wire(a)) /\ x.acked = a
              => BufferOk(x, n) /\ BufferFull(x, n)
<1> DEFINE b == c.buffer
           S == AckedChunks(b, Wire(a))
           k == Cardinality(S)
           kept == SubSeq(b, k + 1, Len(b))
<1>1. /\ b \in Seq(Chunk) /\ Len(b) \in Nat /\ c.acked \in Nat
      /\ \A i \in 1..Len(b) : b[i].seq = Wire(b[i].data)
      /\ \A i \in 1..Len(b) : b[i].data \in (c.acked + 1)..n
      /\ \A i \in 1..Len(b) : \A j \in 1..(i - 1) : b[j].data < b[i].data
  <2>1. b \in Seq(Chunk) /\ c.acked \in Nat
    BY DEF Conn
  <2>2. Len(b) \in Nat /\ DOMAIN b = 1..Len(b)
    BY <2>1
  <2> QED BY <2>1, <2>2 DEF BufferOk
<1> HIDE DEF b
<1>2. \A i, j \in 1..Len(b) : j < i => b[j].data < b[i].data
  BY <1>1
<1>3. \A i \in 1..Len(b) : IsSeqInBackroom(b[i].seq, Wire(a)) <=> b[i].data <= a
  <2> TAKE i \in 1..Len(b)
  <2>1. b[i].data \in Nat /\ b[i].data <= a + Window /\ a <= b[i].data + Window
    BY <1>1
  <2>2. b[i].seq = Wire(b[i].data) BY <1>1
  <2> QED BY <2>1, <2>2, Backroom
<1>4. S = {i \in 1..Len(b) : \A j \in 1..i : b[j].data <= a}
  BY <1>1, <1>3 DEF AckedChunks
<1>5. \A i \in 1..Len(b) : i \in S <=> b[i].data <= a
  <2> TAKE i \in 1..Len(b)
  <2>1. ASSUME b[i].data <= a, NEW j \in 1..i PROVE b[j].data <= a
    <3>1. CASE j = i BY <2>1, <3>1
    <3>2. CASE j \in 1..(i - 1)
      <4>1. j \in 1..Len(b) /\ b[j].data < b[i].data BY <1>1, <3>2
      <4> QED BY <4>1, <2>1, <1>1
    <3> QED BY <3>1, <3>2
  <2> QED BY <1>4, <2>1
<1>6. /\ k \in 0..Len(b) /\ \A i \in 1..Len(b) : i \in S <=> i <= k
  <2>1. S \in SUBSET (1..Len(b)) /\ \A i \in S : \A j \in 1..i : j \in S
    BY <1>1, <1>4
  <2> HIDE DEF S
  <2> QED BY <1>1, <2>1, Prefix
<1> HIDE DEF S, k
<1>7. k \in Nat /\ k <= Len(b) /\ Len(b) \in Nat /\ c.acked \in Nat BY <1>1, <1>6
<1>8. kept = AckChunks(b, Wire(a)) BY DEF AckChunks, S, k
<1>9. kept \in Seq(Chunk) /\ Len(kept) = Len(b) - k
      /\ \A i \in 1..Len(kept) : kept[i] = b[k + i] /\ k + i \in 1..Len(b)
  BY <1>1, <1>7
<1> HIDE DEF kept
<1>10. ASSUME NEW x \in Conn, x.buffer = kept, x.acked = a
      PROVE  BufferOk(x, n) /\ BufferFull(x, n)
  <2>1. ASSUME NEW i \in 1..Len(kept)
        PROVE  /\ kept[i].seq = Wire(kept[i].data)
               /\ kept[i].data \in (a + 1)..n
               /\ \A j \in 1..(i - 1) : kept[j].data < kept[i].data
    <3>1. kept[i] = b[k + i] /\ k + i \in 1..Len(b) /\ ~(k + i <= k) BY <1>7, <1>1, <1>9
    <3>2. ~(b[k + i].data <= a) BY <1>5, <1>6, <3>1
    <3>3. \A j \in 1..(i - 1) : kept[j] = b[k + j]
      BY <1>1, <1>9
    <3>4. \A j \in 1..(i - 1) : b[k + j].data < b[k + i].data
      <4> TAKE j \in 1..(i - 1)
      <4>1. j \in 1..Len(kept) BY <1>7, <1>9
      <4>2. k + j \in 1..Len(b) /\ k + j < k + i BY <1>7, <1>9, <4>1
      <4> QED BY <1>2, <3>1, <4>2
    <3>5. b[k + i].seq = Wire(b[k + i].data) /\ b[k + i].data \in (c.acked + 1)..n
      BY <1>1, <3>1
    <3>6. b[k + i].data \in (a + 1)..n BY <1>1, <3>2, <3>5
    <3> QED BY <3>1, <3>3, <3>4, <3>5, <3>6
  <2>2. BufferOk(x, n)
    <3>1. DOMAIN kept = 1..Len(kept) BY <1>9
    <3> QED BY <1>10, <2>1, <3>1 DEF BufferOk
  <2>3. ASSUME BufferSlots >= Window
        PROVE  /\ Len(kept) = n - a
               /\ \A i \in 1..Len(kept) : kept[i].data = a + i
    <3>1. Len(b) = n - c.acked /\ \A i \in 1..Len(b) : b[i].data = c.acked + i
      BY SMTT(60), <1>1, <2>3 DEF BufferFull, b
    <3>2. k = a - c.acked
      <4>1. ASSUME k < a - c.acked PROVE FALSE
        <5>0. k + 1 \in 1..Len(b) /\ c.acked + (k + 1) <= a BY <1>7, <3>1, <4>1
        <5>1. k + 1 \in 1..Len(b) /\ b[k + 1].data <= a BY <3>1, <5>0
        <5>2. k + 1 <= k BY <1>5, <1>6, <5>1
        <5> QED BY <1>7, <5>2
      <4>2. ASSUME k > a - c.acked PROVE FALSE
        <5>0. k \in 1..Len(b) /\ c.acked + k > a BY <1>7, <3>1, <4>2
        <5>1. k \in 1..Len(b) /\ b[k].data > a BY <3>1, <5>0
        <5>2. b[k].data <= a BY <1>5, <1>6, <5>1
        <5> QED BY <1>1, <5>1, <5>2
      <4> QED BY <1>7, <4>1, <4>2
    <3>3. Len(kept) = n - a BY <1>7, <1>9, <3>1, <3>2
    <3>4. ASSUME NEW i \in 1..Len(kept) PROVE kept[i].data = a + i
      <4>1. kept[i] = b[k + i] BY <1>9
      <4>5. k + i \in 1..Len(b) BY <1>9
      <4>2. b[k + i].data = c.acked + (k + i) BY <3>1, <4>5
      <4>3. kept[i].data = b[k + i].data BY <4>1
      <4>4. c.acked + (k + i) = a + i
        <5>1. i \in Int OBVIOUS
        <5> QED BY SMTT(60), <1>7, <3>2, <5>1
      <4> QED BY <4>2, <4>3, <4>4
    <3> QED BY <3>3, <3>4
  <2>4. BufferFull(x, n)
    <3>1. DOMAIN kept = 1..Len(kept) BY <1>9
    <3> QED BY <1>10, <2>3, <3>1 DEF BufferFull
  <2> QED BY <2>2, <2>4
<1> QED BY <1>8, <1>9, <1>10 DEF b

----------------------------------------------------------------------------
(* Steps *)

LEMMA EndTypes ==
  ASSUME TypeOK, NEW e \in Ends
  PROVE  /\ conn[e] \in Conn /\ net[e] \in SUBSET Packet
         /\ sent[e] \in Nat /\ delivered[e] \in Seq(Nat) /\ Len(delivered[e]) \in Nat
         /\ conn[e].state \in {"online", "error", "offline"}
         /\ conn[e].sequence \in Sequences /\ conn[e].ack \in Sequences
         /\ conn[e].peerAck \in Sequences /\ conn[e].acked \in Nat
         /\ conn[e].buffer \in Seq(Chunk) /\ conn[e].construct \in Seq(Chunk)
         /\ conn[e].unpacked \in Seq(Chunk)
  BY DEF TypeOK, Conn

(* A step of an end that neither queues nor delivers a chunk. *)
LEMMA QuietStep ==
  ASSUME Inv, NEW e \in Ends, NEW c \in Conn, NEW packets,
         conn' = [conn EXCEPT ![e] = c],
         net' = [net EXCEPT ![Peer(e)] = @ \cup packets],
         sent' = sent, delivered' = delivered,
         \A p \in packets : Sendable(p, e, sent[e]),
         c.state # "offline" =>
           /\ conn[e].state # "offline"
           /\ CountersOk(c, sent[e], Len(delivered[e]), Len(delivered[Peer(e)])),
         c.state = "online" => BufferOk(c, sent[e]) /\ BufferFull(c, sent[e]),
         CopiesOk(c.construct, sent[e]), CopiesOk(c.unpacked, sent[Peer(e)]),
         c.state = "offline" => c.unpacked = <<>>
  PROVE  Inv'
<1> DEFINE f == Peer(e)
<1>1. f \in Ends /\ f # e /\ Peer(f) = e /\ \A x \in Ends : x = e \/ x = f
  BY Peers
<1> HIDE DEF f
<1>2. TypeOK /\ EndInv(e) /\ EndInv(f) BY <1>1 DEF Inv
<1>3. /\ conn'[e] = c /\ conn'[f] = conn[f]
      /\ net'[e] = net[e] /\ net'[f] = net[f] \cup packets
  BY <1>1, <1>2 DEF TypeOK, f
<1>4. TypeOK'
  <2>1. packets \subseteq Packet BY DEF Sendable
  <2>2. conn' \in [Ends -> Conn] BY <1>2 DEF TypeOK
  <2>3. net' \in [Ends -> SUBSET Packet] BY <1>2, <2>1 DEF TypeOK
  <2> QED BY <1>2, <2>2, <2>3 DEF TypeOK
<1>5. EndInv(e)'
  <2>1. InOrder(e)' BY <1>2 DEF EndInv, InOrder
  <2>2. Counters(e)' BY <1>3 DEF Counters
  <2>3. Buffered(e)' BY <1>3 DEF Buffered
  <2>4. Copies(e)' BY <1>3 DEF Copies
  <2>5. Arriving(e)'
    <3>1. Arriving(e) BY <1>2 DEF EndInv
    <3> QED BY <1>3, <3>1 DEF Arriving
  <2> QED BY <2>1, <2>2, <2>3, <2>4, <2>5 DEF EndInv
<1>6. EndInv(f)'
  <2>1. InOrder(f)' BY <1>2 DEF EndInv, InOrder
  <2>2. Counters(f)' BY <1>2, <1>3 DEF EndInv, Counters
  <2>3. Buffered(f)' BY <1>2, <1>3 DEF EndInv, Buffered
  <2>4. Copies(f)' BY <1>2, <1>3 DEF EndInv, Copies
  <2>5. ASSUME NEW p \in net'[f]
        PROVE  /\ PacketOk(p, sent[e], Len(delivered[e]))
               /\ conn[f].state # "offline" => sent[f] < p.acked + Lifetime
    <3>1. CASE p \in net[f] BY <1>1, <1>2, <3>1 DEF EndInv, Arriving
    <3>2. CASE p \in packets
      <4>1. Sendable(p, e, sent[e]) BY <3>2
      <4>2. sent[f] <= Len(delivered[e]) + Window BY <1>2 DEF EndInv, InOrder, f
      <4>3. sent[f] \in Nat /\ Len(delivered[e]) \in Nat BY <1>1, <1>2, EndTypes
      <4>4. sent[f] < Len(delivered[e]) + Lifetime BY <4>2, <4>3
      <4>5. p.acked <= Len(delivered[e]) BY <4>1, <4>3 DEF Sendable
      <4> QED BY <4>1, <4>4, <4>5 DEF Sendable, PacketOk
    <3> QED BY <1>3, <2>5, <3>1, <3>2
  <2>6. Arriving(f)' BY <1>1, <1>3, <2>5 DEF Arriving
  <2> QED BY <2>1, <2>2, <2>3, <2>4, <2>6 DEF EndInv
<1> QED BY <1>1, <1>4, <1>5, <1>6 DEF Inv

LEMMA LoseStep == ASSUME Inv, NEW e \in Ends, NEW p \in net[e], Lose(e, p) PROVE Inv'
<1>1. TypeOK' BY DEF Inv, TypeOK, Lose
<1>2. ASSUME NEW x \in Ends PROVE EndInv(x)'
  <2>1. EndInv(x) /\ TypeOK BY DEF Inv
  <2>2. net'[x] \subseteq net[x] BY <2>1 DEF Lose, TypeOK
  <2>3. conn' = conn /\ sent' = sent /\ delivered' = delivered BY DEF Lose
  <2>4. Arriving(x)' BY <2>1, <2>2, <2>3 DEF EndInv, Arriving
  <2>5. InOrder(x)' /\ Counters(x)' /\ Buffered(x)' /\ Copies(x)'
    BY <2>1, <2>3 DEF EndInv, InOrder, Counters, Buffered, Copies
  <2> QED BY <2>4, <2>5 DEF EndInv
<1> QED BY <1>1, <1>2 DEF Inv

(* What an end that is not offline sends is good. *)
LEMMA Sends ==
  ASSUME Inv, NEW e \in Ends, conn[e].state # "offline"
  PROVE  /\ conn[e].ack = Wire(Len(delivered[e]))
         /\ CountersOk(conn[e], sent[e], Len(delivered[e]), Len(delivered[Peer(e)]))
         /\ CopiesOk(conn[e].construct, sent[e])
         /\ CopiesOk(conn[e].unpacked, sent[Peer(e)])
  BY DEF Inv, EndInv, Counters, CountersOk, Copies

(* Chunks of the resend buffer can be queued again. *)
LEMMA Resendable ==
  ASSUME Inv, NEW e \in Ends, conn[e].state = "online"
  PROVE  CopiesOk(conn[e].buffer, sent[e])
<1>1. BufferOk(conn[e], sent[e]) BY DEF Inv, EndInv, Buffered
<1>2. sent[e] <= conn[e].acked + Window BY Sends DEF CountersOk
<1>3. sent[e] \in Nat /\ conn[e].acked \in Nat /\ conn[e].buffer \in Seq(Chunk)
  BY EndTypes DEF Inv
<1>4. ASSUME NEW i \in DOMAIN conn[e].buffer
      PROVE  /\ conn[e].buffer[i].seq = Wire(conn[e].buffer[i].data)
             /\ conn[e].buffer[i].data \in 1..sent[e]
             /\ sent[e] < conn[e].buffer[i].data + Lifetime
  <2>1. /\ conn[e].buffer[i].seq = Wire(conn[e].buffer[i].data)
        /\ conn[e].buffer[i].data \in (conn[e].acked + 1)..sent[e]
    BY <1>1 DEF BufferOk
  <2>2. \A d \in (conn[e].acked + 1)..sent[e] : d \in 1..sent[e] /\ sent[e] < d + Lifetime
    BY <1>2, <1>3
  <2> QED BY <2>1, <2>2
<1> QED BY <1>4 DEF CopiesOk

LEMMA UpdateStep ==
  ASSUME Inv, NEW e \in Ends, NEW resendDue \in BOOLEAN, NEW flushDue \in BOOLEAN,
         Update(e, resendDue, flushDue)
  PROVE  Inv'
<1> DEFINE c == [conn[e] EXCEPT !.timeoutSituation = FALSE]
           first == IF resendDue THEN FirstChunk(c) ELSE <<>>
           queued == QueueChunks(c, first)
           due == flushDue /\ FlushedFor(c, first, e) = {}
           flushed == FlushPackets(queued, e)
           packets == FlushedFor(c, first, e) \cup
                        (CASE ~due -> {}
                           [] due /\ flushed # {} -> flushed
                           [] OTHER -> {SendControl(c, FALSE, e)})
           after == IF due THEN Flush(queued) ELSE queued
           n == sent[e]
<1>1. /\ conn[e].state = "online"
      /\ conn' = [conn EXCEPT ![e] = after]
      /\ net' = [net EXCEPT ![Peer(e)] = @ \cup packets]
      /\ sent' = sent /\ delivered' = delivered
  BY DEF Update, Transmit
<1>2. TypeOK /\ n \in Nat BY EndTypes DEF Inv
<1>3. c \in Conn /\ conn[e] \in Conn BY ZenonT(60), <1>2, EndTypes DEF Conn
<1>4. /\ c.state = "online" /\ c.sequence = conn[e].sequence /\ c.ack = conn[e].ack
      /\ c.peerAck = conn[e].peerAck /\ c.acked = conn[e].acked
      /\ c.buffer = conn[e].buffer /\ c.construct = conn[e].construct
      /\ c.unpacked = conn[e].unpacked
  BY <1>1, <1>3 DEF Conn
<1>5. /\ c.ack = Wire(Len(delivered[e]))
      /\ CountersOk(conn[e], n, Len(delivered[e]), Len(delivered[Peer(e)]))
      /\ CopiesOk(c.construct, n) /\ CopiesOk(c.unpacked, sent[Peer(e)])
      /\ CopiesOk(c.buffer, n)
      /\ BufferOk(conn[e], n) /\ BufferFull(conn[e], n)
  BY <1>1, <1>4, Sends, Resendable DEF Inv, EndInv, Buffered
<1> HIDE DEF c
<1>6. first \in Seq(Chunk) /\ CopiesOk(first, n)
  <2>1. c.buffer \in Seq(Chunk) BY <1>3 DEF Conn
  <2>2. <<>> \in Seq(Chunk) /\ CopiesOk(<<>>, n) BY DEF CopiesOk
  <2>3. ASSUME c.buffer # <<>>
        PROVE  <<Head(c.buffer)>> \in Seq(Chunk) /\ CopiesOk(<<Head(c.buffer)>>, n)
    <3>1. 1 \in DOMAIN c.buffer /\ Head(c.buffer) = c.buffer[1] BY <2>1, <2>3
    <3>2. c.buffer[1] \in Chunk BY <2>1, <3>1
    <3> QED BY <1>5, <3>1, <3>2 DEF CopiesOk
  <2> QED BY <2>2, <2>3 DEF FirstChunk
<1> HIDE DEF first, n
<1>7. \A p \in FlushedFor(c, first, e) : Sendable(p, e, n)
  BY <1>2, <1>3, <1>5, <1>6, Packing
<1>8. Repacked(queued, c, n) BY <1>2, <1>3, <1>5, <1>6, Packing
<1> HIDE DEF queued
<1>9. queued \in Conn /\ queued.ack = c.ack /\ CopiesOk(queued.construct, n)
  BY <1>8 DEF Repacked
<1>10. (\A p \in flushed : Sendable(p, e, n)) /\ Repacked(Flush(queued), queued, n)
  BY <1>2, <1>5, <1>9, Flushing
<1>11. Sendable(SendControl(c, FALSE, e), e, n)
  <2>1. <<>> \in Seq(Chunk) /\ FALSE \in BOOLEAN /\ CopiesOk(<<>>, n)
    BY DEF CopiesOk
  <2> QED BY <1>2, <1>3, <1>5, <2>1, PacketOfOk DEF SendControl
<1>12. \A p \in packets : Sendable(p, e, n)
  BY <1>7, <1>10, <1>11
<1>13. Repacked(after, c, n) BY <1>8, <1>10 DEF Repacked
<1> HIDE DEF after, packets
<1>14. /\ CountersOk(after, n, Len(delivered[e]), Len(delivered[Peer(e)]))
       /\ BufferOk(after, n) /\ BufferFull(after, n)
  BY <1>4, <1>5, <1>13 DEF Repacked, CountersOk, BufferOk, BufferFull
<1>15. /\ after \in Conn /\ after.state = "online"
       /\ CopiesOk(after.construct, n) /\ CopiesOk(after.unpacked, sent[Peer(e)])
  BY <1>4, <1>5, <1>13 DEF Repacked
<1> QED BY <1>1, <1>12, <1>14, <1>15, QuietStep DEF n

(* TimeOut and ProtectionOver: the state and a flag. *)
LEMMA EndingSteps ==
  ASSUME Inv, NEW e \in Ends, TimeOut(e) \/ ProtectionOver(e)
  PROVE  Inv'
<1> DEFINE c == conn'[e]
<1>1. TypeOK /\ conn[e] \in Conn BY EndTypes DEF Inv
<1>2. /\ conn' = [conn EXCEPT ![e] = c]
      /\ c \in Conn /\ c.state = "error" /\ conn[e].state # "offline"
      /\ c.sequence = conn[e].sequence
      /\ c.ack = conn[e].ack /\ c.peerAck = conn[e].peerAck /\ c.acked = conn[e].acked
      /\ c.construct = conn[e].construct /\ c.unpacked = conn[e].unpacked
  <2>1. CASE TimeOut(e)
    <3>1. /\ c = [conn[e] EXCEPT !.state = "error", !.timeoutSituation = TRUE]
          /\ conn' = [conn EXCEPT ![e] = c] /\ conn[e].state = "online"
      BY <1>1, <2>1 DEF TimeOut, TypeOK
    <3> QED BY <1>1, <3>1 DEF Conn
  <2>2. CASE ProtectionOver(e)
    <3>1. /\ c = [conn[e] EXCEPT !.timeoutSituation = FALSE]
          /\ conn' = [conn EXCEPT ![e] = c] /\ conn[e].state = "error"
      BY <1>1, <2>2 DEF ProtectionOver, TypeOK
    <3> QED BY <1>1, <3>1 DEF Conn
  <2> QED BY <2>1, <2>2
<1> DEFINE packets == {}
<1>3. /\ net' = [net EXCEPT ![Peer(e)] = @ \cup packets]
      /\ sent' = sent /\ delivered' = delivered
  <2>1. net \in [Ends -> SUBSET Packet] /\ Peer(e) \in Ends BY <1>1, Peers DEF TypeOK
  <2> QED BY <2>1 DEF TimeOut, ProtectionOver
<1>5. \A p \in packets : Sendable(p, e, sent[e]) OBVIOUS
<1> HIDE DEF c, packets
<1>4. /\ CountersOk(c, sent[e], Len(delivered[e]), Len(delivered[Peer(e)]))
      /\ CopiesOk(c.construct, sent[e]) /\ CopiesOk(c.unpacked, sent[Peer(e)])
  BY <1>2, Sends DEF CountersOk
<1> QED BY <1>2, <1>3, <1>4, <1>5, QuietStep

LEMMA DisconnectStep ==
  ASSUME Inv, NEW e \in Ends, Disconnect(e) PROVE Inv'
<1> DEFINE c == [Fresh EXCEPT !.state = "offline"]
           close == SendControl(conn[e], TRUE, e)
           packets == IF conn[e].remoteClosed \/ conn[e].timeoutSituation THEN {}
                      ELSE {close}
<1>1. TypeOK /\ conn[e] \in Conn /\ sent[e] \in Nat BY EndTypes DEF Inv
<1>2. /\ conn[e].state # "offline"
      /\ conn' = [conn EXCEPT ![e] = c]
      /\ net' = [net EXCEPT ![Peer(e)] = @ \cup packets]
      /\ sent' = sent /\ delivered' = delivered
  BY <1>1 DEF Disconnect, Transmit, Conn
<1>3. c \in Conn /\ c.state = "offline" /\ c.construct = <<>> /\ c.unpacked = <<>>
  <2>1. 0 \in Sequences /\ 0 \in Nat /\ <<>> \in Seq(Chunk) BY DEF Sequences
  <2> QED BY <2>1 DEF Fresh, Conn
<1>4. Sendable(close, e, sent[e])
  <2>1. <<>> \in Seq(Chunk) /\ TRUE \in BOOLEAN /\ FALSE \in BOOLEAN
        /\ CopiesOk(<<>>, sent[e])
    BY DEF CopiesOk
  <2> QED BY <1>1, <1>2, <2>1, Sends, PacketOfOk DEF SendControl
<1> HIDE DEF c, close
<1>5. \A p \in packets : Sendable(p, e, sent[e]) BY <1>4
<1> HIDE DEF packets
<1>6. CopiesOk(<<>>, sent[e]) /\ CopiesOk(<<>>, sent[Peer(e)]) BY DEF CopiesOk
<1> QED BY <1>2, <1>3, <1>5, <1>6, QuietStep

LEMMA FeedStep ==
  ASSUME Inv, NEW e \in Ends, NEW p \in net[e], Feed(e, p) PROVE Inv'
<1> DEFINE c == [conn[e] EXCEPT !.peerAck = p.ack, !.acked = p.acked]
           again == IF p.resend THEN c.buffer ELSE <<>>
           resent == QueueChunks(c, again)
           packets == FlushedFor(c, again, e)
           after == IF p.close THEN [resent EXCEPT !.state = "error", !.remoteClosed = TRUE]
                    ELSE [resent EXCEPT !.buffer = AckChunks(@, p.ack), !.unpacked = p.chunks]
           n == sent[e]
           d == Len(delivered[e])
           dp == Len(delivered[Peer(e)])
<1>1. /\ conn[e].state = "online" /\ AckInWindow(conn[e], p.ack)
      /\ conn' = [conn EXCEPT ![e] = after]
      /\ net' = [net EXCEPT ![Peer(e)] = @ \cup packets]
      /\ sent' = sent /\ delivered' = delivered
  BY DEF Feed, Transmit
<1>2. TypeOK /\ n \in Nat /\ d \in Nat /\ dp \in Nat /\ conn[e] \in Conn
      /\ conn[e].acked \in Nat /\ Peer(e) \in Ends
  BY EndTypes, Peers DEF Inv
<1>3. /\ p \in Packet /\ p.acked \in Nat /\ p.ack \in Sequences
      /\ p.chunks \in Seq(Chunk) /\ p.close \in BOOLEAN /\ p.resend \in BOOLEAN
  BY <1>2 DEF TypeOK, Packet
<1>4. /\ CountersOk(conn[e], n, d, dp) /\ conn[e].ack = Wire(d)
      /\ CopiesOk(conn[e].construct, n) /\ CopiesOk(conn[e].unpacked, sent[Peer(e)])
      /\ CopiesOk(conn[e].buffer, n)
      /\ BufferOk(conn[e], n) /\ BufferFull(conn[e], n)
  BY <1>1, Sends, Resendable DEF Inv, EndInv, Buffered
<1>5. /\ CopiesOk(p.chunks, sent[Peer(e)]) /\ p.ack = Wire(p.acked) /\ p.acked <= dp
      /\ n < p.acked + Lifetime
  BY <1>1 DEF Inv, EndInv, Arriving, PacketOk
<1>6. dp <= n
  <2>1. EndInv(Peer(e)) /\ Peer(Peer(e)) = e BY <1>2, Peers DEF Inv
  <2> QED BY <2>1 DEF EndInv, InOrder
<1> HIDE DEF n, d, dp
<1>7. conn[e].acked <= p.acked /\ p.acked <= n /\ n <= p.acked + Window
  <2>1. conn[e].sequence = Wire(n) /\ conn[e].peerAck = Wire(conn[e].acked)
        /\ conn[e].acked <= dp /\ n <= conn[e].acked + Window
    BY <1>4 DEF CountersOk
  <2>2. conn[e].acked <= n /\ p.acked <= n /\ n < conn[e].acked + MAX_SEQUENCE
        /\ n < p.acked + MAX_SEQUENCE
    <3>1. /\ n \in Nat /\ dp \in Nat /\ conn[e].acked \in Nat /\ p.acked \in Nat
          /\ n < p.acked + Lifetime /\ p.acked <= dp /\ dp <= n
      BY <1>2, <1>3, <1>5, <1>6
    <3> QED BY <2>1, <3>1
  <2>3. conn[e].sequence \in Nat /\ conn[e].peerAck \in Nat
    BY <1>2, EndTypes DEF Sequences
  <2>4. AckInWindow(conn[e], Wire(p.acked)) BY <1>1, <1>5
  <2>5. conn[e].acked <= p.acked BY <1>2, <1>3, <2>1, <2>2, <2>3, <2>4, AckWindow
  <2> QED BY SMTT(60), <1>2, <1>3, <2>1, <2>2, <2>5
<1>8. /\ c \in Conn /\ c.state = "online" /\ c.sequence = conn[e].sequence
      /\ c.ack = conn[e].ack /\ c.peerAck = p.ack /\ c.acked = p.acked
      /\ c.buffer = conn[e].buffer /\ c.construct = conn[e].construct
      /\ c.unpacked = conn[e].unpacked
  BY <1>1, <1>2, <1>3 DEF Conn
<1> HIDE DEF c
<1>9. again \in Seq(Chunk) /\ CopiesOk(again, n)
  <2>1. c.buffer \in Seq(Chunk) BY <1>8 DEF Conn
  <2>2. <<>> \in Seq(Chunk) /\ CopiesOk(<<>>, n) BY DEF CopiesOk
  <2> QED BY <1>4, <1>8, <2>1, <2>2
<1> HIDE DEF again
<1>10. CopiesOk(c.construct, n) /\ c.ack = Wire(d) BY <1>4, <1>8
<1>11. \A q \in packets : Sendable(q, e, n)
  BY <1>2, <1>8, <1>9, <1>10, Packing DEF d
<1>12. Repacked(resent, c, n) BY <1>2, <1>8, <1>9, <1>10, Packing DEF d
<1> HIDE DEF resent, packets
<1>13. /\ AckChunks(resent.buffer, p.ack) = AckChunks(conn[e].buffer, Wire(p.acked))
       /\ AckChunks(conn[e].buffer, Wire(p.acked)) \in Seq(Chunk)
       /\ \A x \in Conn : x.buffer = AckChunks(conn[e].buffer, Wire(p.acked)) /\ x.acked = p.acked
            => BufferOk(x, n) /\ BufferFull(x, n)
  <2>1. n <= conn[e].acked + Window BY <1>4 DEF CountersOk
  <2>2. resent.buffer = conn[e].buffer BY <1>8, <1>12 DEF Repacked
  <2> QED BY <1>2, <1>3, <1>4, <1>5, <1>7, <2>1, <2>2, Acknowledging
<1>14. /\ after \in Conn /\ after.state \in {"online", "error"}
       /\ CopiesOk(after.construct, n) /\ CopiesOk(after.unpacked, sent[Peer(e)])
       /\ after.sequence = c.sequence /\ after.ack = c.ack
       /\ after.peerAck = c.peerAck /\ after.acked = c.acked
       /\ after.state = "online" => BufferOk(after, n) /\ BufferFull(after, n)
  <2>1. CASE p.close
    <3> DEFINE x == [resent EXCEPT !.state = "error", !.remoteClosed = TRUE]
    <3>1. /\ x \in Conn /\ x.state = "error" /\ x.construct = resent.construct
          /\ x.unpacked = resent.unpacked /\ x.sequence = resent.sequence
          /\ x.ack = resent.ack /\ x.peerAck = resent.peerAck /\ x.acked = resent.acked
      BY <1>12 DEF Repacked, Conn
    <3>2. after = x BY <2>1
    <3> HIDE DEF x, after
    <3> QED BY <1>4, <1>8, <1>12, <3>1, <3>2 DEF Repacked
  <2>2. CASE ~p.close
    <3> DEFINE b == AckChunks(resent.buffer, p.ack)
               x == [resent EXCEPT !.buffer = b, !.unpacked = p.chunks]
    <3>1. b \in Seq(Chunk) BY <1>13
    <3>2. after = x BY <2>2
    <3> HIDE DEF b
    <3>3. /\ x \in Conn /\ x.state = resent.state /\ x.construct = resent.construct
          /\ x.unpacked = p.chunks /\ x.sequence = resent.sequence
          /\ x.ack = resent.ack /\ x.peerAck = resent.peerAck /\ x.acked = resent.acked
          /\ x.buffer = b
      BY <1>3, <1>12, <3>1 DEF Repacked, Conn
    <3> HIDE DEF x, after
    <3>4. x.acked = p.acked /\ x.buffer = AckChunks(conn[e].buffer, Wire(p.acked))
      BY <1>8, <1>12, <1>13, <3>3 DEF Repacked, b
    <3> QED BY <1>5, <1>8, <1>12, <1>13, <3>2, <3>3, <3>4 DEF Repacked
  <2> QED BY <2>1, <2>2
<1> HIDE DEF after
<1>15. CountersOk(after, n, d, dp)
  BY <1>4, <1>5, <1>7, <1>8, <1>14 DEF CountersOk
<1> QED BY <1>1, <1>11, <1>14, <1>15, QuietStep DEF n, d, dp

(* A chunk in sequence is the next one; any other leaves the counters alone. *)
LEMMA NextInSequence ==
  ASSUME Inv, NEW e \in Ends, conn[e].unpacked # <<>>
  PROVE  /\ conn[e].state # "offline"
         /\ Head(conn[e].unpacked) \in Chunk
         /\ Tail(conn[e].unpacked) \in Seq(Chunk)
         /\ CopiesOk(Tail(conn[e].unpacked), sent[Peer(e)])
         /\ InSequence(conn[e], Head(conn[e].unpacked)) =>
              /\ Head(conn[e].unpacked).data = Len(delivered[e]) + 1
              /\ Head(conn[e].unpacked).seq = Wire(Len(delivered[e]) + 1)
              /\ Len(delivered[e]) + 1 <= sent[Peer(e)]
<1> DEFINE u == conn[e].unpacked
           m == Head(u).data
           d == Len(delivered[e])
           s == sent[Peer(e)]
<1>1. u \in Seq(Chunk) /\ u # <<>> BY EndTypes DEF Inv
<1>2. d \in Nat /\ s \in Nat BY EndTypes, Peers DEF Inv
<1>3. EndInv(e) BY DEF Inv
<1>4. conn[e].state # "offline" BY <1>3 DEF EndInv, Copies
<1>5. conn[e].ack = Wire(d) BY <1>4, Sends
<1>6. CopiesOk(u, s) /\ d <= s /\ s <= d + Window BY <1>3 DEF EndInv, Copies, InOrder
<1> HIDE DEF u, s, d
<1>7. Head(u) = u[1] /\ 1 \in DOMAIN u /\ Head(u) \in Chunk BY <1>1
<1>8. m \in Nat /\ Head(u).seq = Wire(m) /\ m \in 1..s /\ s < m + Lifetime
  BY <1>6, <1>7 DEF CopiesOk, Chunk
<1>9. Tail(u) \in Seq(Chunk) /\ CopiesOk(Tail(u), s)
  <2>1. Tail(u) = SubSeq(u, 1 + 1, Len(u)) BY <1>1
  <2>2. 1 \in Nat /\ Len(u) \in Nat /\ Len(u) <= Len(u) BY <1>1
  <2> QED BY ZenonT(60), <1>1, <1>2, <1>6, <2>1, <2>2, PartOk
<1>10. ASSUME InSequence(conn[e], Head(u)) PROVE m = d + 1
  <2>1. Wire(m) = Wire(d + 1) BY <1>2, <1>5, <1>8, <1>10, WireNext DEF InSequence
  <2> HIDE DEF m
  <2>2. m < (d + 1) + MAX_SEQUENCE /\ d + 1 < m + MAX_SEQUENCE /\ d + 1 \in Nat
    BY <1>2, <1>6, <1>8
  <2> QED BY <1>8, <2>1, <2>2, SameWire
<1> QED BY <1>2, <1>4, <1>7, <1>8, <1>9, <1>10 DEF u, s, d

LEMMA Counted ==
  ASSUME NEW s \in Seq(Nat), \A i \in DOMAIN s : s[i] = i
  PROVE  /\ Append(s, Len(s) + 1) \in Seq(Nat)
         /\ Len(Append(s, Len(s) + 1)) = Len(s) + 1
         /\ \A i \in DOMAIN Append(s, Len(s) + 1) : Append(s, Len(s) + 1)[i] = i
<1> DEFINE t == Append(s, Len(s) + 1)
<1>1. Len(s) \in Nat /\ Len(s) + 1 \in Nat OBVIOUS
<1>2. t \in Seq(Nat) /\ Len(t) = Len(s) + 1 /\ DOMAIN t = 1..(Len(s) + 1) BY <1>1
<1>3. \A i \in 1..Len(s) : t[i] = s[i] /\ i \in DOMAIN s OBVIOUS
<1>4. t[Len(s) + 1] = Len(s) + 1 BY <1>1
<1>5. \A i \in DOMAIN t : t[i] = i
  <2> HIDE DEF t
  <2> QED BY <1>1, <1>2, <1>3, <1>4
<1> QED BY <1>2, <1>5

LEMMA FetchStep == ASSUME Inv, NEW e \in Ends, FetchChunk(e) PROVE Inv'
<1> DEFINE f == Peer(e)
           c == conn'[e]
           d == Len(delivered[e])
           chunk == Head(conn[e].unpacked)
<1>1. f \in Ends /\ f # e /\ Peer(f) = e /\ \A x \in Ends : x = e \/ x = f
  BY Peers
<1>2. TypeOK /\ EndInv(e) /\ EndInv(f) BY <1>1 DEF Inv
<1>3. /\ conn[e] \in Conn /\ delivered[e] \in Seq(Nat) /\ d \in Nat
      /\ sent[f] \in Nat /\ sent[e] \in Nat
  BY <1>1, <1>2, EndTypes
<1>4. /\ conn[e].state # "offline" /\ chunk \in Chunk
      /\ Tail(conn[e].unpacked) \in Seq(Chunk)
      /\ CopiesOk(Tail(conn[e].unpacked), sent[f])
      /\ InSequence(conn[e], chunk) =>
           chunk.data = d + 1 /\ chunk.seq = Wire(d + 1) /\ d + 1 <= sent[f]
  BY NextInSequence DEF FetchChunk
<1>5. /\ net' = net /\ sent' = sent
      /\ conn' = [conn EXCEPT ![e] = c]
      /\ c \in Conn /\ c.state = conn[e].state /\ c.sequence = conn[e].sequence
      /\ c.peerAck = conn[e].peerAck /\ c.acked = conn[e].acked
      /\ c.buffer = conn[e].buffer /\ c.construct = conn[e].construct
      /\ c.unpacked = Tail(conn[e].unpacked)
      /\ \/ /\ InSequence(conn[e], chunk)
            /\ c.ack = chunk.seq
            /\ delivered' = [delivered EXCEPT ![e] = Append(@, chunk.data)]
         \/ c.ack = conn[e].ack /\ delivered' = delivered
  <2> DEFINE rest == [conn[e] EXCEPT !.unpacked = Tail(@)]
  <2>1. net' = net /\ sent' = sent BY DEF FetchChunk
  <2>4. /\ rest \in Conn /\ rest.state = conn[e].state /\ rest.ack = conn[e].ack
        /\ rest.sequence = conn[e].sequence /\ rest.peerAck = conn[e].peerAck
        /\ rest.acked = conn[e].acked /\ rest.buffer = conn[e].buffer
        /\ rest.construct = conn[e].construct
        /\ rest.unpacked = Tail(conn[e].unpacked)
    BY <1>3, <1>4 DEF Conn
  <2>2. CASE InSequence(conn[e], chunk)
    <3>1. /\ conn' = [conn EXCEPT ![e] = [rest EXCEPT !.ack = chunk.seq]]
          /\ delivered' = [delivered EXCEPT ![e] = Append(@, chunk.data)]
      BY <2>2 DEF FetchChunk
    <3>2. conn' = [conn EXCEPT ![e] = c] /\ c = [rest EXCEPT !.ack = chunk.seq]
      BY <1>2, <3>1 DEF TypeOK
    <3>3. chunk.seq \in Sequences BY <1>4 DEF Chunk
    <3> HIDE DEF rest, c, chunk
    <3>4. /\ c \in Conn /\ c.state = rest.state /\ c.sequence = rest.sequence
          /\ c.peerAck = rest.peerAck /\ c.acked = rest.acked
          /\ c.buffer = rest.buffer /\ c.construct = rest.construct
          /\ c.unpacked = rest.unpacked /\ c.ack = chunk.seq
      BY <2>4, <3>2, <3>3 DEF Conn
    <3> QED BY <2>1, <2>2, <2>4, <3>1, <3>2, <3>4
  <2>3. CASE ~InSequence(conn[e], chunk)
    <3> DEFINE r == rest.resend \/ ~IsSeqInBackroom(chunk.seq, conn[e].ack)
    <3>1. /\ conn' = [conn EXCEPT ![e] = [rest EXCEPT !.resend = r]]
          /\ delivered' = delivered
      BY <2>3 DEF FetchChunk
    <3>2. conn' = [conn EXCEPT ![e] = c] /\ c = [rest EXCEPT !.resend = r]
      BY <1>2, <3>1 DEF TypeOK
    <3>3. r \in BOOLEAN OBVIOUS
    <3> HIDE DEF r, rest, c, chunk
    <3>4. /\ c \in Conn /\ c.state = rest.state /\ c.sequence = rest.sequence
          /\ c.peerAck = rest.peerAck /\ c.acked = rest.acked
          /\ c.buffer = rest.buffer /\ c.construct = rest.construct
          /\ c.unpacked = rest.unpacked /\ c.ack = rest.ack
      BY <2>4, <3>2, <3>3 DEF Conn
    <3> QED BY <2>1, <2>4, <3>1, <3>2, <3>4
  <2> QED BY <2>2, <2>3
<1> DEFINE d2 == Len(delivered'[e])
<1>6. /\ conn'[f] = conn[f] /\ delivered'[f] = delivered[f]
      /\ d2 \in Nat /\ d <= d2 /\ d2 <= sent[f] /\ c.ack = Wire(d2)
      /\ delivered' \in [Ends -> Seq(Nat)]
      /\ \A i \in DOMAIN delivered'[e] : delivered'[e][i] = i
  <2>1. conn'[f] = conn[f] BY <1>1, <1>2, <1>5 DEF TypeOK
  <2>2. /\ \A i \in DOMAIN delivered[e] : delivered[e][i] = i
        /\ d <= sent[f] /\ conn[e].ack = Wire(d)
    BY <1>2, <1>4, Sends DEF EndInv, InOrder
  <2>3. CASE InSequence(conn[e], chunk) /\ c.ack = chunk.seq
             /\ delivered' = [delivered EXCEPT ![e] = Append(@, chunk.data)]
    <3>1. chunk.data = d + 1 /\ chunk.seq = Wire(d + 1) /\ d + 1 <= sent[f]
      BY <1>4, <2>3
    <3>2. delivered'[e] = Append(delivered[e], d + 1) /\ delivered'[f] = delivered[f]
          /\ delivered' \in [Ends -> Seq(Nat)]
      BY <1>1, <1>2, <1>3, <2>3, <3>1 DEF TypeOK
    <3>3. d2 = d + 1 /\ \A i \in DOMAIN delivered'[e] : delivered'[e][i] = i
      BY <1>3, <2>2, <3>2, Counted
    <3> HIDE DEF d, d2
    <3> QED BY <1>3, <2>1, <2>3, <3>1, <3>2, <3>3
  <2>4. CASE c.ack = conn[e].ack /\ delivered' = delivered
    BY <1>2, <1>3, <2>1, <2>2, <2>4 DEF TypeOK
  <2> QED BY <1>5, <2>3, <2>4
<1> HIDE DEF f, c, d, d2, chunk
<1>7. TypeOK'
  <2>1. conn' \in [Ends -> Conn] BY <1>2, <1>5 DEF TypeOK
  <2> QED BY <1>2, <1>5, <1>6, <2>1 DEF TypeOK
<1>8. EndInv(e)'
  <2>1. InOrder(e)'
    <3>1. sent[f] <= d + Window BY <1>2 DEF EndInv, InOrder, f, d
    <3>2. sent[f] <= d2 + Window BY <1>3, <1>6, <3>1
    <3> QED BY <1>5, <1>6, <3>2 DEF InOrder, f, d2
  <2>2. Counters(e)'
    <3>1. CountersOk(conn[e], sent[e], d, Len(delivered[f])) BY <1>4, Sends DEF d, f
    <3>2. CountersOk(c, sent[e], d2, Len(delivered[f]))
      BY <1>5, <1>6, <3>1 DEF CountersOk
    <3> QED BY <1>5, <1>6, <3>2 DEF Counters, c, d2, f
  <2>3. Buffered(e)' BY <1>2, <1>5 DEF EndInv, Buffered, BufferOk, BufferFull, c
  <2>4. Copies(e)'
    <3>1. CopiesOk(conn[e].construct, sent[e]) BY <1>4, Sends
    <3> QED BY <1>4, <1>5, <3>1 DEF Copies, c, f
  <2>5. Arriving(e)' BY <1>2, <1>5, <1>6 DEF EndInv, Arriving, f, c
  <2> QED BY <2>1, <2>2, <2>3, <2>4, <2>5 DEF EndInv
<1>9. EndInv(f)'
  <2>1. InOrder(f)' BY <1>2, <1>5, <1>6 DEF EndInv, InOrder
  <2>2. Counters(f)'
    <3>1. ASSUME conn[f].state # "offline"
          PROVE  CountersOk(conn[f], sent[f], Len(delivered[f]), d2)
      <4>1. CountersOk(conn[f], sent[f], Len(delivered[f]), d)
        BY <1>1, <3>1, Sends DEF d
      <4>2. conn[f].acked \in Nat BY <1>1, <1>2, EndTypes
      <4> QED BY <1>3, <1>6, <4>1, <4>2 DEF CountersOk
    <3> QED BY <1>1, <1>5, <1>6, <3>1 DEF Counters, d2
  <2>3. Buffered(f)' BY <1>2, <1>5, <1>6 DEF EndInv, Buffered
  <2>4. Copies(f)' BY <1>2, <1>5, <1>6 DEF EndInv, Copies
  <2>5. ASSUME NEW p \in net[f]
        PROVE  /\ PacketOk(p, sent[e], d2)
               /\ conn[f].state # "offline" => sent[f] < p.acked + Lifetime
    <3>1. /\ PacketOk(p, sent[e], d)
          /\ conn[f].state # "offline" => sent[f] < p.acked + Lifetime
      BY <1>1, <1>2 DEF EndInv, Arriving, d
    <3>2. p.acked \in Nat BY <1>1, <1>2 DEF TypeOK, Packet
    <3> QED BY <1>3, <1>6, <3>1, <3>2 DEF PacketOk
  <2>6. Arriving(f)' BY <1>1, <1>5, <1>6, <2>5 DEF Arriving, d2
  <2> QED BY <2>1, <2>2, <2>3, <2>4, <2>6 DEF EndInv
<1> QED BY <1>1, <1>7, <1>8, <1>9 DEF Inv

(* A new chunk at the end of the resend buffer. *)
LEMMA BufferGrows ==
  ASSUME NEW c \in Conn, NEW x \in Conn, NEW n \in Nat, NEW chunk \in Chunk,
         BufferOk(c, n), BufferFull(c, n), c.acked <= n, n < c.acked + Window,
         chunk.seq = Wire(n + 1), chunk.data = n + 1, x.acked = c.acked,
         x.buffer = IF Len(c.buffer) < BufferSlots THEN Append(c.buffer, chunk)
                                                   ELSE c.buffer
  PROVE  BufferOk(x, n + 1) /\ BufferFull(x, n + 1)
<1> DEFINE b == c.buffer
           a == c.acked
<1>1. b \in Seq(Chunk) /\ a \in Nat /\ Len(b) \in Nat BY DEF Conn
<1>2. \A i \in 1..Len(b) :
        /\ b[i].seq = Wire(b[i].data) /\ b[i].data \in (a + 1)..n
        /\ \A j \in 1..(i - 1) : b[j].data < b[i].data
  BY <1>1 DEF BufferOk
<1>3. BufferSlots >= Window =>
        Len(b) = n - a /\ \A i \in 1..Len(b) : b[i].data = a + i
  BY <1>1 DEF BufferFull
<1>4. \A i \in 1..Len(b) :
        /\ b[i].seq = Wire(b[i].data) /\ b[i].data \in (a + 1)..(n + 1)
        /\ b[i].data < n + 1
        /\ \A j \in 1..(i - 1) : b[j].data < b[i].data
  <2> TAKE i \in 1..Len(b)
  <2>1. \A m \in (a + 1)..n : m \in (a + 1)..(n + 1) /\ m < n + 1 BY <1>1
  <2> QED BY <1>2, <2>1
<1> HIDE DEF b, a
<1>5. CASE Len(b) < BufferSlots
  <2> DEFINE t == Append(b, chunk)
  <2>1. x.buffer = t BY <1>5 DEF b
  <2>2. /\ Len(t) = Len(b) + 1 /\ DOMAIN t = 1..(Len(b) + 1)
        /\ \A i \in 1..Len(b) : t[i] = b[i]
        /\ t[Len(b) + 1] = chunk
    BY <1>1
  <2> HIDE DEF t
  <2>3. ASSUME NEW i \in 1..(Len(b) + 1)
        PROVE  /\ t[i].seq = Wire(t[i].data) /\ t[i].data \in (a + 1)..(n + 1)
               /\ \A j \in 1..(i - 1) : t[j].data < t[i].data
    <3>1. CASE i \in 1..Len(b)
      <4>1. t[i] = b[i] BY <2>2, <3>1
      <4>2. \A j \in 1..(i - 1) : t[j] = b[j] BY <1>1, <2>2, <3>1
      <4> QED BY <1>4, <3>1, <4>1, <4>2
    <3>2. CASE i = Len(b) + 1
      <4>1. t[i] = chunk BY <2>2, <3>2
      <4>2. \A j \in 1..(i - 1) : j \in 1..Len(b) /\ t[j] = b[j] BY <1>1, <2>2, <3>2
      <4>3. n + 1 \in (a + 1)..(n + 1) BY <1>1 DEF a
      <4> QED BY <1>4, <4>1, <4>2, <4>3
    <3> QED BY <1>1, <3>1, <3>2
  <2>4. BufferOk(x, n + 1) BY <2>1, <2>2, <2>3 DEF BufferOk, a
  <2>5. ASSUME BufferSlots >= Window
        PROVE  /\ Len(t) = (n + 1) - a
               /\ \A i \in 1..(Len(b) + 1) : t[i].data = a + i
    <3>1. Len(b) = n - a /\ \A i \in 1..Len(b) : b[i].data = a + i BY <1>3, <2>5
    <3>2. Len(t) = (n + 1) - a BY <1>1, <2>2, <3>1
    <3>3. ASSUME NEW i \in 1..(Len(b) + 1) PROVE t[i].data = a + i
      <4>1. CASE i \in 1..Len(b) BY <2>2, <3>1, <4>1
      <4>2. CASE i = Len(b) + 1
        <5>1. t[i].data = n + 1 BY <2>2, <4>2
        <5>2. a + i = n + 1 BY <1>1, <3>1, <4>2
        <5> QED BY <5>1, <5>2
      <4> QED BY <1>1, <4>1, <4>2
    <3> QED BY <3>2, <3>3
  <2>6. BufferFull(x, n + 1) BY <2>1, <2>2, <2>5 DEF BufferFull, a
  <2> QED BY <2>4, <2>6
<1>6. CASE ~(Len(b) < BufferSlots)
  <2>1. x.buffer = b BY <1>6 DEF b
  <2>2. BufferOk(x, n + 1)
    <3>1. DOMAIN b = 1..Len(b) BY <1>1
    <3> QED BY <1>4, <2>1, <3>1 DEF BufferOk, a
  <2>3. ~(BufferSlots >= Window)
    <3>1. n < a + Window BY DEF a
    <3>2. BufferSlots >= Window => Len(b) < Window BY <1>1, <1>3, <3>1
    <3> QED BY <1>1, <1>6, <3>2
  <2> QED BY <2>2, <2>3 DEF BufferFull
<1> QED BY <1>5, <1>6

LEMMA QueueStep ==
  ASSUME Inv, NEW e \in Ends, NEW flush \in BOOLEAN, QueueChunk(e, flush) PROVE Inv'
<1> DEFINE f == Peer(e)
           c == conn[e]
           n == sent[e]
           d == Len(delivered[e])
           dp == Len(delivered[f])
           chunk == [seq |-> NextSequence(c.sequence), data |-> n + 1]
           kept == Len(c.buffer) < BufferSlots
           base == QueueChunks(c, <<chunk>>)
           b == IF kept THEN Append(base.buffer, chunk) ELSE base.buffer
           queued == [base EXCEPT !.sequence = chunk.seq, !.buffer = b]
           after == IF flush THEN Flush(queued) ELSE queued
           packets == FlushedFor(c, <<chunk>>, e) \cup
                        (IF flush THEN FlushPackets(queued, e) ELSE {})
<1>1. f \in Ends /\ f # e /\ Peer(f) = e /\ \A x \in Ends : x = e \/ x = f
  BY Peers
<1>2. TypeOK /\ EndInv(e) /\ EndInv(f) BY <1>1 DEF Inv
<1>3. /\ c.state = "online" /\ n < c.acked + Window /\ OldOnesGone(e)
      /\ conn' = [conn EXCEPT ![e] = after]
      /\ net' = [net EXCEPT ![f] = @ \cup packets]
      /\ sent' = [sent EXCEPT ![e] = n + 1] /\ delivered' = delivered
  BY DEF QueueChunk, Transmit
<1>4. /\ c \in Conn /\ n \in Nat /\ sent[f] \in Nat /\ d \in Nat /\ dp \in Nat
      /\ c.acked \in Nat /\ c.construct \in Seq(Chunk) /\ c.buffer \in Seq(Chunk)
  BY <1>1, <1>2, EndTypes
<1>5. /\ CountersOk(c, n, d, dp) /\ c.ack = Wire(d)
      /\ CopiesOk(c.construct, n) /\ CopiesOk(c.unpacked, sent[f])
      /\ BufferOk(c, n) /\ BufferFull(c, n)
  BY <1>2, <1>3, Sends DEF EndInv, Buffered
<1>6. dp <= n /\ c.acked <= n
  <2>1. dp <= n BY <1>1, <1>2 DEF EndInv, InOrder
  <2>2. c.acked <= dp BY <1>5 DEF CountersOk
  <2> HIDE DEF n, dp
  <2> QED BY <1>4, <2>1, <2>2
<1>7. /\ \A i \in DOMAIN c.construct : n + 1 < c.construct[i].data + Lifetime
      /\ \A i \in DOMAIN conn[f].unpacked : n + 1 < conn[f].unpacked[i].data + Lifetime
      /\ \A p \in net[f] : \A i \in DOMAIN p.chunks : n + 1 < p.chunks[i].data + Lifetime
      /\ \A p \in net[e] : n + 1 < p.acked + Lifetime
  BY <1>3 DEF OldOnesGone, Recent
<1>8. ASSUME NEW chunks, CopiesOk(chunks, n),
             \A i \in DOMAIN chunks : n + 1 < chunks[i].data + Lifetime
      PROVE  CopiesOk(chunks, n + 1)
  <2>1. \A m \in 1..n : m \in 1..(n + 1) BY <1>4
  <2> QED BY <1>8, <2>1 DEF CopiesOk
<1>9. chunk \in Chunk /\ chunk.seq = Wire(n + 1) /\ chunk.data = n + 1
  <2>1. c.sequence = Wire(n) /\ n + 1 \in Nat BY <1>4, <1>5 DEF CountersOk
  <2>2. NextSequence(c.sequence) = Wire(n + 1) BY <1>4, <2>1, WireNext
  <2> QED BY <2>1, <2>2, WireType DEF Chunk
<1> HIDE DEF chunk, c, f, n, d, dp
<1>10. <<chunk>> \in Seq(Chunk) /\ CopiesOk(<<chunk>>, n + 1) /\ CopiesOk(c.construct, n + 1)
       /\ n + 1 \in Nat
  <2>1. n + 1 \in 1..(n + 1) /\ n + 1 < (n + 1) + Lifetime BY <1>4
  <2> QED BY SMTT(60), <1>4, <1>5, <1>7, <1>8, <1>9, <2>1 DEF CopiesOk
<1>11. (\A p \in FlushedFor(c, <<chunk>>, e) : Sendable(p, e, n + 1))
       /\ Repacked(base, c, n + 1)
  BY <1>2, <1>4, <1>5, <1>10, Packing DEF d
<1> HIDE DEF base
<1>12. b \in Seq(Chunk) /\ b = IF kept THEN Append(c.buffer, chunk) ELSE c.buffer
  BY <1>4, <1>9, <1>11 DEF Repacked
<1> HIDE DEF b
<1>13. /\ queued \in Conn /\ CopiesOk(queued.construct, n + 1)
       /\ queued.state = c.state /\ queued.sequence = chunk.seq /\ queued.ack = c.ack
       /\ queued.peerAck = c.peerAck /\ queued.acked = c.acked /\ queued.buffer = b
       /\ queued.unpacked = c.unpacked
  <2>1. chunk.seq \in Sequences BY <1>9 DEF Chunk
  <2> QED BY <1>11, <1>12, <2>1 DEF Repacked, Conn
<1> HIDE DEF queued
<1>14. (\A p \in FlushPackets(queued, e) : Sendable(p, e, n + 1))
       /\ Repacked(Flush(queued), queued, n + 1)
  BY <1>2, <1>5, <1>10, <1>13, Flushing DEF d
<1>15. \A p \in packets : Sendable(p, e, n + 1) BY <1>11, <1>14
<1>16. Repacked(after, queued, n + 1) BY <1>13, <1>14 DEF Repacked
<1> HIDE DEF after, packets, kept
<1>17. /\ after \in Conn /\ CopiesOk(after.construct, n + 1)
       /\ after.state = "online" /\ after.sequence = chunk.seq /\ after.ack = c.ack
       /\ after.peerAck = c.peerAck /\ after.acked = c.acked /\ after.buffer = b
       /\ after.unpacked = c.unpacked
  BY <1>3, <1>13, <1>16 DEF Repacked
<1>18. BufferOk(after, n + 1) /\ BufferFull(after, n + 1)
  BY <1>3, <1>4, <1>5, <1>6, <1>9, <1>12, <1>17, BufferGrows DEF kept
<1>19. /\ conn'[e] = after /\ conn'[f] = conn[f] /\ net'[e] = net[e]
       /\ net'[f] = net[f] \cup packets /\ sent'[e] = n + 1 /\ sent'[f] = sent[f]
  BY <1>1, <1>2, <1>3 DEF TypeOK
<1>20. TypeOK'
  <2>1. packets \subseteq Packet BY <1>15 DEF Sendable
  <2>2. conn' \in [Ends -> Conn] BY <1>2, <1>3, <1>17 DEF TypeOK
  <2>3. net' \in [Ends -> SUBSET Packet] BY <1>2, <1>3, <2>1 DEF TypeOK
  <2>4. sent' \in [Ends -> Nat] BY <1>2, <1>3, <1>10 DEF TypeOK
  <2> QED BY <1>2, <1>3, <2>2, <2>3, <2>4 DEF TypeOK
<1>21. EndInv(e)'
  <2>1. InOrder(e)' BY <1>2, <1>3, <1>19 DEF EndInv, InOrder, f
  <2>2. Counters(e)'
    <3>1. n + 1 <= c.acked + Window BY <1>3, <1>4
    <3>2. CountersOk(after, n + 1, d, dp) BY <1>5, <1>9, <1>17, <3>1 DEF CountersOk
    <3> QED BY <1>3, <1>19, <3>2 DEF Counters, d, dp, f
  <2>3. Buffered(e)' BY <1>18, <1>19 DEF Buffered
  <2>4. Copies(e)' BY <1>5, <1>17, <1>19 DEF Copies, f
  <2>5. Arriving(e)'
    <3>1. \A p \in net[e] : PacketOk(p, sent[f], dp)
      BY <1>2 DEF EndInv, Arriving, f, dp
    <3> QED BY <1>3, <1>7, <1>19, <3>1 DEF Arriving, f, dp
  <2> QED BY <2>1, <2>2, <2>3, <2>4, <2>5 DEF EndInv
<1>22. EndInv(f)'
  <2>1. InOrder(f)'
    <3>1. /\ \A i \in DOMAIN delivered[f] : delivered[f][i] = i
      BY <1>2 DEF EndInv, InOrder
    <3>2. dp <= n + 1 /\ n + 1 <= dp + Window
      <4>1. n < c.acked + Window /\ c.acked <= dp BY <1>3, <1>5 DEF CountersOk
      <4> QED BY <1>4, <1>6, <4>1
    <3> QED BY <1>1, <1>3, <1>19, <3>1, <3>2 DEF InOrder, dp
  <2>2. Counters(f)' BY <1>1, <1>2, <1>3, <1>19 DEF EndInv, Counters
  <2>3. Buffered(f)' BY <1>2, <1>19 DEF EndInv, Buffered
  <2>4. Copies(f)'
    <3>1. CopiesOk(conn[f].unpacked, n) BY <1>1, <1>2 DEF EndInv, Copies, n
    <3>2. CopiesOk(conn[f].unpacked, n + 1) BY <1>7, <1>8, <3>1
    <3> QED BY <1>1, <1>2, <1>19, <3>2 DEF EndInv, Copies
  <2>5. ASSUME NEW p \in net'[f]
        PROVE  /\ PacketOk(p, n + 1, d)
               /\ conn[f].state # "offline" => sent[f] < p.acked + Lifetime
    <3>1. CASE p \in net[f]
      <4>1. /\ PacketOk(p, n, d)
            /\ conn[f].state # "offline" => sent[f] < p.acked + Lifetime
        BY <1>1, <1>2, <3>1 DEF EndInv, Arriving, n, d
      <4>2. CopiesOk(p.chunks, n + 1) BY <1>7, <1>8, <3>1, <4>1 DEF PacketOk
      <4> QED BY <4>1, <4>2 DEF PacketOk
    <3>2. CASE p \in packets
      <4>1. Sendable(p, e, n + 1) BY <1>15, <3>2
      <4>2. sent[f] <= d + Window BY <1>2 DEF EndInv, InOrder, f, d
      <4>3. sent[f] < d + Lifetime /\ d <= d BY <1>4, <4>2
      <4> QED BY <4>1, <4>3 DEF Sendable, PacketOk, d
    <3> QED BY <1>19, <2>5, <3>1, <3>2
  <2>6. Arriving(f)' BY <1>1, <1>3, <1>19, <2>5 DEF Arriving, d
  <2> QED BY <2>1, <2>2, <2>3, <2>4, <2>6 DEF EndInv
<1> QED BY <1>1, <1>20, <1>21, <1>22 DEF Inv

----------------------------------------------------------------------------
(* Theorems *)

LEMMA InitInv == Init => Inv
<1> SUFFICES ASSUME Init PROVE Inv OBVIOUS
<1>1. 0 \in Sequences /\ 0 \in Nat /\ <<>> \in Seq(Chunk) /\ <<>> \in Seq(Nat)
  BY DEF Sequences
<1>2. Fresh \in Conn BY <1>1 DEF Fresh, Conn
<1>3. TypeOK BY <1>1, <1>2 DEF Init, TypeOK
<1>4. ASSUME NEW e \in Ends PROVE EndInv(e)
  <2>1. /\ conn[e] = Fresh /\ net[e] = {} /\ sent[e] = 0 /\ delivered[e] = <<>>
        /\ sent[Peer(e)] = 0 /\ delivered[Peer(e)] = <<>>
    BY Peers DEF Init
  <2>2. Len(<<>>) = 0 /\ DOMAIN <<>> = {} OBVIOUS
  <2>3. CopiesOk(<<>>, 0) BY <2>2 DEF CopiesOk
  <2>4. /\ Fresh.state = "online" /\ Fresh.sequence = 0 /\ Fresh.ack = 0
        /\ Fresh.peerAck = 0 /\ Fresh.acked = 0 /\ Fresh.buffer = <<>>
        /\ Fresh.construct = <<>> /\ Fresh.unpacked = <<>>
    BY DEF Fresh
  <2>5. InOrder(e) BY <2>1, <2>2 DEF InOrder
  <2>6. Counters(e) BY <2>1, <2>2, <2>4, WireZero DEF Counters, CountersOk
  <2>7. Buffered(e) BY <2>1, <2>2, <2>4 DEF Buffered, BufferOk, BufferFull
  <2>8. Copies(e) BY <2>1, <2>3, <2>4 DEF Copies
  <2>9. Arriving(e) BY <2>1 DEF Arriving
  <2> QED BY <2>5, <2>6, <2>7, <2>8, <2>9 DEF EndInv
<1> QED BY <1>3, <1>4 DEF Inv

LEMMA StepInv == Inv /\ [Next]_vars => Inv'
<1> SUFFICES ASSUME Inv, [Next]_vars PROVE Inv' OBVIOUS
<1>1. CASE UNCHANGED vars
  <2>1. conn' = conn /\ net' = net /\ sent' = sent /\ delivered' = delivered
    BY <1>1 DEF vars
  <2>2. TypeOK' BY <2>1 DEF Inv, TypeOK
  <2>3. \A e \in Ends : EndInv(e)'
    BY <2>1 DEF Inv, EndInv, InOrder, Counters, Buffered, Copies, Arriving
  <2> QED BY <2>2, <2>3 DEF Inv
<1>2. CASE Next
  <2> SUFFICES ASSUME NEW e \in Ends,
                      EndAction(e) \/ \E p \in net[e] : Lose(e, p)
               PROVE  Inv'
    BY <1>2 DEF Next
  <2>1. CASE \E p \in net[e] : Lose(e, p) BY <2>1, LoseStep
  <2>2. CASE \E flush \in BOOLEAN : QueueChunk(e, flush) BY <2>2, QueueStep
  <2>3. CASE \E resendDue, flushDue \in BOOLEAN : Update(e, resendDue, flushDue)
    BY <2>3, UpdateStep
  <2>4. CASE \E p \in net[e] : Feed(e, p) BY <2>4, FeedStep
  <2>5. CASE FetchChunk(e) BY <2>5, FetchStep
  <2>6. CASE TimeOut(e) \/ ProtectionOver(e) BY <2>6, EndingSteps
  <2>7. CASE Disconnect(e) BY <2>7, DisconnectStep
  <2> QED BY <2>1, <2>2, <2>3, <2>4, <2>5, <2>6, <2>7 DEF EndAction
<1> QED BY <1>1, <1>2

(* The invariant holds in every behaviour. *)
THEOREM Invariance == Spec => []Inv
BY InitInv, StepInv, PTL DEF Spec

(* Every field keeps its type in every behaviour, whatever the bounds. *)
THEOREM TypeCorrectness == Spec => []TypeOK
<1>1. Inv => TypeOK BY DEF Inv
<1> QED BY <1>1, Invariance, PTL

(* Each application gets the peer's vital chunks once and in order, for any   *)
(* number of chunks, any window below half the sequence numbers and whatever  *)
(* the network does short of keeping a packet for a round of them.            *)
THEOREM InOrderDelivery == Spec => []DeliveredInOrder
<1>1. Inv => DeliveredInOrder BY DEF Inv, EndInv, InOrder, DeliveredInOrder
<1> QED BY <1>1, Invariance, PTL

(* With room for a window in the resend buffer, acknowledging forgets no     *)
(* chunk that the peer has not got.                                          *)
THEOREM ForgetsNothing == Spec => []NothingForgotten
<1>1. ASSUME Inv, BufferSlots >= Window, NEW e \in Ends, conn[e].state = "online",
             NEW n \in (Len(delivered[Peer(e)]) + 1)..sent[e]
      PROVE  \E i \in DOMAIN conn[e].buffer : conn[e].buffer[i].data = n
  <2>1. /\ Len(conn[e].buffer) = sent[e] - conn[e].acked
        /\ \A i \in DOMAIN conn[e].buffer : conn[e].buffer[i].data = conn[e].acked + i
    BY <1>1 DEF Inv, EndInv, Buffered, BufferFull
  <2>2. conn[e].acked <= Len(delivered[Peer(e)]) BY <1>1, Sends DEF CountersOk
  <2>3. /\ sent[e] \in Nat /\ conn[e].acked \in Nat /\ Len(delivered[Peer(e)]) \in Nat
        /\ conn[e].buffer \in Seq(Chunk)
    BY <1>1, EndTypes, Peers DEF Inv
  <2>4. n - conn[e].acked \in 1..(sent[e] - conn[e].acked) BY SMTT(60), <2>2, <2>3
  <2>5. n - conn[e].acked \in DOMAIN conn[e].buffer BY <2>1, <2>3, <2>4
  <2>6. conn[e].acked + (n - conn[e].acked) = n BY <2>3
  <2> QED BY <2>1, <2>5, <2>6
<1>2. Inv => NothingForgotten BY <1>1 DEF NothingForgotten
<1> QED BY <1>2, Invariance, PTL

(* The connection implements the reliable channel: queueing a chunk sends it, *)
(* fetching a chunk that is in sequence delivers it, and every other step     *)
(* leaves the channel as it is.                                               *)
THEOREM Implementation == Spec => ImplementsChannel
<1>1. Init => Channel!Init
  BY DEF Init, Channel!Init, Ends, Channel!Ends
<1>2. ASSUME Inv, [Next]_vars PROVE [Channel!Next]_(Channel!vars)
  <2>0. Ends = Channel!Ends /\ \A e \in Ends : Peer(e) = Channel!Peer(e)
    BY DEF Ends, Channel!Ends, Peer, Channel!Peer
  <2>1. ASSUME sent' = sent, delivered' = delivered
        PROVE  [Channel!Next]_(Channel!vars)
    BY <2>1 DEF Channel!vars
  <2>2. ASSUME NEW e \in Ends, NEW flush \in BOOLEAN, QueueChunk(e, flush)
        PROVE  [Channel!Next]_(Channel!vars)
    <3>1. Channel!Send(e) BY <2>2 DEF QueueChunk, Channel!Send
    <3> QED BY <2>0, <3>1 DEF Channel!Next
  <2>3. ASSUME NEW e \in Ends, FetchChunk(e) PROVE [Channel!Next]_(Channel!vars)
    <3>1. sent' = sent BY <2>3 DEF FetchChunk
    <3>2. CASE InSequence(conn[e], Head(conn[e].unpacked))
      <4>1. delivered' = [delivered EXCEPT ![e] = Append(@, Head(conn[e].unpacked).data)]
        BY <2>3, <3>2 DEF FetchChunk
      <4>2. /\ Head(conn[e].unpacked).data = Len(delivered[e]) + 1
            /\ Len(delivered[e]) + 1 <= sent[Peer(e)]
        BY <1>2, <2>3, <3>2, NextInSequence DEF FetchChunk
      <4>3. Len(delivered[e]) \in Nat /\ sent[Peer(e)] \in Nat
        BY <1>2, EndTypes, Peers DEF Inv
      <4>4. Len(delivered[e]) < sent[Peer(e)] BY <4>2, <4>3
      <4>5. Channel!Deliver(e) BY <2>0, <3>1, <4>1, <4>2, <4>4 DEF Channel!Deliver
      <4> QED BY <2>0, <4>5 DEF Channel!Next
    <3>3. CASE ~InSequence(conn[e], Head(conn[e].unpacked))
      <4>1. delivered' = delivered BY <2>3, <3>3 DEF FetchChunk
      <4> QED BY <2>1, <3>1, <4>1
    <3> QED BY <3>2, <3>3
  <2>4. CASE UNCHANGED vars BY <2>1, <2>4 DEF vars
  <2>5. CASE Next
    <3> SUFFICES ASSUME NEW e \in Ends,
                        EndAction(e) \/ \E p \in net[e] : Lose(e, p)
                 PROVE  [Channel!Next]_(Channel!vars)
      BY <2>5 DEF Next
    <3>1. CASE \E flush \in BOOLEAN : QueueChunk(e, flush) BY <2>2, <3>1
    <3>2. CASE FetchChunk(e) BY <2>3, <3>2
    <3>3. CASE \/ \E p \in net[e] : Lose(e, p)
               \/ \E resendDue, flushDue \in BOOLEAN : Update(e, resendDue, flushDue)
               \/ \E p \in net[e] : Feed(e, p)
               \/ TimeOut(e) \/ ProtectionOver(e) \/ Disconnect(e)
      <4>1. sent' = sent /\ delivered' = delivered
        BY <3>3 DEF Lose, Update, Feed, TimeOut, ProtectionOver, Disconnect
      <4> QED BY <2>1, <4>1
    <3> QED BY <3>1, <3>2, <3>3 DEF EndAction
  <2> QED BY <1>2, <2>4, <2>5
<1>3. Inv /\ [Next]_vars => [Channel!Next]_(Channel!vars) BY <1>2
<1> QED BY <1>1, <1>3, Invariance, PTL DEF Spec, ImplementsChannel, Channel!Spec
=============================================================================
