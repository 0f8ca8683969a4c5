----------------------------- MODULE Connection -----------------------------
(***************************************************************************)
(* Two ends of an established connection, CNetConnection of                *)
(* engine/shared/network_conn.cpp in state ONLINE, over UDP: packets are   *)
(* lost, duplicated and reordered.  Vital chunks carry a sequence number   *)
(* modulo MAX_SEQUENCE and are kept in a resend buffer until acknowledged. *)
(* The chunks of a received packet are handed to the application one at a  *)
(* time (CNetRecvUnpacker::FetchChunk) and it may send in between.         *)
(*                                                                         *)
(* Left out: chunks that are not vital, security tokens (no forged         *)
(* packets), compression, sizes in bytes (a packet has room for            *)
(* PacketChunks chunks, the resend buffer for BufferSlots).  Clock tests   *)
(* are nondeterministic choices.                                           *)
(***************************************************************************)
EXTENDS Integers, Sequences, FiniteSets

CONSTANTS
  MAX_SEQUENCE,   \* NET_MAX_SEQUENCE
  PacketChunks,   \* chunks a packet has room for
  BufferSlots,    \* chunks the resend buffer has room for
  Window,         \* bound: chunks an end has queued beyond the acked ones
  Lifetime,       \* bound: how far the ends get while a packet is in flight
  MaxInFlight,    \* bound: [Ends -> Nat], packets in flight to an end
  MaxSent,        \* bound: [Ends -> Nat], chunks queued in a behaviour
  Failures        \* which ends of the connection may come: "timeout", "drop"

Ends == {"client", "server"}
Peer(e) == IF e = "client" THEN "server" ELSE "client"

(* A window below half the sequence numbers and packets that do not outlive *)
(* a whole round of them: what the protocol takes for granted.              *)
ASSUME ConnectionAssumption ==
  /\ MAX_SEQUENCE \in Nat /\ PacketChunks \in Nat \ {0} /\ BufferSlots \in Nat
  /\ Window \in Nat \ {0} /\ 2 * Window < MAX_SEQUENCE
  /\ Lifetime \in Nat /\ Window < Lifetime /\ Lifetime < MAX_SEQUENCE
  /\ MaxInFlight \in [Ends -> Nat]
  /\ MaxSent \in [Ends -> Nat]
  /\ Failures \subseteq {"timeout", "drop"}

Sequences == 0..(MAX_SEQUENCE - 1)
NextSequenceUnwrapped(s) == s + 1  \* mutant
NextSequence(s) == (s + 1) % MAX_SEQUENCE

(* CNetChunkHeader; data is the number of the chunk among those its end queued. *)
Chunk == [seq : Sequences, data : Nat]

(* CNetPacketConstruct as sent. acked is ghost: the number ack stands for. *)
Packet == [ack : Sequences, resend : BOOLEAN, close : BOOLEAN,
           chunks : Seq(Chunk), acked : Nat]

(* CNetConnection: m_State, m_Sequence, m_Ack, m_PeerAck, m_Buffer, m_Construct *)
(* (construct, resend), m_RemoteClosed, m_TimeoutSituation, and the packet      *)
(* being unpacked.  acked is ghost: the number m_PeerAck stands for.            *)
Conn == [state : {"online", "error", "offline"}, sequence : Sequences,
         ack : Sequences, peerAck : Sequences, buffer : Seq(Chunk),
         construct : Seq(Chunk), resend : BOOLEAN, remoteClosed : BOOLEAN,
         timeoutSituation : BOOLEAN, unpacked : Seq(Chunk), acked : Nat]

VARIABLES
  conn,      \* [Ends -> Conn]
  net,       \* [Ends -> SUBSET Packet]: in flight to each end
  sent,      \* [Ends -> Nat]: history, chunks queued
  delivered  \* [Ends -> Seq(Nat)]: history, chunks the application got

vars == <<conn, net, sent, delivered>>

Fresh == [state |-> "online", sequence |-> 0, ack |-> 0, peerAck |-> 0,
          buffer |-> <<>>, construct |-> <<>>, resend |-> FALSE,
          remoteClosed |-> FALSE, timeoutSituation |-> FALSE,
          unpacked |-> <<>>, acked |-> 0]

Init == /\ conn = [e \in Ends |-> Fresh]
        /\ net = [e \in Ends |-> {}]
        /\ sent = [e \in Ends |-> 0]
        /\ delivered = [e \in Ends |-> <<>>]

----------------------------------------------------------------------------
(* Packets *)

IsSeqInBackroomUnwrapped(seq, ack) == seq <= ack  \* mutant
IsSeqInBackroom(seq, ack) ==
  LET bottom == ack - MAX_SEQUENCE \div 2 IN
  IF bottom < 0 THEN seq <= ack \/ seq >= bottom + MAX_SEQUENCE
                ELSE seq \in bottom..ack

PacketOf(c, chunks, resend, close, e) ==
  [ack |-> c.ack, resend |-> resend, close |-> close, chunks |-> chunks,
   acked |-> Len(delivered[e])]

(* QueueChunkEx for a list of chunks: the packets flushed to make room ... *)
Overfull(n) == IF n = 0 THEN 0 ELSE (n - 1) \div PacketChunks
PacketPart(t, i) == SubSeq(t, (i - 1) * PacketChunks + 1, i * PacketChunks)
FlushedFor(c, chunks, e) ==
  LET t == c.construct \o chunks IN
  {PacketOf(c, PacketPart(t, i), c.resend /\ i = 1, FALSE, e) :
     i \in 1..Overfull(Len(t))}

(* ... and the connection afterwards. *)
QueueChunks(c, chunks) ==
  LET t == c.construct \o chunks
      n == Overfull(Len(t)) IN
  [c EXCEPT !.construct = SubSeq(t, n * PacketChunks + 1, Len(t)),
            !.resend = @ /\ n = 0]

FlushPackets(c, e) ==
  IF c.construct = <<>> /\ ~c.resend THEN {}
  ELSE {PacketOf(c, c.construct, c.resend, FALSE, e)}
Flush(c) == [c EXCEPT !.construct = <<>>, !.resend = FALSE]

SendControl(c, close, e) == PacketOf(c, <<>>, FALSE, close, e)

(* The socket; a full network is made room in by Lose. *)
Transmit(e, packets) ==
  /\ net' = [net EXCEPT ![Peer(e)] = @ \cup packets]
  /\ Cardinality(net[Peer(e)] \cup packets) <= MaxInFlight[Peer(e)]

(* Network: a packet is lost, or has been received as often as it will be. *)
(* Before the end looks for a packet again it does not matter when.         *)
Lose(e, p) ==
  /\ p \in net[e] /\ conn[e].unpacked = <<>>
  /\ net' = [net EXCEPT ![e] = @ \ {p}]
  /\ UNCHANGED <<conn, sent, delivered>>

----------------------------------------------------------------------------
(* Sending *)

(* Environment: no copy of a chunk and no acknowledgement is still on its   *)
(* way when its end, or the end it acknowledges, has queued Lifetime more.  *)
Recent(e, chunks) == \A i \in DOMAIN chunks : sent[e] + 1 < chunks[i].data + Lifetime
OldOnesGone(e) ==
  /\ Recent(e, conn[e].construct)
  /\ Recent(e, conn[Peer(e)].unpacked)
  /\ \A p \in net[Peer(e)] : Recent(e, p.chunks)
  /\ \A p \in net[e] : sent[e] + 1 < p.acked + Lifetime

(* QueueChunk of a vital chunk, then Flush if the message asks for it; the  *)
(* server does not flush a chunk it could not keep (CNetServer::Send).      *)
QueueChunk(e, flush) ==
  LET c == conn[e]
      chunk == [seq |-> NextSequence(c.sequence), data |-> sent[e] + 1]
      kept == Len(c.buffer) < BufferSlots
      queued == [QueueChunks(c, <<chunk>>) EXCEPT
                   !.sequence = chunk.seq,
                   !.buffer = IF kept THEN Append(@, chunk) ELSE @] IN
  /\ c.state = "online"
  /\ sent[e] < MaxSent[e] /\ sent[e] < c.acked + Window /\ OldOnesGone(e)
  /\ flush => kept \/ e = "client"
  /\ conn' = [conn EXCEPT ![e] = IF flush THEN Flush(queued) ELSE queued]
  /\ Transmit(e, FlushedFor(c, <<chunk>>, e) \cup
                 (IF flush THEN FlushPackets(queued, e) ELSE {}))
  /\ sent' = [sent EXCEPT ![e] = @ + 1]
  /\ UNCHANGED delivered

FirstChunkAtTimeout(c) == <<>>  \* mutant: only a request makes it resend
FirstChunk(c) == IF c.buffer = <<>> THEN <<>> ELSE <<Head(c.buffer)>>

(* Update, when the clock says that the oldest chunk waits for its ack for  *)
(* a second (resendDue) and that nothing was sent for a while (flushDue),   *)
(* which a packet just flushed to make room denies.                         *)
Update(e, resendDue, flushDue) ==
  LET c == [conn[e] EXCEPT !.timeoutSituation = FALSE]
      first == IF resendDue THEN FirstChunk(c) ELSE <<>>
      queued == QueueChunks(c, first)
      due == flushDue /\ FlushedFor(c, first, e) = {}
      flushed == FlushPackets(queued, e) IN
  /\ c.state = "online" /\ c.unpacked = <<>>
  /\ conn' = [conn EXCEPT ![e] = IF due THEN Flush(queued) ELSE queued]
  /\ Transmit(e, FlushedFor(c, first, e) \cup
                 (CASE ~due -> {}
                    [] due /\ flushed # {} -> flushed
                    [] OTHER -> {SendControl(c, FALSE, e)}))
  /\ UNCHANGED <<sent, delivered>>

----------------------------------------------------------------------------
(* Receiving *)

AckInWindow(c, ack) ==
  IF c.sequence >= c.peerAck THEN ack \in c.peerAck..c.sequence
                             ELSE ack >= c.peerAck \/ ack <= c.sequence

(* AckChunks pops from the front what the ack covers. *)
AckedChunks(buffer, ack) ==
  {i \in 1..Len(buffer) : \A j \in 1..i : IsSeqInBackroom(buffer[j].seq, ack)}
AckChunks(buffer, ack) ==
  SubSeq(buffer, Cardinality(AckedChunks(buffer, ack)) + 1, Len(buffer))

(* Feed, for a packet it does not discard. *)
Feed(e, p) ==
  LET c == [conn[e] EXCEPT !.peerAck = p.ack, !.acked = p.acked]
      again == IF p.resend THEN c.buffer ELSE <<>>
      resent == QueueChunks(c, again) IN
  /\ p \in net[e]
  /\ c.state = "online" /\ c.unpacked = <<>>
  /\ AckInWindow(conn[e], p.ack)
  /\ Transmit(e, FlushedFor(c, again, e))
  /\ conn' = [conn EXCEPT ![e] =
       IF p.close THEN [resent EXCEPT !.state = "error", !.remoteClosed = TRUE]
       ELSE [resent EXCEPT !.buffer = AckChunks(@, p.ack), !.unpacked = p.chunks]]
  /\ UNCHANGED <<sent, delivered>>

InSequenceNew(c, chunk) == ~IsSeqInBackroom(chunk.seq, c.ack)  \* mutant: gaps pass
InSequenceAgain(c, chunk) ==                                    \* mutant: off by one
  chunk.seq \in {c.ack, NextSequence(c.ack)}
InSequence(c, chunk) == chunk.seq = NextSequence(c.ack)

(* FetchChunk, for the next chunk of the packet. *)
FetchChunk(e) ==
  LET c == conn[e]
      chunk == Head(c.unpacked)
      inSequence == InSequence(c, chunk)
      rest == [c EXCEPT !.unpacked = Tail(@)] IN
  /\ c.unpacked # <<>>
  /\ conn' = [conn EXCEPT ![e] =
       IF inSequence THEN [rest EXCEPT !.ack = chunk.seq]
       ELSE [rest EXCEPT !.resend = @ \/ ~IsSeqInBackroom(chunk.seq, c.ack)]]
  /\ delivered' = IF inSequence
                  THEN [delivered EXCEPT ![e] = Append(@, chunk.data)]
                  ELSE delivered
  /\ UNCHANGED <<net, sent>>

----------------------------------------------------------------------------
(* Ending *)

(* Update: nothing was received, or the oldest chunk was not acknowledged, *)
(* for conn_timeout seconds.                                                *)
TimeOutUnacked(e) ==  \* mutant: only unacknowledged chunks end a connection
  /\ "timeout" \in Failures /\ conn[e].state = "online" /\ conn[e].buffer # <<>>
  /\ conn[e].unpacked = <<>>
  /\ conn' = [conn EXCEPT ![e] = [@ EXCEPT !.state = "error", !.timeoutSituation = TRUE]]
  /\ UNCHANGED <<net, sent, delivered>>
TimeOut(e) ==
  /\ "timeout" \in Failures
  /\ conn[e].state = "online" /\ conn[e].unpacked = <<>>
  /\ conn' = [conn EXCEPT ![e] = [@ EXCEPT !.state = "error", !.timeoutSituation = TRUE]]
  /\ UNCHANGED <<net, sent, delivered>>

(* Update: conn_timeout_protection is over. *)
ProtectionOver(e) ==
  /\ conn[e].state = "error" /\ conn[e].timeoutSituation
  /\ conn' = [conn EXCEPT ![e] = [@ EXCEPT !.timeoutSituation = FALSE]]
  /\ UNCHANGED <<net, sent, delivered>>

(* Disconnect: the application drops the connection, or the next Update of *)
(* CNetServer or CNetClient finds it in state ERROR.  What is still being   *)
(* unpacked goes to a client slot that is empty by then.                    *)
Disconnect(e) ==
  LET c == conn[e] IN
  /\ c.state = "error" \/ (c.state = "online" /\ "drop" \in Failures)
  /\ Transmit(e, IF c.remoteClosed \/ c.timeoutSituation THEN {}
                 ELSE {SendControl(c, TRUE, e)})
  /\ conn' = [conn EXCEPT ![e] = [Fresh EXCEPT !.state = "offline"]]
  /\ UNCHANGED <<sent, delivered>>

----------------------------------------------------------------------------
EndAction(e) ==
  \/ \E flush \in BOOLEAN : QueueChunk(e, flush)
  \/ \E resendDue, flushDue \in BOOLEAN : Update(e, resendDue, flushDue)
  \/ \E p \in net[e] : Feed(e, p)
  \/ FetchChunk(e)
  \/ TimeOut(e)
  \/ ProtectionOver(e)
  \/ Disconnect(e)

Next == \E e \in Ends : EndAction(e) \/ \E p \in net[e] : Lose(e, p)

Spec == Init /\ [][Next]_vars

(* Fairness. The application fetches every chunk; clocks go on, so Update   *)
(* resends and flushes again and again; a packet does not stay in flight    *)
(* for ever; of the packets that carry news, sent again and again, one gets *)
(* through; an end whose peer is gone times out, and is then disconnected.  *)
News(e, p) == \/ \E i \in DOMAIN p.chunks : p.chunks[i].data = Len(delivered[e]) + 1
              \/ p.acked > conn[e].acked
FeedNews(e) == \E p \in net[e] : News(e, p) /\ Feed(e, p)
Silence(e) == net[e] = {} /\ conn[Peer(e)].state = "offline" /\ TimeOut(e)
FairSpec ==
  /\ Spec
  /\ \A e \in Ends :
       /\ WF_vars(FetchChunk(e)) /\ SF_vars(Update(e, TRUE, TRUE))
       /\ SF_vars(\E p \in net[e] : Lose(e, p)) /\ SF_vars(FeedNews(e))
       /\ WF_vars(Silence(e)) /\ WF_vars(conn[e].state = "error" /\ Disconnect(e))

----------------------------------------------------------------------------
(* Properties *)

(* Every field keeps its type; sequence numbers stay in their range. *)
TypeOK == /\ conn \in [Ends -> Conn]
          /\ net \in [Ends -> SUBSET Packet]
          /\ sent \in [Ends -> Nat]
          /\ delivered \in [Ends -> Seq(Nat)]

(* The wrapping sequence numbers and the resends hand the application every *)
(* vital chunk once and in order (FetchChunk, IsSeqInBackroom).             *)
DeliveredInOrder ==
  \A e \in Ends : /\ \A i \in DOMAIN delivered[e] : delivered[e][i] = i
                  /\ Len(delivered[e]) <= sent[Peer(e)]

(* AckChunks forgets no chunk the peer has not got: while an end is online,  *)
(* what it queued is delivered or waits in its resend buffer (if the buffer  *)
(* has room for a window).                                                   *)
NothingForgotten ==
  BufferSlots >= Window => \A e \in Ends :
    conn[e].state = "online" =>
      \A n \in (Len(delivered[Peer(e)]) + 1)..sent[e] :
        \E i \in DOMAIN conn[e].buffer : conn[e].buffer[i].data = n

(* The connection implements the channel. *)
Channel == INSTANCE ReliableChannel WITH sent <- sent, delivered <- delivered
ImplementsChannel == Channel!Spec

(* Loss, duplicates and reordering only delay: what is queued arrives, or an *)
(* end of the connection comes (SignalResend, Resend, Update).                *)
EverythingArrives ==
  \A e \in Ends : \A n \in 1..MaxSent[e] :
    (sent[e] >= n) ~> \/ Len(delivered[Peer(e)]) >= n
                      \/ \E x \in Ends : conn[x].state # "online"

(* No end stays behind alone: once one end is gone, the other one is told    *)
(* by CLOSE or times out, and goes too.                                      *)
BothEnd ==
  \A e \in Ends : (conn[e].state = "offline") ~> (conn[Peer(e)].state = "offline")
=============================================================================
