----------------------------- MODULE RelayProofs -----------------------------
(***************************************************************************)
(* Proofs about Relay, for every value of its constants: the types, the    *)
(* safety invariants, and that the relay implements ByteStream.            *)
(*                                                                         *)
(* The inductive invariant has two halves that meet in deliver() only: what*)
(* the queues and notifiers keep, and what the framer keeps.  A second one *)
(* on top of it says where each byte of a stream is: the packets of a queue*)
(* lie one behind the other from the first byte not passed on to the first *)
(* that is held (Laid), and no descriptor waits behind its byte.           *)
(***************************************************************************)
EXTENDS Relay, FiniteSetTheorems, TLAPS

\* Descriptors are few: every set of them that the relay holds is finite.
FiniteDescriptors ==
    /\ \A s \in Sides : IsFiniteSet(descriptors[s])
    /\ \A s \in Sides : \A i \in 1..Len(queue[s]) :
            IsFiniteSet(queue[s][i].descriptors)

\* A side is read only while the other's queue has room for a burst.
ReaderHasRoom ==
    \A s \in Sides :
        reader[s] => queuedBytes[Other(s)] <= QueueLimit - BurstLimit

\* The framer holds less than the longest message it may hold.
HeldIsShort == \A s \in Sides : held[s] < BufferLimit

\* Nothing waits for a message's end unless the screen changed.
DeferredNeedsChange == changes = 0 => deferred = 0

\* What the client was passed ends inside a message only while a long one is
\* passing, as far as the streams are read.
WholeUnlessStreaming == ~transparent /\ ~streaming["server"] => whole

\* What queues, notifiers and counts keep.
QueueInv ==
    /\ queue \in [Sides -> Seq(Packet)]
    /\ queuedBytes \in [Sides -> Int]
    /\ queuedDescriptors \in [Sides -> Int]
    /\ passed \in [Sides -> Nat]
    /\ eof \in [Sides -> BOOLEAN]
    /\ shutdown \in [Sides -> BOOLEAN]
    /\ reader \in [Sides -> BOOLEAN]
    /\ writer \in [Sides -> BOOLEAN]
    /\ reason \in Reasons
    /\ \A s \in Sides : \A i \in 1..Len(queue[s]) :
            IsFiniteSet(queue[s][i].descriptors)
    /\ ReaderHasRoom
    /\ WriterHasWork

\* What the framer and the policy keep.
FramerInv ==
    /\ received \in [Sides -> Nat]
    /\ held \in [Sides -> Nat]
    /\ streaming \in [Sides -> BOOLEAN]
    /\ transparent \in BOOLEAN
    /\ setup \in BOOLEAN
    /\ deferred \in Nat
    /\ descriptors \in [Sides -> SUBSET Nat]
    /\ whole \in BOOLEAN
    /\ torn \in BOOLEAN
    /\ changes \in Nat
    /\ \A s \in Sides : IsFiniteSet(descriptors[s])
    /\ HeldIsShort
    /\ DeferredNeedsChange
    /\ WholeUnlessStreaming
    /\ TornOnlyOpaque

\* The inductive invariant.
IInv == QueueInv /\ FramerInv /\ LimitNeedsChange /\ DeferredWaits

-----------------------------------------------------------------------------
(* Writing.                                                                *)

LEMMA OtherSide ==
    \A s \in Sides : Other(s) \in Sides /\ Other(Other(s)) = s
BY DEF Sides, Other

\* Writing part of the first packet leaves a queue of packets.
LEMMA WrittenType ==
    ASSUME NEW packets \in Seq(Packet), packets # <<>>,
           \A i \in 1..Len(packets) : IsFiniteSet(packets[i].descriptors),
           NEW n \in 1..Length(Head(packets))
    PROVE  /\ Written(packets, n) \in Seq(Packet)
           /\ \A i \in 1..Len(Written(packets, n)) :
                 IsFiniteSet(Written(packets, n)[i].descriptors)
           /\ FromPeer(Head(packets), n) \in Nat
           /\ IsFiniteSet(Head(packets).descriptors)
<1> DEFINE first == Head(packets)
           rest == Tail(packets)
           left == Remainder(first, n)
<1>1. first \in Packet /\ rest \in Seq(Packet) /\ Len(packets) >= 1
  OBVIOUS
<1>2. IsFiniteSet(first.descriptors)
  BY <1>1
<1>3. \A i \in 1..Len(rest) : IsFiniteSet(rest[i].descriptors)
  <2> TAKE i \in 1..Len(rest)
  <2>1. i + 1 \in 1..Len(packets) /\ rest[i] = packets[i + 1]
    OBVIOUS
  <2> QED BY <2>1
<1>4. left \in Packet /\ left.descriptors = {}
  BY <1>1 DEF Remainder, Packet, Length
<1>5. FromPeer(first, n) \in Nat
  BY <1>1 DEF FromPeer, Packet, Length
<1>6. CASE n = Length(first)
  <2>1. Written(packets, n) = rest
    BY <1>6 DEF Written
  <2> QED BY <2>1, <1>1, <1>2, <1>3, <1>5
<1>7. CASE n # Length(first)
  <2>1. Written(packets, n) = <<left>> \o rest
    BY <1>7 DEF Written
  <2>2. <<left>> \o rest \in Seq(Packet)
    BY <1>1, <1>4
  <2>3. \A i \in 1..Len(<<left>> \o rest) :
            IsFiniteSet((<<left>> \o rest)[i].descriptors)
    <3> TAKE i \in 1..Len(<<left>> \o rest)
    <3>1. CASE i = 1
      <4>1. (<<left>> \o rest)[1] = left
        BY <1>1, <1>4
      <4> QED BY <3>1, <4>1, <1>4, FS_EmptySet
    <3>2. CASE i # 1
      <4>1. i - 1 \in 1..Len(rest) /\ (<<left>> \o rest)[i] = rest[i - 1]
        BY <3>2, <1>1, <1>4
      <4> QED BY <4>1, <1>3
    <3> QED BY <3>1, <3>2
  <2> QED BY <2>1, <2>2, <2>3, <1>2, <1>5
<1> QED BY <1>6, <1>7

\* Appending a packet leaves a queue of packets.
LEMMA AppendType ==
    ASSUME NEW packets \in Seq(Packet), NEW packet \in Packet,
           \A i \in 1..Len(packets) : IsFiniteSet(packets[i].descriptors),
           IsFiniteSet(packet.descriptors)
    PROVE  /\ Append(packets, packet) \in Seq(Packet)
           /\ Append(packets, packet) # <<>>
           /\ \A i \in 1..Len(Append(packets, packet)) :
                 IsFiniteSet(Append(packets, packet)[i].descriptors)
           /\ packets = <<>> => Head(Append(packets, packet)) = packet
<1>1. \A i \in 1..Len(Append(packets, packet)) :
          IsFiniteSet(Append(packets, packet)[i].descriptors)
  <2> TAKE i \in 1..Len(Append(packets, packet))
  <2>1. CASE i = Len(packets) + 1
    BY <2>1
  <2>2. CASE i # Len(packets) + 1
    BY <2>2
  <2> QED BY <2>1, <2>2
<1>2. Append(packets, packet) \in Seq(Packet)
  OBVIOUS
<1>3. Append(packets, packet) # <<>>
  OBVIOUS
<1>4. packets = <<>> => Head(Append(packets, packet)) = packet
  OBVIOUS
<1> QED BY <1>1, <1>2, <1>3, <1>4

\* The notifiers and the reason after refresh().
LEMMA RefreshStep ==
    ASSUME QueueInv, Refresh,
           queue' \in [Sides -> Seq(Packet)], queuedBytes' \in [Sides -> Int],
           eof' \in [Sides -> BOOLEAN]
    PROVE  /\ shutdown' \in [Sides -> BOOLEAN]
           /\ reader' \in [Sides -> BOOLEAN]
           /\ writer' \in [Sides -> BOOLEAN]
           /\ reason' \in {reason, "eof"}
           /\ ReaderHasRoom'
           /\ WriterHasWork'
<1>1. \A s \in Sides : Other(s) \in Sides
  BY OtherSide
<1>2. shutdown' \in [Sides -> BOOLEAN]
  BY <1>1 DEF Refresh, QueueInv
<1>3. reader' \in [Sides -> BOOLEAN]
  BY <1>1, ConstantsAssumption DEF Refresh, QueueLimit, BurstLimit
<1>4. writer' \in [Sides -> BOOLEAN]
  BY DEF Refresh
<1>5. ReaderHasRoom'
  BY <1>1 DEF Refresh, ReaderHasRoom, QueueLimit, BurstLimit
<1>6. WriterHasWork'
  BY DEF Refresh, WriterHasWork
<1>7. reason' \in {reason, "eof"}
  BY DEF Refresh
<1> QED BY <1>2, <1>3, <1>4, <1>5, <1>6, <1>7

\* A relay that finishes reads and writes no more.
LEMMA FinishStep ==
    ASSUME QueueInv, NEW why \in Reasons, Finish(why),
           UNCHANGED <<queues, eof>>
    PROVE  QueueInv' /\ reason' = why
BY OtherSide DEF QueueInv, Finish, queues, ReaderHasRoom, WriterHasWork

\* One send() to side s, of a queue and its counts as deliver() or the queue
\* itself has them.
LEMMA SendStep ==
    ASSUME QueueInv, NEW s \in Sides, NEW packets \in Seq(Packet), packets # <<>>,
           \A i \in 1..Len(packets) : IsFiniteSet(packets[i].descriptors),
           NEW bytes \in Int, NEW count \in Int,
           \/ \E n \in 1..Length(Head(packets)) :
                 SendSome(s, packets, bytes, count, n)
           \/ SendNothing(s, packets, bytes, count)
           \/ SendFails(s, packets, bytes, count)
    PROVE  QueueInv' /\ reason' \in {reason, "eof", "socket"}
<1>1. ASSUME NEW n \in 1..Length(Head(packets)),
             SendSome(s, packets, bytes, count, n)
      PROVE  QueueInv' /\ reason' \in {reason, "eof"}
  <2>1. /\ Written(packets, n) \in Seq(Packet)
        /\ \A i \in 1..Len(Written(packets, n)) :
              IsFiniteSet(Written(packets, n)[i].descriptors)
        /\ FromPeer(Head(packets), n) \in Nat
        /\ IsFiniteSet(Head(packets).descriptors)
    BY WrittenType
  <2>2. CountAfter(packets, count) \in Int
    BY <2>1, FS_CardinalityType DEF CountAfter
  <2>3. n \in Int
    BY DEF Packet, Length
  <2>4. /\ queue' \in [Sides -> Seq(Packet)]
        /\ queuedBytes' \in [Sides -> Int]
        /\ queuedDescriptors' \in [Sides -> Int]
        /\ eof' \in [Sides -> BOOLEAN]
    BY <1>1, <2>1, <2>2, <2>3 DEF SendSome, QueueInv
  <2>5. passed' \in [Sides -> Nat]
    BY <1>1, <2>1, OtherSide, SMTT(30) DEF SendSome, QueueInv
  <2>6. \A t \in Sides : \A i \in 1..Len(queue'[t]) :
            IsFiniteSet(queue'[t][i].descriptors)
    BY <1>1, <2>1 DEF SendSome, QueueInv
  <2>7. Refresh
    BY <1>1 DEF SendSome
  <2> QED BY <2>4, <2>5, <2>6, <2>7, RefreshStep DEF QueueInv, Reasons
<1>2. ASSUME SendNothing(s, packets, bytes, count)
      PROVE  QueueInv' /\ reason' \in {reason, "eof"}
  <2>1. /\ queue' \in [Sides -> Seq(Packet)]
        /\ queuedBytes' \in [Sides -> Int]
        /\ queuedDescriptors' \in [Sides -> Int]
        /\ passed' \in [Sides -> Nat]
        /\ eof' \in [Sides -> BOOLEAN]
    BY <1>2 DEF SendNothing, QueueInv
  <2>2. \A t \in Sides : \A i \in 1..Len(queue'[t]) :
            IsFiniteSet(queue'[t][i].descriptors)
    BY <1>2 DEF SendNothing, QueueInv
  <2>3. Refresh
    BY <1>2 DEF SendNothing
  <2> QED BY <2>1, <2>2, <2>3, RefreshStep DEF QueueInv, Reasons
<1>3. ASSUME SendFails(s, packets, bytes, count)
      PROVE  QueueInv' /\ reason' = "socket"
  <2>1. /\ queue' \in [Sides -> Seq(Packet)]
        /\ queuedBytes' \in [Sides -> Int]
        /\ queuedDescriptors' \in [Sides -> Int]
        /\ passed' \in [Sides -> Nat]
        /\ eof' \in [Sides -> BOOLEAN]
    BY <1>3 DEF SendFails, QueueInv
  <2>2. \A t \in Sides : \A i \in 1..Len(queue'[t]) :
            IsFiniteSet(queue'[t][i].descriptors)
    BY <1>3 DEF SendFails, QueueInv
  <2>3. /\ reason' = "socket"
        /\ reader' = [t \in Sides |-> FALSE]
        /\ writer' = [t \in Sides |-> FALSE]
        /\ shutdown' = shutdown
    BY <1>3 DEF SendFails, Finish
  <2>4. ReaderHasRoom' /\ WriterHasWork'
    BY <2>3 DEF ReaderHasRoom, WriterHasWork
  <2> QED BY <2>1, <2>2, <2>3, <2>4 DEF QueueInv, Reasons
<1> QED BY <1>1, <1>2, <1>3

\* deliver() keeps the queues' half, and finishes for the limit only when the
\* packet is longer than the room that is left.
LEMMA DeliverStep ==
    ASSUME QueueInv, NEW s \in Sides, NEW packet \in Packet,
           IsFiniteSet(packet.descriptors), Length(packet) # 0,
           Deliver(s, packet)
    PROVE  /\ QueueInv'
           /\ \/ reason' \in {reason, "eof", "socket"}
              \/ /\ reason' = "limit"
                 /\ Length(packet) > QueueLimit - queuedBytes[s]
<1> DEFINE packets == Append(queue[s], packet)
           bytes == queuedBytes[s] + Length(packet)
           count == queuedDescriptors[s] + Cardinality(packet.descriptors)
<1>1. CASE Finish("limit") /\ UNCHANGED <<queues, eof>>
           /\ Length(packet) > QueueLimit - queuedBytes[s]
  <2>1. "limit" \in Reasons
    BY DEF Reasons
  <2> QED BY <1>1, <2>1, FinishStep
<1>2. CASE \/ SendNothing(s, packets, bytes, count)
           \/ SendFails(s, packets, bytes, count)
           \/ /\ queue[s] = <<>>
              /\ \E n \in 1..Length(packet) :
                    SendSome(s, packets, bytes, count, n)
  <2>1. /\ packets \in Seq(Packet) /\ packets # <<>>
        /\ \A i \in 1..Len(packets) : IsFiniteSet(packets[i].descriptors)
        /\ queue[s] = <<>> => Head(packets) = packet
    BY AppendType DEF QueueInv
  <2>2. bytes \in Int
    BY DEF QueueInv, Packet, Length
  <2>3. count \in Int
    BY FS_CardinalityType DEF QueueInv
  <2> HIDE DEF packets, bytes, count
  <2>4. \/ \E n \in 1..Length(Head(packets)) :
              SendSome(s, packets, bytes, count, n)
        \/ SendNothing(s, packets, bytes, count)
        \/ SendFails(s, packets, bytes, count)
    BY <1>2, <2>1
  <2> QED BY <2>1, <2>2, <2>3, <2>4, SendStep
<1> QED BY <1>1, <1>2 DEF Deliver

-----------------------------------------------------------------------------
(* Reading.                                                                *)

LEMMA SizesType ==
    /\ BufferLimit \in Nat /\ ReadSize \in Nat
    /\ 1 <= ReadSize /\ ReadSize <= BufferLimit
    /\ \A n \in 1..ReadSize : n \in Nat /\ 1 <= n /\ n <= ReadSize
BY ConstantsAssumption

\* What the framer guarantees of any chunk: h bytes are held after it and r are
\* released, and where none is, it waits for the end of a message.
Chunk(s, h, streams, r) ==
    /\ h \in Nat /\ h < BufferLimit
    /\ streams \in BOOLEAN
    /\ r \in Nat /\ r < BufferLimit + ReadSize
    /\ r = 0 => ~streams /\ ~streaming[s] /\ h # 0

LEMMA FramedType ==
    ASSUME FramerInv, NEW s \in Sides, NEW n \in 1..ReadSize,
           NEW after \in Framed(s, n)
    PROVE  Chunk(s, after.held, after.streaming, held[s] + n - after.held)
<1>1. held[s] \in Nat /\ held[s] < BufferLimit /\ streaming[s] \in BOOLEAN
  BY DEF FramerInv, HeldIsShort
<1>2. n \in Nat /\ 1 <= n /\ n <= ReadSize
  BY SizesType
<1>3. CASE after = [held |-> 0, streaming |-> TRUE]
  BY <1>1, <1>2, <1>3, SizesType DEF Chunk
<1>4. ASSUME NEW tail \in 0..(n - 1),
             after = [held |-> tail, streaming |-> FALSE]
      PROVE  Chunk(s, after.held, after.streaming, held[s] + n - after.held)
  <2>1. tail \in Nat /\ tail < n
    BY <1>2
  <2> QED BY <2>1, <1>1, <1>2, <1>4, SizesType DEF Chunk
<1>5. CASE /\ after = [held |-> held[s] + n, streaming |-> FALSE]
           /\ held[s] + n < BufferLimit
           /\ ~streaming[s]
  BY <1>1, <1>2, <1>5, SizesType DEF Chunk
<1> QED BY <1>1, <1>2, <1>3, <1>4, <1>5, SizesType DEF Framed

\* The descriptors of a chunk.
LEMMA FreshType ==
    ASSUME FramerInv, NEW s \in Sides, NEW n \in 1..ReadSize
    PROVE  Fresh(s, n) \in SUBSET Nat /\ IsFiniteSet(Fresh(s, n))
<1>1. received[s] \in Nat /\ n \in Nat
  BY ConstantsAssumption DEF FramerInv
<1>2. IsFiniteSet(received[s]..(received[s] + n - 1))
  BY <1>1, FS_Interval, SMTT(30)
<1>3. Fresh(s, n) \subseteq received[s]..(received[s] + n - 1)
  BY DEF Fresh
<1> QED BY <1>1, <1>2, <1>3, FS_Subset

\* One chunk on its way through the policy.
LEMMA PassStep ==
    ASSUME IInv, NEW s \in Sides, NEW n \in 1..ReadSize, NEW after,
           NEW ends \in BOOLEAN,
           Chunk(s, after.held, after.streaming, held[s] + n - after.held),
           reader[s],
           s = "server" /\ ~transparent' => ends = ~after.streaming,
           transparent' \in BOOLEAN, transparent => transparent',
           setup' \in BOOLEAN,
           received' = [received EXCEPT ![s] = @ + n],
           changes' = changes,
           Pass(s, n, Fresh(s, n), after, ends)
    PROVE  IInv'
<1> DEFINE h == after.held
           m == after.streaming
           r == Released(s, n, after)
           all == descriptors[s] \cup Fresh(s, n)
<1>1. /\ Other(s) \in Sides /\ Other(Other(s)) = s
      /\ s = "server" \/ s = "client"
  BY OtherSide DEF Sides
<1>2. /\ r.bytes \in Nat /\ r.bytes < BufferLimit + ReadSize
      /\ r.events \in Nat /\ r.events \in {0, deferred}
      /\ r.bytes = 0 => ~m /\ ~streaming[s] /\ h # 0
      /\ h \in Nat /\ h < BufferLimit /\ m \in BOOLEAN
  BY DEF Released, Chunk, IInv, FramerInv
<1>3. r.events # 0 => s = "server" /\ h = 0 /\ ~m
  BY DEF Released
<1>4. s = "server" /\ deferred # 0 /\ r.events = 0 => h # 0 \/ m
  BY DEF Released
<1>5. all \in SUBSET Nat /\ IsFiniteSet(all)
  BY FreshType, FS_Union DEF IInv, FramerInv
<1>6. n \in Nat
  BY SizesType
<1>7. /\ held' = [held EXCEPT ![s] = h]
      /\ streaming' = [streaming EXCEPT ![s] = m]
      /\ deferred' = IF r.events # 0 THEN 0 ELSE deferred
      /\ whole' = IF s = "server" /\ r.bytes # 0 THEN ends ELSE whole
      /\ torn' = (torn \/ (r.events # 0 /\ ~whole'))
      /\ \/ /\ r.bytes + r.events = 0
            /\ descriptors' = [descriptors EXCEPT ![s] = all]
            /\ UNCHANGED <<queues, eof, notifiers>>
         \/ /\ r.bytes + r.events # 0
            /\ descriptors' = [descriptors EXCEPT ![s] = {}]
            /\ Deliver(Other(s), [bytes |-> r.bytes, events |-> r.events,
                                  descriptors |-> all])
  BY DEF Pass, Length
<1> HIDE DEF h, m, r, all
<1>8. /\ received' \in [Sides -> Nat]
      /\ held' \in [Sides -> Nat]
      /\ streaming' \in [Sides -> BOOLEAN]
      /\ deferred' \in Nat
      /\ whole' \in BOOLEAN
      /\ torn' \in BOOLEAN
      /\ changes' \in Nat
      /\ HeldIsShort'
      /\ DeferredNeedsChange'
  <2>1. /\ received' \in [Sides -> Nat]
        /\ held' \in [Sides -> Nat]
        /\ streaming' \in [Sides -> BOOLEAN]
    BY <1>2, <1>6, <1>7 DEF IInv, FramerInv
  <2>2. deferred' \in Nat /\ whole' \in BOOLEAN /\ torn' \in BOOLEAN
    BY <1>2, <1>7 DEF IInv, FramerInv
  <2>3. HeldIsShort'
    BY <1>2, <1>7, SizesType DEF IInv, FramerInv, HeldIsShort
  <2>4. changes' \in Nat /\ DeferredNeedsChange'
    BY <1>2, <1>7 DEF IInv, FramerInv, DeferredNeedsChange
  <2> QED BY <2>1, <2>2, <2>3, <2>4
<1>9. /\ descriptors' \in [Sides -> SUBSET Nat]
      /\ \A t \in Sides : IsFiniteSet(descriptors'[t])
  <2>1. descriptors' = [descriptors EXCEPT ![s] = all]
        \/ descriptors' = [descriptors EXCEPT ![s] = {}]
    BY <1>7
  <2> QED BY <2>1, <1>5, FS_EmptySet DEF IInv, FramerInv
<1>10. WholeUnlessStreaming'
  <2>1. CASE s = "server"
    <3>1. CASE r.bytes = 0
      <4>1. ~m /\ ~streaming[s] /\ whole' = whole
        BY <3>1, <1>2, <1>7
      <4> QED BY <2>1, <4>1 DEF WholeUnlessStreaming, IInv, FramerInv
    <3>2. CASE r.bytes # 0
      <4>1. whole' = ends /\ streaming'["server"] = m
        BY <2>1, <3>2, <1>7 DEF IInv, FramerInv
      <4>2. ~transparent' /\ ~m => ends
        BY <2>1 DEF m
      <4> QED BY <4>1, <4>2 DEF WholeUnlessStreaming
    <3> QED BY <3>1, <3>2
  <2>2. CASE s = "client"
    <3>1. whole' = whole /\ streaming'["server"] = streaming["server"]
      BY <2>2, <1>7 DEF IInv, FramerInv, Sides
    <3> QED BY <3>1 DEF WholeUnlessStreaming, IInv, FramerInv
  <2> QED BY <1>1, <2>1, <2>2
<1>11. TornOnlyOpaque'
  <2>1. CASE r.events # 0
    <3>1. s = "server" /\ ~m
      BY <2>1, <1>3
    <3>2. streaming'["server"] = FALSE
      BY <3>1, <1>7 DEF IInv, FramerInv, Sides
    <3>3. ~transparent' => whole'
      BY <3>2, <1>10 DEF WholeUnlessStreaming
    <3> QED BY <3>3, <1>7 DEF TornOnlyOpaque, IInv, FramerInv
  <2>2. CASE r.events = 0
    BY <2>2, <1>7 DEF TornOnlyOpaque, IInv, FramerInv
  <2> QED BY <2>1, <2>2
<1>12. FramerInv'
  BY <1>8, <1>9, <1>10, <1>11 DEF FramerInv
<1>13. deferred' # 0 => PendingFrame("server")'
  <2>1. CASE s = "server"
    <3>1. deferred' # 0 => r.events = 0 /\ deferred # 0
      BY <1>2, <1>7
    <3>2. held'["server"] = h /\ streaming'["server"] = m
      BY <2>1, <1>7 DEF IInv, FramerInv, Sides
    <3> QED BY <2>1, <3>1, <3>2, <1>4 DEF PendingFrame
  <2>2. CASE s = "client"
    <3>1. r.events = 0
      BY <2>2, <1>3
    <3>2. /\ held'["server"] = held["server"]
          /\ streaming'["server"] = streaming["server"]
          /\ deferred' = deferred
      BY <2>2, <3>1, <1>7 DEF IInv, FramerInv, Sides
    <3> QED BY <3>2 DEF PendingFrame, DeferredWaits, IInv
  <2> QED BY <1>1, <2>1, <2>2
<1>14. QueueInv' /\ LimitNeedsChange'
  <2>1. CASE UNCHANGED <<queues, eof, notifiers>>
    BY <2>1 DEF IInv, QueueInv, queues, notifiers, ReaderHasRoom, WriterHasWork,
                LimitNeedsChange
  <2>2. CASE /\ r.bytes + r.events # 0
             /\ Deliver(Other(s), [bytes |-> r.bytes, events |-> r.events,
                                   descriptors |-> all])
    <3> DEFINE room == QueueLimit - queuedBytes[Other(s)]
               packet == [bytes |-> r.bytes, events |-> r.events,
                          descriptors |-> all]
    <3>1. /\ packet \in Packet
          /\ IsFiniteSet(packet.descriptors)
          /\ Length(packet) = r.bytes + r.events
      BY <1>2, <1>5 DEF Packet, Length
    <3>2. Deliver(Other(s), packet)
      BY <2>2
    <3> HIDE DEF packet
    <3>3. /\ QueueInv'
          /\ \/ reason' \in {reason, "eof", "socket"}
             \/ /\ reason' = "limit"
                /\ Length(packet) > QueueLimit - queuedBytes[Other(s)]
      BY <2>2, <3>1, <3>2, <1>1, DeliverStep DEF IInv
    <3>4. room \in Int /\ room >= BufferLimit + ReadSize
      BY <1>1, SizesType
         DEF IInv, QueueInv, ReaderHasRoom, QueueLimit, BurstLimit
    <3>5. changes = 0 => r.events = 0
      BY <1>2 DEF IInv, FramerInv, DeferredNeedsChange
    <3> HIDE DEF room
    <3>6. changes = 0 => ~(Length(packet) > room)
      BY <3>1, <3>4, <3>5, <1>2, SizesType
    <3>7. changes \in Nat
      BY DEF IInv, FramerInv
    <3> QED BY <3>3, <3>6, <3>7 DEF LimitNeedsChange, IInv, room
  <2> QED BY <2>1, <2>2, <1>7
<1> QED BY <1>12, <1>13, <1>14 DEF IInv, DeferredWaits

-----------------------------------------------------------------------------
(* The steps.                                                              *)

\* Steps that leave the framer alone keep its half.
LEMMA FramerKept ==
    ASSUME IInv, UNCHANGED <<received, framer, whole, torn, changes>>
    PROVE  FramerInv' /\ DeferredWaits'
BY DEF IInv, FramerInv, framer, HeldIsShort, DeferredNeedsChange,
       WholeUnlessStreaming, TornOnlyOpaque, DeferredWaits, PendingFrame

\* Steps that finish the relay for a reason other than the limit.
LEMMA FinishKept ==
    ASSUME IInv, NEW why \in Reasons \ {"limit"}, Finish(why),
           UNCHANGED <<received, framer, queues, eof, whole, torn, changes>>
    PROVE  IInv'
<1>1. QueueInv' /\ reason' = why
  BY FinishStep DEF IInv
<1>2. FramerInv' /\ DeferredWaits'
  BY FramerKept
<1> QED BY <1>1, <1>2 DEF IInv, LimitNeedsChange

LEMMA ReceiveStep ==
    ASSUME IInv, NEW s \in Sides, Receive(s)
    PROVE  IInv'
<1>1. ASSUME NEW n \in 1..ReadSize, ReceiveFramed(s, n)
      PROVE  IInv'
  <2>1. PICK after \in Framed(s, n) :
            /\ setup' = (setup \/ (s = "server" /\ Released(s, n, after).bytes # 0))
            /\ Pass(s, n, Fresh(s, n), after, ~after.streaming)
    BY <1>1 DEF ReceiveFramed
  <2>2. Chunk(s, after.held, after.streaming, held[s] + n - after.held)
    BY FramedType DEF IInv
  <2>3. after.streaming \in BOOLEAN
    BY <2>2 DEF Chunk
  <2>4. /\ reader[s]
        /\ received' = [received EXCEPT ![s] = @ + n]
        /\ transparent' = transparent /\ changes' = changes
    BY <1>1 DEF ReceiveFramed, Reads, Readable
  <2>5. /\ transparent' \in BOOLEAN /\ setup' \in BOOLEAN
        /\ transparent => transparent'
    BY <2>1, <2>4 DEF IInv, FramerInv
  <2>6. (~after.streaming) \in BOOLEAN
    BY <2>3
  <2> QED BY <2>1, <2>2, <2>4, <2>5, <2>6, PassStep
<1>2. ASSUME NEW n \in 1..ReadSize, s = "client", ReceiveAmbiguous(n)
      PROVE  IInv'
  <2> DEFINE after == [held |-> 0, streaming |-> FALSE]
  <2>1. Chunk(s, after.held, after.streaming, held[s] + n - after.held)
    <3>1. held[s] \in Nat /\ held[s] < BufferLimit
      BY DEF IInv, FramerInv, HeldIsShort
    <3>2. n \in Nat /\ 1 <= n /\ n <= ReadSize
      BY SizesType
    <3> QED BY <3>1, <3>2, SizesType DEF Chunk
  <2>2. /\ reader[s]
        /\ received' = [received EXCEPT ![s] = @ + n]
        /\ transparent' = TRUE /\ changes' = changes /\ setup' = setup
        /\ Pass(s, n, Fresh(s, n), after, whole)
    BY <1>2 DEF ReceiveAmbiguous, Reads, Readable
  <2>3. whole \in BOOLEAN /\ setup' \in BOOLEAN
    BY <2>2 DEF IInv, FramerInv
  <2> HIDE DEF after
  <2> QED BY <2>1, <2>2, <2>3, <1>2, PassStep
<1>3. ASSUME NEW n \in 1..ReadSize, ReceiveTransparent(s, n)
      PROVE  IInv'
  <2> DEFINE after == [held |-> 0, streaming |-> streaming[s]]
  <2>1. PICK ends \in BOOLEAN : Pass(s, n, Fresh(s, n), after, ends)
    BY <1>3 DEF ReceiveTransparent
  <2>2. Chunk(s, after.held, after.streaming, held[s] + n - after.held)
    <3>1. held[s] \in Nat /\ held[s] < BufferLimit /\ streaming[s] \in BOOLEAN
      BY DEF IInv, FramerInv, HeldIsShort
    <3>2. n \in Nat /\ 1 <= n /\ n <= ReadSize
      BY SizesType
    <3> QED BY <3>1, <3>2, SizesType DEF Chunk
  <2>3. /\ reader[s]
        /\ received' = [received EXCEPT ![s] = @ + n]
        /\ transparent /\ transparent' = transparent
        /\ changes' = changes /\ setup' = setup
    BY <1>3 DEF ReceiveTransparent, Reads, Readable
  <2>4. setup' \in BOOLEAN /\ transparent' \in BOOLEAN
    BY <2>3 DEF IInv, FramerInv
  <2>5. ~(s = "server" /\ ~transparent')
    BY <2>3
  <2> HIDE DEF after
  <2> QED BY <2>1, <2>2, <2>3, <2>4, <2>5, PassStep
<1>4. ASSUME NEW n \in 1..ReadSize, ReceiveDescriptors(s, n)
      PROVE  IInv'
  BY <1>4, FinishKept DEF ReceiveDescriptors, Reasons
<1>5. ASSUME ReceiveEnd(s)
      PROVE  IInv'
  <2>1. CASE Finish("frame") /\ UNCHANGED eof
    <3>1. UNCHANGED <<received, framer, queues, eof, whole, torn, changes>>
      BY <1>5, <2>1 DEF ReceiveEnd
    <3> QED BY <2>1, <3>1, FinishKept DEF Reasons
  <2>2. CASE eof' = [eof EXCEPT ![s] = TRUE] /\ UNCHANGED queues /\ Refresh
    <3>1. FramerInv' /\ DeferredWaits'
      BY <1>5, FramerKept DEF ReceiveEnd
    <3>2. changes' = changes
      BY <1>5 DEF ReceiveEnd
    <3>3. /\ queue' = queue /\ queuedBytes' = queuedBytes
          /\ queuedDescriptors' = queuedDescriptors /\ passed' = passed
          /\ eof' \in [Sides -> BOOLEAN]
      BY <2>2 DEF queues, IInv, QueueInv
    <3>4. /\ shutdown' \in [Sides -> BOOLEAN]
          /\ reader' \in [Sides -> BOOLEAN]
          /\ writer' \in [Sides -> BOOLEAN]
          /\ reason' \in {reason, "eof"}
          /\ ReaderHasRoom'
          /\ WriterHasWork'
      BY <2>2, <3>3, RefreshStep DEF IInv, QueueInv
    <3>5. QueueInv'
      BY <3>3, <3>4 DEF IInv, QueueInv, Reasons
    <3> QED BY <3>1, <3>2, <3>4, <3>5 DEF IInv, LimitNeedsChange
  <2> QED BY <1>5, <2>1, <2>2 DEF ReceiveEnd
<1>6. ASSUME ReceiveFails(s)
      PROVE  IInv'
  BY <1>6, FinishKept DEF ReceiveFails, Reasons
<1> QED BY <1>1, <1>2, <1>3, <1>4, <1>5, <1>6 DEF Receive

LEMMA SendKept ==
    ASSUME IInv, NEW s \in Sides, Send(s)
    PROVE  IInv'
<1>1. writer[s] /\ UNCHANGED <<received, framer, whole, torn, changes>>
  BY DEF Send
<1>2. /\ queue[s] \in Seq(Packet) /\ queue[s] # <<>>
      /\ \A i \in 1..Len(queue[s]) : IsFiniteSet(queue[s][i].descriptors)
      /\ queuedBytes[s] \in Int /\ queuedDescriptors[s] \in Int
  BY <1>1 DEF IInv, QueueInv, WriterHasWork
<1>3. \/ \E n \in 1..Length(Head(queue[s])) :
            SendSome(s, queue[s], queuedBytes[s], queuedDescriptors[s], n)
      \/ SendNothing(s, queue[s], queuedBytes[s], queuedDescriptors[s])
      \/ SendFails(s, queue[s], queuedBytes[s], queuedDescriptors[s])
  BY DEF Send
<1>4. QueueInv' /\ reason' \in {reason, "eof", "socket"}
  BY <1>2, <1>3, SendStep DEF IInv
<1>5. FramerInv' /\ DeferredWaits' /\ changes' = changes
  BY <1>1, FramerKept
<1> QED BY <1>4, <1>5 DEF IInv, LimitNeedsChange

LEMMA ChangeDisplayKept ==
    ASSUME IInv, ChangeDisplay
    PROVE  IInv'
<1>1. /\ changes' = changes + 1 /\ ~transparent
      /\ UNCHANGED <<received, held, streaming, transparent, setup, descriptors,
                     whole>>
  BY DEF ChangeDisplay
<1>2. changes \in Nat /\ changes' \in Nat /\ changes' > 0
  BY <1>1 DEF IInv, FramerInv
<1>3. LimitNeedsChange' /\ DeferredNeedsChange'
  BY <1>2 DEF LimitNeedsChange, DeferredNeedsChange
<1>4. HeldIsShort' /\ WholeUnlessStreaming'
  BY <1>1 DEF HeldIsShort, WholeUnlessStreaming, IInv, FramerInv
<1>5. EventBytes \in Nat /\ EventBytes # 0
  BY ConstantsAssumption
<1>6. CASE UNCHANGED <<deferred, queues, eof, notifiers, torn>>
  <2>1. QueueInv'
    BY <1>6 DEF IInv, QueueInv, queues, notifiers, ReaderHasRoom, WriterHasWork
  <2>2. FramerInv' /\ DeferredWaits'
    BY <1>1, <1>2, <1>3, <1>4, <1>6
       DEF IInv, FramerInv, TornOnlyOpaque, DeferredWaits, PendingFrame
  <2> QED BY <2>1, <2>2, <1>3 DEF IInv
<1>7. CASE /\ PendingFrame("server")
           /\ deferred' = deferred + EventBytes
           /\ UNCHANGED <<queues, eof, notifiers, torn>>
  <2>1. QueueInv'
    BY <1>7 DEF IInv, QueueInv, queues, notifiers, ReaderHasRoom, WriterHasWork
  <2>2. deferred' \in Nat /\ DeferredWaits'
    BY <1>1, <1>5, <1>7 DEF IInv, FramerInv, DeferredWaits, PendingFrame
  <2>3. FramerInv'
    BY <1>1, <1>2, <1>3, <1>4, <1>7, <2>2 DEF IInv, FramerInv, TornOnlyOpaque
  <2> QED BY <2>1, <2>2, <2>3, <1>3 DEF IInv
<1>8. CASE /\ ~PendingFrame("server")
           /\ torn' = (torn \/ ~whole)
           /\ Deliver("client", [bytes |-> 0, events |-> EventBytes,
                                 descriptors |-> {}])
           /\ UNCHANGED deferred
  <2> DEFINE packet == [bytes |-> 0, events |-> EventBytes, descriptors |-> {}]
  <2>1. /\ packet \in Packet /\ IsFiniteSet(packet.descriptors)
        /\ Length(packet) # 0
    BY <1>5, FS_EmptySet DEF Packet, Length
  <2>2. QueueInv'
    <3>1. Deliver("client", packet) /\ "client" \in Sides
      BY <1>8 DEF Sides
    <3> HIDE DEF packet
    <3> QED BY <2>1, <3>1, DeliverStep DEF IInv
  <2>3. whole /\ torn' = torn
    BY <1>1, <1>8 DEF PendingFrame, IInv, FramerInv, WholeUnlessStreaming
  <2>4. FramerInv' /\ DeferredWaits'
    BY <1>1, <1>2, <1>3, <1>4, <1>8, <2>3
       DEF IInv, FramerInv, TornOnlyOpaque, DeferredWaits, PendingFrame
  <2> QED BY <2>2, <2>4, <1>3 DEF IInv
<1> QED BY <1>6, <1>7, <1>8 DEF ChangeDisplay

-----------------------------------------------------------------------------
(* The theorems.                                                           *)

LEMMA InitHolds == Init => IInv
<1> SUFFICES ASSUME Init PROVE IInv
  OBVIOUS
<1>1. <<>> \in Seq(Packet) /\ Len(<<>>) = 0
  OBVIOUS
<1>2. /\ queue = [s \in Sides |-> <<>>]
      /\ queuedBytes = [s \in Sides |-> 0]
      /\ queuedDescriptors = [s \in Sides |-> 0]
      /\ passed = [s \in Sides |-> 0]
      /\ held = [s \in Sides |-> 0]
      /\ descriptors = [s \in Sides |-> {}]
  BY DEF Init
<1>3. QueueInv
  <2>1. queue \in [Sides -> Seq(Packet)]
    BY <1>1, <1>2
  <2>2. /\ queuedBytes \in [Sides -> Int]
        /\ queuedDescriptors \in [Sides -> Int]
        /\ passed \in [Sides -> Nat]
    BY <1>2
  <2>3. /\ eof \in [Sides -> BOOLEAN] /\ shutdown \in [Sides -> BOOLEAN]
        /\ reader \in [Sides -> BOOLEAN] /\ writer \in [Sides -> BOOLEAN]
        /\ reason \in Reasons /\ WriterHasWork
    BY DEF Init, Reasons, WriterHasWork
  <2>4. \A s \in Sides : \A i \in 1..Len(queue[s]) :
            IsFiniteSet(queue[s][i].descriptors)
    <3>1. \A s \in Sides : queue[s] = <<>>
      BY <1>2
    <3> QED BY <3>1
  <2>5. ReaderHasRoom
    <3>1. \A s \in Sides : queuedBytes[Other(s)] = 0
      BY <1>2, OtherSide
    <3>2. 0 <= QueueLimit - BurstLimit
      BY SizesType DEF QueueLimit, BurstLimit
    <3> QED BY <3>1, <3>2 DEF ReaderHasRoom
  <2> QED BY <2>1, <2>2, <2>3, <2>4, <2>5 DEF QueueInv
<1>4. FramerInv
  <2>1. /\ received \in [Sides -> Nat] /\ held \in [Sides -> Nat]
        /\ streaming \in [Sides -> BOOLEAN]
        /\ descriptors \in [Sides -> SUBSET Nat]
    BY DEF Init
  <2>2. \A s \in Sides : IsFiniteSet(descriptors[s])
    BY <1>2, FS_EmptySet
  <2>3. HeldIsShort
    BY <1>2, SizesType DEF HeldIsShort
  <2> QED BY <2>1, <2>2, <2>3
          DEF Init, FramerInv, DeferredNeedsChange, WholeUnlessStreaming,
              TornOnlyOpaque
<1> QED BY <1>3, <1>4 DEF Init, IInv, LimitNeedsChange, DeferredWaits

LEMMA StepKeeps == IInv /\ [Next]_vars => IInv'
<1> SUFFICES ASSUME IInv, [Next]_vars PROVE IInv'
  OBVIOUS
<1>1. CASE UNCHANGED vars
  BY <1>1 DEF vars, framer, queues, notifiers, IInv, QueueInv, FramerInv,
              ReaderHasRoom, WriterHasWork, HeldIsShort, DeferredNeedsChange,
              WholeUnlessStreaming, TornOnlyOpaque, LimitNeedsChange,
              DeferredWaits, PendingFrame
<1>2. CASE Next
  BY <1>2, ReceiveStep, SendKept, ChangeDisplayKept DEF Next
<1> QED BY <1>1, <1>2

THEOREM Invariance == Spec => []IInv
BY InitHolds, StepKeeps, PTL DEF Spec

\* Every variable keeps its type, whatever the limits are.
THEOREM TypeCorrect == Spec => []TypeOK
<1>1. IInv => TypeOK
  BY DEF IInv, QueueInv, FramerInv, TypeOK
<1> QED BY <1>1, Invariance, PTL

\* No message, however it is split into reads, ends a connection for the queue's
\* limit: only one whose screen changed can end so.
THEOREM NoValidFrameReachesLimit == Spec => []LimitNeedsChange
<1>1. IInv => LimitNeedsChange
  BY DEF IInv
<1> QED BY <1>1, Invariance, PTL

\* send() never takes the front of an empty queue.
THEOREM WritesOnlyWhatWaits == Spec => []WriterHasWork
<1>1. IInv => WriterHasWork
  BY DEF IInv, QueueInv
<1> QED BY <1>1, Invariance, PTL

\* Events wait only for the end of a server's message that was begun.
THEOREM EventsWaitForMessage == Spec => []DeferredWaits
<1>1. IInv => DeferredWaits
  BY DEF IInv
<1> QED BY <1>1, Invariance, PTL

\* A client whose stream is read gets no event inside a server's message.
THEOREM NoEventInsideMessage == Spec => []TornOnlyOpaque
<1>1. IInv => TornOnlyOpaque
  BY DEF IInv, FramerInv
<1> QED BY <1>1, Invariance, PTL

-----------------------------------------------------------------------------
(* The byte streams.                                                       *)

\* Packets lie in their stream one behind the other, from a byte to another, and
\* no descriptor's byte lies before the packet that carries it.
Laid(packets, from, to) ==
    \E at \in [1..(Len(packets) + 1) -> Nat] :
        /\ at[1] = from /\ at[Len(packets) + 1] = to
        /\ \A i, j \in 1..(Len(packets) + 1) : i <= j => at[i] <= at[j]
        /\ \A i \in 1..Len(packets) :
               /\ at[i + 1] = at[i] + packets[i].bytes
               /\ \A d \in packets[i].descriptors : at[i] <= d

\* Every byte that was read was passed on, waits in the queue in its place, or is
\* held behind what waits; so are the descriptors.
InPlace ==
    \A s \in Sides :
        /\ Laid(queue[Other(s)], passed[s], received[s] - held[s])
        /\ \A d \in descriptors[s] : received[s] - held[s] <= d

\* A relay that finished does nothing, and no stream is read beyond its end.
Rests ==
    \A s \in Sides :
        /\ reader[s] => reason = "" /\ ~eof[s]
        /\ writer[s] => reason = ""

\* A stream ends between two messages.
EndsWhole ==
    \A s \in Sides : eof[s] => held[s] = 0 /\ ~streaming[s] /\ descriptors[s] = {}

\* A side is shut when it was given everything, and there is no more.
ShutAfterAll ==
    \A s \in Sides : shutdown[Other(s)] => eof[s] /\ passed[s] = received[s]

\* A relay ends for the end of both streams with nothing left to write.
DoneAfterAll == reason = "eof" => \A s \in Sides : eof[s] /\ queue[s] = <<>>

StreamInv ==
    /\ reason \in {"", "eof"} => InPlace
    /\ Rests /\ EndsWhole /\ ShutAfterAll /\ DoneAfterAll

\* Nothing lies where nothing is.
LEMMA LaidEmpty ==
    ASSUME NEW from \in Nat, NEW to
    PROVE  Laid(<<>>, from, to) <=> from = to
<1>1. ASSUME Laid(<<>>, from, to)
      PROVE  from = to
  BY <1>1 DEF Laid
<1>2. ASSUME from = to
      PROVE  Laid(<<>>, from, to)
  <2> DEFINE at == [i \in 1..1 |-> from]
  <2>1. Len(<<>>) + 1 = 1 /\ 1..Len(<<>>) = {}
    OBVIOUS
  <2>2. at \in [1..1 -> Nat] /\ at[1] = from
    OBVIOUS
  <2>3. \A i, j \in 1..1 : at[i] <= at[j]
    BY <2>2
  <2> HIDE DEF at
  <2> QED BY <1>2, <2>1, <2>2, <2>3 DEF Laid
<1> QED BY <1>1, <1>2

\* What waits lies between what was passed on and what is not queued yet.
LEMMA LaidBounds ==
    ASSUME NEW packets \in Seq(Packet), NEW from, NEW to, Laid(packets, from, to)
    PROVE  /\ from \in Nat /\ to \in Nat /\ from <= to
           /\ \A i \in 1..Len(packets) : \A d \in packets[i].descriptors : d \in Nat /\ from <= d
<1>1. PICK at \in [1..(Len(packets) + 1) -> Nat] :
          /\ at[1] = from /\ at[Len(packets) + 1] = to
          /\ \A i, j \in 1..(Len(packets) + 1) : i <= j => at[i] <= at[j]
          /\ \A i \in 1..Len(packets) :
                 /\ at[i + 1] = at[i] + packets[i].bytes
                 /\ \A d \in packets[i].descriptors : at[i] <= d
  BY DEF Laid
<1>2. 1 \in 1..(Len(packets) + 1) /\ Len(packets) + 1 \in 1..(Len(packets) + 1)
  OBVIOUS
<1>3. ASSUME NEW i \in 1..Len(packets), NEW d \in packets[i].descriptors
      PROVE  d \in Nat /\ from <= d
  <2>1. i \in 1..(Len(packets) + 1) /\ 1 <= i
    OBVIOUS
  <2>2. packets[i] \in Packet
    OBVIOUS
  <2>3. d \in Nat
    BY <2>2 DEF Packet
  <2>4. at[1] <= at[i] /\ at[i] <= d /\ at[i] \in Nat /\ at[1] \in Nat
    BY <1>1, <1>2, <2>1
  <2> QED BY <1>1, <2>3, <2>4
<1> QED BY <1>1, <1>2, <1>3

\* A packet put behind the others carries on from where they end.
LEMMA LaidAppend ==
    ASSUME NEW packets \in Seq(Packet), NEW from, NEW to, Laid(packets, from, to),
           NEW packet \in Packet, \A d \in packet.descriptors : to <= d
    PROVE  Laid(Append(packets, packet), from, to + packet.bytes)
<1> DEFINE count == Len(packets)
           longer == Append(packets, packet)
<1>1. PICK at \in [1..(count + 1) -> Nat] :
          /\ at[1] = from /\ at[count + 1] = to
          /\ \A i, j \in 1..(count + 1) : i <= j => at[i] <= at[j]
          /\ \A i \in 1..count :
                 /\ at[i + 1] = at[i] + packets[i].bytes
                 /\ \A d \in packets[i].descriptors : at[i] <= d
  BY DEF Laid
<1>2. /\ count \in Nat /\ Len(longer) = count + 1 /\ longer[count + 1] = packet
      /\ \A i \in 1..count : longer[i] = packets[i]
  OBVIOUS
<1>3. packet.bytes \in Nat
  BY DEF Packet
<1> DEFINE next == [i \in 1..(count + 2) |-> IF i = count + 2 THEN to + packet.bytes ELSE at[i]]
<1> HIDE DEF count, longer
<1>4. to \in Nat
  BY <1>1, <1>2
<1>5. next \in [1..(count + 2) -> Nat]
  <2>1. ASSUME NEW i \in 1..(count + 2), i # count + 2
        PROVE  at[i] \in Nat
    <3>1. i \in 1..(count + 1)
      BY <1>2, <2>1
    <3> QED BY <1>1, <3>1
  <2> QED BY <1>3, <1>4, <2>1
<1>6. /\ \A i \in 1..(count + 1) : next[i] = at[i] /\ at[i] \in Nat
      /\ next[count + 2] = to + packet.bytes
  BY <1>1, <1>2
<1> HIDE DEF next
<1>7. ASSUME NEW i \in 1..(count + 2), NEW j \in 1..(count + 2), i <= j
      PROVE  next[i] <= next[j]
  <2>1. CASE j = count + 2 /\ i = count + 2
    BY <1>3, <1>4, <1>6, <2>1
  <2>2. CASE j = count + 2 /\ i # count + 2
    <3>1. i \in 1..(count + 1) /\ i <= count + 1 /\ count + 1 \in 1..(count + 1)
      BY <1>2, <2>2
    <3>2. at[i] <= to
      BY <1>1, <3>1
    <3> QED BY <1>3, <1>4, <1>6, <2>2, <3>1, <3>2
  <2>3. CASE j # count + 2
    <3>1. i \in 1..(count + 1) /\ j \in 1..(count + 1)
      BY <1>2, <1>7, <2>3
    <3> QED BY <1>1, <1>6, <1>7, <3>1
  <2> QED BY <2>1, <2>2, <2>3
<1>8. ASSUME NEW i \in 1..(count + 1)
      PROVE  /\ next[i + 1] = next[i] + longer[i].bytes
             /\ \A d \in longer[i].descriptors : next[i] <= d
  <2>1. CASE i = count + 1
    <3>1. next[i] = to /\ next[i + 1] = to + packet.bytes
      <4>1. i + 1 = count + 2
        BY <1>2, <2>1
      <4> QED BY <1>1, <1>6, <2>1, <4>1
    <3> QED BY <1>2, <2>1, <3>1
  <2>2. CASE i # count + 1
    <3>1. i \in 1..count /\ i + 1 \in 1..(count + 1)
      BY <1>2, <2>2
    <3> QED BY <1>1, <1>2, <1>6, <3>1
  <2> QED BY <2>1, <2>2
<1>9. next[1] = from /\ next[count + 2] = to + packet.bytes
  <2>1. 1 \in 1..(count + 1)
    BY <1>2
  <2> QED BY <1>1, <1>6, <2>1
<1>10. Len(longer) + 1 = count + 2
  BY <1>2
<1>11. \E f \in [1..(Len(longer) + 1) -> Nat] :
          /\ f[1] = from /\ f[Len(longer) + 1] = to + packet.bytes
          /\ \A i, j \in 1..(Len(longer) + 1) : i <= j => f[i] <= f[j]
          /\ \A i \in 1..Len(longer) :
                 /\ f[i + 1] = f[i] + longer[i].bytes
                 /\ \A d \in longer[i].descriptors : f[i] <= d
  BY <1>2, <1>5, <1>7, <1>8, <1>9, <1>10
<1> QED BY <1>11 DEF Laid, longer

\* Writing of the first packet leaves the others where they are.
LEMMA LaidWritten ==
    ASSUME NEW packets \in Seq(Packet), packets # <<>>, NEW from, NEW to,
           Laid(packets, from, to), NEW n \in 1..Length(Head(packets))
    PROVE  /\ Laid(Written(packets, n), from + FromPeer(Head(packets), n), to)
           /\ FromPeer(Head(packets), n) \in Nat
           /\ from + FromPeer(Head(packets), n) <= to
<1> DEFINE count == Len(packets)
           first == Head(packets)
           rest == Tail(packets)
           left == Remainder(first, n)
           gone == FromPeer(first, n)
<1>1. PICK at \in [1..(count + 1) -> Nat] :
          /\ at[1] = from /\ at[count + 1] = to
          /\ \A i, j \in 1..(count + 1) : i <= j => at[i] <= at[j]
          /\ \A i \in 1..count :
                 /\ at[i + 1] = at[i] + packets[i].bytes
                 /\ \A d \in packets[i].descriptors : at[i] <= d
  BY DEF Laid
<1>2. /\ count \in Nat /\ count >= 1 /\ first = packets[1] /\ first \in Packet
      /\ rest \in Seq(Packet) /\ Len(rest) = count - 1
      /\ \A i \in 1..(count - 1) : rest[i] = packets[i + 1]
  OBVIOUS
<1>3. first.bytes \in Nat /\ first.events \in Nat
  BY <1>2 DEF Packet
<1>4. n \in Nat /\ n >= 1 /\ n <= first.bytes + first.events
  BY <1>3 DEF Length
<1>5. /\ left \in Packet /\ left.descriptors = {}
      /\ gone \in Nat /\ gone + left.bytes = first.bytes
      /\ n = Length(first) => gone = first.bytes
  <2> HIDE DEF first
  <2>1. left.descriptors = {} /\ left.bytes = IF n < first.bytes THEN first.bytes - n ELSE 0
    BY DEF Remainder
  <2>2. left \in Packet
    <3> DEFINE bytes == IF n < first.bytes THEN first.bytes - n ELSE 0
               events == IF n > first.bytes THEN Length(first) - n ELSE first.events
    <3>1. bytes \in Nat /\ events \in Nat
      <4>1. n < first.bytes => first.bytes - n \in Nat
        BY <1>3, <1>4
      <4>2. Length(first) - n \in Nat
        BY <1>3, <1>4 DEF Length
      <4> QED BY <1>3, <4>1, <4>2
    <3>2. left = [bytes |-> bytes, events |-> events, descriptors |-> {}]
      BY DEF Remainder
    <3> HIDE DEF left, bytes, events
    <3> QED BY <3>1, <3>2 DEF Packet
  <2>3. gone \in Nat /\ gone + left.bytes = first.bytes
    BY <1>3, <1>4, <2>1 DEF FromPeer
  <2>4. n = Length(first) => gone = first.bytes
    BY <1>3, <1>4 DEF FromPeer, Length
  <2> QED BY <2>1, <2>2, <2>3, <2>4
<1>6. /\ 1 \in 1..(count + 1) /\ 2 \in 1..(count + 1) /\ count + 1 \in 1..(count + 1)
      /\ 1 \in 1..count
  BY <1>2
<1>7. at[2] = from + first.bytes /\ at[2] <= to /\ from \in Nat /\ to \in Nat
  <2>1. at[1 + 1] = at[1] + packets[1].bytes
    BY <1>1, <1>6
  <2>2. at[2] <= at[count + 1]
    BY <1>1, <1>2, <1>6
  <2> QED BY <1>1, <1>2, <1>6, <2>1, <2>2
<1>8. CASE n = Length(first)
  <2>1. Written(packets, n) = rest /\ gone = first.bytes
    BY <1>5, <1>8 DEF Written
  <2> DEFINE next == [i \in 1..count |-> at[i + 1]]
  <2> HIDE DEF count, first, rest, left, gone
  <2>2. /\ next \in [1..count -> Nat] /\ \A i \in 1..count : next[i] = at[i + 1]
    <3>1. \A i \in 1..count : i + 1 \in 1..(count + 1)
      BY <1>2
    <3> QED BY <1>1, <3>1
  <2> HIDE DEF next
  <2>3. ASSUME NEW i \in 1..count, NEW j \in 1..count, i <= j
        PROVE  next[i] <= next[j]
    <3>1. i + 1 \in 1..(count + 1) /\ j + 1 \in 1..(count + 1) /\ i + 1 <= j + 1
      BY <1>2, <2>3
    <3> QED BY <1>1, <2>2, <3>1
  <2>4. ASSUME NEW i \in 1..Len(rest)
        PROVE  /\ next[i + 1] = next[i] + rest[i].bytes
               /\ \A d \in rest[i].descriptors : next[i] <= d
    <3>1. i \in 1..count /\ i + 1 \in 1..count /\ i \in 1..(count - 1)
      BY <1>2
    <3> QED BY <1>1, <1>2, <2>2, <3>1
  <2>5. next[1] = from + gone /\ next[count] = to
    <3>1. count \in 1..count
      BY <1>2
    <3> QED BY <1>1, <1>2, <1>6, <1>7, <2>1, <2>2, <3>1
  <2>6. Len(rest) + 1 = count
    BY <1>2
  <2>7. Laid(rest, from + gone, to)
    BY <2>2, <2>3, <2>4, <2>5, <2>6 DEF Laid
  <2> QED BY <1>5, <1>7, <2>1, <2>7 DEF gone, first
<1>9. CASE n # Length(first)
  <2> DEFINE shorter == <<left>> \o rest
  <2>1. Written(packets, n) = shorter
    BY <1>9 DEF Written
  <2>2. /\ Len(shorter) = count /\ shorter[1] = left
        /\ \A i \in 2..count : shorter[i] = packets[i]
    <3>1. left \in Packet /\ rest \in Seq(Packet) /\ Len(rest) = count - 1
      BY <1>2, <1>5
    <3> HIDE DEF left
    <3>2. \A i \in 2..count : shorter[i] = rest[i - 1]
      BY <1>2, <3>1
    <3> QED BY <1>2, <3>1, <3>2
  <2> DEFINE next == [i \in 1..(count + 1) |-> IF i = 1 THEN from + gone ELSE at[i]]
  <2> HIDE DEF count, first, rest, left, gone, shorter
  <2>3. /\ next \in [1..(count + 1) -> Nat] /\ next[1] = from + gone
        /\ \A i \in 2..(count + 1) : next[i] = at[i] /\ at[i] \in Nat
    <3>1. \A i \in 2..(count + 1) : i \in 1..(count + 1) /\ i # 1
      BY <1>2
    <3> QED BY <1>1, <1>5, <1>6, <1>7, <3>1, SMTT(30)
  <2> HIDE DEF next
  <2>4. ASSUME NEW i \in 1..(count + 1), NEW j \in 1..(count + 1), i <= j
        PROVE  next[i] <= next[j]
    <3>1. CASE i # 1
      <4>1. i \in 2..(count + 1) /\ j \in 2..(count + 1)
        BY <1>2, <2>4, <3>1
      <4> QED BY <1>1, <2>3, <2>4, <4>1
    <3>2. CASE i = 1 /\ j = 1
      BY <1>5, <1>7, <2>3, <3>2
    <3>3. CASE i = 1 /\ j # 1
      <4>1. j \in 2..(count + 1) /\ 2 <= j
        BY <1>2, <3>3
      <4>2. at[2] <= at[j]
        BY <1>1, <1>6, <4>1
      <4>3. at[j] \in Nat /\ next[j] = at[j]
        BY <2>3, <4>1
      <4> QED BY <1>3, <1>5, <1>7, <2>3, <3>3, <4>2, <4>3, SMTT(30) DEF Packet
    <3> QED BY <3>1, <3>2, <3>3
  <2>5. ASSUME NEW i \in 1..count
        PROVE  /\ next[i + 1] = next[i] + shorter[i].bytes
               /\ \A d \in shorter[i].descriptors : next[i] <= d
    <3>1. CASE i = 1
      <4>1. next[2] = at[2]
        BY <1>2, <2>3
      <4>2. left.bytes \in Nat /\ first.bytes \in Nat
        BY <1>3, <1>5 DEF Packet
      <4>3. next[2] = from + first.bytes /\ next[1] = from + gone
        BY <1>7, <2>3, <4>1
      <4> DEFINE size == left.bytes
                 all == first.bytes
      <4>4. size \in Nat /\ all \in Nat /\ gone \in Nat /\ gone + size = all /\ from \in Nat
        BY <1>5, <1>7, <4>2
      <4> HIDE DEF size, all
      <4>5. from + all = from + gone + size
        BY <4>4
      <4>6. next[2] = next[1] + left.bytes
        BY <4>3, <4>5 DEF size, all
      <4>7. i + 1 = 2 /\ shorter[i] = left
        BY <2>2, <3>1
      <4> QED BY <1>5, <3>1, <4>6, <4>7
    <3>2. CASE i # 1
      <4>1. i \in 2..count /\ i \in 2..(count + 1) /\ i + 1 \in 2..(count + 1)
        BY <1>2, <3>2
      <4> QED BY <1>1, <2>2, <2>3, <4>1
    <3> QED BY <3>1, <3>2
  <2>6. next[count + 1] = to
    <3>1. count + 1 \in 2..(count + 1)
      BY <1>2
    <3> QED BY <1>1, <2>3, <3>1
  <2>7. Laid(shorter, from + gone, to)
    BY <2>2, <2>3, <2>4, <2>5, <2>6 DEF Laid
  <2>8. from + gone <= to
    <3>1. left.bytes \in Nat
      BY <1>5 DEF Packet
    <3> QED BY <1>3, <1>5, <1>7, <3>1
  <2> QED BY <1>5, <2>1, <2>7, <2>8 DEF gone, first
<1> QED BY <1>8, <1>9

\* What a step may do to the streams: take and give in order, until it finishes.
Advance ==
    /\ reason = ""
    /\ \A s \in Sides :
          /\ received'[s] >= received[s]
          /\ eof[s] => eof'[s] /\ received'[s] = received[s]
          /\ passed'[s] \in passed[s]..received'[s]
          /\ shutdown[Other(s)] => shutdown'[Other(s)]
    /\ reason' = "eof" => \A s \in Sides : shutdown'[Other(s)]

\* No count falls, and nothing is received of a stream that ended.
Onward ==
    \A s \in Sides :
        /\ received'[s] >= received[s] /\ passed'[s] >= passed[s]
        /\ eof[s] => eof'[s] /\ received'[s] = received[s]

\* What was shut has everything still.
ShutStill ==
    \A s \in Sides : shutdown[Other(s)] => eof'[s] /\ passed'[s] = received'[s]

\* Counts, held bytes and orders among them.
LEMMA Kept ==
    ASSUME NEW given \in Nat, NEW taken \in Nat, NEW kept \in Nat
    PROVE  /\ given <= taken - kept => given <= taken
           /\ kept = 0 /\ given = taken - kept => given = taken
OBVIOUS

LEMMA Between ==
    ASSUME NEW a \in Nat, NEW b \in Nat, NEW c \in Nat, a <= b, b <= c
    PROVE  b \in a..c /\ a <= c /\ (c = a => b = c)
OBVIOUS

\* refresh() with every stream in its place keeps the streams' invariant.
LEMMA RefreshStream ==
    ASSUME IInv', reason = "", Refresh, InPlace', EndsWhole',
           ShutStill
    PROVE  /\ StreamInv'
           /\ \A s \in Sides : shutdown[Other(s)] => shutdown'[Other(s)]
           /\ reason' = "eof" => \A s \in Sides : shutdown'[Other(s)]
<1>1. /\ shutdown' = [s \in Sides |-> shutdown[s] \/ (eof'[Other(s)] /\ queue'[s] = <<>>)]
      /\ reader' = [s \in Sides |->
            ~eof'[s] /\ queuedBytes'[Other(s)] <= QueueLimit - BurstLimit]
      /\ writer' = [s \in Sides |-> queue'[s] # <<>>]
      /\ reason' = IF \A s \in Sides : eof'[s] /\ queue'[s] = <<>> THEN "eof" ELSE reason
  BY DEF Refresh
<1>2. \A s \in Sides : Other(s) \in Sides /\ Other(Other(s)) = s
  BY OtherSide
<1>3. DoneAfterAll'
  BY <1>1 DEF DoneAfterAll
<1>4. Rests'
  <2>1. ASSUME NEW s \in Sides, reader'[s]
        PROVE  reason' = "" /\ ~eof'[s]
    BY <1>1, <2>1
  <2>2. ASSUME NEW s \in Sides, writer'[s]
        PROVE  reason' = ""
    BY <1>1, <2>2
  <2> QED BY <2>1, <2>2 DEF Rests
<1>5. ShutAfterAll'
  <2> SUFFICES ASSUME NEW s \in Sides, shutdown'[Other(s)]
               PROVE  eof'[s] /\ passed'[s] = received'[s]
    BY DEF ShutAfterAll
  <2>1. CASE shutdown[Other(s)]
    BY <2>1 DEF ShutStill
  <2>2. CASE eof'[s] /\ queue'[Other(s)] = <<>>
    <3>1. Laid(<<>>, passed'[s], received'[s] - held'[s])
      BY <2>2 DEF InPlace
    <3>2. held'[s] = 0
      BY <2>2 DEF EndsWhole
    <3>3. received'[s] \in Nat /\ passed'[s] \in Nat /\ held'[s] \in Nat
      BY DEF IInv, QueueInv, FramerInv
    <3>4. passed'[s] = received'[s] - held'[s]
      BY <3>1, <3>3, LaidEmpty
    <3>5. passed'[s] = received'[s]
      BY <3>2, <3>3, <3>4, Kept
    <3> QED BY <2>2, <3>5
  <2>3. shutdown'[Other(s)] <=> shutdown[Other(s)] \/ (eof'[s] /\ queue'[Other(s)] = <<>>)
    BY <1>1, <1>2
  <2>4. shutdown[Other(s)] \/ (eof'[s] /\ queue'[Other(s)] = <<>>)
    BY <2>3
  <2> QED BY <2>1, <2>2, <2>4
<1>6. \A s \in Sides : shutdown[Other(s)] => shutdown'[Other(s)]
  BY <1>1, <1>2
<1>7. reason' = "eof" => \A s \in Sides : shutdown'[Other(s)]
  BY <1>1, <1>2
<1> QED BY <1>3, <1>4, <1>5, <1>6, <1>7 DEF StreamInv

\* finish() for another reason than the end keeps what no longer moves.
LEMMA FinishStream ==
    ASSUME NEW why, why \notin {"", "eof"}, Finish(why), EndsWhole',
           ShutStill
    PROVE  /\ StreamInv'
           /\ \A s \in Sides : shutdown[Other(s)] => shutdown'[Other(s)]
           /\ reason' # "eof"
<1>1. /\ reason' = why
      /\ reader' = [s \in Sides |-> FALSE]
      /\ writer' = [s \in Sides |-> FALSE]
      /\ shutdown' = shutdown
  BY DEF Finish
<1>2. Rests'
  BY <1>1 DEF Rests
<1>3. DoneAfterAll'
  BY <1>1 DEF DoneAfterAll
<1>4. ShutAfterAll'
  BY <1>1 DEF ShutAfterAll, ShutStill
<1> QED BY <1>1, <1>2, <1>3, <1>4 DEF StreamInv

\* send() to one side leaves its queue in place, and the other side's alone.
LEMMA SendStream ==
    ASSUME IInv, NEW t \in Sides, NEW packets \in Seq(Packet), packets # <<>>,
           NEW to, Laid(packets, passed[Other(t)], to), NEW bytes, NEW count,
           \/ \E n \in 1..Length(Head(packets)) :
                 SendSome(t, packets, bytes, count, n)
           \/ SendNothing(t, packets, bytes, count)
           \/ SendFails(t, packets, bytes, count)
    PROVE  /\ Laid(queue'[t], passed'[Other(t)], to)
           /\ passed'[Other(t)] \in Nat
           /\ passed[Other(t)] <= passed'[Other(t)] /\ passed'[Other(t)] <= to
           /\ queue'[Other(t)] = queue[Other(t)] /\ passed'[t] = passed[t]
           /\ eof' = eof
           /\ Refresh \/ Finish("socket")
<1>0. /\ Other(t) \in Sides /\ Other(Other(t)) = t /\ Other(t) # t
      /\ queue \in [Sides -> Seq(Packet)] /\ passed \in [Sides -> Nat]
  BY OtherSide DEF IInv, QueueInv, Other, Sides
<1>1. passed[Other(t)] \in Nat /\ to \in Nat /\ passed[Other(t)] <= to
  BY LaidBounds
<1>2. ASSUME NEW n \in 1..Length(Head(packets)), SendSome(t, packets, bytes, count, n)
      PROVE  /\ Laid(queue'[t], passed'[Other(t)], to)
             /\ passed'[Other(t)] \in Nat
             /\ passed[Other(t)] <= passed'[Other(t)] /\ passed'[Other(t)] <= to
             /\ queue'[Other(t)] = queue[Other(t)] /\ passed'[t] = passed[t]
             /\ eof' = eof /\ Refresh
  <2> DEFINE gone == FromPeer(Head(packets), n)
  <2>1. /\ Laid(Written(packets, n), passed[Other(t)] + gone, to)
        /\ gone \in Nat /\ passed[Other(t)] + gone <= to
    BY LaidWritten
  <2> HIDE DEF gone
  <2>2. /\ queue' = [queue EXCEPT ![t] = Written(packets, n)]
        /\ passed' = [passed EXCEPT ![Other(t)] = @ + gone]
        /\ eof' = eof /\ Refresh
    BY <1>2 DEF SendSome, gone
  <2>3. /\ queue'[t] = Written(packets, n) /\ queue'[Other(t)] = queue[Other(t)]
        /\ passed'[Other(t)] = passed[Other(t)] + gone /\ passed'[t] = passed[t]
    BY <1>0, <2>2
  <2> QED BY <1>1, <2>1, <2>2, <2>3
<1>3. ASSUME SendNothing(t, packets, bytes, count) \/ SendFails(t, packets, bytes, count)
      PROVE  /\ Laid(queue'[t], passed'[Other(t)], to)
             /\ passed' = passed
             /\ queue'[Other(t)] = queue[Other(t)]
             /\ eof' = eof
             /\ Refresh \/ Finish("socket")
  <2>1. /\ queue' = [queue EXCEPT ![t] = packets]
        /\ passed' = passed /\ eof' = eof
        /\ Refresh \/ Finish("socket")
    BY <1>3 DEF SendNothing, SendFails
  <2>2. queue'[t] = packets /\ queue'[Other(t)] = queue[Other(t)]
    BY <1>0, <2>1
  <2> QED BY <2>1, <2>2
<1> QED BY <1>1, <1>2, <1>3

\* A step that takes and gives in order, and then refreshes the notifiers, leaves
\* them alone or finishes the relay, is one of a byte stream.
LEMMA StreamStep ==
    ASSUME IInv, IInv', StreamInv, reason = "", EndsWhole',
           Onward,
           \/ InPlace' /\ (Refresh \/ (eof' = eof /\ UNCHANGED notifiers))
           \/ /\ InPlace' \/ passed' = passed
              /\ \E why : why \notin {"", "eof"} /\ Finish(why)
    PROVE  StreamInv' /\ Advance
<1>1. ASSUME NEW s \in Sides
      PROVE  /\ passed[s] \in Nat /\ passed'[s] \in Nat /\ received'[s] \in Nat
             /\ passed[s] <= passed'[s] /\ passed'[s] <= received'[s]
             /\ shutdown[Other(s)] => eof'[s] /\ passed'[s] = received'[s]
  <2>1. /\ received[s] \in Nat /\ passed[s] \in Nat /\ held[s] \in Nat
        /\ received'[s] \in Nat /\ passed'[s] \in Nat /\ held'[s] \in Nat
    BY OtherSide DEF IInv, QueueInv, FramerInv
  <2>q. queue[Other(s)] \in Seq(Packet) /\ queue'[Other(s)] \in Seq(Packet)
    BY OtherSide DEF IInv, QueueInv
  <2>2. /\ received[s] <= received'[s] /\ passed[s] <= passed'[s]
        /\ eof[s] => eof'[s] /\ received'[s] = received[s]
    BY <2>1 DEF Onward
  <2>3. passed'[s] <= received'[s]
    <3>1. CASE InPlace'
      <4>1. Laid(queue'[Other(s)], passed'[s], received'[s] - held'[s])
        BY <3>1 DEF InPlace
      <4>2. passed'[s] <= received'[s] - held'[s]
        BY <2>q, <4>1, LaidBounds
      <4> QED BY <2>1, <4>2, Kept
    <3>2. CASE passed' = passed
      <4>1. Laid(queue[Other(s)], passed[s], received[s] - held[s])
        BY DEF StreamInv, InPlace
      <4>2. passed[s] <= received[s] - held[s]
        BY <2>q, <4>1, LaidBounds
      <4>3. passed[s] <= received[s]
        BY <2>1, <4>2, Kept
      <4> QED BY <2>1, <2>2, <3>2, <4>3, Between
    <3> QED BY <3>1, <3>2
  <2>4. shutdown[Other(s)] => eof[s] /\ passed[s] = received[s]
    BY DEF StreamInv, ShutAfterAll
  <2>5. shutdown[Other(s)] => passed'[s] = received'[s]
    <3> HAVE shutdown[Other(s)]
    <3>1. received'[s] = passed[s]
      BY <2>2, <2>4
    <3>2. passed[s] <= passed'[s]
      BY <2>2
    <3> QED BY <2>1, <2>3, <3>1, <3>2, Between
  <2> QED BY <2>1, <2>2, <2>3, <2>4, <2>5
<1>2. ASSUME StreamInv',
             \A s \in Sides : shutdown[Other(s)] => shutdown'[Other(s)],
             reason' = "eof" => \A s \in Sides : shutdown'[Other(s)]
      PROVE  StreamInv' /\ Advance
  <2>1. \A s \in Sides : passed'[s] \in passed[s]..received'[s]
    BY <1>1, Between
  <2> QED BY <1>2, <2>1 DEF Advance, Onward
<1>s. ShutStill
  BY <1>1 DEF ShutStill
<1>3. CASE InPlace' /\ Refresh
  BY <1>2, <1>3, <1>s, RefreshStream
<1>4. CASE InPlace' /\ eof' = eof /\ UNCHANGED notifiers
  <2>1. /\ reason' = reason /\ reader' = reader /\ writer' = writer /\ shutdown' = shutdown
    BY <1>4 DEF notifiers
  <2>2. Rests' /\ ShutAfterAll' /\ DoneAfterAll'
    BY <1>4, <1>s, <2>1 DEF StreamInv, Rests, ShutAfterAll, DoneAfterAll, ShutStill
  <2>3. StreamInv'
    BY <1>4, <2>2 DEF StreamInv
  <2> QED BY <1>2, <2>1, <2>3
<1>5. CASE \E why : why \notin {"", "eof"} /\ Finish(why)
  BY <1>2, <1>5, <1>s, FinishStream
<1> QED BY <1>3, <1>4, <1>5

\* deliver() of a packet that carries on from its stream's end.
LEMMA DeliverStream ==
    ASSUME IInv, NEW s \in Sides, NEW to, Laid(queue[Other(s)], passed[s], to),
           NEW packet \in Packet, \A d \in packet.descriptors : to <= d,
           Length(packet) # 0, Deliver(Other(s), packet)
    PROVE  /\ eof' = eof
           /\ \/ passed' = passed /\ Finish("limit")
              \/ /\ Laid(queue'[Other(s)], passed'[s], to + packet.bytes)
                 /\ passed'[s] \in Nat /\ passed[s] <= passed'[s]
                 /\ queue'[s] = queue[s] /\ passed'[Other(s)] = passed[Other(s)]
                 /\ Refresh \/ Finish("socket")
<1> DEFINE t == Other(s)
           packets == Append(queue[t], packet)
           bytes == queuedBytes[t] + Length(packet)
           count == queuedDescriptors[t] + Cardinality(packet.descriptors)
<1>0. t \in Sides /\ Other(t) = s
  BY OtherSide
<1>1. /\ packets \in Seq(Packet) /\ packets # <<>>
      /\ queue[t] = <<>> => Head(packets) = packet
      /\ queue[t] \in Seq(Packet)
  <2>1. queue[t] \in Seq(Packet)
    BY <1>0 DEF IInv, QueueInv
  <2> HIDE DEF t
  <2>2. packets \in Seq(Packet) /\ packets # <<>>
    BY <2>1
  <2>3. queue[t] = <<>> => Head(packets) = packet
    BY <2>1
  <2> QED BY <2>1, <2>2, <2>3
<1>2. Laid(packets, passed[s], to + packet.bytes)
  BY <1>1, LaidAppend
<1>3. \/ Finish("limit") /\ UNCHANGED <<queues, eof>>
      \/ SendNothing(t, packets, bytes, count)
      \/ SendFails(t, packets, bytes, count)
      \/ /\ queue[t] = <<>>
         /\ \E n \in 1..Length(packet) : SendSome(t, packets, bytes, count, n)
  BY DEF Deliver
<1> DEFINE end == to + packet.bytes
<1>4. CASE Finish("limit") /\ UNCHANGED <<queues, eof>>
  BY <1>4 DEF queues
<1>5. CASE \/ SendNothing(t, packets, bytes, count)
           \/ SendFails(t, packets, bytes, count)
           \/ /\ queue[t] = <<>>
              /\ \E n \in 1..Length(packet) : SendSome(t, packets, bytes, count, n)
  <2>1. \/ \E n \in 1..Length(Head(packets)) : SendSome(t, packets, bytes, count, n)
        \/ SendNothing(t, packets, bytes, count)
        \/ SendFails(t, packets, bytes, count)
    BY <1>1, <1>5
  <2>2. Laid(packets, passed[Other(t)], end)
    BY <1>0, <1>2
  <2> HIDE DEF packets, bytes, count, end, t
  <2>3. /\ Laid(queue'[t], passed'[Other(t)], end)
        /\ passed'[Other(t)] \in Nat
        /\ passed[Other(t)] <= passed'[Other(t)] /\ passed'[Other(t)] <= end
        /\ queue'[Other(t)] = queue[Other(t)] /\ passed'[t] = passed[t]
        /\ eof' = eof
        /\ Refresh \/ Finish("socket")
    BY <1>0, <1>1, <2>1, <2>2, SendStream
  <2> QED BY <1>0, <2>3 DEF end, t
<1> QED BY <1>3, <1>4, <1>5

\* Where the part ends of what was read that is no longer held.
LEMMA Ends ==
    ASSUME NEW taken \in Nat, NEW kept \in Nat, NEW n \in Nat, NEW h \in Nat
    PROVE  /\ taken - kept + (kept + n - h) = taken + n - h
           /\ taken - kept \in Int
           /\ taken + n >= taken
           /\ \A d \in Nat : taken <= d => taken - kept <= d
OBVIOUS

\* One chunk on its way through the policy moves the streams on in order.
LEMMA PassStream ==
    ASSUME IInv, IInv', StreamInv, NEW s \in Sides, NEW n \in 1..ReadSize, NEW after,
           NEW ends,
           Chunk(s, after.held, after.streaming, held[s] + n - after.held),
           reader[s], received' = [received EXCEPT ![s] = @ + n],
           Pass(s, n, Fresh(s, n), after, ends)
    PROVE  StreamInv' /\ Advance
<1> DEFINE u == Other(s)
           h == after.held
           m == after.streaming
           r == Released(s, n, after)
           all == descriptors[s] \cup Fresh(s, n)
           to == received[s] - held[s]
<1>1. /\ u \in Sides /\ Other(u) = s /\ u # s
      /\ \A t \in Sides : t = s \/ t = u
  BY DEF Sides, Other
<1>2. reason = "" /\ ~eof[s]
  BY DEF StreamInv, Rests
<1>3. /\ received[s] \in Nat /\ held[s] \in Nat /\ n \in Nat /\ h \in Nat
      /\ received \in [Sides -> Nat] /\ held \in [Sides -> Nat]
      /\ streaming \in [Sides -> BOOLEAN] /\ descriptors \in [Sides -> SUBSET Nat]
  BY SizesType DEF IInv, FramerInv, Chunk
<1>4. /\ r.bytes = held[s] + n - h /\ r.bytes \in Nat
      /\ r.events \in Nat
      /\ r.bytes = 0 => h # 0
      /\ r.events # 0 => h = 0
  BY DEF Released, Chunk, IInv, FramerInv
<1>5. /\ held' = [held EXCEPT ![s] = h]
      /\ streaming' = [streaming EXCEPT ![s] = m]
      /\ \/ /\ r.bytes + r.events = 0
            /\ descriptors' = [descriptors EXCEPT ![s] = all]
            /\ UNCHANGED <<queues, eof, notifiers>>
         \/ /\ r.bytes + r.events # 0
            /\ descriptors' = [descriptors EXCEPT ![s] = {}]
            /\ Deliver(u, [bytes |-> r.bytes, events |-> r.events, descriptors |-> all])
  BY DEF Pass, Length
<1>6. InPlace
  BY <1>2 DEF StreamInv
<1>7. all \in SUBSET Nat /\ \A d \in all : to <= d
  <2>1. \A d \in descriptors[s] : to <= d
    BY <1>6 DEF InPlace
  <2>2. \A d \in Fresh(s, n) : d \in Nat /\ received[s] <= d
    <3> DEFINE base == received[s]
    <3>1. Fresh(s, n) \subseteq base..(base + n - 1) /\ Fresh(s, n) \subseteq Nat
      BY FreshType DEF Fresh, IInv
    <3>2. base \in Nat
      BY <1>3
    <3> HIDE DEF base
    <3>3. \A d \in base..(base + n - 1) : base <= d
      BY <1>3, <3>2
    <3> QED BY <3>1, <3>3 DEF base
  <2>3. \A d \in Fresh(s, n) : to <= d
    BY <1>3, <2>2, Ends
  <2> QED BY <1>3, <2>1, <2>2, <2>3
<1>8. /\ received'[s] = received[s] + n /\ received'[u] = received[u]
      /\ held'[s] = h /\ held'[u] = held[u]
      /\ to + r.bytes = received'[s] - held'[s]
      /\ received'[s] >= received[s]
  <2>1. /\ received'[s] = received[s] + n /\ received'[u] = received[u]
        /\ held'[s] = h /\ held'[u] = held[u]
    BY <1>1, <1>3, <1>5
  <2>2. to + (held[s] + n - h) = received[s] + n - h
    BY <1>3, Ends
  <2>3. received[s] + n >= received[s]
    BY <1>3, Ends
  <2>4. to + r.bytes = received[s] + n - h
    <3>1. r.bytes = held[s] + n - h
      BY <1>4
    <3> HIDE DEF to, r, h
    <3> QED BY <2>2, <3>1
  <2>5. received'[s] - held'[s] = received[s] + n - h
    <3> DEFINE base == received[s]
               read == received'[s]
               left == held'[s]
               rest == h
    <3>1. read = base + n /\ left = rest
      BY <2>1
    <3>2. base \in Nat /\ n \in Nat /\ rest \in Nat
      BY <1>3
    <3> HIDE DEF base, read, left, rest
    <3>3. read - left = base + n - rest
      BY <3>1, <3>2
    <3> QED BY <3>3 DEF base, read, left, rest
  <2>6. received'[s] >= received[s]
    BY <2>1, <2>3
  <2> HIDE DEF to, r, h
  <2> QED BY <2>1, <2>4, <2>5, <2>6
<1>9. /\ Laid(queue[u], passed[s], to) /\ Laid(queue[s], passed[u], received[u] - held[u])
      /\ \A d \in descriptors[u] : received[u] - held[u] <= d
  BY <1>1, <1>6 DEF InPlace
<1> HIDE DEF u, h, m, r, all, to
<1>10. descriptors'[u] = descriptors[u] /\ streaming'[u] = streaming[u]
  BY <1>1, <1>3, <1>5
<1>11. ASSUME eof' = eof
       PROVE  EndsWhole'
  <2> SUFFICES ASSUME NEW t \in Sides, eof'[t]
               PROVE  held'[t] = 0 /\ ~streaming'[t] /\ descriptors'[t] = {}
    BY DEF EndsWhole
  <2>1. t = u
    BY <1>1, <1>2, <1>11
  <2>2. held[u] = 0 /\ ~streaming[u] /\ descriptors[u] = {}
    BY <1>1, <1>11, <2>1 DEF StreamInv, EndsWhole
  <2> QED BY <1>8, <1>10, <2>1, <2>2
<1>12. ASSUME eof' = eof, passed'[s] >= passed[s], passed'[u] >= passed[u]
       PROVE  Onward
  <2>1. received'[u] >= received[u]
    <3>1. received[u] \in Nat
      BY <1>1, <1>3
    <3> DEFINE before == received[u]
    <3>2. received'[u] = before
      BY <1>8
    <3> HIDE DEF before
    <3>3. before >= before
      BY <3>1 DEF before
    <3> QED BY <3>2, <3>3 DEF before
  <2>2. ASSUME NEW t \in Sides
        PROVE  /\ received'[t] >= received[t] /\ passed'[t] >= passed[t]
               /\ eof[t] => eof'[t] /\ received'[t] = received[t]
    <3>1. CASE t = s
      BY <1>2, <1>8, <1>12, <3>1
    <3>2. CASE t = u
      BY <1>8, <1>12, <2>1, <3>2
    <3> QED BY <1>1, <3>1, <3>2
  <2> QED BY <2>2 DEF Onward
<1>13. ASSUME NEW t \in Sides
       PROVE  passed[t] >= passed[t]
  <2> DEFINE before == passed[t]
  <2>1. before \in Nat
    BY DEF IInv, QueueInv
  <2> HIDE DEF before
  <2>2. before >= before
    BY <2>1
  <2> QED BY <2>2 DEF before
<1>14. CASE /\ r.bytes + r.events = 0
            /\ descriptors' = [descriptors EXCEPT ![s] = all]
            /\ UNCHANGED <<queues, eof, notifiers>>
  <2>1. queue' = queue /\ passed' = passed /\ eof' = eof /\ UNCHANGED notifiers
    BY <1>14 DEF queues
  <2>2. r.bytes = 0
    BY <1>4, <1>14
  <2>3. to = received'[s] - held'[s]
    <3>1. to \in Int
      BY <1>3, Ends DEF to
    <3> QED BY <1>8, <2>2, <3>1
  <2>4. descriptors'[s] = all
    BY <1>3, <1>14
  <2>5. InPlace'
    <3> SUFFICES ASSUME NEW t \in Sides
                 PROVE  /\ Laid(queue'[Other(t)], passed'[t], received'[t] - held'[t])
                        /\ \A d \in descriptors'[t] : received'[t] - held'[t] <= d
      BY DEF InPlace
    <3>1. CASE t = s
      BY <1>7, <1>9, <2>1, <2>3, <2>4, <3>1 DEF u
    <3>2. CASE t = u
      BY <1>1, <1>8, <1>9, <1>10, <2>1, <3>2
    <3> QED BY <1>1, <3>1, <3>2
  <2>6. EndsWhole' /\ Onward
    BY <1>1, <1>11, <1>12, <1>13, <2>1
  <2> QED BY <1>2, <2>1, <2>5, <2>6, StreamStep
<1>15. CASE /\ r.bytes + r.events # 0
            /\ descriptors' = [descriptors EXCEPT ![s] = {}]
            /\ Deliver(u, [bytes |-> r.bytes, events |-> r.events, descriptors |-> all])
  <2> DEFINE packet == [bytes |-> r.bytes, events |-> r.events, descriptors |-> all]
  <2>1. /\ packet \in Packet /\ Length(packet) # 0 /\ packet.descriptors = all
        /\ packet.bytes = r.bytes
    BY <1>4, <1>7, <1>15 DEF Packet, Length
  <2>2. Deliver(Other(s), packet) /\ Laid(queue[Other(s)], passed[s], to)
    BY <1>9, <1>15 DEF u
  <2> HIDE DEF packet
  <2>3. /\ eof' = eof
        /\ \/ passed' = passed /\ Finish("limit")
           \/ /\ Laid(queue'[Other(s)], passed'[s], to + packet.bytes)
              /\ passed'[s] \in Nat /\ passed[s] <= passed'[s]
              /\ queue'[s] = queue[s] /\ passed'[Other(s)] = passed[Other(s)]
              /\ Refresh \/ Finish("socket")
    BY <1>7, <2>1, <2>2, DeliverStream
  <2>4. EndsWhole'
    BY <1>11, <2>3
  <2>5. CASE passed' = passed /\ Finish("limit")
    <3>1. Onward
      BY <1>1, <1>12, <1>13, <2>3, <2>5
    <3> QED BY <1>2, <2>4, <2>5, <3>1, StreamStep
  <2>6. CASE /\ Laid(queue'[Other(s)], passed'[s], to + packet.bytes)
             /\ passed'[s] \in Nat /\ passed[s] <= passed'[s]
             /\ queue'[s] = queue[s] /\ passed'[Other(s)] = passed[Other(s)]
             /\ Refresh \/ Finish("socket")
    <3>1. Onward
      <4>1. passed'[s] >= passed[s]
        BY <2>6
      <4>2. passed'[u] >= passed[u]
        BY <1>1, <1>13, <2>6 DEF u
      <4> QED BY <1>12, <2>3, <4>1, <4>2
    <3>2. descriptors'[s] = {}
      BY <1>3, <1>15
    <3>3. InPlace'
      <4> SUFFICES ASSUME NEW t \in Sides
                   PROVE  /\ Laid(queue'[Other(t)], passed'[t], received'[t] - held'[t])
                          /\ \A d \in descriptors'[t] : received'[t] - held'[t] <= d
        BY DEF InPlace
      <4>1. CASE t = s
        BY <1>8, <2>1, <2>6, <3>2, <4>1
      <4>2. CASE t = u
        BY <1>1, <1>8, <1>9, <1>10, <2>6, <4>2 DEF u
      <4> QED BY <1>1, <4>1, <4>2
    <3> QED BY <1>2, <2>4, <2>6, <3>1, <3>3, StreamStep
  <2> QED BY <2>3, <2>5, <2>6
<1> QED BY <1>5, <1>14, <1>15

\* A number is not below itself.
LEMMA SameCounts ==
    ASSUME IInv
    PROVE  \A s \in Sides : received[s] >= received[s] /\ passed[s] >= passed[s]
<1>1. \A n \in Nat : n >= n
  OBVIOUS
<1> QED BY <1>1 DEF IInv, QueueInv, FramerInv

\* A relay that finishes without reading moves no stream.
LEMMA FinishedStream ==
    ASSUME IInv, IInv', StreamInv, reason = "",
           UNCHANGED <<received, framer, queues, eof, whole, torn, changes>>,
           NEW why, why \notin {"", "eof"}, Finish(why)
    PROVE  StreamInv' /\ Advance
<1>1. Onward /\ passed' = passed
  BY SameCounts DEF Onward, queues
<1>2. EndsWhole'
  BY DEF StreamInv, EndsWhole, framer
<1> QED BY <1>1, <1>2, StreamStep

LEMMA ReceiveStream ==
    ASSUME IInv, IInv', StreamInv, NEW s \in Sides, Receive(s)
    PROVE  StreamInv' /\ Advance
<1>1. ASSUME reader[s]
      PROVE  reason = "" /\ ~eof[s]
  BY <1>1 DEF StreamInv, Rests
<1>2. held[s] \in Nat /\ held[s] < BufferLimit /\ streaming[s] \in BOOLEAN
  BY DEF IInv, FramerInv, HeldIsShort
<1>3. ASSUME NEW n \in 1..ReadSize, ReceiveFramed(s, n)
      PROVE  StreamInv' /\ Advance
  <2>1. PICK after \in Framed(s, n) : Pass(s, n, Fresh(s, n), after, ~after.streaming)
    BY <1>3 DEF ReceiveFramed
  <2>2. Chunk(s, after.held, after.streaming, held[s] + n - after.held)
    BY FramedType DEF IInv
  <2>3. reader[s] /\ received' = [received EXCEPT ![s] = @ + n]
    BY <1>3 DEF ReceiveFramed, Reads, Readable
  <2> QED BY <2>1, <2>2, <2>3, PassStream
<1>4. ASSUME NEW n \in 1..ReadSize, s = "client", ReceiveAmbiguous(n)
      PROVE  StreamInv' /\ Advance
  <2> DEFINE after == [held |-> 0, streaming |-> FALSE]
  <2>1. Chunk(s, after.held, after.streaming, held[s] + n - after.held)
    <3>1. n \in Nat /\ 1 <= n /\ n <= ReadSize
      BY SizesType
    <3> QED BY <1>2, <3>1, SizesType DEF Chunk
  <2>2. /\ reader[s] /\ received' = [received EXCEPT ![s] = @ + n]
        /\ Pass(s, n, Fresh(s, n), after, whole)
    BY <1>4 DEF ReceiveAmbiguous, Reads, Readable
  <2> HIDE DEF after
  <2> QED BY <2>1, <2>2, PassStream
<1>5. ASSUME NEW n \in 1..ReadSize, ReceiveTransparent(s, n)
      PROVE  StreamInv' /\ Advance
  <2> DEFINE after == [held |-> 0, streaming |-> streaming[s]]
  <2>1. PICK ends \in BOOLEAN : Pass(s, n, Fresh(s, n), after, ends)
    BY <1>5 DEF ReceiveTransparent
  <2>2. Chunk(s, after.held, after.streaming, held[s] + n - after.held)
    <3>1. n \in Nat /\ 1 <= n /\ n <= ReadSize
      BY SizesType
    <3> QED BY <1>2, <3>1, SizesType DEF Chunk
  <2>3. reader[s] /\ received' = [received EXCEPT ![s] = @ + n]
    BY <1>5 DEF ReceiveTransparent, Reads, Readable
  <2> HIDE DEF after
  <2> QED BY <2>1, <2>2, <2>3, PassStream
<1>6. ASSUME NEW n \in 1..ReadSize, ReceiveDescriptors(s, n)
      PROVE  StreamInv' /\ Advance
  BY <1>1, <1>6, FinishedStream DEF ReceiveDescriptors, Readable
<1>7. ASSUME ReceiveEnd(s)
      PROVE  StreamInv' /\ Advance
  <2>1. /\ reader[s] /\ reason = ""
        /\ UNCHANGED <<received, framer, queues, whole, torn, changes>>
    BY <1>1, <1>7 DEF ReceiveEnd
  <2>2. CASE Finish("frame") /\ UNCHANGED eof
    BY <2>1, <2>2, FinishedStream
  <2>3. CASE /\ ~PendingFrame(s) /\ descriptors[s] = {}
             /\ eof' = [eof EXCEPT ![s] = TRUE] /\ Refresh
    <3>1. /\ held' = held /\ streaming' = streaming /\ descriptors' = descriptors
          /\ received' = received /\ passed' = passed /\ queue' = queue
      BY <2>1 DEF framer, queues
    <3>2. \A t \in Sides : (eof[t] => eof'[t]) /\ (eof'[t] => eof[t] \/ t = s)
      BY <2>3 DEF IInv, QueueInv
    <3>3. Onward
      BY <3>1, <3>2, SameCounts DEF Onward
    <3>4. held[s] = 0 /\ ~streaming[s]
      BY <2>3 DEF PendingFrame
    <3>5. EndsWhole'
      BY <2>3, <3>1, <3>2, <3>4 DEF StreamInv, EndsWhole
    <3>6. InPlace'
      BY <2>1, <3>1 DEF StreamInv, InPlace
    <3> QED BY <2>1, <2>3, <3>3, <3>5, <3>6, StreamStep
  <2> QED BY <1>7, <2>2, <2>3 DEF ReceiveEnd
<1>8. ASSUME ReceiveFails(s)
      PROVE  StreamInv' /\ Advance
  BY <1>1, <1>8, FinishedStream DEF ReceiveFails
<1> QED BY <1>3, <1>4, <1>5, <1>6, <1>7, <1>8 DEF Receive

LEMMA SendingStream ==
    ASSUME IInv, IInv', StreamInv, NEW t \in Sides, Send(t)
    PROVE  StreamInv' /\ Advance
<1> DEFINE s == Other(t)
           to == received[s] - held[s]
<1>1. /\ s \in Sides /\ Other(s) = t /\ s # t
      /\ \A u \in Sides : u = s \/ u = t
  BY DEF Sides, Other
<1>2. /\ writer[t] /\ reason = ""
      /\ UNCHANGED <<received, framer, whole, torn, changes>>
  BY DEF Send, StreamInv, Rests
<1>3. queue[t] \in Seq(Packet) /\ queue[t] # <<>>
  BY <1>2 DEF IInv, QueueInv, WriterHasWork
<1>4. InPlace
  BY <1>2 DEF StreamInv
<1> HIDE DEF s, to
<1>5. /\ Laid(queue[t], passed[s], to) /\ to = received[s] - held[s]
      /\ Laid(queue[s], passed[t], received[t] - held[t])
  BY <1>1, <1>4 DEF InPlace, to, s
<1>6. /\ Laid(queue'[t], passed'[s], to)
      /\ passed'[s] \in Nat /\ passed[s] <= passed'[s] /\ passed'[s] <= to
      /\ queue'[s] = queue[s] /\ passed'[t] = passed[t]
      /\ eof' = eof
      /\ Refresh \/ Finish("socket")
  <2>1. \/ \E n \in 1..Length(Head(queue[t])) :
              SendSome(t, queue[t], queuedBytes[t], queuedDescriptors[t], n)
        \/ SendNothing(t, queue[t], queuedBytes[t], queuedDescriptors[t])
        \/ SendFails(t, queue[t], queuedBytes[t], queuedDescriptors[t])
    BY DEF Send
  <2>2. Laid(queue[t], passed[Other(t)], to)
    BY <1>5 DEF s
  <2>3. /\ Laid(queue'[t], passed'[Other(t)], to)
        /\ passed'[Other(t)] \in Nat
        /\ passed[Other(t)] <= passed'[Other(t)] /\ passed'[Other(t)] <= to
        /\ queue'[Other(t)] = queue[Other(t)] /\ passed'[t] = passed[t]
        /\ eof' = eof
        /\ Refresh \/ Finish("socket")
    BY <1>3, <2>1, <2>2, SendStream
  <2> QED BY <2>3 DEF s
<1>7. /\ received' = received /\ held' = held /\ streaming' = streaming
      /\ descriptors' = descriptors
  BY <1>2 DEF framer
<1>8. InPlace'
  <2> SUFFICES ASSUME NEW u \in Sides
               PROVE  /\ Laid(queue'[Other(u)], passed'[u], received'[u] - held'[u])
                      /\ \A d \in descriptors'[u] : received'[u] - held'[u] <= d
    BY DEF InPlace
  <2>1. \A d \in descriptors[u] : received[u] - held[u] <= d
    BY <1>4 DEF InPlace
  <2>2. CASE u = s
    BY <1>1, <1>5, <1>6, <1>7, <2>1, <2>2
  <2>3. CASE u = t
    BY <1>5, <1>6, <1>7, <2>1, <2>3 DEF s
  <2> QED BY <1>1, <2>2, <2>3
<1>9. EndsWhole'
  BY <1>6, <1>7 DEF StreamInv, EndsWhole
<1>10. Onward
  <2>1. ASSUME NEW u \in Sides
        PROVE  passed'[u] >= passed[u]
    <3>1. CASE u = s
      BY <1>6, <3>1
    <3>2. CASE u = t
      BY <1>6, <3>2, SameCounts
    <3> QED BY <1>1, <3>1, <3>2
  <2> QED BY <1>6, <1>7, <2>1, SameCounts DEF Onward
<1> QED BY <1>2, <1>6, <1>8, <1>9, <1>10, StreamStep

LEMMA ChangeDisplayStream ==
    ASSUME IInv, IInv', StreamInv, ChangeDisplay
    PROVE  StreamInv' /\ Advance
<1>1. /\ reason = "" /\ received' = received /\ held' = held /\ streaming' = streaming
      /\ descriptors' = descriptors
  BY DEF ChangeDisplay
<1>2. InPlace
  BY <1>1 DEF StreamInv
<1>3. CASE UNCHANGED <<queues, eof, notifiers>>
  <2>1. queue' = queue /\ passed' = passed /\ eof' = eof /\ UNCHANGED notifiers
    BY <1>3 DEF queues
  <2>2. InPlace' /\ EndsWhole'
    BY <1>1, <1>2, <2>1 DEF StreamInv, InPlace, EndsWhole
  <2>3. Onward
    BY <1>1, <2>1, SameCounts DEF Onward
  <2> QED BY <1>1, <2>1, <2>2, <2>3, StreamStep
<1>4. CASE Deliver("client", [bytes |-> 0, events |-> EventBytes, descriptors |-> {}])
  <2> DEFINE packet == [bytes |-> 0, events |-> EventBytes, descriptors |-> {}]
             to == received["server"] - held["server"]
  <2>1. /\ packet \in Packet /\ Length(packet) # 0 /\ packet.descriptors = {}
        /\ packet.bytes = 0
    BY ConstantsAssumption DEF Packet, Length
  <2>2. /\ "server" \in Sides /\ "client" \in Sides /\ Other("server") = "client"
        /\ Other("client") = "server" /\ \A u \in Sides : u = "server" \/ u = "client"
    BY DEF Other, Sides
  <2>3. Deliver(Other("server"), packet) /\ Laid(queue[Other("server")], passed["server"], to)
    BY <1>2, <1>4, <2>2 DEF InPlace
  <2>4. to \in Int /\ to + 0 = to
    <3>1. received["server"] \in Nat /\ held["server"] \in Nat
      BY <2>2 DEF IInv, FramerInv
    <3>2. 0 \in Nat
      OBVIOUS
    <3>3. to \in Int
      BY <3>1, <3>2, Ends
    <3> HIDE DEF to
    <3> QED BY <3>3
  <2> HIDE DEF packet, to
  <2>5. /\ eof' = eof
        /\ \/ passed' = passed /\ Finish("limit")
           \/ /\ Laid(queue'["client"], passed'["server"], to)
              /\ passed'["server"] \in Nat /\ passed["server"] <= passed'["server"]
              /\ queue'["server"] = queue["server"] /\ passed'["client"] = passed["client"]
              /\ Refresh \/ Finish("socket")
    <3>1. to + packet.bytes = to
      BY <2>1, <2>4
    <3>2. /\ eof' = eof
          /\ \/ passed' = passed /\ Finish("limit")
             \/ /\ Laid(queue'[Other("server")], passed'["server"], to + packet.bytes)
                /\ passed'["server"] \in Nat /\ passed["server"] <= passed'["server"]
                /\ queue'["server"] = queue["server"]
                /\ passed'[Other("server")] = passed[Other("server")]
                /\ Refresh \/ Finish("socket")
      BY <2>1, <2>2, <2>3, DeliverStream
    <3> QED BY <2>2, <3>1, <3>2
  <2>6. EndsWhole'
    BY <1>1, <2>5 DEF StreamInv, EndsWhole
  <2>7. CASE passed' = passed /\ Finish("limit")
    <3>1. Onward
      BY <1>1, <2>5, <2>7, SameCounts DEF Onward
    <3> QED BY <1>1, <2>6, <2>7, <3>1, StreamStep
  <2>8. CASE /\ Laid(queue'["client"], passed'["server"], to)
             /\ passed'["server"] \in Nat /\ passed["server"] <= passed'["server"]
             /\ queue'["server"] = queue["server"] /\ passed'["client"] = passed["client"]
             /\ Refresh \/ Finish("socket")
    <3>1. Onward
      <4>1. ASSUME NEW u \in Sides
            PROVE  passed'[u] >= passed[u]
        <5>1. CASE u = "server"
          BY <2>8, <5>1
        <5>2. CASE u = "client"
          BY <2>8, <5>2, SameCounts
        <5> QED BY <2>2, <5>1, <5>2
      <4> QED BY <1>1, <2>5, <4>1, SameCounts DEF Onward
    <3>2. InPlace'
      BY <1>1, <1>2, <2>2, <2>8 DEF InPlace, to
    <3> QED BY <1>1, <2>6, <2>8, <3>1, <3>2, StreamStep
  <2> QED BY <2>5, <2>7, <2>8
<1> QED BY <1>3, <1>4 DEF ChangeDisplay

LEMMA StreamInit == Init => StreamInv
<1> SUFFICES ASSUME Init PROVE StreamInv
  OBVIOUS
<1>1. /\ queue = [s \in Sides |-> <<>>] /\ passed = [s \in Sides |-> 0]
      /\ received = [s \in Sides |-> 0] /\ held = [s \in Sides |-> 0]
      /\ descriptors = [s \in Sides |-> {}] /\ eof = [s \in Sides |-> FALSE]
      /\ shutdown = [s \in Sides |-> FALSE] /\ reason = ""
      /\ writer = [s \in Sides |-> FALSE]
  BY DEF Init
<1>2. InPlace
  <2>1. ASSUME NEW s \in Sides
        PROVE  Laid(queue[Other(s)], passed[s], received[s] - held[s])
    <3>1. queue[Other(s)] = <<>> /\ passed[s] = 0 /\ received[s] = 0 /\ held[s] = 0
      BY <1>1, OtherSide
    <3>2. 0 - 0 = 0 /\ 0 \in Nat
      OBVIOUS
    <3> QED BY <3>1, <3>2, LaidEmpty
  <2> QED BY <1>1, <2>1 DEF InPlace
<1>3. Rests /\ EndsWhole /\ DoneAfterAll
  BY <1>1 DEF Rests, EndsWhole, DoneAfterAll
<1>4. ShutAfterAll
  BY <1>1, OtherSide DEF ShutAfterAll
<1> QED BY <1>2, <1>3, <1>4 DEF StreamInv

\* Every step of the relay is one of a byte stream, and keeps the streams in order.
LEMMA StreamSteps ==
    ASSUME IInv, IInv', StreamInv, Next
    PROVE  StreamInv' /\ Advance
BY ReceiveStream, SendingStream, ChangeDisplayStream DEF Next

LEMMA StreamStays ==
    ASSUME StreamInv, UNCHANGED vars
    PROVE  StreamInv'
BY DEF vars, framer, queues, notifiers, StreamInv, InPlace, Rests, EndsWhole, ShutAfterAll,
       DoneAfterAll

THEOREM StreamInvariance == Spec => []StreamInv
<1>1. IInv /\ IInv' /\ StreamInv /\ [Next]_vars => StreamInv'
  BY StreamSteps, StreamStays
<1> QED BY StreamInit, Invariance, <1>1, PTL DEF Spec

\* A relay that ends because both streams did lost nothing on the way: every byte
\* read was passed on, and no descriptor and no event waits.
THEOREM NothingLost == Spec => []CleanEnd
<1>1. ASSUME IInv, StreamInv, reason = "eof"
      PROVE  (\A s \in Sides : passed[s] = received[s] /\ descriptors[s] = {}) /\ deferred = 0
  <2>1. \A s \in Sides : eof[s] /\ queue[s] = <<>>
    BY <1>1 DEF StreamInv, DoneAfterAll
  <2>2. \A s \in Sides : held[s] = 0 /\ ~streaming[s] /\ descriptors[s] = {}
    BY <1>1, <2>1 DEF StreamInv, EndsWhole
  <2>3. deferred = 0
    <3>1. "server" \in Sides
      BY DEF Sides
    <3> QED BY <1>1, <2>2, <3>1 DEF IInv, DeferredWaits, PendingFrame
  <2>4. ASSUME NEW s \in Sides
        PROVE  passed[s] = received[s]
    <3>1. Laid(<<>>, passed[s], received[s] - held[s])
      BY <1>1, <2>1, OtherSide DEF StreamInv, InPlace
    <3>2. passed[s] \in Nat /\ received[s] \in Nat /\ held[s] = 0
      BY <1>1, <2>2 DEF IInv, QueueInv, FramerInv
    <3>3. passed[s] = received[s] - held[s]
      BY <3>1, <3>2, LaidEmpty
    <3>4. received[s] - 0 = received[s]
      <4> DEFINE all == received[s]
      <4>1. all \in Nat
        BY <3>2
      <4> HIDE DEF all
      <4>2. all - 0 = all
        BY <4>1
      <4> QED BY <4>2 DEF all
    <3> QED BY <3>2, <3>3, <3>4
  <2> QED BY <2>2, <2>3, <2>4
<1>2. IInv /\ StreamInv => CleanEnd
  BY <1>1 DEF CleanEnd
<1> QED BY <1>2, Invariance, StreamInvariance, PTL

\* While the relay runs no byte overtakes a descriptor that was read with it or
\* before it: none of those that wait was named by a byte that was passed on.
THEOREM NoneOvertaken == Spec => []DescriptorsInTime
<1>1. ASSUME IInv, StreamInv, reason = "", NEW s \in Sides
      PROVE  \A d \in descriptors[s]
                       \cup UNION {packet.descriptors : packet \in ToSet(queue[Other(s)])} :
                 passed[s] <= d
  <2>1. /\ Laid(queue[Other(s)], passed[s], received[s] - held[s])
        /\ \A d \in descriptors[s] : received[s] - held[s] <= d
    BY <1>1 DEF StreamInv, InPlace
  <2>2. queue[Other(s)] \in Seq(Packet)
    BY <1>1, OtherSide DEF IInv, QueueInv
  <2>3. /\ passed[s] \in Nat /\ received[s] - held[s] \in Nat
        /\ passed[s] <= received[s] - held[s]
        /\ \A i \in 1..Len(queue[Other(s)]) :
              \A d \in queue[Other(s)][i].descriptors : passed[s] <= d
    BY <2>1, <2>2, LaidBounds
  <2>4. ASSUME NEW d \in descriptors[s]
        PROVE  passed[s] <= d
    <3> DEFINE from == passed[s]
               to == received[s] - held[s]
    <3>1. d \in Nat /\ from \in Nat /\ to \in Nat /\ from <= to /\ to <= d
      BY <1>1, <2>1, <2>3, <2>4 DEF IInv, FramerInv
    <3> HIDE DEF from, to
    <3>2. from <= d
      BY <3>1
    <3> QED BY <3>2 DEF from
  <2>5. ASSUME NEW packet \in ToSet(queue[Other(s)]), NEW d \in packet.descriptors
        PROVE  passed[s] <= d
    <3>1. PICK i \in 1..Len(queue[Other(s)]) : packet = queue[Other(s)][i]
      BY <2>2 DEF ToSet
    <3> QED BY <2>3, <2>5, <3>1
  <2> QED BY <2>4, <2>5
<1>2. IInv /\ StreamInv => DescriptorsInTime
  BY <1>1 DEF DescriptorsInTime
<1> QED BY <1>2, Invariance, StreamInvariance, PTL

\* The relay implements a byte stream in each direction: it gives what it took, in
\* order, shuts a side when it gave everything, and ends cleanly only after both.
THEOREM RelaysByteStreams == Spec => IsByteStream
<1>1. Init => Stream!Init
  <2> SUFFICES ASSUME Init PROVE Stream!Init
    OBVIOUS
  <2>1. [s \in Sides |-> shutdown[Other(s)]] = [s \in Sides |-> FALSE]
    BY OtherSide DEF Init
  <2> QED BY <2>1 DEF Init, Stream!Init
<1>2. ASSUME IInv, IInv', StreamInv, StreamInv', Advance
      PROVE  Stream!Step
  <2>1. reason' \in Reasons
    BY <1>2 DEF IInv, QueueInv
  <2>2. ASSUME NEW s \in Sides
        PROVE  Stream!Carry(s)
    <3>1. shutdown'[Other(s)] => eof'[s] /\ passed'[s] = received'[s]
      BY <1>2 DEF StreamInv, ShutAfterAll
    <3> QED BY <1>2, <2>2, <3>1 DEF Advance, Stream!Carry
  <2> QED BY <1>2, <2>1, <2>2 DEF Advance, Stream!Step, Reasons
<1>3. UNCHANGED vars => UNCHANGED Stream!vars
  BY DEF vars, framer, queues, notifiers, Stream!vars
<1>4. IInv /\ IInv' /\ StreamInv /\ StreamInv' /\ [Next]_vars => [Stream!Step]_(Stream!vars)
  BY <1>2, <1>3, StreamSteps
<1> QED
  BY <1>1, <1>4, Invariance, StreamInvariance, PTL DEF Spec, IsByteStream, Stream!Spec
====
