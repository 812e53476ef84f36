-------------------------------- MODULE Relay --------------------------------
(***************************************************************************)
(* One connection of the session proxy: the relay between an X11 client    *)
(* and the server behind the proxy (src/x11proxy/relay.cpp), with the part *)
(* of its policy that decides when bytes move on: the framer, which holds  *)
(* a message until all of it arrived (framer.cpp), and the events a change *)
(* of screen inserts into the server's stream (policy.cpp,                 *)
(* policy_display.cpp).                                                    *)
(*                                                                         *)
(* Bytes are counted, not kept.  A message the policy rewrites never grows,*)
(* and is counted at the length it arrived with.  Where messages end is    *)
(* the peers' choice, so every chunk may end anywhere in one.              *)
(***************************************************************************)
EXTENDS Integers, Sequences, FiniteSets, SequencesExt

CONSTANTS
    BufferLimit,     \* the longest message held whole, Policy::s_bufferLimit
    ReadSize,        \* the most one read returns
    DescriptorLimit, \* descriptors on their way to one side
    EventBytes,      \* length of the events that announce another screen
    DescriptorsAt,   \* per side, the bytes its peer sent a descriptor with
    MaxBytes,        \* bound: per side, the bytes its peer sends
    MaxChanges,      \* bound: changes of screen
    Ambiguous,       \* bound: whether requests may turn the stream opaque
    Errors           \* bound: whether system calls may fail

Sides == {"client", "server"}
Other(s) == IF s = "client" THEN "server" ELSE "client"

ASSUME ConstantsAssumption ==
    /\ BufferLimit \in Nat \ {0}
    /\ ReadSize \in 1..BufferLimit
    /\ DescriptorLimit \in Nat
    /\ EventBytes \in Nat \ {0}
    /\ DescriptorsAt \in [Sides -> SUBSET Nat]
    /\ MaxBytes \in [Sides -> Nat]
    /\ MaxChanges \in Nat
    /\ Ambiguous \in BOOLEAN
    /\ Errors \in BOOLEAN

\* Seeded fault: the read that completes a held message is forgotten.
BurstOfOneFrame == BufferLimit
BurstLimit == BufferLimit + ReadSize
QueueLimit == 2 * BufferLimit

VARIABLES
    received,      \* bytes read from each side
    passed,        \* bytes of each side its peer was given
    held,          \* bytes of an incomplete message, Framer::m_buffers
    streaming,     \* a message too long to hold is passing, m_remaining # 0
    transparent,   \* Framer::m_transparent
    setup,         \* the server's setup reply went by, m_setupReply
    deferred,      \* event bytes waiting for a message's end, m_deferred
    descriptors,   \* pendingDescriptors: came with bytes not yet passed on
    queue,         \* packets waiting to be written to each side
    queuedBytes,
    queuedDescriptors,
    eof,           \* this side's peer ended its stream
    shutdown,      \* nothing more is written to this side
    reader,        \* this side's read notifier is enabled
    writer,        \* this side's write notifier is enabled
    reason,        \* why the relay finished, "" while it runs
    whole,         \* what the client was passed ends between two messages
    torn,          \* an event was put inside a message
    changes        \* changes of screen so far

framer == <<held, streaming, transparent, setup, deferred, descriptors>>
notifiers == <<shutdown, reader, writer, reason>>
queues == <<queue, queuedBytes, queuedDescriptors, passed>>
vars == <<received, framer, queues, eof, notifiers, whole, torn, changes>>

\* A packet is what is left of it: bytes that arrived, events behind them,
\* and descriptors, each named by the byte it was sent with.
Packet == [bytes : Nat, events : Nat, descriptors : SUBSET Nat]
Length(packet) == packet.bytes + packet.events

Reasons == {"", "eof", "frame", "limit", "ancillary", "socket", "protocol"}

TypeOK ==
    /\ received \in [Sides -> Nat]
    /\ passed \in [Sides -> Nat]
    /\ held \in [Sides -> Nat]
    /\ streaming \in [Sides -> BOOLEAN]
    /\ transparent \in BOOLEAN
    /\ setup \in BOOLEAN
    /\ deferred \in Nat
    /\ descriptors \in [Sides -> SUBSET Nat]
    /\ queue \in [Sides -> Seq(Packet)]
    /\ queuedBytes \in [Sides -> Int]
    /\ queuedDescriptors \in [Sides -> Int]
    /\ eof \in [Sides -> BOOLEAN]
    /\ shutdown \in [Sides -> BOOLEAN]
    /\ reader \in [Sides -> BOOLEAN]
    /\ writer \in [Sides -> BOOLEAN]
    /\ reason \in Reasons
    /\ whole \in BOOLEAN
    /\ torn \in BOOLEAN
    /\ changes \in Nat

Init ==
    /\ received = [s \in Sides |-> 0]
    /\ passed = [s \in Sides |-> 0]
    /\ held = [s \in Sides |-> 0]
    /\ streaming = [s \in Sides |-> FALSE]
    /\ transparent = FALSE
    /\ setup = FALSE
    /\ deferred = 0
    /\ descriptors = [s \in Sides |-> {}]
    /\ queue = [s \in Sides |-> <<>>]
    /\ queuedBytes = [s \in Sides |-> 0]
    /\ queuedDescriptors = [s \in Sides |-> 0]
    /\ eof = [s \in Sides |-> FALSE]
    /\ shutdown = [s \in Sides |-> FALSE]
    /\ reader = [s \in Sides |-> TRUE]
    /\ writer = [s \in Sides |-> FALSE]
    /\ reason = ""
    /\ whole = TRUE
    /\ torn = FALSE
    /\ changes = 0

-----------------------------------------------------------------------------
(* Writing.                                                                *)

\* Seeded fault: a message passing through in parts is forgotten.
PendingHeld(s) == held[s] # 0

\* Framer::pending(): part of a message from this side was read.
PendingFrame(s) == held[s] # 0 \/ streaming[s]

\* finish(): the first reason counts, and both notifiers rest.
Finish(why) ==
    /\ reason' = why
    /\ reader' = [s \in Sides |-> FALSE]
    /\ writer' = [s \in Sides |-> FALSE]
    /\ UNCHANGED shutdown

\* Seeded faults: the stream is shut before the queue is written, the write
\* notifier outlives the last packet, and a reader that rests stays so.
RefreshEarly ==
    /\ shutdown' = [s \in Sides |-> shutdown[s] \/ eof'[Other(s)]]
    /\ reader' = [s \in Sides |->
            ~eof'[s] /\ queuedBytes'[Other(s)] <= QueueLimit - BurstLimit]
    /\ writer' = [s \in Sides |-> queue'[s] # <<>>]
    /\ reason' = IF \A s \in Sides : eof'[s] /\ queue'[s] = <<>>
                 THEN "eof" ELSE reason
RefreshLate ==
    /\ shutdown' = [s \in Sides |->
            shutdown[s] \/ (eof'[Other(s)] /\ queue'[s] = <<>>)]
    /\ reader' = [s \in Sides |->
            ~eof'[s] /\ queuedBytes'[Other(s)] <= QueueLimit - BurstLimit]
    /\ writer' = [s \in Sides |-> queue[s] # <<>> \/ queue'[s] # <<>>]
    /\ reason' = IF \A s \in Sides : eof'[s] /\ queue'[s] = <<>>
                 THEN "eof" ELSE reason
RefreshOnce ==
    /\ shutdown' = [s \in Sides |->
            shutdown[s] \/ (eof'[Other(s)] /\ queue'[s] = <<>>)]
    /\ reader' = [s \in Sides |-> reader[s] /\ ~eof'[s]
            /\ queuedBytes'[Other(s)] <= QueueLimit - BurstLimit]
    /\ writer' = [s \in Sides |-> queue'[s] # <<>>]
    /\ reason' = IF \A s \in Sides : eof'[s] /\ queue'[s] = <<>>
                 THEN "eof" ELSE reason

\* refresh(), after queue, queuedBytes and eof took their new values.
Refresh ==
    /\ shutdown' = [s \in Sides |->
            shutdown[s] \/ (eof'[Other(s)] /\ queue'[s] = <<>>)]
    /\ reader' = [s \in Sides |->
            ~eof'[s] /\ queuedBytes'[Other(s)] <= QueueLimit - BurstLimit]
    /\ writer' = [s \in Sides |-> queue'[s] # <<>>]
    /\ reason' = IF \A s \in Sides : eof'[s] /\ queue'[s] = <<>>
                 THEN "eof" ELSE reason

\* Seeded fault: the descriptors stay until the whole packet is written.
RemainderKeeps(packet, n) ==
    [bytes |-> IF n < packet.bytes THEN packet.bytes - n ELSE 0,
     events |-> IF n > packet.bytes THEN Length(packet) - n ELSE packet.events,
     descriptors |-> packet.descriptors]

\* What is left of a packet once sendmsg() took n > 0 bytes of it: descriptors
\* travel with the first of them.
Remainder(packet, n) ==
    [bytes |-> IF n < packet.bytes THEN packet.bytes - n ELSE 0,
     events |-> IF n > packet.bytes THEN Length(packet) - n ELSE packet.events,
     descriptors |-> {}]

\* A queue, and its count of descriptors, once n > 0 bytes of it were written.
Written(packets, n) ==
    IF n = Length(Head(packets)) THEN Tail(packets)
    ELSE <<Remainder(Head(packets), n)>> \o Tail(packets)

\* How many of the n bytes came from the other peer.
FromPeer(packet, n) == IF n < packet.bytes THEN n ELSE packet.bytes

CountAfter(packets, count) == count - Cardinality(Head(packets).descriptors)

\* send() to side s when a packet waits: n bytes are taken.
SendSome(s, packets, bytes, count, n) ==
    /\ queue' = [queue EXCEPT ![s] = Written(packets, n)]
    /\ queuedBytes' = [queuedBytes EXCEPT ![s] = bytes - n]
    /\ queuedDescriptors' =
            [queuedDescriptors EXCEPT ![s] = CountAfter(packets, count)]
    /\ passed' = [passed EXCEPT ![Other(s)] = @ + FromPeer(Head(packets), n)]
    /\ UNCHANGED eof
    /\ Refresh

\* send() to side s when nothing can be taken yet.
SendNothing(s, packets, bytes, count) ==
    /\ queue' = [queue EXCEPT ![s] = packets]
    /\ queuedBytes' = [queuedBytes EXCEPT ![s] = bytes]
    /\ queuedDescriptors' = [queuedDescriptors EXCEPT ![s] = count]
    /\ UNCHANGED <<passed, eof>>
    /\ Refresh

\* send() to side s when sendmsg() fails, as it must once that side is shut.
SendFails(s, packets, bytes, count) ==
    /\ Errors \/ shutdown[s]
    /\ queue' = [queue EXCEPT ![s] = packets]
    /\ queuedBytes' = [queuedBytes EXCEPT ![s] = bytes]
    /\ queuedDescriptors' = [queuedDescriptors EXCEPT ![s] = count]
    /\ UNCHANGED <<passed, eof>>
    /\ Finish("socket")

\* deliver(): queue a packet for side s, and write it at once where it is the
\* first.
Deliver(s, packet) ==
    LET packets == Append(queue[s], packet)
        bytes == queuedBytes[s] + Length(packet)
        count == queuedDescriptors[s] + Cardinality(packet.descriptors)
    IN  \/ /\ Length(packet) > QueueLimit - queuedBytes[s]
           /\ Finish("limit")
           /\ UNCHANGED <<queues, eof>>
        \/ /\ Length(packet) <= QueueLimit - queuedBytes[s]
           /\ \/ SendNothing(s, packets, bytes, count)
              \/ /\ queue[s] = <<>>
                 /\ \/ SendFails(s, packets, bytes, count)
                    \/ /\ ~shutdown[s]
                       /\ \E n \in 1..Length(packet) :
                             SendSome(s, packets, bytes, count, n)

-----------------------------------------------------------------------------
(* Reading.                                                                *)

\* What may be held, and whether a long message is passing, after n more bytes
\* of side s: the last message end in the chunk leaves a tail of it; a message
\* too long to hold passes all of it; with no end in it the chunk is held too.
Framed(s, n) ==
    {[held |-> 0, streaming |-> TRUE]}
    \cup {[held |-> tail, streaming |-> FALSE] : tail \in 0..(n - 1)}
    \cup {[held |-> h, streaming |-> FALSE] :
            h \in {held[s] + n} \cap (IF streaming[s] THEN {} ELSE 0..(BufferLimit - 1))}

\* Bytes now known to end up with side s's peer, with the events that waited
\* for the end of the server's message.
Released(s, n, after) ==
    LET flush == s = "server" /\ deferred # 0
                 /\ after.held = 0 /\ ~after.streaming
    IN  [bytes |-> held[s] + n - after.held,
         events |-> IF flush THEN deferred ELSE 0]

\* queuePacket() once the policy said what is passed on: nothing, and the
\* descriptors wait, or a packet that takes all of them.
Pass(s, n, fresh, after, ends) ==
    LET r == Released(s, n, after)
        all == descriptors[s] \cup fresh
    IN  /\ held' = [held EXCEPT ![s] = after.held]
        /\ streaming' = [streaming EXCEPT ![s] = after.streaming]
        /\ deferred' = IF r.events # 0 THEN 0 ELSE deferred
        /\ whole' = IF s = "server" /\ r.bytes # 0 THEN ends ELSE whole
        /\ torn' = (torn \/ (r.events # 0 /\ ~whole'))
        /\ \/ /\ Length(r) = 0
              /\ descriptors' = [descriptors EXCEPT ![s] = all]
              /\ UNCHANGED <<queues, eof, notifiers>>
           \/ /\ Length(r) # 0
              /\ descriptors' = [descriptors EXCEPT ![s] = {}]
              /\ Deliver(Other(s), [bytes |-> r.bytes, events |-> r.events,
                                    descriptors |-> all])

\* The descriptors that come with the next n bytes of side s.
Fresh(s, n) == DescriptorsAt[s] \cap (received[s]..(received[s] + n - 1))

\* A read of n bytes: the notifier is on and the peer sent as many.
Readable(s, n) ==
    /\ reader[s]
    /\ received[s] + n <= MaxBytes[s]
Reads(s, n) ==
    /\ Readable(s, n)
    /\ received' = [received EXCEPT ![s] = @ + n]

FitsDescriptors(s, n) ==
    queuedDescriptors[Other(s)] + Cardinality(descriptors[s])
        + Cardinality(Fresh(s, n)) <= DescriptorLimit

\* receive() of bytes the framer reads.
ReceiveFramed(s, n) ==
    /\ Reads(s, n)
    /\ FitsDescriptors(s, n)
    /\ ~transparent
    /\ \E after \in Framed(s, n) :
          /\ setup' = (setup \/ (s = "server" /\ Released(s, n, after).bytes # 0))
          /\ Pass(s, n, Fresh(s, n), after, ~after.streaming)
    /\ UNCHANGED <<transparent, changes>>

\* receive() of a request after which the framer reads nothing more, or that it
\* cannot read: everything the client sent is passed on.
ReceiveAmbiguous(n) ==
    /\ Ambiguous
    /\ Reads("client", n)
    /\ FitsDescriptors("client", n)
    /\ ~transparent
    /\ transparent' = TRUE
    /\ Pass("client", n, Fresh("client", n), [held |-> 0, streaming |-> FALSE], whole)
    /\ UNCHANGED <<setup, changes>>

\* receive() once nothing is read: the chunk may end anywhere in a message,
\* and a long message that was passing counts as never ended.
ReceiveTransparent(s, n) ==
    /\ Reads(s, n)
    /\ FitsDescriptors(s, n)
    /\ transparent
    /\ \E ends \in BOOLEAN :
          Pass(s, n, Fresh(s, n), [held |-> 0, streaming |-> streaming[s]], ends)
    /\ UNCHANGED <<transparent, setup, changes>>

\* receive() of more descriptors than may wait.
ReceiveDescriptors(s, n) ==
    /\ Readable(s, n)
    /\ ~FitsDescriptors(s, n)
    /\ Finish("ancillary")
    /\ UNCHANGED <<received, framer, queues, eof, whole, torn, changes>>

\* Seeded faults: a stream may end inside a message, and its end is noted only.
ReceiveAnyEnd(s) ==
    /\ reader[s]
    /\ eof' = [eof EXCEPT ![s] = TRUE]
    /\ UNCHANGED queues
    /\ Refresh
    /\ UNCHANGED <<received, framer, whole, torn, changes>>
ReceiveEndQuietly(s) ==
    /\ reader[s] /\ ~PendingFrame(s) /\ descriptors[s] = {}
    /\ eof' = [eof EXCEPT ![s] = TRUE]
    /\ UNCHANGED <<received, framer, queues, notifiers, whole, torn, changes>>

\* receive() of the end of the stream.
ReceiveEnd(s) ==
    /\ reader[s]
    /\ \/ /\ PendingFrame(s) \/ descriptors[s] # {}
          /\ Finish("frame")
          /\ UNCHANGED eof
       \/ /\ ~PendingFrame(s) /\ descriptors[s] = {}
          /\ eof' = [eof EXCEPT ![s] = TRUE]
          /\ UNCHANGED queues
          /\ Refresh
    /\ UNCHANGED <<received, framer, queues, whole, torn, changes>>

\* receive() that fails: recvmsg() does, or the server's message is none.
ReceiveFails(s) ==
    /\ Errors
    /\ reader[s]
    /\ \/ Finish("socket")
       \/ s = "server" /\ ~transparent /\ Finish("protocol")
    /\ UNCHANGED <<received, framer, queues, eof, whole, torn, changes>>

Receive(s) ==
    \/ \E n \in 1..ReadSize :
          \/ ReceiveFramed(s, n)
          \/ s = "client" /\ ReceiveAmbiguous(n)
          \/ ReceiveTransparent(s, n)
          \/ ReceiveDescriptors(s, n)
    \/ ReceiveEnd(s)
    \/ ReceiveFails(s)

\* send(), when side s takes more.
Send(s) ==
    /\ writer[s]
    /\ \/ \E n \in 1..Length(Head(queue[s])) :
             SendSome(s, queue[s], queuedBytes[s], queuedDescriptors[s], n)
       \/ SendFails(s, queue[s], queuedBytes[s], queuedDescriptors[s])
    /\ UNCHANGED <<received, framer, whole, torn, changes>>

\* changeDisplay() to another size.  Before the setup reply, and where the
\* client selected no such event, it is told nothing.
ChangeDisplay ==
    /\ reason = ""
    /\ ~transparent
    /\ changes < MaxChanges
    /\ changes' = changes + 1
    /\ \/ UNCHANGED <<deferred, queues, eof, notifiers, torn>>
       \/ /\ setup /\ PendingFrame("server")
          /\ deferred' = deferred + EventBytes
          /\ UNCHANGED <<queues, eof, notifiers, torn>>
       \/ /\ setup /\ ~PendingFrame("server")
          /\ torn' = (torn \/ ~whole)
          /\ Deliver("client", [bytes |-> 0, events |-> EventBytes, descriptors |-> {}])
          /\ UNCHANGED deferred
    /\ UNCHANGED <<received, held, streaming, transparent, setup, descriptors, whole>>

Next ==
    \/ \E s \in Sides : Receive(s) \/ Send(s)
    \/ ChangeDisplay

Spec == Init /\ [][Next]_vars

\* Each peer goes on reading what is written to it.
Fairness == \A s \in Sides : WF_vars(Send(s))

FairSpec == Spec /\ Fairness

-----------------------------------------------------------------------------
(* Properties.                                                             *)

\* A side is read only while a whole held message and a read fit behind what
\* already waits, so no valid message reaches the limit (relay.cpp:19-24).
\* Events are not counted in: only a connection whose screen changed may end so.
LimitNeedsChange == reason = "limit" => changes > 0

\* The write notifier is on only while there is something to write: send()
\* takes the front of the queue without looking.
WriterHasWork == \A s \in Sides : writer[s] => queue[s] # <<>>

\* No byte overtakes its descriptor: the peer is given a byte only when the
\* descriptor that came with it went along or before, however messages are
\* split and held in between.
DescriptorsInTime ==
    reason = "" => \A s \in Sides :
        \A d \in descriptors[s]
                 \cup UNION {packet.descriptors : packet \in ToSet(queue[Other(s)])} :
            passed[s] <= d

\* A relay that ends because both streams did lost nothing on the way: no part
\* of a message, no descriptor, no event.
CleanEnd ==
    reason = "eof" =>
        /\ \A s \in Sides :
              /\ passed[s] = received[s]
              /\ descriptors[s] = {}
        /\ deferred = 0

\* Events wait for nothing but the end of the server's message.
DeferredWaits == deferred # 0 => PendingFrame("server")

\* A client that is read is told of another screen between two of the server's
\* messages, never inside one.
TornOnlyOpaque == torn => transparent

\* "between two of the server's messages; otherwise they follow the message the
\* server is in the middle of" (policy.h:35-37), with "once request framing
\* becomes ambiguous, both streams pass unchanged" (framer.h:63).
EventsBetweenMessages == ~torn

\* What a relay promises its peers, see ByteStream.
Stream == INSTANCE ByteStream WITH
    taken <- received,
    given <- passed,
    ended <- eof,
    closed <- [s \in Sides |-> shutdown[Other(s)]],
    stopped <- IF reason = "" THEN "no" ELSE IF reason = "eof" THEN "clean" ELSE "broken"

\* The relay is a byte stream in each direction: it gives each peer what the
\* other sent and no more, ends a direction only after its last byte, and ends
\* cleanly only after both.
IsByteStream == Stream!Spec

\* The end of one peer's stream reaches the other, unless the relay finishes.
EndPassedOn ==
    \A s \in Sides : eof[s] ~> shutdown[Other(s)] \/ reason # ""

\* A side that is not read because the other's queue is full is read again.
ReadAgain ==
    \A s \in Sides : ~reader[s] ~> reader[s] \/ eof[s] \/ reason # ""
=============================================================================
