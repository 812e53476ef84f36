------------------------ MODULE ConnectionPolicyProofs ------------------------
(***************************************************************************)
(* Theorems of ConnectionPolicy, for any number of sequence numbers, any   *)
(* screens and any requests.                                               *)
(*                                                                         *)
(* Every message in flight has a place in one numbering of the requests:   *)
(* those the server handled, those on the way to it, those the proxy still *)
(* has to read.  Less than Span of them are unanswered, for nothing the    *)
(* client reads is numbered above what the server still has to say; so two *)
(* numbers that are the same modulo Span are the same.                     *)
(***************************************************************************)
EXTENDS ConnectionPolicy, TLAPS

\* The last request the proxy read, and the last one the server handled.
Noted == sentCount - Len(toProxy)
Handled == Noted - Len(toServer)

\* Requests are read and handled in the order of their numbers.
NumberedInOrder ==
    /\ Handled >= 0
    /\ \A i \in 1..Len(toProxy) : toProxy[i].number = Noted + i
    /\ \A i \in 1..Len(toServer) : toServer[i].number = Handled + i

\* What the server said belongs to requests it handled, in order, none of which
\* is a whole turn of the numbers behind the last one made.
FewUnanswered ==
    /\ sentCount - Span < Handled
    /\ \A i \in 1..Len(fromServer) :
           sentCount - Span < fromServer[i].number /\ fromServer[i].number <= Handled
    /\ \A i, j \in 1..Len(fromServer) :
           i <= j => fromServer[i].number <= fromServer[j].number

\* A number the client was given, or will be.
Given(number) ==
    number <= Handled /\ \A i \in 1..Len(fromServer) : number <= fromServer[i].number

\* The client is given no number above one the server has still to say.
GivenInOrder ==
    /\ Given(readCount) /\ Given(lastSequence)
    /\ \A i \in 1..Len(toClient) : Given(toClient[i])
    /\ \A i \in 1..Len(deferred) : Given(deferred[i])

\* What is remembered is of the last turn of the numbers.
EntriesRecent ==
    ~transparent => \A slot \in 0..(Span - 1) :
        LET entry == requests[slot] IN
        \/ entry = NoEntry
        \/ entry.number % Span = slot /\ Noted - Span < entry.number /\ entry.number <= Noted

\* BigReqEnable is on its way to the server, before the request at a place.
EnableBefore(place) == \E j \in 1..(place - 1) : toServer[j].kind = "enable"

\* What the proxy takes zero lengths for, the server will when it gets there.
FramingAgrees ==
    /\ \A i \in 1..Len(toServer) :
           toServer[i].read => (toServer[i].big <=> "server" \in big \/ EnableBefore(i))
    /\ ~transparent =>
           ("framer" \in big <=> "server" \in big \/ EnableBefore(Len(toServer) + 1))

\* The inductive invariant.
IInv ==
    /\ PolicyTypeOK /\ NumberedInOrder /\ FewUnanswered /\ GivenInOrder
    /\ EntriesRecent /\ FramingAgrees

-----------------------------------------------------------------------------
(* Sequences and numbers.                                                  *)

LEMMA Appended ==
    ASSUME NEW S, NEW s \in Seq(S), NEW e \in S
    PROVE  /\ Append(s, e) \in Seq(S)
           /\ Len(Append(s, e)) = Len(s) + 1
           /\ \A i \in 1..Len(s) : Append(s, e)[i] = s[i]
           /\ Append(s, e)[Len(s) + 1] = e
OBVIOUS

LEMMA Behind ==
    ASSUME NEW S, NEW s \in Seq(S), s # <<>>
    PROVE  /\ Tail(s) \in Seq(S) /\ Len(s) \in Nat \ {0}
           /\ Len(Tail(s)) = Len(s) - 1
           /\ Head(s) = s[1] /\ s[1] \in S
           /\ \A i \in 1..Len(Tail(s)) : i + 1 \in 1..Len(s) /\ Tail(s)[i] = s[i + 1]
OBVIOUS

LEMMA Joined ==
    ASSUME NEW S, NEW s \in Seq(S), NEW t \in Seq(S)
    PROVE  /\ s \o t \in Seq(S)
           /\ \A i \in 1..Len(s \o t) :
                 \/ \E j \in 1..Len(s) : (s \o t)[i] = s[j]
                 \/ \E j \in 1..Len(t) : (s \o t)[i] = t[j]
<1>1. s \o t \in Seq(S) /\ Len(s \o t) = Len(s) + Len(t)
  OBVIOUS
<1>2. ASSUME NEW i \in 1..Len(s \o t), i <= Len(s)
      PROVE  i \in 1..Len(s) /\ (s \o t)[i] = s[i]
  BY <1>2, <1>1
<1>3. ASSUME NEW i \in 1..Len(s \o t), ~(i <= Len(s))
      PROVE  i - Len(s) \in 1..Len(t) /\ (s \o t)[i] = t[i - Len(s)]
  BY <1>3, <1>1
<1> QED BY <1>1, <1>2, <1>3

\* A number is its turn and its place in it.
LEMMA TurnAndPlace ==
    ASSUME NEW span \in Nat \ {0}, NEW n \in Int
    PROVE  /\ n = span * (n \div span) + (n % span)
           /\ n \div span \in Int
           /\ n % span \in 0..(span - 1)
OBVIOUS

\* Turns that lie less than one apart are one.
LEMMA OneTurn ==
    ASSUME NEW span \in Nat \ {0}, NEW p \in Int, NEW q \in Int,
           span * p - span * q < span, span * q - span * p < span
    PROVE  p = q
<1>1. CASE p < q
  <2>1. span * (q - p) >= span
    BY <1>1
  <2>2. span * (q - p) = span * q - span * p
    OBVIOUS
  <2> QED BY <2>1, <2>2
<1>2. CASE q < p
  <2>1. span * (p - q) >= span
    BY <1>2
  <2>2. span * (p - q) = span * p - span * q
    OBVIOUS
  <2> QED BY <2>1, <2>2
<1> QED BY <1>1, <1>2

\* Two numbers less than a turn apart that wrap to the same place are the same.
LEMMA SamePlace ==
    ASSUME NEW span \in Nat \ {0}, NEW m \in Int, NEW n \in Int,
           m % span = n % span, m - n < span, n - m < span
    PROVE  m = n
<1> DEFINE p == m \div span
           q == n \div span
<1>1. m = span * p + (m % span) /\ p \in Int /\ m % span \in Int
  BY TurnAndPlace
<1>2. n = span * q + (n % span) /\ q \in Int
  BY TurnAndPlace
<1>3. span * p \in Int /\ span * q \in Int
  BY <1>1, <1>2
<1> HIDE DEF p, q
<1>4. span * p - span * q < span /\ span * q - span * p < span
  BY <1>1, <1>2, <1>3
<1>5. p = q
  BY <1>1, <1>2, <1>4, OneTurn
<1> QED BY <1>1, <1>2, <1>5

\* A number and the one a turn before it wrap to the same place.
LEMMA TurnBefore ==
    ASSUME NEW span \in Nat \ {0}, NEW n \in Int
    PROVE  (n - span) % span = n % span
<1> DEFINE p == n \div span
           q == (n - span) \div span
           r == n % span
           t == (n - span) % span
<1>1. n = span * p + r /\ p \in Int /\ r \in 0..(span - 1)
  BY TurnAndPlace
<1>2. n - span = span * q + t /\ q \in Int /\ t \in 0..(span - 1)
  <2>1. n - span \in Int
    OBVIOUS
  <2> QED BY <2>1, TurnAndPlace
<1> HIDE DEF p, q, r, t
<1>3. span * (p - 1) = span * p - span
  BY <1>1
<1>4. span * p \in Int /\ span * q \in Int
  BY <1>1, <1>2
<1>5. span * (p - 1) - span * q < span /\ span * q - span * (p - 1) < span
  BY <1>1, <1>2, <1>3, <1>4
<1>6. p - 1 = q
  BY <1>1, <1>2, <1>5, OneTurn
<1>7. span * q = span * p - span
  BY <1>3, <1>6
<1>8. r = t
  BY <1>1, <1>2, <1>4, <1>7
<1> QED BY <1>8 DEF r, t

ToProxyItem == [kind : Kinds, number : 1..MaxRequests]
ToServerItem == [kind : Kinds \cup {"noOperation"}, number : 1..MaxRequests, read : BOOLEAN,
                 big : BOOLEAN]

\* The counts that the invariant compares are integers.
LEMMA Counts ==
    ASSUME PolicyTypeOK
    PROVE  /\ sentCount \in Nat /\ readCount \in Nat /\ lastSequence \in Nat /\ changes \in Nat
           /\ Len(toProxy) \in Nat /\ Len(toServer) \in Nat /\ Len(fromServer) \in Nat
           /\ Len(toClient) \in Nat /\ Len(deferred) \in Nat
           /\ Noted \in Int /\ Handled \in Int /\ Handled <= Noted /\ Noted <= sentCount
           /\ Span \in Nat /\ Span > 1 /\ MaxRequests \in Nat /\ MaxChanges \in Nat
BY PolicyAssumption DEF PolicyTypeOK, Noted, Handled

\* So are the numbers that messages carry.
LEMMA Numbers ==
    ASSUME PolicyTypeOK
    PROVE  /\ \A i \in 1..Len(fromServer) : fromServer[i] \in Message /\ fromServer[i].number \in Nat
           /\ \A i \in 1..Len(toClient) : toClient[i] \in Nat
           /\ \A i \in 1..Len(deferred) : deferred[i] \in Nat
           /\ \A slot \in 0..(Span - 1) : requests[slot].number \in Nat
<1> USE PolicyAssumption DEF PolicyTypeOK
<1>1. \A i \in 1..Len(fromServer) : fromServer[i] \in Message
  OBVIOUS
<1>2. \A m \in Message : m.number \in Nat
  BY DEF Message
<1>3. \A i \in 1..Len(toClient) : toClient[i] \in Nat
  BY SMTT(30)
<1>4. \A i \in 1..Len(deferred) : deferred[i] \in Nat
  BY SMTT(30)
<1>5. ASSUME NEW slot \in 0..(Span - 1)
      PROVE  requests[slot].number \in Nat
  <2>1. requests[slot] \in [kind : Kinds \cup {"none"}, number : 0..MaxRequests]
    OBVIOUS
  <2> QED BY <2>1
<1> QED BY <1>1, <1>2, <1>3, <1>4, <1>5

-----------------------------------------------------------------------------
(* The properties.                                                         *)

\* A reply's number and an entry's lie in one turn.
LEMMA EntryMatches ==
    ASSUME IInv
    PROVE  ReplyFindsItsRequest
<1> SUFFICES ASSUME ~transparent, NEW i \in DOMAIN fromServer,
                    requests[fromServer[i].number % Span] # NoEntry
             PROVE  requests[fromServer[i].number % Span].number = fromServer[i].number
  BY DEF ReplyFindsItsRequest
<1> DEFINE number == fromServer[i].number
           slot == number % Span
           entry == requests[slot]
<1>1. i \in 1..Len(fromServer)
  BY DEF IInv, PolicyTypeOK
<1>2. number \in Nat /\ Span \in Nat \ {0} /\ sentCount \in Nat /\ Noted \in Int /\ Noted <= sentCount
      /\ Handled \in Int /\ Handled <= Noted
  BY <1>1, Counts, Numbers, SMTT(30) DEF IInv
<1>3. slot \in 0..(Span - 1)
  <2> HIDE DEF number
  <2> QED BY <1>2, TurnAndPlace
<1>4. entry.number \in Nat
  BY <1>3 DEF IInv, PolicyTypeOK
<1>5. sentCount - Span < number /\ number <= Handled
  BY <1>1 DEF IInv, FewUnanswered
<1>6. entry.number % Span = slot /\ Noted - Span < entry.number /\ entry.number <= Noted
  BY <1>3 DEF IInv, EntriesRecent
<1> HIDE DEF entry
<1> QED
  <2> HIDE DEF number
  <2>1. number - entry.number < Span /\ entry.number - number < Span
    BY <1>2, <1>4, <1>5, <1>6
  <2>2. entry.number % Span = number % Span
    BY <1>6
  <2>3. entry.number = number
    BY <1>2, <1>4, <2>1, <2>2, SamePlace
  <2> QED BY <2>3 DEF number, entry

\* The first request on its way has none before it.
LEMMA FirstFramed ==
    ASSUME IInv
    PROVE  FramedAsServer
<1> SUFFICES ASSUME toServer # <<>>, Head(toServer).read
             PROVE  Head(toServer).big <=> "server" \in big
  BY DEF FramedAsServer
<1>1. 1 \in 1..Len(toServer) /\ Head(toServer) = toServer[1]
  BY DEF IInv, PolicyTypeOK
<1>2. ~EnableBefore(1)
  BY DEF EnableBefore
<1> QED BY <1>1, <1>2 DEF IInv, FramingAgrees

-----------------------------------------------------------------------------
(* The steps keep the invariant.                                           *)

LEMMA RequestsKept ==
    ASSUME IInv, NEW kind \in Asked, ClientRequests(kind)
    PROVE  IInv'
<1> DEFINE request == [kind |-> kind, number |-> sentCount + 1]
<1>0. /\ PolicyTypeOK /\ NumberedInOrder /\ FewUnanswered /\ GivenInOrder
      /\ EntriesRecent /\ FramingAgrees
  BY DEF IInv
<1>n. /\ sentCount \in Nat /\ readCount \in Nat /\ Noted \in Int /\ Handled \in Int
      /\ Len(toProxy) \in Nat /\ Len(toServer) \in Nat /\ Len(fromServer) \in Nat
      /\ Handled <= Noted /\ Noted <= sentCount
      /\ Span \in Nat /\ Span > 1 /\ MaxRequests \in Nat
  BY <1>0, Counts
<1>1. /\ sentCount' = sentCount + 1 /\ sentCount < MaxRequests
      /\ sentCount - readCount < Span - 1
      /\ toProxy' = Append(toProxy, request)
      /\ UNCHANGED <<readCount, toServer, fromServer, toClient, half, streaming, requests,
                     extensions, big, transparent, setup, view, selected, lastSequence, deferred,
                     changes>>
  BY <1>0 DEF ClientRequests
<1>2. request \in [kind : Kinds, number : 1..MaxRequests]
  BY <1>0, <1>1, <1>n, PolicyAssumption
<1>3. /\ toProxy' \in Seq([kind : Kinds, number : 1..MaxRequests])
      /\ Len(toProxy') = Len(toProxy) + 1
      /\ \A i \in 1..Len(toProxy) : toProxy'[i] = toProxy[i]
      /\ toProxy'[Len(toProxy) + 1] = request
  BY <1>0, <1>1, <1>2, Appended DEF PolicyTypeOK
<1>4. Noted' = Noted /\ Handled' = Handled
  BY <1>0, <1>1, <1>3, <1>n DEF Noted, Handled
<1>5. PolicyTypeOK'
  <2>1. sentCount' \in 0..MaxRequests
    BY <1>0, <1>1, <1>n
  <2> QED BY <1>0, <1>1, <1>3, <2>1 DEF PolicyTypeOK
<1>6. NumberedInOrder'
  <2>1. ASSUME NEW i \in 1..Len(toProxy')
        PROVE  toProxy'[i].number = Noted + i
    <3>1. CASE i = Len(toProxy) + 1
      BY <1>0, <1>3, <3>1, <1>n DEF Noted
    <3>2. CASE i # Len(toProxy) + 1
      <4>1. i \in 1..Len(toProxy)
        BY <1>0, <1>3, <3>2, <1>n
      <4> QED BY <1>0, <1>3, <4>1 DEF NumberedInOrder
    <3> QED BY <1>0, <3>1, <3>2
  <2> QED BY <1>0, <1>1, <1>4, <2>1 DEF NumberedInOrder
<1>7. FewUnanswered'
  <2>1. readCount <= Handled /\ \A i \in 1..Len(fromServer) : readCount <= fromServer[i].number
    BY <1>0 DEF GivenInOrder, Given
  <2>2. sentCount' - Span < readCount
    BY <1>0, <1>1, <1>n
  <2>3. \A i \in 1..Len(fromServer) : fromServer[i].number \in Nat
    BY <1>0, Numbers
  <2>4. sentCount' - Span < Handled
    BY <1>n, <1>1, <2>1, <2>2
  <2>5. \A i \in 1..Len(fromServer) :
            sentCount' - Span < fromServer[i].number /\ fromServer[i].number <= Handled
    BY <1>0, <1>n, <1>1, <2>1, <2>2, <2>3, SMTT(30) DEF FewUnanswered
  <2> QED BY <1>0, <1>1, <1>4, <2>4, <2>5 DEF FewUnanswered
<1>8. GivenInOrder'
  BY <1>0, <1>1, <1>4 DEF GivenInOrder, Given
<1>9. EntriesRecent'
  BY <1>0, <1>1, <1>4 DEF EntriesRecent
<1>10. FramingAgrees'
  BY <1>0, <1>1 DEF FramingAgrees, EnableBefore
<1> QED BY <1>5, <1>6, <1>7, <1>8, <1>9, <1>10 DEF IInv

\* What ReadRequest makes of the entries and of who takes zero lengths for what.
LEMMA ReadRequestKept ==
    ASSUME IInv, ReadRequest
    PROVE  IInv'
<1> DEFINE request == Head(toProxy)
           satisfied == /\ ~transparent /\ request.kind = "setSize" /\ "RANDR" \in extensions
                        /\ view.enabled
           item == [kind |-> IF satisfied THEN "noOperation" ELSE request.kind,
                    number |-> request.number, read |-> ~transparent, big |-> "framer" \in big]
<1>0. /\ PolicyTypeOK /\ NumberedInOrder /\ FewUnanswered /\ GivenInOrder
      /\ EntriesRecent /\ FramingAgrees
  BY DEF IInv
<1>n. /\ sentCount \in Nat /\ readCount \in Nat /\ Noted \in Int /\ Handled \in Int
      /\ Len(toProxy) \in Nat /\ Len(toServer) \in Nat /\ Len(fromServer) \in Nat
      /\ Handled <= Noted /\ Noted <= sentCount
      /\ Span \in Nat /\ Span > 1 /\ MaxRequests \in Nat
  BY <1>0, Counts
<1>1. /\ toProxy # <<>> /\ toProxy' = Tail(toProxy)
      /\ toServer' = Append(toServer, item)
      /\ UNCHANGED <<sentCount, readCount, fromServer, toClient, half, streaming, extensions,
                     setup, view, lastSequence, deferred, changes>>
  BY <1>0 DEF ReadRequest
<1>2. /\ toProxy' \in Seq(ToProxyItem)
      /\ Len(toProxy') = Len(toProxy) - 1 /\ Len(toProxy) \in Nat \ {0}
      /\ request = toProxy[1] /\ request \in ToProxyItem
      /\ \A i \in 1..Len(toProxy') : i + 1 \in 1..Len(toProxy) /\ toProxy'[i] = toProxy[i + 1]
  <2>1. toProxy \in Seq(ToProxyItem)
    BY <1>0 DEF PolicyTypeOK, ToProxyItem
  <2> QED BY <1>1, <2>1, Behind
<1>3. item \in ToServerItem
  BY <1>0, <1>2 DEF ToServerItem, ToProxyItem, PolicyTypeOK
<1>4. /\ toServer' \in Seq(ToServerItem)
      /\ Len(toServer') = Len(toServer) + 1
      /\ \A i \in 1..Len(toServer) : toServer'[i] = toServer[i]
      /\ toServer'[Len(toServer) + 1] = item
  BY <1>0, <1>1, <1>3, Appended DEF PolicyTypeOK, ToServerItem
<1>5. Noted' = Noted + 1 /\ Handled' = Handled /\ request.number = Noted + 1
  <2>1. toProxy[1].number = Noted + 1
    BY <1>0, <1>2 DEF NumberedInOrder
  <2> QED BY <1>0, <1>1, <1>2, <1>4, <2>1, <1>n DEF Noted, Handled
<1>6. request.number \in 1..MaxRequests /\ request.number % Span \in 0..(Span - 1)
  <2>1. request.number \in 1..MaxRequests
    BY <1>2 DEF ToProxyItem
  <2>2. request.number \in Int /\ Span \in Nat \ {0}
    BY <1>n, <2>1
  <2> HIDE DEF request
  <2> QED BY <2>1, <2>2, TurnAndPlace
<1>7. requests' \in [0..(Span - 1) -> [kind : Kinds \cup {"none"}, number : 0..MaxRequests]]
  <2>1. RequestNoted(request) \in [0..(Span - 1) -> [kind : Kinds \cup {"none"}, number : 0..MaxRequests]]
    <3>1. NoEntry \in [kind : Kinds \cup {"none"}, number : 0..MaxRequests]
      BY <1>0, <1>n DEF NoEntry
    <3>2. [kind |-> request.kind, number |-> request.number] \in [kind : Kinds \cup {"none"}, number : 0..MaxRequests]
      BY <1>2, <1>n DEF ToProxyItem
    <3> HIDE DEF request
    <3> QED BY <1>0, <3>1, <3>2 DEF PolicyTypeOK, RequestNoted
  <2> QED BY <1>0, <2>1 DEF ReadRequest, PolicyTypeOK
<1>8. PolicyTypeOK'
  <2>1. big' \subseteq {"framer", "server"} /\ selected' \in BOOLEAN
    BY <1>0 DEF ReadRequest, PolicyTypeOK
  <2>2. transparent' \in BOOLEAN
    BY <1>0 DEF ReadRequest, PolicyTypeOK, Unreadable
  <2> QED BY <1>0, <1>1, <1>2, <1>4, <1>7, <2>1, <2>2 DEF PolicyTypeOK, ToServerItem, ToProxyItem
<1>9. NumberedInOrder'
  <2>1. ASSUME NEW i \in 1..Len(toProxy')
        PROVE  toProxy'[i].number = Noted' + i
    <3>1. toProxy[i + 1].number = Noted + (i + 1)
      BY <1>0, <1>2 DEF NumberedInOrder
    <3> QED BY <1>2, <1>5, <3>1, <1>n
  <2>2. ASSUME NEW i \in 1..Len(toServer')
        PROVE  toServer'[i].number = Handled + i
    <3>1. CASE i = Len(toServer) + 1
      BY <1>0, <1>4, <1>5, <3>1, <1>n DEF Handled
    <3>2. CASE i # Len(toServer) + 1
      <4>1. i \in 1..Len(toServer)
        BY <1>0, <1>4, <3>2, <1>n
      <4> QED BY <1>0, <1>4, <4>1 DEF NumberedInOrder
    <3> QED BY <1>0, <3>1, <3>2
  <2> QED BY <1>0, <1>1, <1>5, <2>1, <2>2 DEF NumberedInOrder
<1>10. FewUnanswered'
  BY <1>0, <1>1, <1>5 DEF FewUnanswered
<1>11. GivenInOrder'
  BY <1>0, <1>1, <1>5 DEF GivenInOrder, Given
<1>12. EntriesRecent'
  <2> SUFFICES ASSUME ~transparent', NEW slot \in 0..(Span - 1), requests'[slot] # NoEntry
               PROVE  /\ requests'[slot].number % Span = slot
                      /\ Noted' - Span < requests'[slot].number
                      /\ requests'[slot].number <= Noted'
    BY <1>0 DEF EntriesRecent
  <2>1. ~transparent /\ requests' = RequestNoted(request)
    BY <1>0 DEF ReadRequest
  <2>2. CASE slot = request.number % Span
    <3>1. requests'[slot].number = request.number
      <4> HIDE DEF request
      <4> QED BY <1>0, <1>6, <2>1, <2>2 DEF RequestNoted, PolicyTypeOK
    <3> QED BY <1>0, <1>5, <2>2, <3>1, <1>n
  <2>3. CASE slot # request.number % Span
    <3> DEFINE entry == requests[slot]
    <3>1. requests'[slot] = entry
      <4> HIDE DEF request
      <4> QED BY <1>0, <1>6, <2>1, <2>3 DEF RequestNoted, PolicyTypeOK
    <3>2. entry.number \in Nat
      BY <1>0, Numbers
    <3>3. entry.number % Span = slot /\ Noted - Span < entry.number /\ entry.number <= Noted
      BY <1>0, <2>1, <3>1 DEF EntriesRecent
    <3>4. Noted + 1 - Span # entry.number
      <4> HIDE DEF entry, request
      <4>1. CASE entry.number = request.number - Span
        <5>1. request.number % Span = entry.number % Span
          <6> DEFINE n == request.number
          <6>1. n \in Int /\ Span \in Nat \ {0}
            BY <1>0, <1>6, <1>n
          <6> HIDE DEF n
          <6>2. (n - Span) % Span = n % Span
            BY <6>1, TurnBefore
          <6> QED BY <1>0, <4>1, <6>2 DEF n
        <5> QED BY <1>0, <2>3, <3>3, <5>1
      <4> QED BY <1>0, <1>5, <1>6, <3>2, <4>1, <1>n
    <3> HIDE DEF entry
    <3> QED BY <1>0, <1>5, <3>1, <3>2, <3>3, <3>4, <1>n
  <2> QED BY <1>0, <2>2, <2>3
<1>13. FramingAgrees'
  <2> DEFINE enabled == "server" \in big \/ EnableBefore(Len(toServer) + 1)
  <2>1. ("server" \in big') <=> "server" \in big
    BY <1>0 DEF ReadRequest
  <2>2. ASSUME NEW i \in 1..(Len(toServer) + 1)
        PROVE  EnableBefore(i)' <=> EnableBefore(i)
    BY <1>0, <1>4, <1>n DEF EnableBefore
  <2>a. (item.kind = "enable" <=> request.kind = "enable") /\ item.read = ~transparent
        /\ item.big = ("framer" \in big)
    OBVIOUS
  <2> HIDE DEF item
  <2>3. EnableBefore(Len(toServer) + 1)' <=>
            EnableBefore(Len(toServer) + 1) \/ request.kind = "enable"
    <3> DEFINE last == Len(toServer) + 1
    <3>1. toServer'[last].kind = "enable" <=> request.kind = "enable"
      BY <1>4, <2>a
    <3>2. \A j \in 1..(last - 1) : toServer'[j] = toServer[j]
      BY <1>4, <1>n
    <3>3. EnableBefore(Len(toServer) + 1)' <=> \E j \in 1..last : toServer'[j].kind = "enable"
      BY <1>4, <1>n DEF EnableBefore
    <3>4. EnableBefore(last) <=> \E j \in 1..(last - 1) : toServer[j].kind = "enable"
      BY DEF EnableBefore
    <3>5. 1..last = 1..(last - 1) \cup {last}
      BY <1>n
    <3> QED BY <3>1, <3>2, <3>3, <3>4, <3>5
  <2>4. ASSUME NEW i \in 1..Len(toServer'), toServer'[i].read
        PROVE  toServer'[i].big <=> "server" \in big' \/ EnableBefore(i)'
    <3>1. CASE i = Len(toServer) + 1
      <4>1. ~transparent /\ (toServer'[i].big <=> "framer" \in big)
        BY <1>4, <2>a, <2>4, <3>1, <1>0 DEF PolicyTypeOK
      <4> QED BY <1>0, <2>1, <2>2, <3>1, <4>1, <1>n DEF FramingAgrees
    <3>2. CASE i # Len(toServer) + 1
      <4>1. i \in 1..Len(toServer) /\ toServer'[i] = toServer[i]
        BY <1>0, <1>4, <3>2, <1>n
      <4> QED BY <1>0, <2>1, <2>2, <2>4, <4>1, <1>n DEF FramingAgrees
    <3> QED BY <1>0, <3>1, <3>2
  <2>5. ASSUME ~transparent'
        PROVE  "framer" \in big' <=> enabled \/ request.kind = "enable"
    <3>1. ~transparent /\ ~Unreadable(request)
      BY <1>0, <2>5 DEF ReadRequest
    <3>2. "framer" \in big <=> enabled
      BY <1>0, <3>1 DEF FramingAgrees
    <3>3. request.kind = "enable" => "BIG-REQUESTS" \in extensions \/ "framer" \in big
      BY <1>0, <3>1 DEF Unreadable
    <3>4. big' = IF request.kind = "enable" /\ "BIG-REQUESTS" \in extensions
                 THEN big \cup {"framer"} ELSE big
      BY <1>0, <3>1 DEF ReadRequest
    <3> QED BY <1>0, <3>2, <3>3, <3>4
  <2> QED BY <2>1, <2>3, <2>4, <2>5 DEF FramingAgrees
<1> QED BY <1>8, <1>9, <1>10, <1>11, <1>12, <1>13 DEF IInv

\* The parts of the invariant that speak of requests on their way are kept by a
\* step that reads or makes none.
LEMMA RequestsAside ==
    ASSUME IInv, UNCHANGED <<sentCount, toProxy, toServer, big, transparent>>
    PROVE  /\ NumberedInOrder' /\ FramingAgrees'
           /\ Noted' = Noted /\ Handled' = Handled
           /\ requests' = requests => EntriesRecent'
<1>1. Noted' = Noted /\ Handled' = Handled
  BY DEF Noted, Handled
<1>2. NumberedInOrder'
  BY <1>1 DEF IInv, NumberedInOrder
<1>3. FramingAgrees'
  BY DEF IInv, FramingAgrees, EnableBefore
<1>4. requests' = requests => EntriesRecent'
  BY <1>1 DEF IInv, EntriesRecent
<1> QED BY <1>1, <1>2, <1>3, <1>4

\* Forgetting what was remembered under a number leaves recent entries.
LEMMA Forgotten ==
    ASSUME IInv, NEW slot \in 0..(Span - 1),
           UNCHANGED <<sentCount, toProxy, transparent>>,
           requests' = [requests EXCEPT ![slot] = NoEntry]
    PROVE  /\ EntriesRecent'
           /\ requests' \in [0..(Span - 1) -> [kind : Kinds \cup {"none"}, number : 0..MaxRequests]]
<1>1. Noted' = Noted
  BY DEF Noted
<1>2. \A other \in 0..(Span - 1) :
          requests'[other] = NoEntry \/ requests'[other] = requests[other]
  BY DEF IInv, PolicyTypeOK
<1>3. EntriesRecent'
  BY <1>1, <1>2 DEF IInv, EntriesRecent
<1>4. NoEntry \in [kind : Kinds \cup {"none"}, number : 0..MaxRequests]
  BY PolicyAssumption DEF NoEntry
<1> QED BY <1>3, <1>4 DEF IInv, PolicyTypeOK

\* The number at the head of what the server said, and where it wraps to.
LEMMA HeadNumber ==
    ASSUME IInv, fromServer # <<>>
    PROVE  /\ Head(fromServer) = fromServer[1] /\ 1 \in 1..Len(fromServer)
           /\ Head(fromServer) \in Message
           /\ Head(fromServer).number \in 0..MaxRequests
           /\ Head(fromServer).number % Span \in 0..(Span - 1)
           /\ Given(Head(fromServer).number)
<1>1. fromServer \in Seq(Message)
  BY DEF IInv, PolicyTypeOK
<1>2. Head(fromServer) = fromServer[1] /\ 1 \in 1..Len(fromServer) /\ Head(fromServer) \in Message
  BY <1>1
<1>3. Head(fromServer).number \in 0..MaxRequests
  BY <1>2 DEF Message
<1>4. Head(fromServer).number % Span \in 0..(Span - 1)
  <2> DEFINE number == Head(fromServer).number
  <2>1. number \in Int /\ Span \in Nat \ {0}
    BY <1>3, PolicyAssumption
  <2>2. number % Span \in 0..(Span - 1)
    <3> HIDE DEF number
    <3> QED BY <2>1, TurnAndPlace
  <2> QED BY <2>2
<1>5. Given(fromServer[1].number)
  <2>1. \A i \in 1..Len(fromServer) : 1 <= i
    OBVIOUS
  <2> QED BY <1>2, <2>1 DEF IInv, FewUnanswered, Given
<1> QED BY <1>2, <1>3, <1>4, <1>5

LEMMA ReadHalfKept ==
    ASSUME IInv, ReadHalf
    PROVE  IInv'
<1>0. /\ PolicyTypeOK /\ FewUnanswered /\ GivenInOrder
  BY DEF IInv
<1> DEFINE number == Head(fromServer).number
<1>1. /\ fromServer # <<>> /\ half' \in BOOLEAN /\ streaming' = Head(fromServer).large
      /\ UNCHANGED <<sentCount, readCount, toProxy, toServer, fromServer, toClient, extensions,
                     big, transparent, setup, view, selected, deferred, changes>>
  BY DEF ReadHalf
<1>2. /\ Head(fromServer) \in Message /\ number \in 0..MaxRequests
      /\ number % Span \in 0..(Span - 1) /\ Given(number)
  BY <1>1, HeadNumber
<1>3. /\ NumberedInOrder' /\ FramingAgrees' /\ Noted' = Noted /\ Handled' = Handled
      /\ requests' = requests => EntriesRecent'
  BY <1>1, RequestsAside
<1>4. lastSequence' \in {lastSequence, number}
  BY DEF ReadHalf
<1>5. /\ EntriesRecent'
      /\ requests' \in [0..(Span - 1) -> [kind : Kinds \cup {"none"}, number : 0..MaxRequests]]
  <2>1. CASE requests' = requests
    BY <1>0, <1>3, <2>1 DEF PolicyTypeOK
  <2>2. CASE requests' = [requests EXCEPT ![number % Span] = NoEntry]
    <3> HIDE DEF number
    <3> QED BY <1>1, <1>2, <2>2, Forgotten
  <2> QED BY <2>1, <2>2 DEF ReadHalf
<1>6. PolicyTypeOK'
  <2>1. streaming' \in BOOLEAN
    BY <1>1, <1>2 DEF Message
  <2> QED BY <1>0, <1>1, <1>2, <1>4, <1>5, <2>1 DEF PolicyTypeOK
<1>7. FewUnanswered'
  BY <1>0, <1>1, <1>3 DEF FewUnanswered
<1>8. GivenInOrder'
  BY <1>0, <1>1, <1>2, <1>3, <1>4 DEF GivenInOrder, Given
<1> QED BY <1>3, <1>5, <1>6, <1>7, <1>8 DEF IInv

\* What a reply teaches of the screen.
LEMMA TaughtType ==
    ASSUME PolicyTypeOK, NEW kind
    PROVE  Taught(kind) \in [size : Views \cup {Native}, enabled : BOOLEAN, modes : BOOLEAN,
                             table : BOOLEAN]
BY DEF PolicyTypeOK, Taught

LEMMA ReadMessageKept ==
    ASSUME IInv, NEW more \in BOOLEAN, ReadMessage(more)
    PROVE  IInv'
<1>0. /\ PolicyTypeOK /\ FewUnanswered /\ GivenInOrder
  BY DEF IInv
<1>n. /\ Handled \in Int /\ Span \in Nat /\ MaxRequests \in Nat /\ sentCount \in Nat
  BY <1>0, Counts
<1> DEFINE message == Head(fromServer)
           number == message.number
           first == toClient \o <<number>>
           after == IF more THEN <<>> ELSE deferred
<1>1. /\ fromServer # <<>> /\ fromServer' = Tail(fromServer)
      /\ half' = more /\ streaming' = FALSE
      /\ toClient' = first \o after
      /\ deferred' = IF more THEN deferred ELSE <<>>
      /\ UNCHANGED <<sentCount, readCount, toProxy, toServer, big, transparent, setup, selected,
                     changes>>
  BY DEF ReadMessage
<1>2. /\ message \in Message /\ number \in 0..MaxRequests
      /\ number % Span \in 0..(Span - 1) /\ Given(number)
  BY <1>1, HeadNumber
<1>3. /\ NumberedInOrder' /\ FramingAgrees' /\ Noted' = Noted /\ Handled' = Handled
      /\ requests' = requests => EntriesRecent'
  BY <1>1, RequestsAside
<1>4. lastSequence' \in {lastSequence, number}
  BY DEF ReadMessage
<1>5. /\ EntriesRecent'
      /\ requests' \in [0..(Span - 1) -> [kind : Kinds \cup {"none"}, number : 0..MaxRequests]]
  <2>1. CASE requests' = requests
    BY <1>0, <1>3, <2>1 DEF PolicyTypeOK
  <2>2. CASE requests' = [requests EXCEPT ![number % Span] = NoEntry]
    <3> HIDE DEF number
    <3> QED BY <1>1, <1>2, <2>2, Forgotten
  <2> QED BY <2>1, <2>2 DEF ReadMessage, Response
<1>6. /\ fromServer \in Seq(Message) /\ fromServer' \in Seq(Message)
      /\ Len(fromServer') = Len(fromServer) - 1
      /\ \A i \in 1..Len(fromServer') : i + 1 \in 1..Len(fromServer) /\ fromServer'[i] = fromServer[i + 1]
  <2>1. fromServer \in Seq(Message)
    BY <1>0 DEF PolicyTypeOK
  <2> QED BY <1>1, <2>1, Behind
<1>7. /\ toClient' \in Seq(0..MaxRequests) /\ deferred' \in Seq(0..MaxRequests)
      /\ \A i \in 1..Len(toClient') :
            \/ \E j \in 1..Len(toClient) : toClient'[i] = toClient[j]
            \/ toClient'[i] = number
            \/ \E j \in 1..Len(deferred) : toClient'[i] = deferred[j]
      /\ \A i \in 1..Len(deferred') :
            i \in 1..Len(deferred) /\ deferred'[i] = deferred[i]
  <2>1. /\ toClient \in Seq(0..MaxRequests) /\ deferred \in Seq(0..MaxRequests)
        /\ after \in Seq(0..MaxRequests) /\ deferred' \in Seq(0..MaxRequests)
    <3>1. toClient \in Seq(0..MaxRequests) /\ deferred \in Seq(0..MaxRequests)
      BY <1>0 DEF PolicyTypeOK
    <3>2. <<>> \in Seq(0..MaxRequests)
      OBVIOUS
    <3>3. CASE more
      BY <1>1, <3>1, <3>2, <3>3
    <3>4. CASE ~more
      BY <1>1, <3>1, <3>2, <3>4
    <3> QED BY <3>3, <3>4
  <2>2. <<number>> \in Seq(0..MaxRequests) /\ Len(<<number>>) = 1 /\ <<number>>[1] = number
    BY <1>2
  <2>3. /\ first \in Seq(0..MaxRequests)
        /\ \A i \in 1..Len(first) :
              (\E j \in 1..Len(toClient) : first[i] = toClient[j]) \/ first[i] = number
    <3> HIDE DEF number
    <3>1. \A j \in 1..Len(<<number>>) : <<number>>[j] = number
      OBVIOUS
    <3> QED BY <2>1, <2>2, <3>1, Joined
  <2>4. \A j \in 1..Len(after) : j \in 1..Len(deferred) /\ after[j] = deferred[j]
    BY <2>1
  <2>5. \A i \in 1..Len(deferred') : i \in 1..Len(deferred) /\ deferred'[i] = deferred[i]
    BY <1>1, <2>1
  <2>6. /\ first \o after \in Seq(0..MaxRequests)
        /\ \A i \in 1..Len(first \o after) :
              \/ \E j \in 1..Len(first) : (first \o after)[i] = first[j]
              \/ \E j \in 1..Len(after) : (first \o after)[i] = after[j]
    <3> HIDE DEF first, after
    <3> QED BY <2>1, <2>3, Joined
  <2>7. toClient' = first \o after
    BY <1>1
  <2> HIDE DEF first, after, number
  <2>8. ASSUME NEW i \in 1..Len(toClient')
        PROVE  \/ \E j \in 1..Len(toClient) : toClient'[i] = toClient[j]
               \/ toClient'[i] = number
               \/ \E j \in 1..Len(deferred) : toClient'[i] = deferred[j]
    <3>1. CASE \E j \in 1..Len(first) : toClient'[i] = first[j]
      BY <2>3, <3>1
    <3>2. CASE \E j \in 1..Len(after) : toClient'[i] = after[j]
      BY <2>4, <3>2
    <3> QED BY <2>6, <2>7, <3>1, <3>2
  <2> QED BY <2>1, <2>5, <2>6, <2>7, <2>8
<1>8. PolicyTypeOK'
  <2>1. view' \in [size : Views \cup {Native}, enabled : BOOLEAN, modes : BOOLEAN, table : BOOLEAN]
    <3>1. view' = view \/ \E kind : view' = Taught(kind)
      BY DEF ReadMessage, Response
    <3> QED BY <1>0, <3>1, TaughtType DEF PolicyTypeOK
  <2>2. extensions' \subseteq {"RANDR", "BIG-REQUESTS"}
    <3>1. extensions' \subseteq extensions \cup {"RANDR", "BIG-REQUESTS"}
      BY DEF ReadMessage, Response
    <3> QED BY <1>0, <3>1 DEF PolicyTypeOK
  <2> HIDE DEF number
  <2> QED BY <1>0, <1>1, <1>2, <1>4, <1>5, <1>6, <1>7, <2>1, <2>2 DEF PolicyTypeOK
<1>9. FewUnanswered'
  <2>1. ASSUME NEW i \in 1..Len(fromServer'), NEW j \in 1..Len(fromServer'), i <= j
        PROVE  fromServer'[i].number <= fromServer'[j].number
    <3>1. i + 1 \in 1..Len(fromServer) /\ j + 1 \in 1..Len(fromServer) /\ i + 1 <= j + 1
      BY <1>6, <2>1
    <3> QED BY <1>0, <1>6, <3>1 DEF FewUnanswered
  <2> QED BY <1>0, <1>1, <1>3, <1>6, <2>1 DEF FewUnanswered
<1>10. GivenInOrder'
  <2>1. \A n : Given(n) => n <= Handled' /\ \A i \in 1..Len(fromServer') : n <= fromServer'[i].number
    BY <1>3, <1>6 DEF Given
  <2>2. /\ Given(readCount) /\ Given(lastSequence) /\ Given(number)
        /\ \A i \in 1..Len(toClient) : Given(toClient[i])
        /\ \A i \in 1..Len(deferred) : Given(deferred[i])
    BY <1>0, <1>2 DEF GivenInOrder
  <2> HIDE DEF number
  <2>3. \A i \in 1..Len(toClient') : Given(toClient'[i])
    BY <1>7, <2>2
  <2>4. \A i \in 1..Len(deferred') : Given(deferred'[i])
    BY <1>7, <2>2
  <2>5. Given(readCount') /\ Given(lastSequence')
    BY <1>1, <1>4, <2>2
  <2> QED BY <2>1, <2>3, <2>4, <2>5 DEF GivenInOrder, Given
<1> QED BY <1>3, <1>5, <1>8, <1>9, <1>10 DEF IInv

LEMMA ChangeDisplayKept ==
    ASSUME IInv, NEW size \in Views, ChangeDisplay(size)
    PROVE  IInv'
<1>0. /\ PolicyTypeOK /\ FewUnanswered /\ GivenInOrder
  BY DEF IInv
<1> DEFINE told == IF setup /\ "RANDR" \in extensions /\ selected THEN <<lastSequence>> ELSE <<>>
<1>1. /\ changes < MaxChanges /\ changes' = changes + 1
      /\ view' = ViewOf(size)
      /\ (toClient' = toClient \o told /\ deferred' = deferred)
         \/ (toClient' = toClient /\ deferred' = deferred \o told)
      /\ UNCHANGED <<sentCount, readCount, toProxy, toServer, fromServer, half, streaming, requests,
                     extensions, big, transparent, setup, selected, lastSequence>>
  BY DEF ChangeDisplay
<1>2. /\ NumberedInOrder' /\ FramingAgrees' /\ Noted' = Noted /\ Handled' = Handled
      /\ EntriesRecent'
  BY <1>1, RequestsAside
<1>3. /\ told \in Seq(0..MaxRequests)
      /\ \A i \in 1..Len(told) : told[i] = lastSequence
  <2>1. lastSequence \in 0..MaxRequests
    BY <1>0 DEF PolicyTypeOK
  <2>2. told = <<>> \/ told = <<lastSequence>>
    OBVIOUS
  <2> HIDE DEF told
  <2>3. CASE told = <<>>
    BY <2>3
  <2>4. CASE told = <<lastSequence>>
    BY <2>1, <2>4
  <2> QED BY <2>2, <2>3, <2>4
<1> HIDE DEF told
<1>4. ASSUME NEW s \in Seq(0..MaxRequests), \A i \in 1..Len(s) : Given(s[i])
      PROVE  s \o told \in Seq(0..MaxRequests) /\ \A i \in 1..Len(s \o told) : Given((s \o told)[i])
  <2>1. Given(lastSequence)
    BY <1>0 DEF GivenInOrder
  <2>2. /\ s \o told \in Seq(0..MaxRequests)
        /\ \A i \in 1..Len(s \o told) :
              \/ \E j \in 1..Len(s) : (s \o told)[i] = s[j]
              \/ \E j \in 1..Len(told) : (s \o told)[i] = told[j]
    BY <1>3, Joined
  <2> QED BY <1>3, <1>4, <2>1, <2>2
<1>5. /\ toClient' \in Seq(0..MaxRequests) /\ \A i \in 1..Len(toClient') : Given(toClient'[i])
      /\ deferred' \in Seq(0..MaxRequests) /\ \A i \in 1..Len(deferred') : Given(deferred'[i])
  <2>1. /\ toClient \in Seq(0..MaxRequests) /\ \A i \in 1..Len(toClient) : Given(toClient[i])
        /\ deferred \in Seq(0..MaxRequests) /\ \A i \in 1..Len(deferred) : Given(deferred[i])
    BY <1>0 DEF PolicyTypeOK, GivenInOrder
  <2> QED BY <1>1, <1>4, <2>1
<1>6. PolicyTypeOK'
  <2>1. changes' \in 0..MaxChanges
    BY <1>0, <1>1, PolicyAssumption DEF PolicyTypeOK
  <2>2. view' \in [size : Views \cup {Native}, enabled : BOOLEAN, modes : BOOLEAN, table : BOOLEAN]
    BY <1>1 DEF ViewOf
  <2> QED BY <1>0, <1>1, <1>5, <2>1, <2>2 DEF PolicyTypeOK
<1>7. FewUnanswered'
  BY <1>0, <1>1, <1>2 DEF FewUnanswered
<1>8. GivenInOrder'
  <2>1. \A n : Given(n) => n <= Handled' /\ \A i \in 1..Len(fromServer') : n <= fromServer'[i].number
    BY <1>1, <1>2 DEF Given
  <2>2. Given(readCount) /\ Given(lastSequence)
    BY <1>0 DEF GivenInOrder
  <2> QED BY <1>1, <1>5, <2>1, <2>2 DEF GivenInOrder, Given
<1> QED BY <1>2, <1>6, <1>7, <1>8 DEF IInv

LEMMA ClientReadsKept ==
    ASSUME IInv, ClientReads
    PROVE  IInv'
<1>0. /\ PolicyTypeOK /\ FewUnanswered /\ GivenInOrder
  BY DEF IInv
<1>1. /\ toClient # <<>> /\ readCount' = Head(toClient) /\ toClient' = Tail(toClient)
      /\ UNCHANGED <<sentCount, toProxy, toServer, fromServer, half, streaming, requests, extensions,
                     big, transparent, setup, view, selected, lastSequence, deferred, changes>>
  BY DEF ClientReads
<1>2. /\ NumberedInOrder' /\ FramingAgrees' /\ Noted' = Noted /\ Handled' = Handled
      /\ EntriesRecent'
  BY <1>1, RequestsAside
<1>3. /\ toClient' \in Seq(0..MaxRequests) /\ readCount' \in 0..MaxRequests
      /\ 1 \in 1..Len(toClient) /\ readCount' = toClient[1]
      /\ \A i \in 1..Len(toClient') : i + 1 \in 1..Len(toClient) /\ toClient'[i] = toClient[i + 1]
  <2>1. toClient \in Seq(0..MaxRequests)
    BY <1>0 DEF PolicyTypeOK
  <2>2. /\ Tail(toClient) \in Seq(0..MaxRequests) /\ Len(toClient) \in Nat \ {0}
        /\ Head(toClient) = toClient[1] /\ toClient[1] \in 0..MaxRequests
        /\ \A i \in 1..Len(Tail(toClient)) :
              i + 1 \in 1..Len(toClient) /\ Tail(toClient)[i] = toClient[i + 1]
    BY <1>1, <2>1, Behind
  <2>3. 1 \in 1..Len(toClient)
    BY <2>2
  <2> QED BY <1>1, <2>2, <2>3
<1>4. PolicyTypeOK'
  BY <1>0, <1>1, <1>3 DEF PolicyTypeOK
<1>5. FewUnanswered'
  BY <1>0, <1>1, <1>2 DEF FewUnanswered
<1>6. GivenInOrder'
  <2>1. \A n : Given(n) => n <= Handled' /\ \A i \in 1..Len(fromServer') : n <= fromServer'[i].number
    BY <1>1, <1>2 DEF Given
  <2>2. /\ Given(readCount') /\ Given(lastSequence)
        /\ \A i \in 1..Len(toClient') : Given(toClient'[i])
        /\ \A i \in 1..Len(deferred) : Given(deferred[i])
    BY <1>0, <1>3 DEF GivenInOrder
  <2> QED BY <1>1, <2>1, <2>2 DEF GivenInOrder, Given
<1> QED BY <1>2, <1>4, <1>5, <1>6 DEF IInv

\* What the server says last is numbered as the request it handled last.
LEMMA Said ==
    ASSUME IInv, NEW message \in Message,
           fromServer' = Append(fromServer, message),
           message.number = Handled', Handled \in Int, Handled' \in Int, Handled <= Handled',
           UNCHANGED <<sentCount, readCount, toClient, lastSequence, deferred>>
    PROVE  FewUnanswered' /\ GivenInOrder' /\ fromServer' \in Seq(Message)
<1>0. PolicyTypeOK /\ FewUnanswered /\ GivenInOrder
  BY DEF IInv
<1>n. /\ Len(fromServer) \in Nat /\ sentCount \in Nat /\ Span \in Nat
      /\ \A i \in 1..Len(fromServer) : fromServer[i].number \in Nat
  BY <1>0, Counts, Numbers
<1>1. /\ fromServer' \in Seq(Message) /\ Len(fromServer') = Len(fromServer) + 1
      /\ \A i \in 1..Len(fromServer) : fromServer'[i] = fromServer[i]
      /\ fromServer'[Len(fromServer) + 1] = message
  BY <1>0, Appended DEF PolicyTypeOK
<1>2. ASSUME NEW i \in 1..Len(fromServer')
      PROVE  \/ i \in 1..Len(fromServer) /\ fromServer'[i] = fromServer[i]
             \/ i = Len(fromServer) + 1 /\ fromServer'[i].number = Handled'
  BY <1>n, <1>1
<1>3. \A i \in 1..Len(fromServer) : fromServer[i].number <= Handled
  BY <1>0 DEF FewUnanswered
<1>4. FewUnanswered'
  <2>1. sentCount' - Span < Handled'
    BY <1>0, <1>n DEF FewUnanswered
  <2>2. ASSUME NEW i \in 1..Len(fromServer')
        PROVE  sentCount' - Span < fromServer'[i].number /\ fromServer'[i].number <= Handled'
    <3>1. CASE i \in 1..Len(fromServer) /\ fromServer'[i] = fromServer[i]
      <4>1. sentCount - Span < fromServer[i].number /\ fromServer[i].number <= Handled
        BY <1>0, <3>1 DEF FewUnanswered
      <4> QED BY <1>n, <3>1, <4>1
    <3>2. CASE i = Len(fromServer) + 1 /\ fromServer'[i].number = Handled'
      BY <2>1, <3>2
    <3> QED BY <1>2, <3>1, <3>2
  <2>3. ASSUME NEW i \in 1..Len(fromServer'), NEW j \in 1..Len(fromServer'), i <= j
        PROVE  fromServer'[i].number <= fromServer'[j].number
    <3>1. CASE j \in 1..Len(fromServer) /\ fromServer'[j] = fromServer[j]
      <4>1. i \in 1..Len(fromServer) /\ fromServer'[i] = fromServer[i]
        BY <1>n, <1>1, <2>3, <3>1
      <4> QED BY <1>0, <2>3, <3>1, <4>1 DEF FewUnanswered
    <3>2. CASE j = Len(fromServer) + 1 /\ fromServer'[j].number = Handled'
      BY <2>2, <3>2
    <3> QED BY <1>2, <3>1, <3>2
  <2> QED BY <2>1, <2>2, <2>3 DEF FewUnanswered
<1>5. GivenInOrder'
  <2>1. \A n \in Nat :
            Given(n) => n <= Handled' /\ \A i \in 1..Len(fromServer') : n <= fromServer'[i].number
    <3> TAKE n \in Nat
    <3> HAVE Given(n)
    <3>1. n <= Handled' /\ n <= Handled /\ \A i \in 1..Len(fromServer) : n <= fromServer[i].number
      BY DEF Given
    <3> QED BY <1>2, <3>1
  <2>2. /\ Given(readCount) /\ Given(lastSequence)
        /\ \A i \in 1..Len(toClient) : Given(toClient[i])
        /\ \A i \in 1..Len(deferred) : Given(deferred[i])
    BY <1>0 DEF GivenInOrder
  <2>3. /\ readCount \in Nat /\ lastSequence \in Nat
        /\ \A i \in 1..Len(toClient) : toClient[i] \in Nat
        /\ \A i \in 1..Len(deferred) : deferred[i] \in Nat
    BY <1>0, Counts, Numbers
  <2> QED BY <2>1, <2>2, <2>3 DEF GivenInOrder, Given
<1> QED BY <1>1, <1>4, <1>5

LEMMA ServerEventKept ==
    ASSUME IInv, ServerEvent
    PROVE  IInv'
<1>0. PolicyTypeOK /\ NumberedInOrder
  BY DEF IInv
<1>n. /\ Handled \in Int /\ Noted \in Int /\ MaxRequests \in Nat /\ sentCount \in Nat
      /\ MaxChanges \in Nat /\ changes \in Nat
      /\ Len(toProxy) \in Nat /\ Len(toServer) \in Nat /\ Handled <= Noted /\ Noted <= sentCount
  BY <1>0, Counts
<1> DEFINE message == [kind |-> "event", number |-> sentCount - (Len(toServer) + Len(toProxy)),
                       large |-> FALSE]
<1>1. /\ changes < MaxChanges /\ changes' = changes + 1
      /\ fromServer' = Append(fromServer, message)
      /\ UNCHANGED <<sentCount, readCount, toProxy, toServer, toClient, half, streaming, requests,
                     extensions, big, transparent, setup, view, selected, lastSequence, deferred>>
  BY DEF ServerEvent
<1>2. /\ NumberedInOrder' /\ FramingAgrees' /\ Handled' = Handled /\ EntriesRecent'
  BY <1>1, RequestsAside
<1>3. message \in Message /\ message.number = Handled'
  <2>1. Handled >= 0 /\ Handled <= MaxRequests /\ sentCount - (Len(toServer) + Len(toProxy)) = Handled
    BY <1>0, <1>n DEF NumberedInOrder, Noted, Handled, PolicyTypeOK
  <2> QED BY <1>n, <1>2, <2>1 DEF Message
<1> HIDE DEF message
<1>4. FewUnanswered' /\ GivenInOrder' /\ fromServer' \in Seq(Message)
  BY <1>n, <1>1, <1>2, <1>3, Said
<1>5. PolicyTypeOK'
  <2>1. changes' \in 0..MaxChanges
    BY <1>n, <1>1
  <2> QED BY <1>0, <1>1, <1>4, <2>1 DEF PolicyTypeOK
<1> QED BY <1>2, <1>4, <1>5 DEF IInv

LEMMA ServerAnswersKept ==
    ASSUME IInv, NEW refused \in BOOLEAN, ServerAnswers(refused)
    PROVE  IInv'
<1>0. /\ PolicyTypeOK /\ NumberedInOrder /\ FewUnanswered /\ GivenInOrder
      /\ EntriesRecent /\ FramingAgrees
  BY DEF IInv
<1>n. /\ sentCount \in Nat /\ Noted \in Int /\ Handled \in Int /\ Len(toServer) \in Nat
      /\ Span \in Nat /\ MaxRequests \in Nat
  BY <1>0, Counts
<1> DEFINE request == Head(toServer)
           message == [kind |-> IF refused THEN "error" ELSE "reply", number |-> request.number,
                       large |-> request.kind = "image" /\ ~refused]
<1>1. /\ toServer # <<>> /\ toServer' = Tail(toServer)
      /\ refused => request.kind # "enable"
      /\ fromServer' = fromServer \/ fromServer' = Append(fromServer, message)
      /\ big' = IF request.kind = "enable" THEN big \cup {"server"} ELSE big
      /\ UNCHANGED <<sentCount, readCount, toProxy, toClient, half, streaming, requests, extensions,
                     transparent, setup, view, selected, lastSequence, deferred, changes>>
  BY DEF ServerAnswers
<1>2. /\ toServer' \in Seq(ToServerItem)
      /\ Len(toServer') = Len(toServer) - 1 /\ Len(toServer) \in Nat \ {0}
      /\ request = toServer[1] /\ request \in ToServerItem
      /\ \A i \in 1..Len(toServer') : i + 1 \in 1..Len(toServer) /\ toServer'[i] = toServer[i + 1]
  <2>1. toServer \in Seq(ToServerItem)
    BY <1>0 DEF PolicyTypeOK, ToServerItem
  <2> QED BY <1>1, <2>1, Behind
<1>3. Noted' = Noted /\ Handled' = Handled + 1 /\ request.number = Handled + 1
  <2>1. toServer[1].number = Handled + 1
    BY <1>0, <1>2 DEF NumberedInOrder
  <2>2. Noted' = Noted
    BY <1>1 DEF Noted
  <2> QED BY <1>2, <1>n, <2>1, <2>2 DEF Handled
<1>4. message \in Message /\ message.number = Handled'
  <2>1. request.number \in 1..MaxRequests
    BY <1>2 DEF ToServerItem
  <2>2. request.number \in 0..MaxRequests
    BY <1>n, <2>1
  <2>3. message.number = request.number
    OBVIOUS
  <2> QED BY <1>3, <2>2, <2>3 DEF Message
<1>5. FewUnanswered' /\ GivenInOrder' /\ fromServer' \in Seq(Message)
  <2>1. CASE fromServer' = fromServer
    <3>1. FewUnanswered'
      <4>1. \A i \in 1..Len(fromServer) : fromServer[i].number \in Nat
        BY <1>0, Numbers
      <4> QED BY <1>0, <1>1, <1>3, <1>n, <2>1, <4>1 DEF FewUnanswered
    <3>2. \A n \in Nat :
              Given(n) => n <= Handled' /\ \A i \in 1..Len(fromServer') : n <= fromServer'[i].number
      BY <1>3, <1>n, <2>1 DEF Given
    <3>3. /\ Given(readCount) /\ Given(lastSequence)
          /\ \A i \in 1..Len(toClient) : Given(toClient[i])
          /\ \A i \in 1..Len(deferred) : Given(deferred[i])
      BY <1>0 DEF GivenInOrder
    <3>4. /\ readCount \in Nat /\ lastSequence \in Nat
          /\ \A i \in 1..Len(toClient) : toClient[i] \in Nat
          /\ \A i \in 1..Len(deferred) : deferred[i] \in Nat
      BY <1>0, Counts, Numbers
    <3>5. GivenInOrder'
      BY <1>1, <3>2, <3>3, <3>4 DEF GivenInOrder, Given
    <3> QED BY <1>0, <2>1, <3>1, <3>5 DEF PolicyTypeOK
  <2>2. CASE fromServer' = Append(fromServer, message)
    <3> HIDE DEF message
    <3>1. Handled' \in Int /\ Handled <= Handled'
      BY <1>3, <1>n
    <3> QED BY <1>1, <1>4, <1>n, <2>2, <3>1, Said
  <2> QED BY <1>1, <2>1, <2>2
<1>6. PolicyTypeOK'
  <2>1. big' \subseteq {"framer", "server"}
    BY <1>0, <1>1 DEF PolicyTypeOK
  <2> HIDE DEF request, message
  <2> QED BY <1>0, <1>1, <1>2, <1>5, <2>1 DEF PolicyTypeOK, ToServerItem
<1>7. NumberedInOrder'
  <2>1. ASSUME NEW i \in 1..Len(toServer')
        PROVE  toServer'[i].number = Handled' + i
    <3>1. toServer[i + 1].number = Handled + (i + 1)
      BY <1>0, <1>2 DEF NumberedInOrder
    <3>2. toServer'[i].number = Handled + (i + 1)
      BY <1>2, <3>1
    <3>3. i \in Int /\ Handled' = Handled + 1
      BY <1>3
    <3> QED BY <1>n, <3>2, <3>3
  <2>2. Handled' >= 0
    BY <1>0, <1>3, <1>n DEF NumberedInOrder
  <2> QED BY <1>0, <1>1, <1>3, <2>1, <2>2 DEF NumberedInOrder
<1>8. EntriesRecent'
  BY <1>0, <1>1, <1>3 DEF EntriesRecent
<1>9. FramingAgrees'
  <2>1. ASSUME NEW i \in 1..(Len(toServer') + 1)
        PROVE  "server" \in big' \/ (\E j \in 1..(i - 1) : toServer'[j].kind = "enable")
                   <=> "server" \in big \/ EnableBefore(i + 1)
    <3> DEFINE kind(j) == toServer[j].kind
    <3>1. EnableBefore(i + 1) <=> \E j \in 1..i : kind(j) = "enable"
      BY <1>2 DEF EnableBefore
    <3>2. \A j \in 1..(i - 1) : j + 1 \in 2..i /\ toServer'[j].kind = kind(j + 1)
      BY <1>2
    <3>3. \A j \in 2..i : j - 1 \in 1..(i - 1) /\ toServer'[j - 1].kind = kind(j)
      BY <1>2
    <3>4. 1..i = {1} \cup 2..i
      BY <1>2
    <3>5. "server" \in big' <=> "server" \in big \/ kind(1) = "enable"
      BY <1>1, <1>2
    <3> HIDE DEF kind
    <3>6. (\E j \in 1..(i - 1) : toServer'[j].kind = "enable") <=> \E j \in 2..i : kind(j) = "enable"
      BY <3>2, <3>3
    <3> QED BY <3>1, <3>4, <3>5, <3>6
  <2>2. ASSUME NEW i \in 1..Len(toServer'), toServer'[i].read
        PROVE  toServer'[i].big <=> "server" \in big' \/ EnableBefore(i)'
    <3>1. i + 1 \in 1..Len(toServer) /\ toServer'[i] = toServer[i + 1] /\ i \in 1..(Len(toServer') + 1)
      BY <1>2
    <3>2. toServer[i + 1].big <=> "server" \in big \/ EnableBefore(i + 1)
      BY <1>0, <2>2, <3>1 DEF FramingAgrees
    <3>3. EnableBefore(i)' <=> \E j \in 1..(i - 1) : toServer'[j].kind = "enable"
      BY DEF EnableBefore
    <3> QED BY <2>1, <3>1, <3>2, <3>3
  <2>3. ASSUME ~transparent'
        PROVE  "framer" \in big' <=> "server" \in big' \/ EnableBefore(Len(toServer) + 1)'
    <3> DEFINE last == Len(toServer') + 1
    <3>1. last \in 1..(Len(toServer') + 1) /\ last + 1 = Len(toServer) + 1
      BY <1>2
    <3>2. "framer" \in big' <=> "framer" \in big
      BY <1>1
    <3>3. "framer" \in big <=> "server" \in big \/ EnableBefore(Len(toServer) + 1)
      BY <1>0, <1>1, <2>3 DEF FramingAgrees
    <3>4. EnableBefore(Len(toServer) + 1)' <=> \E j \in 1..(last - 1) : toServer'[j].kind = "enable"
      BY DEF EnableBefore
    <3> HIDE DEF last
    <3>5. EnableBefore(last + 1) <=> EnableBefore(Len(toServer) + 1)
      BY <3>1 DEF EnableBefore
    <3> QED BY <2>1, <3>1, <3>2, <3>3, <3>4, <3>5
  <2> QED BY <2>2, <2>3 DEF FramingAgrees
<1> QED BY <1>5, <1>6, <1>7, <1>8, <1>9 DEF IInv

LEMMA SetupReplyKept ==
    ASSUME IInv, SetupReply \/ UNCHANGED policyVars
    PROVE  IInv'
<1>1. /\ setup' \in BOOLEAN
      /\ UNCHANGED <<sentCount, readCount, toProxy, toServer, fromServer, toClient, half, streaming,
                     requests, extensions, big, transparent, view, selected, lastSequence, deferred,
                     changes>>
  BY DEF SetupReply, policyVars, IInv, PolicyTypeOK
<1>2. /\ NumberedInOrder' /\ FramingAgrees' /\ Handled' = Handled /\ EntriesRecent'
  BY <1>1, RequestsAside
<1>3. PolicyTypeOK'
  BY <1>1 DEF IInv, PolicyTypeOK
<1>4. FewUnanswered' /\ GivenInOrder'
  BY <1>1, <1>2 DEF IInv, FewUnanswered, GivenInOrder, Given
<1> QED BY <1>2, <1>3, <1>4 DEF IInv

LEMMA InitHolds ==
    ASSUME PolicyInit
    PROVE  IInv
<1>1. PolicyTypeOK
  <2>1. requests \in [0..(Span - 1) -> [kind : Kinds \cup {"none"}, number : 0..MaxRequests]]
    <3>1. NoEntry \in [kind : Kinds \cup {"none"}, number : 0..MaxRequests]
      BY PolicyAssumption DEF NoEntry
    <3> QED BY <3>1 DEF PolicyInit
  <2>2. view \in [size : Views \cup {Native}, enabled : BOOLEAN, modes : BOOLEAN, table : BOOLEAN]
    <3>1. PICK size \in Views \cup {Native} : view = ViewOf(size)
      BY DEF PolicyInit
    <3>2. ViewOf(size) \in [size : Views \cup {Native}, enabled : BOOLEAN, modes : BOOLEAN, table : BOOLEAN]
      BY DEF ViewOf
    <3> QED BY <3>1, <3>2
  <2>3. /\ sentCount \in 0..MaxRequests /\ readCount \in 0..MaxRequests
        /\ lastSequence \in 0..MaxRequests /\ changes \in 0..MaxChanges
    BY PolicyAssumption DEF PolicyInit
  <2>4. /\ toProxy = <<>> /\ toServer = <<>> /\ fromServer = <<>> /\ toClient = <<>>
        /\ deferred = <<>>
    BY DEF PolicyInit
  <2>5. /\ half \in BOOLEAN /\ streaming \in BOOLEAN /\ transparent \in BOOLEAN
        /\ setup \in BOOLEAN /\ selected \in BOOLEAN
        /\ extensions = {} /\ big = {}
    BY DEF PolicyInit
  <2> QED BY <2>1, <2>2, <2>3, <2>4, <2>5 DEF PolicyTypeOK
<1>3. Len(toProxy) = 0 /\ Len(toServer) = 0 /\ Len(fromServer) = 0 /\ Len(toClient) = 0
      /\ Len(deferred) = 0
  BY DEF PolicyInit
<1>2. Noted = 0 /\ Handled = 0
  <2>1. sentCount = 0
    BY DEF PolicyInit
  <2>2. Noted = 0
    BY <1>3, <2>1 DEF Noted
  <2> QED BY <1>3, <2>2 DEF Handled
<1>4. NumberedInOrder /\ FewUnanswered /\ GivenInOrder
  BY <1>2, <1>3, PolicyAssumption DEF PolicyInit, NumberedInOrder, FewUnanswered, GivenInOrder, Given
<1>5. EntriesRecent
  BY DEF PolicyInit, EntriesRecent
<1>6. FramingAgrees
  BY <1>3 DEF PolicyInit, FramingAgrees, EnableBefore
<1> QED BY <1>1, <1>4, <1>5, <1>6 DEF IInv

LEMMA StepKeeps ==
    ASSUME IInv, [PolicyNext]_policyVars
    PROVE  IInv'
<1>1. ASSUME NEW kind \in Asked, ClientRequests(kind)
      PROVE  IInv'
  BY <1>1, RequestsKept
<1>2. CASE ReadRequest
  BY <1>2, ReadRequestKept
<1>3. CASE ReadHalf
  BY <1>3, ReadHalfKept
<1>4. CASE SetupReply \/ UNCHANGED policyVars
  BY <1>4, SetupReplyKept
<1>5. CASE ClientReads
  BY <1>5, ClientReadsKept
<1>6. CASE ServerEvent
  BY <1>6, ServerEventKept
<1>7. ASSUME NEW more \in BOOLEAN, ReadMessage(more)
      PROVE  IInv'
  BY <1>7, ReadMessageKept
<1>8. ASSUME NEW size \in Views, ChangeDisplay(size)
      PROVE  IInv'
  BY <1>8, ChangeDisplayKept
<1>9. ASSUME NEW refused \in BOOLEAN, ServerAnswers(refused)
      PROVE  IInv'
  BY <1>9, ServerAnswersKept
<1> QED BY <1>1, <1>2, <1>3, <1>4, <1>5, <1>6, <1>7, <1>8, <1>9 DEF PolicyNext

THEOREM Invariance == PolicySpec => []IInv
<1>1. PolicyInit => IInv
  BY InitHolds
<1>2. IInv /\ [PolicyNext]_policyVars => IInv'
  BY StepKeeps
<1> QED BY <1>1, <1>2, PTL DEF PolicySpec

-----------------------------------------------------------------------------
\* A connection's state has its types: no number passes the requests made.
\* (m_sequence and m_lastSequence, policy.h:78-83)
THEOREM Typed == PolicySpec => []PolicyTypeOK
<1>1. IInv => PolicyTypeOK
  BY DEF IInv
<1> QED BY <1>1, Invariance, PTL

\* However often the numbers come round, a reply is rewritten only as the answer
\* to the request it answers.
\* (request() and response(), policy.cpp:72-172)
THEOREM RepliesFindTheirRequests == PolicySpec => []ReplyFindsItsRequest
<1>1. IInv => ReplyFindsItsRequest
  BY EntryMatches
<1> QED BY <1>1, Invariance, PTL

\* The proxy and the server agree on where every request ends that the proxy reads.
\* (request() and Framer::requestLength(), policy.cpp:100-115, framer.cpp:66-92)
THEOREM FramingIsTheServers == PolicySpec => []FramedAsServer
<1>1. IInv => FramedAsServer
  BY FirstFramed
<1> QED BY <1>1, Invariance, PTL
====
