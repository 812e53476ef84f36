------------------------- MODULE ProxySessionProofs -------------------------
(***************************************************************************)
(* Proofs about ProxySession, for every number of connections, processes,  *)
(* prefixes and outstanding calls: what the proxy counts is what it holds, *)
(* it holds no more than its bound, a prefix's screen goes with its last   *)
(* connection and is one for all of them, every variable keeps its type,   *)
(* and who is shown a screen is on the effect's record, while that has     *)
(* room.  Nothing else is assumed of what the effect answers.              *)
(***************************************************************************)
EXTENDS ProxySession, FiniteSetTheorems, SequenceTheorems, TLAPS

\* What the counts are kept in; the sizes they carry may be anything.
Kept ==
    /\ phase \in [Conns -> Phases]
    /\ owner \in [Conns -> AnyPid]
    /\ answered \in [Conns -> BOOLEAN]
    /\ DOMAIN answers = Pids
    /\ answers = [p \in Pids |-> answers[p]]
    /\ \A p \in Pids : /\ answers[p] = [size |-> answers[p].size,
                                        count |-> answers[p].count]
                       /\ answers[p].count \in Nat
    /\ connections \in [WinePrefixes -> Nat]
    /\ relays \in [WinePrefixes -> SUBSET Conns]
    /\ shown = [x \in WinePrefixes |-> shown[x]]

\* The inductive invariant.
IInv == Kept /\ CountersAgree /\ ClientsBounded /\ ScreenForgotten

\* The relays an answer of process p is kept for.
Holders(p) == {c \in Live : owner[c] = p /\ answered[c]}

-----------------------------------------------------------------------------
(* Sets of connections.                                                    *)

LEMMA Finite ==
    /\ IsFiniteSet(Pending) /\ Cardinality(Pending) \in Nat
    /\ IsFiniteSet(Live) /\ Cardinality(Live) \in Nat
    /\ \A p : IsFiniteSet(Holders(p)) /\ Cardinality(Holders(p)) \in Nat
    /\ \A S \in SUBSET Conns : IsFiniteSet(S) /\ Cardinality(S) \in Nat
<1>1. \A S \in SUBSET Conns : IsFiniteSet(S) /\ Cardinality(S) \in Nat
  BY ConstantsAssumption, FS_Subset, FS_CardinalityType DEF ConstantsAssumption
<1>2. Pending \in SUBSET Conns /\ Live \in SUBSET Conns
  BY DEF Pending, Live
<1>3. \A p : Holders(p) \in SUBSET Conns
  BY <1>2 DEF Holders
<1> QED BY <1>1, <1>2, <1>3

\* Both kinds of connection at once are impossible.
LEMMA Apart == \A c \in Conns : c \in Pending => c \notin Live
BY DEF Pending, Live, PendingPhases, LivePhases

-----------------------------------------------------------------------------
(* relayClient().                                                          *)

\* The backend took connection c: one decision less, one relay more, and the
\* counts of its process and prefix follow.
LEMMA Accepted ==
    ASSUME IInv, NEW c \in Conns, c \notin Live, NEW p \in AnyPid, NEW size,
           NEW ans \in BOOLEAN, NEW count, NEW calls,
           count = Cardinality(Pending \ {c}) + 1,
           count + Cardinality(Live) <= MaxClients,
           BackendAccepts(c, p, size, ans, count, calls)
    PROVE  IInv'
<1> DEFINE x == Prefix(p)
           follows == x # NoPrefix /\ size = NoSize /\ shown[x].size # NoSize
           s == IF follows THEN shown[x].size ELSE size
           game == IF follows THEN shown[x].game ELSE NoPid
           keeps == (ans \/ follows) /\ p # NoPid
           known == IF keeps
                    THEN [answers EXCEPT ![p] = [size |-> s, count |-> @.count + 1]]
                    ELSE answers
<1> USE DEF IInv
<1>p. /\ Prefix(p) \in WinePrefixes \cup {NoPrefix}
      /\ NoPid \notin Pids /\ NoPrefix \notin WinePrefixes
      /\ p # NoPid => p \in Pids
  BY ConstantsAssumption DEF ConstantsAssumption, Prefix, AnyPid
<1>a. /\ phase' = [phase EXCEPT ![c] = "relay"]
      /\ owner' = [owner EXCEPT ![c] = p]
      /\ answered' = [answered EXCEPT ![c] = ans \/ follows]
      /\ pending' = count - 1
      /\ IF x = NoPrefix
         THEN UNCHANGED <<connections, relays>>
         ELSE /\ connections' = [connections EXCEPT ![x] = @ + 1]
              /\ relays' = [relays EXCEPT ![x] = @ \cup {c}]
  BY DEF BackendAccepts
<1>1. /\ Pending' = Pending \ {c}
      /\ Live' = Live \cup {c}
  BY <1>a DEF Kept, Pending, Live, PendingPhases, LivePhases
<1>2. /\ Cardinality(Pending') = count - 1
      /\ Cardinality(Live') = Cardinality(Live) + 1
  <2>1. Cardinality(Pending \ {c}) \in Nat
    BY Finite, FS_RemoveElement, FS_CardinalityType
  <2>2. Cardinality(Live \cup {c}) = Cardinality(Live) + 1
    BY Finite, FS_AddElement
  <2> QED BY <1>1, <2>1, <2>2
<1>3. \A q \in Pids : Holders(q)' = IF q = p /\ keeps
                                    THEN Holders(q) \cup {c} ELSE Holders(q)
  <2>1. \A d \in Live : d # c /\ owner'[d] = owner[d] /\ answered'[d] = answered[d]
    BY <1>a DEF Kept, Live
  <2>2. owner'[c] = p /\ answered'[c] = (ans \/ follows)
    BY <1>a DEF Kept
  <2> QED BY <1>1, <1>p, <2>1, <2>2 DEF Holders
<1>4. /\ answers' = [q \in Pids |-> answers'[q]]
      /\ \A q \in Pids :
            /\ answers'[q] = [size |-> answers'[q].size, count |-> answers'[q].count]
            /\ answers'[q].count =
                  IF q = p /\ keeps THEN answers[q].count + 1 ELSE answers[q].count
  <2>1. /\ known = [q \in Pids |-> known[q]]
        /\ \A q \in Pids :
            /\ known[q] = [size |-> known[q].size, count |-> known[q].count]
            /\ known[q].count =
                  IF q = p /\ keeps THEN answers[q].count + 1 ELSE answers[q].count
    BY <1>p DEF Kept
  <2>2. answers' = known \/ answers' = SwitchedAnswers(known, x, s)
    BY DEF BackendAccepts, ShowPrefix
  <2>3. CASE answers' = known
    BY <2>1, <2>3
  <2>4. CASE answers' = SwitchedAnswers(known, x, s)
    <3> HIDE DEF known
    <3>1. \A q \in Pids : answers'[q] \in {known[q], [known[q] EXCEPT !.size = s]}
      BY <2>4 DEF SwitchedAnswers
    <3>2. answers' = [q \in Pids |-> answers'[q]]
      BY <2>4 DEF SwitchedAnswers
    <3> QED BY <2>1, <3>1, <3>2
  <2> QED BY <2>2, <2>3, <2>4
<1>5. shown' = [y \in WinePrefixes |-> shown'[y]]
      /\ \A y \in WinePrefixes : y # x => shown'[y] = shown[y]
  BY <1>p DEF BackendAccepts, ShowPrefix, Kept
<1>6. \A y \in WinePrefixes :
        /\ relays'[y] = IF y = x THEN relays[y] \cup {c} ELSE relays[y]
        /\ connections'[y] = IF y = x THEN connections[y] + 1 ELSE connections[y]
  <2>1. CASE x = NoPrefix
    BY <1>a, <1>p, <2>1
  <2>2. CASE x # NoPrefix
    <3>1. x \in WinePrefixes
      BY <1>p, <2>2
    <3> HIDE DEF x
    <3> QED BY <1>a, <2>2, <3>1 DEF Kept
  <2> QED BY <2>1, <2>2
<1>7. Kept'
  <2>1. /\ phase' \in [Conns -> Phases] /\ owner' \in [Conns -> AnyPid]
        /\ answered' \in [Conns -> BOOLEAN]
    BY <1>a DEF Kept, Phases, LivePhases
  <2>2. \A q \in Pids : answers'[q].count \in Nat
    BY <1>4 DEF Kept
  <2>3. connections' \in [WinePrefixes -> Nat] /\ relays' \in [WinePrefixes -> SUBSET Conns]
    BY <1>a, <1>p, SMTT(30) DEF Kept
  <2> QED BY <2>1, <2>2, <2>3, <1>4, <1>5 DEF Kept
<1>8. CountersAgree'
  <2>1. pending' = Cardinality(Pending')
    BY <1>2, <1>a
  <2>2. ASSUME NEW q \in Pids
        PROVE  answers'[q].count = Cardinality(Holders(q)')
    <3>1. answers[q].count = Cardinality(Holders(q)) /\ c \notin Holders(q)
      BY DEF CountersAgree, Holders
    <3>2. Cardinality(Holders(q) \cup {c}) = Cardinality(Holders(q)) + 1
      BY <3>1, Finite, FS_AddElement
    <3> HIDE DEF keeps
    <3> QED BY <3>1, <3>2, <1>3, <1>4
  <2>3. ASSUME NEW y \in WinePrefixes
        PROVE  /\ relays'[y] = {d \in Live' : Prefix(owner'[d]) = y}
               /\ connections'[y] = Cardinality(relays'[y])
    <3>1. /\ relays[y] = {d \in Live : Prefix(owner[d]) = y}
          /\ connections[y] = Cardinality(relays[y])
      BY DEF CountersAgree
    <3>2. \A d \in Live : d # c /\ owner'[d] = owner[d]
      BY <1>a DEF Kept, Live
    <3>3. owner'[c] = p
      BY <1>a DEF Kept
    <3>4. IsFiniteSet(relays[y]) /\ c \notin relays[y]
      BY <3>1, Finite DEF Kept
    <3>5. relays'[y] = {d \in Live' : Prefix(owner'[d]) = y}
      BY <3>1, <3>2, <3>3, <1>1, <1>6
    <3>6. Cardinality(relays[y] \cup {c}) = Cardinality(relays[y]) + 1
      BY <3>4, FS_AddElement
    <3> HIDE DEF x
    <3> QED BY <3>1, <3>5, <3>6, <1>6
  <2> QED BY <2>1, <2>2, <2>3 DEF CountersAgree, Holders
<1>9. ClientsBounded'
  <2>1. Cardinality(Live) \in Nat /\ count \in Nat /\ MaxClients \in Nat
    <3>1. Cardinality(Pending \ {c}) \in Nat
      BY Finite, FS_RemoveElement, FS_CardinalityType
    <3> QED BY <3>1, Finite, ConstantsAssumption DEF ConstantsAssumption
  <2> QED BY <1>2, <2>1 DEF ClientsBounded
<1>10. ScreenForgotten'
  BY <1>5, <1>6 DEF ScreenForgotten
<1> QED BY <1>7, <1>8, <1>9, <1>10

\* A step that leaves the relays alone only has to count its decisions.
LEMMA Steady ==
    ASSUME IInv,
           phase' \in [Conns -> Phases],
           owner' \in [Conns -> AnyPid],
           Live' = Live,
           \A d \in Live : owner'[d] = owner[d],
           pending' = Cardinality(Pending'),
           Cardinality(Pending') + Cardinality(Live) <= MaxClients,
           answers' = [p \in Pids |-> answers'[p]],
           \A p \in Pids : answers'[p] = [size |-> answers'[p].size,
                                          count |-> answers[p].count],
           UNCHANGED <<answered, connections, relays, shown>>
    PROVE  IInv'
<1> USE DEF IInv
<1>1. \A p \in Pids : answers'[p].count = answers[p].count
  OBVIOUS
<1>2. Kept'
  BY <1>1 DEF Kept
<1>3. \A p : Holders(p)' = Holders(p)
  BY DEF Holders
<1>4. CountersAgree'
  <2>1. \A p \in Pids : answers'[p].count = Cardinality(Holders(p)')
    <3>1. \A p \in Pids : answers[p].count = Cardinality(Holders(p))
      BY DEF CountersAgree, Holders
    <3> QED BY <1>1, <1>3, <3>1
  <2>2. \A x : {d \in Live' : Prefix(owner'[d]) = x} = {d \in Live : Prefix(owner[d]) = x}
    OBVIOUS
  <2> QED BY <2>1, <2>2 DEF CountersAgree, Holders
<1>5. ClientsBounded' /\ ScreenForgotten'
  BY DEF ClientsBounded, ScreenForgotten
<1> QED BY <1>2, <1>4, <1>5

\* relayClient(), for a connection that is decided.
LEMMA Decided ==
    ASSUME IInv, NEW c \in Conns, c \notin Live, NEW p \in AnyPid, NEW size,
           NEW ans \in BOOLEAN, NEW count, NEW calls,
           count = Cardinality(Pending \ {c}) + 1,
           count + Cardinality(Live) <= MaxClients,
           RelayClient(c, p, size, ans, count, calls)
    PROVE  IInv'
<1>1. CASE BackendAccepts(c, p, size, ans, count, calls)
  BY <1>1, Accepted
<1>2. CASE BackendRefuses(c, count, calls)
  <2>1. /\ phase' = [phase EXCEPT ![c] = "closed"]
        /\ owner' = [owner EXCEPT ![c] = NoPid]
        /\ pending' = count - 1
        /\ UNCHANGED <<answered, answers, connections, relays, shown>>
    BY <1>2 DEF BackendRefuses, relayVars
  <2>2. phase' \in [Conns -> Phases] /\ owner' \in [Conns -> AnyPid]
    BY <2>1 DEF IInv, Kept, Phases, AnyPid
  <2>3. Live' = Live /\ Pending' = Pending \ {c}
    BY <2>1 DEF IInv, Kept, Live, Pending, LivePhases, PendingPhases
  <2>4. \A d \in Live : owner'[d] = owner[d]
    BY <2>1 DEF IInv, Kept, Live
  <2>5. Cardinality(Pending \ {c}) \in Nat /\ Cardinality(Live) \in Nat /\ MaxClients \in Nat
    BY Finite, FS_RemoveElement, FS_CardinalityType, ConstantsAssumption
       DEF ConstantsAssumption
  <2>6. /\ pending' = Cardinality(Pending')
        /\ Cardinality(Pending') + Cardinality(Live) <= MaxClients
    BY <2>1, <2>3, <2>5
  <2>7. /\ answers' = [q \in Pids |-> answers'[q]]
        /\ \A q \in Pids : answers'[q] = [size |-> answers'[q].size,
                                          count |-> answers[q].count]
    BY <2>1 DEF IInv, Kept
  <2> QED BY <2>1, <2>2, <2>3, <2>4, <2>6, <2>7, Steady
<1> QED BY <1>1, <1>2 DEF RelayClient

\* The decision of a connection that waits for one.
LEMMA PendingDecided ==
    ASSUME IInv, NEW c \in Pending, NEW size, NEW ans \in BOOLEAN, NEW calls,
           RelayClient(c, owner[c], size, ans, pending, calls)
    PROVE  IInv'
<1>1. c \in Conns /\ c \notin Live /\ owner[c] \in AnyPid
  BY Apart DEF IInv, Kept, Pending
<1>2. Cardinality(Pending) \in Nat /\ Cardinality(Pending \ {c}) = Cardinality(Pending) - 1
  BY Finite, FS_RemoveElement
<1>3. pending = Cardinality(Pending \ {c}) + 1 /\ pending + Cardinality(Live) <= MaxClients
  BY <1>2 DEF IInv, CountersAgree, ClientsBounded
<1> QED BY <1>1, <1>3, Decided

\* The decision of a connection that was just accepted.
LEMMA NewDecided ==
    ASSUME IInv, NEW c \in Conns, phase[c] = "closed", HasRoom, NEW p \in AnyPid,
           NEW size, NEW ans \in BOOLEAN, NEW calls,
           RelayClient(c, p, size, ans, pending + 1, calls)
    PROVE  IInv'
<1>1. c \notin Live /\ Pending \ {c} = Pending
  BY DEF Pending, Live, PendingPhases, LivePhases
<1>2. /\ Cardinality(Pending) \in Nat /\ Cardinality(Live) \in Nat
      /\ MaxClients \in Nat
  BY Finite, ConstantsAssumption DEF ConstantsAssumption
<1>3. pending = Cardinality(Pending) /\ pending + Cardinality(Live) < MaxClients
  BY DEF IInv, CountersAgree, HasRoom
<1>4. Cardinality(Pending \ {c}) = Cardinality(Pending)
  BY <1>1
<1>5. pending + 1 = Cardinality(Pending \ {c}) + 1
  BY <1>3, <1>4
<1>6. pending + 1 + Cardinality(Live) <= MaxClients
  BY <1>2, <1>3
<1> QED BY <1>1, <1>5, <1>6, Decided

-----------------------------------------------------------------------------
(* The other steps.                                                        *)

\* What stays countable of answers that did not change.
LEMMA SameAnswers ==
    ASSUME IInv, UNCHANGED answers
    PROVE  /\ answers' = [p \in Pids |-> answers'[p]]
           /\ \A p \in Pids : answers'[p] = [size |-> answers'[p].size,
                                             count |-> answers[p].count]
BY DEF IInv, Kept

\* A step that moves no connection between closed, pending and relayed.
LEMMA NothingMoves ==
    ASSUME IInv,
           phase' \in [Conns -> Phases],
           Live' = Live, Pending' = Pending,
           answers' = [p \in Pids |-> answers'[p]],
           \A p \in Pids : answers'[p] = [size |-> answers'[p].size,
                                          count |-> answers[p].count],
           UNCHANGED <<owner, pending, answered, connections, relays, shown>>
    PROVE  IInv'
<1>1. pending' = Cardinality(Pending')
  BY DEF IInv, CountersAgree
<1>2. Cardinality(Pending') + Cardinality(Live) <= MaxClients
  BY DEF IInv, ClientsBounded
<1>3. owner' \in [Conns -> AnyPid]
  BY DEF IInv, Kept
<1> QED BY <1>1, <1>2, <1>3, Steady

\* acceptClient() for a process that has to be asked about.
LEMMA AcceptUnknownKeeps ==
    ASSUME IInv, NEW c \in Conns, NEW p \in Pids, AcceptUnknown(c, p)
    PROVE  IInv'
<1>1. /\ phase[c] = "closed" /\ HasRoom
      /\ pending' = pending + 1
      /\ owner' = [owner EXCEPT ![c] = p]
      /\ UNCHANGED <<answered, answers, connections, relays, shown>>
  BY DEF AcceptUnknown, relayVars
<1>2. \E new \in PendingPhases : phase' = [phase EXCEPT ![c] = new]
  BY DEF AcceptUnknown, Decide, CheckPrefix, PendingPhases
<1>3. phase' \in [Conns -> Phases] /\ owner' \in [Conns -> AnyPid]
  BY <1>1, <1>2 DEF IInv, Kept, Phases, AnyPid
<1>4. /\ Live' = Live /\ Pending' = Pending \cup {c}
      /\ c \notin Pending /\ c \notin Live
  BY <1>1, <1>2 DEF IInv, Kept, Live, Pending, LivePhases, PendingPhases
<1>5. \A d \in Live : owner'[d] = owner[d]
  BY <1>1, <1>4 DEF IInv, Kept, Live
<1>6. Cardinality(Pending') = Cardinality(Pending) + 1
  BY <1>4, Finite, FS_AddElement
<1>7. /\ Cardinality(Pending) \in Nat /\ Cardinality(Live) \in Nat
      /\ MaxClients \in Nat
  BY Finite, ConstantsAssumption DEF ConstantsAssumption
<1>8. pending = Cardinality(Pending) /\ pending + Cardinality(Live) < MaxClients
  BY <1>1 DEF IInv, CountersAgree, HasRoom
<1>9. /\ pending' = Cardinality(Pending')
      /\ Cardinality(Pending') + Cardinality(Live) <= MaxClients
  BY <1>1, <1>6, <1>7, <1>8
<1>10. UNCHANGED answers
  BY <1>1
<1> QED BY <1>1, <1>3, <1>4, <1>5, <1>9, <1>10, SameAnswers, Steady

\* decideClient(), whatever called it: the connection stays pending.
LEMMA DecideKeeps ==
    ASSUME IInv, NEW c \in Pending, NEW found, Decide(c, owner[c], found),
           UNCHANGED <<owner, pending, answered, answers, connections, relays, shown>>
    PROVE  IInv'
<1>1. \E new \in PendingPhases : phase' = [phase EXCEPT ![c] = new]
  BY DEF Decide, PendingPhases
<1>2. /\ phase' \in [Conns -> Phases]
      /\ Live' = Live /\ Pending' = Pending
  BY <1>1 DEF IInv, Kept, Phases, Live, Pending, LivePhases, PendingPhases
<1> QED BY <1>2, SameAnswers, NothingMoves

\* proceed() of showPrefix(): only sizes change.
LEMMA ProceedKeeps ==
    ASSUME IInv, NEW b, NEW p, Proceed(b, p)
    PROVE  IInv'
<1>1. UNCHANGED <<phase, owner, pending, answered, connections, relays, shown>>
  BY DEF Proceed
<1>2. /\ answers' = [q \in Pids |-> answers'[q]]
      /\ \A q \in Pids : answers'[q] = [size |-> answers'[q].size,
                                        count |-> answers[q].count]
  <2>1. CASE UNCHANGED answers
    BY <2>1, SameAnswers
  <2>2. CASE \E x, s : answers' = SwitchedAnswers(answers, x, s)
    <3>1. PICK x, s : answers' = SwitchedAnswers(answers, x, s)
      BY <2>2
    <3>2. answers' = [q \in Pids |-> answers'[q]]
      BY <3>1 DEF SwitchedAnswers
    <3>3. \A q \in Pids : answers'[q] \in {answers[q], [answers[q] EXCEPT !.size = s]}
      BY <3>1 DEF SwitchedAnswers
    <3> QED BY <3>2, <3>3 DEF IInv, Kept
  <2>3. UNCHANGED answers \/ \E x, s : answers' = SwitchedAnswers(answers, x, s)
    BY DEF Proceed
  <2> QED BY <2>1, <2>2, <2>3
<1>3. Live' = Live /\ Pending' = Pending /\ phase' \in [Conns -> Phases]
  BY <1>1 DEF Live, Pending, IInv, Kept
<1> QED BY <1>1, <1>2, <1>3, NothingMoves

\* Relay::finish(): the relay goes on counting until it is forgotten.
LEMMA FinishKeeps ==
    ASSUME IInv, NEW c \in Conns, Finish(c)
    PROVE  IInv'
<1>1. /\ phase[c] = "relay"
      /\ phase' = [phase EXCEPT ![c] = "finished"]
      /\ UNCHANGED <<owner, pending, answered, answers, connections, relays, shown>>
  BY DEF Finish, relayVars, prefixVars
<1>2. /\ phase' \in [Conns -> Phases]
      /\ Live' = Live /\ Pending' = Pending
  BY <1>1 DEF IInv, Kept, Phases, Live, Pending, LivePhases, PendingPhases
<1> QED BY <1>1, <1>2, SameAnswers, NothingMoves

\* forgetRelay(): the counts follow the relay that goes, and the last one of a
\* prefix takes its screen along.
LEMMA ForgetKeeps ==
    ASSUME IInv, NEW c \in Conns, Forget(c)
    PROVE  IInv'
<1> DEFINE p == owner[c]
           x == Prefix(p)
           last == x # NoPrefix /\ connections[x] = 1
           held == answered[c] /\ p # NoPid
<1> USE DEF IInv
<1>a. /\ phase[c] = "finished"
      /\ phase' = [phase EXCEPT ![c] = "closed"]
      /\ owner' = [owner EXCEPT ![c] = NoPid]
      /\ answered' = [answered EXCEPT ![c] = FALSE]
      /\ answers' = IF answered[c] /\ p # NoPid /\ answers[p].count > 0
                    THEN [answers EXCEPT ![p] =
                              IF @.count = 1 THEN NoAnswer
                              ELSE [size |-> @.size, count |-> @.count - 1]]
                    ELSE answers
      /\ relays' = IF x = NoPrefix THEN relays
                   ELSE [relays EXCEPT ![x] = @ \ {c}]
      /\ connections' = IF x = NoPrefix \/ connections[x] = 0 THEN connections
                        ELSE [connections EXCEPT ![x] = @ - 1]
      /\ shown' = IF last THEN [shown EXCEPT ![x] = NotShown] ELSE shown
      /\ UNCHANGED pending
  BY DEF Forget
<1>p. /\ p \in AnyPid /\ (p # NoPid => p \in Pids) /\ NoPid \notin Pids
      /\ x \in WinePrefixes \cup {NoPrefix} /\ NoPrefix \notin WinePrefixes
  BY ConstantsAssumption DEF ConstantsAssumption, Prefix, AnyPid, Kept
<1>1. /\ Live' = Live \ {c} /\ Pending' = Pending /\ c \in Live
  BY <1>a DEF Kept, Live, Pending, LivePhases, PendingPhases
<1>2. Cardinality(Live') = Cardinality(Live) - 1
  BY <1>1, Finite, FS_RemoveElement
<1>3. \A q \in Pids : Holders(q)' = IF q = p /\ held THEN Holders(q) \ {c}
                                    ELSE Holders(q)
  <2>1. \A d \in Live' : d # c /\ owner'[d] = owner[d] /\ answered'[d] = answered[d]
    BY <1>a, <1>1 DEF Kept, Live
  <2> QED BY <1>1, <1>p, <2>1 DEF Holders
<1>4. \A q \in Pids : answers[q].count = Cardinality(Holders(q))
  BY DEF CountersAgree, Holders
<1>5. held => p \in Pids /\ c \in Holders(p) /\ answers[p].count > 0
  <2> SUFFICES ASSUME held PROVE p \in Pids /\ c \in Holders(p) /\ answers[p].count > 0
    OBVIOUS
  <2>1. p \in Pids /\ c \in Holders(p)
    BY <1>p, <1>1 DEF Holders
  <2>2. Cardinality(Holders(p)) # 0 /\ Cardinality(Holders(p)) \in Nat
    BY <2>1, Finite, FS_EmptySet
  <2> QED BY <2>1, <2>2, <1>4
<1>6. /\ answers' = [q \in Pids |-> answers'[q]]
      /\ \A q \in Pids :
            /\ answers'[q] = [size |-> answers'[q].size, count |-> answers'[q].count]
            /\ answers'[q].count =
                  IF q = p /\ held THEN answers[q].count - 1 ELSE answers[q].count
  <2>1. CASE held
    <3>1. answers' = [answers EXCEPT ![p] = IF @.count = 1 THEN NoAnswer
                              ELSE [size |-> @.size, count |-> @.count - 1]]
      BY <1>a, <1>5, <2>1
    <3>2. /\ answers' = [q \in Pids |-> answers'[q]]
          /\ \A q \in Pids : q # p => answers'[q] = answers[q]
          /\ answers'[p] = IF answers[p].count = 1 THEN NoAnswer
                           ELSE [size |-> answers[p].size, count |-> answers[p].count - 1]
      <4>1. p \in Pids /\ answers = [q \in Pids |-> answers[q]]
        BY <1>5, <2>1 DEF Kept
      <4> DEFINE new == IF answers[p].count = 1 THEN NoAnswer
                        ELSE [size |-> answers[p].size, count |-> answers[p].count - 1]
      <4>2. answers' = [answers EXCEPT ![p] = new]
        BY <3>1
      <4> HIDE DEF p, new
      <4>3. /\ answers' = [q \in Pids |-> answers'[q]]
            /\ \A q \in Pids : q # p => answers'[q] = answers[q]
            /\ answers'[p] = new
        BY <4>1, <4>2
      <4> QED BY <4>3 DEF new
    <3>3. /\ answers'[p] = [size |-> answers'[p].size, count |-> answers'[p].count]
          /\ answers'[p].count = answers[p].count - 1
      BY <3>2, <1>5, <2>1 DEF Kept, NoAnswer
    <3> HIDE DEF p, held
    <3> QED BY <3>2, <3>3, <2>1 DEF Kept
  <2>2. CASE ~held
    BY <1>a, <2>2 DEF Kept
  <2> QED BY <2>1, <2>2
<1>7. \A y \in WinePrefixes :
        /\ relays[y] = {d \in Live : Prefix(owner[d]) = y}
        /\ connections[y] = Cardinality(relays[y])
        /\ IsFiniteSet(relays[y])
  BY Finite DEF CountersAgree, Kept
<1>8. x # NoPrefix => x \in WinePrefixes /\ c \in relays[x] /\ connections[x] > 0
  <2> SUFFICES ASSUME x # NoPrefix
               PROVE  x \in WinePrefixes /\ c \in relays[x] /\ connections[x] > 0
    OBVIOUS
  <2>1. x \in WinePrefixes /\ c \in relays[x]
    BY <1>p, <1>1, <1>7
  <2>2. Cardinality(relays[x]) # 0 /\ Cardinality(relays[x]) \in Nat
    BY <2>1, <1>7, FS_EmptySet, FS_CardinalityType
  <2> QED BY <2>1, <2>2, <1>7
<1>9. \A y \in WinePrefixes :
        /\ relays'[y] = IF y = x THEN relays[y] \ {c} ELSE relays[y]
        /\ connections'[y] = IF y = x THEN connections[y] - 1 ELSE connections[y]
        /\ shown'[y] = IF y = x /\ connections[y] = 1 THEN NotShown ELSE shown[y]
  <2>1. CASE x = NoPrefix
    BY <1>a, <1>p, <2>1
  <2>2. CASE x # NoPrefix
    <3>1. connections[x] # 0
      BY <1>8, <2>2 DEF Kept
    <3>2. /\ relays' = [relays EXCEPT ![x] = @ \ {c}]
          /\ connections' = [connections EXCEPT ![x] = @ - 1]
          /\ shown' = IF connections[x] = 1 THEN [shown EXCEPT ![x] = NotShown]
                      ELSE shown
      BY <1>a, <2>2, <3>1
    <3> HIDE DEF x
    <3> QED BY <3>2, <1>8, <2>2 DEF Kept
  <2> QED BY <2>1, <2>2
<1>10. Kept'
  <2>1. /\ phase' \in [Conns -> Phases] /\ owner' \in [Conns -> AnyPid]
        /\ answered' \in [Conns -> BOOLEAN]
    BY <1>a DEF Kept, Phases, AnyPid
  <2>2. \A q \in Pids : answers'[q].count \in Nat
    <3> HIDE DEF held
    <3> QED BY <1>5, <1>6 DEF Kept
  <2>3. relays' \in [WinePrefixes -> SUBSET Conns]
    BY <1>a, <1>p DEF Kept
  <2>4. connections' \in [WinePrefixes -> Nat]
    <3>1. connections' = [y \in WinePrefixes |-> connections'[y]]
      BY <1>a DEF Kept
    <3>2. \A y \in WinePrefixes : connections'[y] \in Nat
      <4> SUFFICES ASSUME NEW y \in WinePrefixes PROVE connections'[y] \in Nat
        OBVIOUS
      <4>1. connections[y] \in Nat
        BY DEF Kept
      <4>2. connections'[y] = IF y = x THEN connections[y] - 1 ELSE connections[y]
        BY <1>9
      <4>3. y = x => connections[y] > 0
        BY <1>8, <1>p
      <4> HIDE DEF x
      <4> QED BY <4>1, <4>2, <4>3
    <3> QED BY <3>1, <3>2
  <2>5. shown' = [y \in WinePrefixes |-> shown'[y]]
    BY <1>a DEF Kept
  <2> QED BY <2>1, <2>2, <2>3, <2>4, <2>5, <1>6 DEF Kept
<1>11. CountersAgree'
  <2>1. pending' = Cardinality(Pending')
    BY <1>1, <1>a DEF CountersAgree
  <2>2. ASSUME NEW q \in Pids
        PROVE  answers'[q].count = Cardinality(Holders(q)')
    <3>1. CASE q = p /\ held
      <4>1. Cardinality(Holders(q) \ {c}) = Cardinality(Holders(q)) - 1
        BY <3>1, <1>5, Finite, FS_RemoveElement
      <4> HIDE DEF held
      <4> QED BY <3>1, <4>1, <1>3, <1>4, <1>6
    <3>2. CASE ~(q = p /\ held)
      <4> HIDE DEF held
      <4> QED BY <3>2, <1>3, <1>4, <1>6
    <3> QED BY <3>1, <3>2
  <2>3. ASSUME NEW y \in WinePrefixes
        PROVE  /\ relays'[y] = {d \in Live' : Prefix(owner'[d]) = y}
               /\ connections'[y] = Cardinality(relays'[y])
    <3>1. \A d \in Live' : d # c /\ owner'[d] = owner[d]
      BY <1>a, <1>1 DEF Kept, Live
    <3>2. relays'[y] = {d \in Live' : Prefix(owner'[d]) = y}
      <4>1. CASE y = x
        BY <4>1, <3>1, <1>1, <1>7, <1>9
      <4>2. CASE y # x
        <5>1. {d \in Live' : Prefix(owner'[d]) = y} = {d \in Live : Prefix(owner[d]) = y}
          BY <4>2, <3>1, <1>1
        <5> HIDE DEF x
        <5> QED BY <4>2, <5>1, <1>7, <1>9
      <4> QED BY <4>1, <4>2
    <3>3. y = x => Cardinality(relays[y] \ {c}) = Cardinality(relays[y]) - 1
      BY <1>7, <1>8, <1>p, FS_RemoveElement
    <3> HIDE DEF x
    <3> QED BY <3>2, <3>3, <1>7, <1>9
  <2> QED BY <2>1, <2>2, <2>3 DEF CountersAgree, Holders
<1>12. ClientsBounded'
  <2>1. /\ Cardinality(Pending) \in Nat /\ Cardinality(Live) \in Nat
        /\ MaxClients \in Nat
    BY Finite, ConstantsAssumption DEF ConstantsAssumption
  <2> QED BY <1>1, <1>2, <2>1 DEF ClientsBounded
<1>13. ScreenForgotten'
  <2> SUFFICES ASSUME NEW y \in WinePrefixes, relays'[y] = {}
               PROVE  shown'[y] = NotShown
    BY DEF ScreenForgotten
  <2>1. CASE y = x
    <3>1. relays[y] = {c}
      BY <2>1, <1>8, <1>9, <1>p
    <3>2. connections[y] = 1
      BY <3>1, <1>7, FS_Singleton
    <3> QED BY <2>1, <3>2, <1>9
  <2>2. CASE y # x
    <3> HIDE DEF x
    <3> QED BY <2>2, <1>9 DEF ScreenForgotten
  <2> QED BY <2>1, <2>2
<1> QED BY <1>10, <1>11, <1>12, <1>13

-----------------------------------------------------------------------------
(* The invariants.                                                         *)

LEMMA InitIInv == Init => IInv
<1> SUFFICES ASSUME Init PROVE IInv
  OBVIOUS
<1>1. Live = {} /\ Pending = {} /\ \A p : Holders(p) = {}
  BY DEF Init, Live, Pending, LivePhases, PendingPhases, Holders
<1>2. Kept
  BY DEF Init, Kept, Phases, AnyPid, NoAnswer, NotShown
<1>3. CountersAgree
  <2>1. Cardinality({}) = 0
    BY FS_EmptySet
  <2>2. \A p \in Pids : answers[p].count = Cardinality(Holders(p))
    BY <1>1, <2>1 DEF Init, NoAnswer
  <2>3. \A x \in WinePrefixes : /\ relays[x] = {c \in Live : Prefix(owner[c]) = x}
                                /\ connections[x] = Cardinality(relays[x])
    BY <1>1, <2>1 DEF Init
  <2>4. pending = Cardinality(Pending)
    BY <1>1, <2>1 DEF Init
  <2> QED BY <2>2, <2>3, <2>4 DEF CountersAgree, Holders
<1>4. ClientsBounded
  BY <1>1, FS_EmptySet, ConstantsAssumption DEF ClientsBounded, ConstantsAssumption
<1>5. ScreenForgotten
  BY DEF Init, ScreenForgotten
<1> QED BY <1>2, <1>3, <1>4, <1>5 DEF IInv

LEMMA Unchanged ==
    ASSUME IInv,
           UNCHANGED <<phase, owner, pending, answered, answers, connections,
                       relays, shown>>
    PROVE  IInv'
<1>1. Live' = Live /\ Pending' = Pending /\ phase' \in [Conns -> Phases]
  BY DEF Live, Pending, IInv, Kept
<1> QED BY <1>1, SameAnswers, NothingMoves

LEMMA Invariance == IInv /\ [Next]_vars => IInv'
<1> SUFFICES ASSUME IInv, [Next]_vars PROVE IInv'
  OBVIOUS
<1>1. ASSUME NEW c \in Conns, AcceptUnidentified(c) PROVE IInv'
  <2>1. phase[c] = "closed" /\ HasRoom /\ NoPid \in AnyPid /\ FALSE \in BOOLEAN
    BY <1>1 DEF AcceptUnidentified, AnyPid
  <2>2. RelayClient(c, NoPid, NoSize, FALSE, pending + 1, inbox)
    BY <1>1 DEF AcceptUnidentified
  <2> QED BY <2>1, <2>2, NewDecided
<1>2. ASSUME NEW c \in Conns, NEW p \in Pids, AcceptKnown(c, p) PROVE IInv'
  <2>1. phase[c] = "closed" /\ HasRoom /\ p \in AnyPid /\ TRUE \in BOOLEAN
    BY <1>2 DEF AcceptKnown, AnyPid
  <2>2. RelayClient(c, p, answers[p].size, TRUE, pending + 1, inbox)
    BY <1>2 DEF AcceptKnown
  <2> QED BY <2>1, <2>2, NewDecided
<1>3. ASSUME NEW c \in Conns, NEW p \in Pids, AcceptUnknown(c, p) PROVE IInv'
  BY <1>3, AcceptUnknownKeeps
<1>4. ASSUME NEW c \in Conns, Retry(c) PROVE IInv'
  <2>1. c \in Pending
    BY <1>4 DEF Retry, Pending, PendingPhases
  <2>2. \E found : Decide(c, owner[c], found)
    BY <1>4 DEF Retry
  <2>3. UNCHANGED <<owner, pending, answered, answers, connections, relays, shown>>
    BY <1>4 DEF Retry, relayVars
  <2> QED BY <2>1, <2>2, <2>3, DecideKeeps
<1>5. ASSUME NEW c \in Conns, PrefixReply(c) PROVE IInv'
  <2>1. c \in Pending
    BY <1>5 DEF PrefixReply, Pending, PendingPhases
  <2>2. CASE RelayClient(c, owner[c], NoSize, TRUE, pending, inbox)
    BY <2>1, <2>2, PendingDecided
  <2>3. CASE /\ \E found : Decide(c, owner[c], found)
             /\ UNCHANGED <<owner, pending, answered, answers, connections,
                            relays, shown>>
    BY <2>1, <2>3, DecideKeeps
  <2> QED BY <1>5, <2>2, <2>3 DEF PrefixReply, relayVars
<1>6. ASSUME NEW c \in Conns, PolicyReply(c) PROVE IInv'
  <2>1. c \in Pending /\ phase[c] = "asking"
    BY <1>6 DEF PolicyReply, Pending, PendingPhases
  <2>2. CASE \E size : RelayClient(c, owner[c], size, TRUE, pending, inbox)
    BY <2>1, <2>2, PendingDecided
  <2>3. CASE /\ phase' = [phase EXCEPT ![c] = "waiting"]
             /\ UNCHANGED <<owner, pending, answered, answers, connections,
                            relays, shown>>
    <3>1. /\ phase' \in [Conns -> Phases]
          /\ Live' = Live /\ Pending' = Pending
      BY <2>1, <2>3
         DEF IInv, Kept, Phases, Live, Pending, LivePhases, PendingPhases
    <3> QED BY <2>3, <3>1, SameAnswers, NothingMoves
  <2> QED BY <1>6, <2>2, <2>3 DEF PolicyReply, relayVars
<1>7. ASSUME NEW c \in Conns, CallFails(c) PROVE IInv'
  <2>1. c \in Pending
    BY <1>7 DEF CallFails, Pending, PendingPhases
  <2>2. \E calls : RelayClient(c, owner[c], NoSize, FALSE, pending, calls)
    BY <1>7 DEF CallFails
  <2> QED BY <2>1, <2>2, PendingDecided
<1>8. ASSUME NEW c \in Conns, TurnsOpaque(c) PROVE IInv'
  BY <1>8, Unchanged DEF TurnsOpaque, prefixVars
<1>9. ASSUME NEW c \in Conns, Finish(c) PROVE IInv'
  BY <1>9, FinishKeeps
<1>10. ASSUME NEW c \in Conns, Forget(c) PROVE IInv'
  BY <1>10, ForgetKeeps
<1>11. ASSUME NEW b \in Batches, NEW p \in Pids, ShownReply(b, p) \/ ShownLapses(b, p)
       PROVE  IInv'
  BY <1>11, ProceedKeeps DEF ShownReply, ShownLapses
<1>12. CASE EffectAnswers
  BY <1>12, Unchanged DEF EffectAnswers, relayVars, prefixVars
<1>13. CASE SaveSettings \/ ModesListed
  BY <1>13, Unchanged DEF SaveSettings, ModesListed, relayVars, prefixVars
<1>14. CASE UNCHANGED vars
  BY <1>14, Unchanged DEF vars, relayVars, prefixVars
<1> QED
  BY <1>1, <1>2, <1>3, <1>4, <1>5, <1>6, <1>7, <1>8, <1>9, <1>10, <1>11, <1>12,
     <1>13, <1>14 DEF Next

LEMMA Inductive == Spec => []IInv
BY InitIInv, Invariance, PTL DEF Spec

\* The counts of outstanding decisions, of the relays of each kept answer and
\* of each prefix's connections are exact, whatever the effect answers and
\* whatever fails (connection.cpp: acceptClient(), relayClient(), forgetRelay()).
THEOREM CountsAreExact == Spec => []CountersAgree
BY Inductive, PTL DEF IInv

\* Decisions and relays together stay within the bound acceptClient() keeps,
\* though it compares a counter and not what is there.
THEOREM ClientsStayBounded == Spec => []ClientsBounded
BY Inductive, PTL DEF IInv

\* No prefix without a connection has a screen (forgetRelay()).
THEOREM ScreensAreForgotten == Spec => []ScreenForgotten
BY Inductive, PTL DEF IInv

-----------------------------------------------------------------------------
(* One prefix, one screen.                                                 *)

\* A round of calls, and what a prefix shows.
Rounds ==
    /\ batches = [b \in Batches |-> batches[b]]
    /\ \A b \in Batches :
            /\ batches[b] = [prefix |-> batches[b].prefix, size |-> batches[b].size,
                             game |-> batches[b].game, waits |-> batches[b].waits]
            /\ batches[b].prefix \in WinePrefixes \cup {NoPrefix}
    /\ \A x \in WinePrefixes :
            shown[x] = [size |-> shown[x].size, game |-> shown[x].game]

\* What the screens are kept in, and the property, which is inductive with it.
SInv ==
    /\ shows = [c \in Conns |-> shows[c]]
    /\ opaque = [c \in Conns |-> opaque[c]]
    /\ Rounds
    /\ PrefixAgrees

\* Round b still has calls out for the screen prefix x shows.
Current(b, x) ==
    /\ batches[b].prefix = x
    /\ batches[b].game = shown[x].game
    /\ batches[b].size = shown[x].size

\* The relays of prefix x that can be switched show size s.
AllShow(x, s) ==
    \A r \in relays[x] : phase[r] = "relay" /\ ~opaque[r] => shows[r] = s

LEMMA PrefixAgreesMeans ==
    PrefixAgrees <=>
        \A x \in WinePrefixes :
            shown[x].size # NoSize /\ (\A b \in Batches : ~Current(b, x))
                => AllShow(x, shown[x].size)
BY DEF PrefixAgrees, Current, AllShow

\* A relay belongs to one prefix.
LEMMA OnePrefix ==
    ASSUME IInv, NEW x \in WinePrefixes, NEW y \in WinePrefixes,
           NEW r \in relays[x], r \in relays[y]
    PROVE  x = y
BY DEF IInv, CountersAgree

\* A step that adds no relay, starts no show and ends no round.
LEMMA NoShow ==
    ASSUME IInv, SInv,
           \A x \in WinePrefixes :
                /\ relays'[x] \subseteq relays[x]
                /\ shown'[x] = shown[x] \/ shown'[x] = NotShown,
           \A x \in WinePrefixes : \A r \in relays'[x] :
                /\ phase'[r] = "relay" => phase[r] = "relay"
                /\ opaque[r] => opaque'[r]
                /\ shows'[r] = shows[r],
           shows' = [c \in Conns |-> shows'[c]],
           opaque' = [c \in Conns |-> opaque'[c]],
           UNCHANGED batches
    PROVE  SInv'
<1>1. ASSUME NEW x \in WinePrefixes, shown'[x].size # NoSize,
             \A b \in Batches : ~Current(b, x)'
      PROVE  AllShow(x, shown[x].size)'
  <2>1. shown'[x] = shown[x]
    BY <1>1 DEF NotShown
  <2>2. \A b \in Batches : ~Current(b, x)
    BY <1>1, <2>1 DEF Current
  <2>3. AllShow(x, shown[x].size)
    BY <1>1, <2>1, <2>2, PrefixAgreesMeans DEF SInv
  <2> QED BY <2>1, <2>3 DEF AllShow
<1>2. PrefixAgrees'
  BY <1>1 DEF PrefixAgrees, Current, AllShow
<1>3. Rounds'
  BY SMTT(30) DEF SInv, Rounds, NotShown
<1> QED BY <1>2, <1>3 DEF SInv

\* switchPrefix() leaves no relay of the prefix behind, and no other is touched.
LEMMA SwitchedAll ==
    ASSUME IInv, SInv, NEW x \in WinePrefixes, NEW s
    PROVE  /\ \A r \in relays[x] : phase[r] = "relay" /\ ~opaque[r]
                                    => SwitchedShows(x, s)[r] = s
           /\ \A y \in WinePrefixes \ {x} : \A r \in relays[y] :
                SwitchedShows(x, s)[r] = shows[r]
           /\ SwitchedShows(x, s) = [c \in Conns |-> SwitchedShows(x, s)[c]]
<1>1. \A y \in WinePrefixes : relays[y] \subseteq Conns
  BY DEF IInv, Kept
<1>2. \A r \in Conns : SwitchedShows(x, s)[r] = IF r \in Switched(x, s) THEN s ELSE shows[r]
  BY DEF SwitchedShows
<1>3. \A r \in relays[x] : phase[r] = "relay" /\ ~opaque[r] /\ r \notin Switched(x, s)
                            => shows[r] = s
  BY DEF Switched
<1>4. \A y \in WinePrefixes \ {x} : \A r \in relays[y] : r \notin Switched(x, s)
  BY OnePrefix DEF Switched
<1>5. SwitchedShows(x, s) = [c \in Conns |-> SwitchedShows(x, s)[c]]
  BY DEF SwitchedShows
<1> QED BY <1>1, <1>2, <1>3, <1>4, <1>5

\* The backend took connection c: it shows what its prefix shows, or its own
\* answer is shown to the prefix.
LEMMA AcceptedAgrees ==
    ASSUME IInv, SInv, NEW c \in Conns, c \notin Live, NEW p \in AnyPid,
           NEW size, NEW ans \in BOOLEAN, NEW count, NEW calls,
           BackendAccepts(c, p, size, ans, count, calls)
    PROVE  SInv'
<1> DEFINE x == Prefix(p)
           follows == x # NoPrefix /\ size = NoSize /\ shown[x].size # NoSize
           s == IF follows THEN shown[x].size ELSE size
           game == IF follows THEN shown[x].game ELSE NoPid
           known == IF (ans \/ follows) /\ p # NoPid
                    THEN [answers EXCEPT ![p] = [size |-> s, count |-> @.count + 1]]
                    ELSE answers
<1>p. x \in WinePrefixes \cup {NoPrefix} /\ NoPrefix \notin WinePrefixes
  BY ConstantsAssumption DEF ConstantsAssumption, Prefix, AnyPid
<1>a. /\ phase' = [phase EXCEPT ![c] = "relay"]
      /\ opaque' = [opaque EXCEPT ![c] = FALSE]
      /\ IF x = NoPrefix
         THEN UNCHANGED relays
         ELSE relays' = [relays EXCEPT ![x] = @ \cup {c}]
      /\ IF x # NoPrefix /\ game = NoPid /\ s # NoSize
         THEN ShowPrefix(x, s, p, known, calls, c)
         ELSE shows' = [shows EXCEPT ![c] = s] /\ UNCHANGED <<shown, batches>>
  BY DEF BackendAccepts
<1>1. \A y \in WinePrefixes : relays[y] \subseteq Conns /\ c \notin relays[y]
  BY DEF IInv, Kept, CountersAgree
<1>2. \A y \in WinePrefixes : relays'[y] = IF y = x THEN relays[y] \cup {c} ELSE relays[y]
  <2>1. CASE x = NoPrefix
    BY <1>a, <1>p, <2>1
  <2>2. CASE x # NoPrefix
    <3> HIDE DEF x
    <3> QED BY <1>a, <1>p, <2>2 DEF IInv, Kept
  <2> QED BY <2>1, <2>2
<1>3. \A r \in Conns \ {c} : phase'[r] = phase[r] /\ opaque'[r] = opaque[r]
  BY <1>a DEF IInv, Kept, SInv
<1>4. opaque' = [d \in Conns |-> opaque'[d]]
  BY <1>a DEF SInv
<1>5. CASE ~(x # NoPrefix /\ game = NoPid /\ s # NoSize)
  <2>1. shows' = [shows EXCEPT ![c] = s] /\ UNCHANGED <<shown, batches>>
    BY <1>a, <1>5
  <2>2. shows' = [d \in Conns |-> shows'[d]] /\ Rounds'
    BY <2>1 DEF SInv, Rounds
  <2>3. ASSUME NEW y \in WinePrefixes, shown'[y].size # NoSize,
               \A b \in Batches : ~Current(b, y)'
        PROVE  AllShow(y, shown[y].size)'
    <3>1. AllShow(y, shown[y].size)
      BY <2>1, <2>3, PrefixAgreesMeans DEF Current, SInv
    <3>2. \A r \in relays[y] : shows'[r] = shows[r]
      BY <1>1, <2>1 DEF SInv
    <3>3. y = x => shows'[c] = shown[y].size
      <4> SUFFICES ASSUME y = x PROVE shows'[c] = shown[y].size
        OBVIOUS
      <4>1. shows'[c] = s
        BY <2>1 DEF SInv
      <4>2. x # NoPrefix /\ shown[x].size # NoSize
        BY <1>p, <2>1, <2>3
      <4>3. s = shown[x].size
        BY <1>5, <4>2
      <4> QED BY <4>1, <4>3
    <3> HIDE DEF x
    <3> QED BY <2>1, <3>1, <3>2, <3>3, <1>1, <1>2, <1>3 DEF AllShow
  <2>4. PrefixAgrees'
    BY <2>3 DEF PrefixAgrees, Current, AllShow
  <2> QED BY <1>4, <2>2, <2>4 DEF SInv
<1>6. CASE x # NoPrefix /\ game = NoPid /\ s # NoSize
  <2>x. x \in WinePrefixes
    BY <1>p, <1>6
  <2>1. ShowPrefix(x, s, p, known, calls, c)
    BY <1>a, <1>6
  <2> HIDE DEF x, s, known
  <2>2. shown' = [shown EXCEPT ![x] = [size |-> s, game |-> p]]
    BY <2>1 DEF ShowPrefix
  <2>3. /\ shown'[x] = [size |-> s, game |-> p]
        /\ \A y \in WinePrefixes \ {x} : shown'[y] = shown[y]
    BY <2>2, <2>x DEF IInv, Kept
  <2>4. CASE /\ shows' = [SwitchedShows(x, s) EXCEPT ![c] = s]
             /\ UNCHANGED batches
    <3>1. /\ shows'[c] = s
          /\ \A r \in Conns \ {c} : shows'[r] = SwitchedShows(x, s)[r]
          /\ shows' = [d \in Conns |-> shows'[d]]
      BY <2>4, <2>x, SwitchedAll
    <3>2. ASSUME NEW y \in WinePrefixes, shown'[y].size # NoSize,
                 \A b \in Batches : ~Current(b, y)'
          PROVE  AllShow(y, shown[y].size)'
      <4>1. CASE y = x
        <5>1. \A r \in relays[x] : phase'[r] = "relay" /\ ~opaque'[r] => shows'[r] = s
          BY <1>1, <1>3, <2>x, <3>1, SwitchedAll
        <5>2. shown'[x].size = s
          BY <2>3
        <5>3. relays'[x] = relays[x] \cup {c}
          BY <1>2, <2>x DEF x
        <5> QED BY <4>1, <5>1, <5>2, <5>3, <3>1 DEF AllShow
      <4>2. CASE y # x
        <5>1. shown'[y] = shown[y] /\ relays'[y] = relays[y]
          BY <4>2, <2>3, <1>2
        <5>2. AllShow(y, shown[y].size)
          BY <2>4, <5>1, <3>2, PrefixAgreesMeans DEF Current, SInv
        <5>3. \A r \in relays[y] : shows'[r] = shows[r]
          BY <4>2, <1>1, <2>x, <3>1, SwitchedAll
        <5> QED BY <5>1, <5>2, <5>3, <1>1, <1>3 DEF AllShow
      <4> QED BY <4>1, <4>2
    <3>3. PrefixAgrees'
      BY <3>2 DEF PrefixAgrees, Current, AllShow
    <3>4. Rounds'
      BY <2>3, <2>4 DEF SInv, Rounds
    <3> QED BY <1>4, <3>1, <3>3, <3>4 DEF SInv
  <2>5. CASE /\ shows' = [shows EXCEPT ![c] = s]
             /\ \E b \in Batches : \E waits :
                    /\ batches[b] = NoRound
                    /\ batches' = [batches EXCEPT ![b] =
                            [prefix |-> x, size |-> s, game |-> p, waits |-> waits]]
    <3>b. PICK new \in Batches : \E waits :
                /\ batches[new] = NoRound
                /\ batches' = [batches EXCEPT ![new] =
                        [prefix |-> x, size |-> s, game |-> p, waits |-> waits]]
      BY <2>5
    <3>1. PICK waits :
                /\ batches[new] = NoRound
                /\ batches' = [batches EXCEPT ![new] =
                        [prefix |-> x, size |-> s, game |-> p, waits |-> waits]]
      BY <3>b
    <3>2. /\ batches'[new] = [prefix |-> x, size |-> s, game |-> p, waits |-> waits]
          /\ \A b \in Batches \ {new} : batches'[b] = batches[b]
          /\ batches' = [b \in Batches |-> batches'[b]]
      BY <3>1 DEF SInv, Rounds
    <3>3. /\ \A r \in Conns \ {c} : shows'[r] = shows[r]
          /\ shows' = [d \in Conns |-> shows'[d]]
      BY <2>5 DEF SInv
    <3>4. ASSUME NEW y \in WinePrefixes, shown'[y].size # NoSize,
                 \A b \in Batches : ~Current(b, y)'
          PROVE  AllShow(y, shown[y].size)'
      <4>1. y # x
        BY <3>2, <3>4, <2>3 DEF Current
      <4>2. shown'[y] = shown[y] /\ relays'[y] = relays[y]
        BY <4>1, <2>3, <1>2
      <4>3. \A b \in Batches : ~Current(b, y)
        <5>1. ~Current(new, y)
          BY <3>1, <1>p DEF Current, NoRound
        <5>2. \A b \in Batches \ {new} : ~Current(b, y)
          BY <3>2, <3>4, <4>2 DEF Current
        <5> QED BY <5>1, <5>2
      <4>4. AllShow(y, shown[y].size)
        BY <4>2, <4>3, <3>4, PrefixAgreesMeans DEF SInv
      <4> QED BY <4>2, <4>4, <3>3, <1>1, <1>3 DEF AllShow
    <3>5. PrefixAgrees'
      BY <3>4 DEF PrefixAgrees, Current, AllShow
    <3>6. Rounds'
      BY <2>3, <2>x, <3>2 DEF SInv, Rounds
    <3> QED BY <1>4, <3>3, <3>5, <3>6 DEF SInv
  <2> QED BY <2>1, <2>4, <2>5 DEF ShowPrefix
<1> QED BY <1>5, <1>6

\* proceed() of showPrefix(): a round that ends for the screen the prefix shows
\* switches the prefix; no other round matters.
LEMMA ProceedAgrees ==
    ASSUME IInv, SInv, NEW b \in Batches, NEW p, Proceed(b, p)
    PROVE  SInv'
<1> DEFINE r == batches[b]
           left == r.waits \ {p}
           x == r.prefix
           current == x # NoPrefix
                      /\ shown[x] = [size |-> r.size, game |-> r.game]
<1>a. /\ batches' = [batches EXCEPT ![b] =
                            IF left = {} THEN NoRound ELSE [r EXCEPT !.waits = left]]
      /\ IF left = {} /\ current
         THEN shows' = SwitchedShows(x, r.size)
         ELSE UNCHANGED shows
      /\ UNCHANGED <<phase, opaque, relays, shown>>
  BY DEF Proceed
<1>b. /\ x \in WinePrefixes \cup {NoPrefix} /\ NoPrefix \notin WinePrefixes
      /\ r = [prefix |-> x, size |-> r.size, game |-> r.game, waits |-> r.waits]
      /\ \A y \in WinePrefixes :
            shown[y] = [size |-> shown[y].size, game |-> shown[y].game]
  BY ConstantsAssumption DEF ConstantsAssumption, SInv, Rounds
<1>c. /\ batches' = [d \in Batches |-> batches'[d]]
      /\ \A d \in Batches \ {b} : batches'[d] = batches[d]
      /\ batches'[b] = IF left = {} THEN NoRound ELSE [r EXCEPT !.waits = left]
  BY <1>a DEF SInv, Rounds
<1>1. Rounds' /\ opaque' = [c \in Conns |-> opaque'[c]]
  <2>1. batches'[b] = [prefix |-> batches'[b].prefix, size |-> batches'[b].size,
                       game |-> batches'[b].game, waits |-> batches'[b].waits]
        /\ batches'[b].prefix \in WinePrefixes \cup {NoPrefix}
    BY <1>b, <1>c DEF NoRound
  <2> QED BY <1>a, <1>c, <2>1 DEF SInv, Rounds
<1>2. \A d \in Batches \ {b} : \A y \in WinePrefixes : Current(d, y)' <=> Current(d, y)
  BY <1>a, <1>c DEF Current
<1>3. CASE left = {} /\ current
  <2>x. x \in WinePrefixes
    BY <1>b, <1>3
  <2>1. shows' = SwitchedShows(x, r.size) /\ shown[x].size = r.size
    BY <1>a, <1>3
  <2>2. \A y \in WinePrefixes \ {x} : ~Current(b, y)
    BY DEF Current
  <2> HIDE DEF r, x
  <2>3. ASSUME NEW y \in WinePrefixes, shown'[y].size # NoSize,
               \A d \in Batches : ~Current(d, y)'
        PROVE  AllShow(y, shown[y].size)'
    <3>1. CASE y = x
      BY <3>1, <2>x, <2>1, <1>a, SwitchedAll DEF AllShow
    <3>2. CASE y # x
      <4>1. AllShow(y, shown[y].size)
        BY <3>2, <2>2, <2>3, <1>a, <1>2, PrefixAgreesMeans DEF SInv
      <4>2. \A q \in relays[y] : shows'[q] = shows[q]
        BY <3>2, <2>1, <2>x, SwitchedAll
      <4> QED BY <4>1, <4>2, <1>a DEF AllShow
    <3> QED BY <3>1, <3>2
  <2>4. PrefixAgrees'
    BY <2>3 DEF PrefixAgrees, Current, AllShow
  <2>5. shows' = [c \in Conns |-> shows'[c]]
    BY <2>1, <2>x, SwitchedAll
  <2> QED BY <1>1, <2>4, <2>5 DEF SInv
<1>4. CASE ~(left = {} /\ current)
  <2>1. \A y \in WinePrefixes : Current(b, y) => Current(b, y)'
    <3>1. CASE left = {}
      BY <1>4, <1>b, <3>1 DEF Current
    <3>2. CASE left # {}
      BY <1>a, <1>b, <1>c, <3>2 DEF Current
    <3> QED BY <3>1, <3>2
  <2>2. ASSUME NEW y \in WinePrefixes, shown'[y].size # NoSize,
               \A d \in Batches : ~Current(d, y)'
        PROVE  AllShow(y, shown[y].size)'
    <3>1. AllShow(y, shown[y].size)
      BY <2>1, <2>2, <1>a, <1>2, PrefixAgreesMeans DEF SInv
    <3> QED BY <3>1, <1>a, <1>4 DEF AllShow
  <2>3. PrefixAgrees'
    BY <2>2 DEF PrefixAgrees, Current, AllShow
  <2> QED BY <1>1, <1>4, <1>a, <2>3 DEF SInv
<1> QED BY <1>3, <1>4

\* Nothing but c's phase changes, and c does not become a relay.
LEMMA PhaseAgrees ==
    ASSUME IInv, SInv, NEW c, NEW new, new # "relay",
           phase' = [phase EXCEPT ![c] = new],
           UNCHANGED <<shows, opaque, relays, shown, batches>>
    PROVE  SInv'
<1>1. \A r \in Conns : phase'[r] = "relay" => phase[r] = "relay"
  BY DEF IInv, Kept
<1>2. \A x \in WinePrefixes : relays[x] \subseteq Conns
  BY DEF IInv, Kept
<1>3. shows' = [d \in Conns |-> shows'[d]] /\ opaque' = [d \in Conns |-> opaque'[d]]
  BY DEF SInv
<1> QED BY <1>1, <1>2, <1>3, NoShow

LEMMA RelayClientAgrees ==
    ASSUME IInv, SInv, NEW c \in Conns, c \notin Live, NEW p \in AnyPid, NEW size,
           NEW ans \in BOOLEAN, NEW count, NEW calls,
           RelayClient(c, p, size, ans, count, calls)
    PROVE  SInv'
<1>1. CASE BackendAccepts(c, p, size, ans, count, calls)
  BY <1>1, AcceptedAgrees
<1>2. CASE BackendRefuses(c, count, calls)
  BY <1>2, PhaseAgrees DEF BackendRefuses, relayVars
<1> QED BY <1>1, <1>2 DEF RelayClient

\* forgetRelay(): one relay less, and the screen with the last.
LEMMA ForgetAgrees ==
    ASSUME IInv, SInv, NEW c \in Conns, Forget(c)
    PROVE  SInv'
<1> DEFINE x == Prefix(owner[c])
<1>a. /\ phase' = [phase EXCEPT ![c] = "closed"]
      /\ shows' = [shows EXCEPT ![c] = NoSize]
      /\ opaque' = [opaque EXCEPT ![c] = FALSE]
      /\ relays' = IF x = NoPrefix THEN relays
                   ELSE [relays EXCEPT ![x] = @ \ {c}]
      /\ shown' = shown \/ shown' = [shown EXCEPT ![x] = NotShown]
      /\ UNCHANGED batches
  BY DEF Forget
<1>1. \A y \in WinePrefixes : shown'[y] = shown[y] \/ shown'[y] = NotShown
  BY <1>a DEF IInv, Kept
<1>2. \A y \in WinePrefixes : relays'[y] \subseteq relays[y] \ {c}
  <2> SUFFICES ASSUME NEW y \in WinePrefixes PROVE relays'[y] \subseteq relays[y] \ {c}
    OBVIOUS
  <2>1. c \in relays[y] => y = x
    BY DEF IInv, CountersAgree
  <2>2. CASE y = x
    <3>1. x # NoPrefix
      BY <2>2, ConstantsAssumption DEF ConstantsAssumption
    <3> HIDE DEF x
    <3> QED BY <1>a, <2>2, <3>1 DEF IInv, Kept
  <2>3. CASE y # x
    <3>1. relays'[y] = relays[y]
      <4> HIDE DEF x
      <4> QED BY <1>a, <2>3 DEF IInv, Kept
    <3> QED BY <2>1, <2>3, <3>1
  <2> QED BY <2>2, <2>3
<1>3. \A r \in Conns \ {c} : /\ phase'[r] = phase[r]
                             /\ opaque'[r] = opaque[r]
                             /\ shows'[r] = shows[r]
  BY <1>a DEF IInv, Kept, SInv
<1>4. \A y \in WinePrefixes : relays[y] \subseteq Conns
  BY DEF IInv, Kept
<1>5. shows' = [d \in Conns |-> shows'[d]] /\ opaque' = [d \in Conns |-> opaque'[d]]
  BY <1>a DEF SInv
<1>6. \A y \in WinePrefixes : \A r \in relays'[y] :
        /\ phase'[r] = "relay" => phase[r] = "relay"
        /\ opaque[r] => opaque'[r]
        /\ shows'[r] = shows[r]
  BY <1>2, <1>3, <1>4
<1> QED BY <1>1, <1>2, <1>5, <1>6, <1>a, NoShow

LEMMA SInvariance == IInv /\ SInv /\ [Next]_vars => SInv'
<1> SUFFICES ASSUME IInv, SInv, [Next]_vars PROVE SInv'
  OBVIOUS
<1> USE DEF relayVars, prefixVars
<1>n. \A c \in Conns : c \notin Live <=> phase[c] \notin LivePhases
  BY DEF Live
<1>o. \A c \in Conns : owner[c] \in AnyPid
  BY DEF IInv, Kept
<1>1. ASSUME NEW c \in Conns, AcceptUnidentified(c) PROVE SInv'
  <2>1. c \notin Live /\ NoPid \in AnyPid /\ FALSE \in BOOLEAN
    BY <1>1, <1>n DEF AcceptUnidentified, AnyPid, LivePhases
  <2> QED BY <1>1, <2>1, RelayClientAgrees DEF AcceptUnidentified
<1>2. ASSUME NEW c \in Conns, NEW p \in Pids, AcceptKnown(c, p) PROVE SInv'
  <2>1. c \notin Live /\ p \in AnyPid /\ TRUE \in BOOLEAN
    BY <1>2, <1>n DEF AcceptKnown, AnyPid, LivePhases
  <2> QED BY <1>2, <2>1, RelayClientAgrees DEF AcceptKnown
<1>3. ASSUME NEW c \in Conns, NEW p \in Pids, AcceptUnknown(c, p) PROVE SInv'
  <2>1. \E new : new # "relay" /\ phase' = [phase EXCEPT ![c] = new]
    BY <1>3 DEF AcceptUnknown, Decide, CheckPrefix
  <2> QED BY <1>3, <2>1, PhaseAgrees DEF AcceptUnknown
<1>4. ASSUME NEW c \in Conns, Retry(c) PROVE SInv'
  <2>1. \E new : new # "relay" /\ phase' = [phase EXCEPT ![c] = new]
    BY <1>4 DEF Retry, Decide
  <2> QED BY <1>4, <2>1, PhaseAgrees DEF Retry
<1>5. ASSUME NEW c \in Conns, PrefixReply(c) PROVE SInv'
  <2>1. c \notin Live
    BY <1>5, <1>n DEF PrefixReply, LivePhases
  <2>2. CASE RelayClient(c, owner[c], NoSize, TRUE, pending, inbox)
    BY <1>o, <2>1, <2>2, RelayClientAgrees
  <2>3. CASE /\ \E found : Decide(c, owner[c], found)
             /\ UNCHANGED <<shows, opaque, relays, shown, batches>>
    <3>1. \E new : new # "relay" /\ phase' = [phase EXCEPT ![c] = new]
      BY <2>3 DEF Decide
    <3> QED BY <2>3, <3>1, PhaseAgrees
  <2> QED BY <1>5, <2>2, <2>3 DEF PrefixReply
<1>6. ASSUME NEW c \in Conns, PolicyReply(c) PROVE SInv'
  <2>1. c \notin Live
    BY <1>6, <1>n DEF PolicyReply, LivePhases
  <2>2. CASE \E size : RelayClient(c, owner[c], size, TRUE, pending, inbox)
    BY <1>o, <2>1, <2>2, RelayClientAgrees
  <2>3. CASE /\ phase' = [phase EXCEPT ![c] = "waiting"]
             /\ UNCHANGED <<shows, opaque, relays, shown, batches>>
    BY <2>3, PhaseAgrees
  <2> QED BY <1>6, <2>2, <2>3 DEF PolicyReply
<1>7. ASSUME NEW c \in Conns, CallFails(c) PROVE SInv'
  <2>1. c \notin Live
    BY <1>7, <1>n DEF CallFails, LivePhases
  <2>2. \E calls : RelayClient(c, owner[c], NoSize, FALSE, pending, calls)
    BY <1>7 DEF CallFails
  <2> QED BY <1>o, <2>1, <2>2, RelayClientAgrees
<1>8. ASSUME NEW c \in Conns, TurnsOpaque(c) PROVE SInv'
  <2>1. /\ opaque' = [opaque EXCEPT ![c] = TRUE]
        /\ UNCHANGED <<phase, shows, relays, shown, batches>>
    BY <1>8 DEF TurnsOpaque
  <2>2. \A r \in Conns : opaque[r] => opaque'[r]
    BY <2>1 DEF SInv
  <2>3. shows' = [d \in Conns |-> shows'[d]] /\ opaque' = [d \in Conns |-> opaque'[d]]
    BY <2>1 DEF SInv
  <2>4. \A x \in WinePrefixes : relays[x] \subseteq Conns
    BY DEF IInv, Kept
  <2> QED BY <2>1, <2>2, <2>3, <2>4, NoShow
<1>9. ASSUME NEW c \in Conns, Finish(c) PROVE SInv'
  BY <1>9, PhaseAgrees DEF Finish
<1>10. ASSUME NEW c \in Conns, Forget(c) PROVE SInv'
  BY <1>10, ForgetAgrees
<1>11. ASSUME NEW b \in Batches, NEW p \in Pids, ShownReply(b, p) \/ ShownLapses(b, p)
       PROVE  SInv'
  BY <1>11, ProceedAgrees DEF ShownReply, ShownLapses
<1>12. CASE UNCHANGED <<phase, shows, opaque, relays, shown, batches>>
  <2>1. shows' = [d \in Conns |-> shows'[d]] /\ opaque' = [d \in Conns |-> opaque'[d]]
    BY <1>12 DEF SInv
  <2> QED BY <1>12, <2>1, NoShow
<1>13. CASE EffectAnswers \/ SaveSettings \/ ModesListed \/ UNCHANGED vars
  BY <1>12, <1>13 DEF EffectAnswers, SaveSettings, ModesListed, vars
<1> QED
  BY <1>1, <1>2, <1>3, <1>4, <1>5, <1>6, <1>7, <1>8, <1>9, <1>10, <1>11, <1>13
     DEF Next

LEMMA InitSInv == Init => SInv
<1> SUFFICES ASSUME Init PROVE SInv
  OBVIOUS
<1>1. \A x \in WinePrefixes : relays[x] = {}
  BY DEF Init
<1>2. Rounds
  BY DEF Init, Rounds, NoRound, NotShown
<1>3. PrefixAgrees
  BY <1>1 DEF PrefixAgrees
<1>4. shows = [c \in Conns |-> shows[c]] /\ opaque = [c \in Conns |-> opaque[c]]
  BY DEF Init
<1> QED BY <1>2, <1>3, <1>4 DEF SInv

\* Once no call for the screen a prefix shows is out, every relay of the prefix
\* that can still be switched shows it (showPrefix(), switchPrefix()).
THEOREM PrefixIsOneScreen == Spec => []PrefixAgrees
<1>1. SInv => PrefixAgrees
  BY DEF SInv
<1> QED BY <1>1, Inductive, InitSInv, SInvariance, PTL DEF Spec

-----------------------------------------------------------------------------
(* Queues.                                                                 *)

\* A set as a sequence: all of its elements, and nothing else.
LEMMA SeqOfSet ==
    ASSUME NEW S, IsFiniteSet(S)
    PROVE  /\ SetToSeq(S) \in Seq(S)
           /\ \A e \in S : \E i \in DOMAIN SetToSeq(S) : SetToSeq(S)[i] = e
<1> DEFINE n == Cardinality(S)
<1>1. n \in Nat /\ ExistsBijection(1..n, S)
  BY FS_CardinalityType
<1>2. \E f \in [1..n -> S] : IsInjective(f)
  BY <1>1 DEF ExistsBijection, Bijection, Injection
<1>3. SetToSeq(S) \in [1..n -> S] /\ IsInjective(SetToSeq(S))
  BY <1>2 DEF SetToSeq
<1>4. SetToSeq(S) \in Injection(1..n, S)
  BY <1>3 DEF Injection
<1>5. Cardinality(1..n) = n
  BY <1>1, FS_Interval
<1>6. SetToSeq(S) \in Surjection(1..n, S)
  BY <1>4, <1>5, FS_Injection
<1> QED BY <1>1, <1>3, <1>6 DEF Surjection

\* The calls of one round: one for each process asked about.
LEMMA CallsOfRound ==
    ASSUME NEW ask \in SUBSET Pids, NEW b \in Batches, NEW game \in AnyPid
    PROVE  LET asked == SetToSeq({ShownCall(b, game, p) : p \in ask})
           IN  /\ asked \in Seq(Calls)
               /\ \A i \in DOMAIN asked : \E p \in ask : asked[i] = ShownCall(b, game, p)
               /\ \A p \in ask : \E i \in DOMAIN asked : asked[i] = ShownCall(b, game, p)
<1> DEFINE S == {ShownCall(b, game, p) : p \in ask}
           f == [p \in ask |-> ShownCall(b, game, p)]
<1>1. IsFiniteSet(ask)
  BY FS_Subset, ConstantsAssumption DEF ConstantsAssumption
<1>2. f \in Surjection(ask, S)
  BY DEF Surjection
<1>3. IsFiniteSet(S)
  BY <1>1, <1>2, FS_Surjection
<1>4. S \subseteq Calls
  BY DEF ShownCall, Call, Calls, AnyPid
<1> HIDE DEF S
<1>5. SetToSeq(S) \in Seq(S) /\ \A e \in S : \E i \in DOMAIN SetToSeq(S) : SetToSeq(S)[i] = e
  BY <1>3, SeqOfSet
<1>6. SetToSeq(S) \in Seq(Calls)
  BY <1>4, <1>5, SeqMonotonic
<1>7. \A i \in DOMAIN SetToSeq(S) : SetToSeq(S)[i] \in S
  BY <1>5
<1> QED BY <1>5, <1>6, <1>7 DEF S

\* Sequence new is made of different places of sequence old.
DrawnFrom(new, old, f) ==
    /\ f \in [DOMAIN new -> DOMAIN old]
    /\ \A j, k \in DOMAIN new : f[j] = f[k] => j = k
    /\ \A j \in DOMAIN new : new[j] = old[f[j]]

LEMMA TailDrawn ==
    ASSUME NEW S, NEW q \in Seq(S), q # <<>>
    PROVE  /\ Head(q) = q[1] /\ Head(q) \in S /\ 1 \in DOMAIN q
           /\ Tail(q) \in Seq(S)
           /\ \E f : DrawnFrom(Tail(q), q, f) /\ \A j \in DOMAIN Tail(q) : f[j] = j + 1
<1>1. /\ Head(q) \in S /\ Tail(q) \in Seq(S) /\ Len(Tail(q)) = Len(q) - 1
      /\ \A i \in 1 .. Len(Tail(q)) : Tail(q)[i] = q[i + 1]
  BY HeadTailProperties
<1>2. Len(q) \in Nat \ {0} /\ DOMAIN q = 1 .. Len(q) /\ DOMAIN Tail(q) = 1 .. Len(q) - 1
  BY <1>1, EmptySeq, LenProperties
<1> DEFINE f == [j \in DOMAIN Tail(q) |-> j + 1]
<1>3. DrawnFrom(Tail(q), q, f)
  BY <1>1, <1>2 DEF DrawnFrom
<1>4. Head(q) = q[1]
  OBVIOUS
<1> QED BY <1>1, <1>2, <1>3, <1>4

LEMMA RemovedDrawn ==
    ASSUME NEW S, NEW q \in Seq(S), NEW i \in DOMAIN q
    PROVE  /\ RemoveAt(q, i) \in Seq(S)
           /\ \E f : DrawnFrom(RemoveAt(q, i), q, f) /\ \A j \in DOMAIN RemoveAt(q, i) : f[j] # i
<1> DEFINE a == SubSeq(q, 1, i - 1)
           z == SubSeq(q, i + 1, Len(q))
<1>1. Len(q) \in Nat /\ DOMAIN q = 1 .. Len(q) /\ i \in 1 .. Len(q)
  BY LenProperties
<1>2. /\ a \in Seq(S) /\ Len(a) = i - 1
      /\ \A j \in 1 .. i - 1 : a[j] = q[j]
  <2>1. \A j \in 1 .. i - 1 : q[j] \in S
    BY <1>1, ElementOfSeq
  <2>2. 1 \in Int /\ i - 1 \in Int
    BY <1>1
  <2>3. /\ a \in Seq(S) /\ Len(a) = IF 1 <= i - 1 THEN i - 1 - 1 + 1 ELSE 0
        /\ \A j \in 1 .. i - 1 - 1 + 1 : a[j] = q[1 + j - 1]
    BY <2>1, <2>2, SubSeqProperties
  <2> HIDE DEF a
  <2> QED BY <1>1, <2>3
<1>3. /\ z \in Seq(S) /\ Len(z) = Len(q) - i
      /\ \A j \in 1 .. Len(q) - i : z[j] = q[i + j]
  <2>1. \A j \in i + 1 .. Len(q) : q[j] \in S
    BY <1>1, ElementOfSeq
  <2>2. Len(q) \in Int /\ i + 1 \in Int
    BY <1>1
  <2>3. /\ z \in Seq(S) /\ Len(z) = IF i + 1 <= Len(q) THEN Len(q) - (i + 1) + 1 ELSE 0
        /\ \A j \in 1 .. Len(q) - (i + 1) + 1 : z[j] = q[(i + 1) + j - 1]
    BY <2>1, <2>2, SubSeqProperties
  <2> HIDE DEF z
  <2> QED BY <1>1, <2>3, SMTT(30)
<1> HIDE DEF a, z
<1>4. /\ a \o z \in Seq(S) /\ Len(a \o z) = Len(a) + Len(z)
      /\ \A j \in 1 .. Len(a) + Len(z) : (a \o z)[j] = IF j <= Len(a) THEN a[j] ELSE z[j - Len(a)]
  BY <1>2, <1>3, ConcatProperties
<1> DEFINE r == a \o z
<1>5. r \in Seq(S) /\ Len(r) = Len(q) - 1 /\ DOMAIN r = 1 .. Len(q) - 1
  <2>1. DOMAIN r = 1 .. Len(r)
    BY <1>4, LenProperties
  <2> QED BY <1>1, <1>2, <1>3, <1>4, <2>1
<1>6. \A j \in DOMAIN r : r[j] = q[IF j < i THEN j ELSE j + 1]
  <2> SUFFICES ASSUME NEW j \in 1 .. Len(q) - 1
               PROVE  r[j] = q[IF j < i THEN j ELSE j + 1]
    BY <1>5
  <2>1. j \in 1 .. Len(a) + Len(z)
    BY <1>1, <1>2, <1>3
  <2>2. CASE j < i
    BY <1>1, <1>2, <1>4, <2>1, <2>2
  <2>3. CASE ~(j < i)
    <3>1. j - Len(a) \in 1 .. Len(q) - i /\ i + (j - Len(a)) = j + 1 /\ ~(j <= Len(a))
      BY <1>1, <1>2, <2>3
    <3>2. r[j] = z[j - Len(a)]
      BY <1>4, <2>1, <3>1
    <3>3. z[j - Len(a)] = q[i + (j - Len(a))]
      BY <1>3, <3>1
    <3> QED BY <2>3, <3>1, <3>2, <3>3
  <2> QED BY <2>2, <2>3
<1>7. RemoveAt(q, i) = r
  BY DEF RemoveAt, a, z
<1> HIDE DEF r
<1> DEFINE f == [j \in DOMAIN r |-> IF j < i THEN j ELSE j + 1]
<1>8. DrawnFrom(r, q, f) /\ \A j \in DOMAIN r : f[j] # i
  BY <1>1, <1>5, <1>6 DEF DrawnFrom
<1> QED BY <1>5, <1>7, <1>8

\* A call has one reply at most, so all of them are dropped.
LEMMA DroppedDrawn ==
    ASSUME NEW S, replies \in Seq(S), NEW places \in SUBSET (DOMAIN replies)
    PROVE  /\ Dropped(places) \in Seq(S)
           /\ \E f : /\ DrawnFrom(Dropped(places), replies, f)
                     /\ (\A i, j \in places : i = j) => \A k \in DOMAIN Dropped(places) : f[k] \notin places
<1>1. CASE places = {}
  <2> DEFINE f == [j \in DOMAIN replies |-> j]
  <2>1. Dropped(places) = replies /\ DrawnFrom(replies, replies, f)
    BY <1>1 DEF Dropped, DrawnFrom
  <2> QED BY <1>1, <2>1
<1>2. CASE places # {}
  <2> DEFINE i == CHOOSE j \in places : TRUE
  <2>1. i \in places /\ Dropped(places) = RemoveAt(replies, i)
    BY <1>2 DEF Dropped
  <2> HIDE DEF i
  <2>2. RemoveAt(replies, i) \in Seq(S)
    BY <2>1, RemovedDrawn
  <2>3. PICK f : /\ DrawnFrom(RemoveAt(replies, i), replies, f)
                 /\ \A j \in DOMAIN RemoveAt(replies, i) : f[j] # i
    BY <2>1, RemovedDrawn
  <2> QED BY <2>1, <2>2, <2>3
<1> QED BY <1>1, <1>2

-----------------------------------------------------------------------------
(* Types.                                                                  *)

\* What the types say beyond what the counts are kept in, and that a process
\* is known for whom a decision is out.
Shaped ==
    /\ tries \in [Conns -> 0..MaxTries]
    /\ shows \in [Conns -> AnySize]
    /\ opaque \in [Conns -> BOOLEAN]
    /\ answers \in [Pids -> [size : AnySize, count : Nat]]
    /\ program \in [WinePrefixes -> Programs \cup {NoProgram}]
    /\ shown \in [WinePrefixes -> [size : AnySize, game : AnyPid]]
    /\ batches \in [Batches -> [prefix : WinePrefixes \cup {NoPrefix}, size : AnySize,
                                game : AnyPid, waits : SUBSET Pids]]
    /\ inbox \in Seq(Calls)
    /\ replies \in Seq(AnyReply)
    /\ served \in Seq(Served)
    /\ wish \in [Programs -> AnySize]
    /\ listed \in BOOLEAN
    /\ saves \in 0..MaxSaves
PendingKnown == \A c \in Pending : owner[c] \in Pids
KInv == Shaped /\ PendingKnown

LEMMA ShapedIsTyped == IInv /\ Shaped => TypeOK
<1> SUFFICES ASSUME IInv, Shaped PROVE TypeOK
  OBVIOUS
<1>1. pending \in Nat
  BY Finite DEF IInv, CountersAgree
<1> QED BY <1>1 DEF TypeOK, IInv, Kept, Shaped

LEMMA InitKInv == Init => KInv
<1> SUFFICES ASSUME Init PROVE KInv
  OBVIOUS
<1>1. MaxTries \in Nat /\ MaxSaves \in Nat
  BY ConstantsAssumption DEF ConstantsAssumption
<1>2. <<>> \in Seq(Calls) /\ <<>> \in Seq(AnyReply) /\ <<>> \in Seq(Served)
  BY EmptySeq
<1>3. PendingKnown
  BY DEF Init, PendingKnown, Pending, PendingPhases
<1>4. Shaped
  BY <1>1, <1>2 DEF Init, Shaped, AnySize, AnyPid, NoAnswer, NotShown, NoRound
<1> QED BY <1>3, <1>4 DEF KInv

\* What a connection is decided for.
LEMMA Named ==
    ASSUME KInv, NEW p \in Pids, NEW found \in Scanned(PrefixOf[p])
    PROVE  /\ Resolved(p, found) \in Programs \cup {NoProgram}
           /\ Learnt(p, found) \in [WinePrefixes -> Programs \cup {NoProgram}]
<1>1. /\ PrefixOf[p] \in WinePrefixes \cup {NoPrefix}
      /\ \A q \in Pids : ProgramOf[q] \in Programs \cup {NoProgram}
      /\ PrefixOf[p] = NoPrefix => ProgramOf[p] # NoProgram
  BY ConstantsAssumption DEF ConstantsAssumption
<1>2. found \in Programs \cup {NoProgram}
  BY <1>1 DEF Scanned
<1>3. Resolved(p, found) \in Programs \cup {NoProgram}
  BY <1>1, <1>2 DEF Resolved, KInv, Shaped
<1> QED BY <1>1, <1>3 DEF Learnt, KInv, Shaped

\* A call that is sent.
LEMMA CallSent ==
    ASSUME NEW calls \in Seq(Calls), NEW m \in Calls
    PROVE  /\ Append(calls, m) \in Seq(Calls)
           /\ DOMAIN calls = 1..Len(calls) /\ DOMAIN Append(calls, m) = 1..(Len(calls) + 1)
           /\ Len(calls) \in Nat /\ Len(Append(calls, m)) = Len(calls) + 1
           /\ \A i \in DOMAIN calls : Append(calls, m)[i] = calls[i]
           /\ Append(calls, m)[Len(calls) + 1] = m
<1>1. /\ Append(calls, m) \in Seq(Calls) /\ Len(Append(calls, m)) = Len(calls) + 1
      /\ \A i \in 1..Len(calls) : Append(calls, m)[i] = calls[i]
      /\ Append(calls, m)[Len(calls) + 1] = m
  BY AppendProperties
<1>2. /\ Len(calls) \in Nat /\ DOMAIN calls = 1..Len(calls)
      /\ DOMAIN Append(calls, m) = 1..Len(Append(calls, m))
  BY <1>1, LenProperties
<1> QED BY <1>1, <1>2

\* decideClient(), whatever called it.
LEMMA DecideShaped ==
    ASSUME KInv, NEW c \in Conns, NEW p \in Pids, NEW found \in Scanned(PrefixOf[p]),
           Decide(c, p, found)
    PROVE  /\ program' \in [WinePrefixes -> Programs \cup {NoProgram}]
           /\ tries' \in [Conns -> 0..MaxTries]
           /\ inbox' \in Seq(Calls)
           /\ \/ phase' = [phase EXCEPT ![c] = "waiting"] /\ inbox' = inbox
              \/ /\ phase' = [phase EXCEPT ![c] = "asking"]
                 /\ \E prog : /\ Call("policy", c, NoBatch, NoPid, p, prog) \in Calls
                              /\ inbox' = Append(inbox, Call("policy", c, NoBatch, NoPid, p, prog))
<1>1. program' \in [WinePrefixes -> Programs \cup {NoProgram}]
  BY Named DEF Decide
<1>2. CASE /\ tries[c] < MaxTries /\ phase' = [phase EXCEPT ![c] = "waiting"]
           /\ tries' = [tries EXCEPT ![c] = @ + 1] /\ UNCHANGED inbox
  <2>1. MaxTries \in Nat
    BY ConstantsAssumption DEF ConstantsAssumption
  <2>2. tries' \in [Conns -> 0..MaxTries]
    BY <1>2, <2>1 DEF KInv, Shaped
  <2> QED BY <1>1, <1>2, <2>2 DEF KInv, Shaped
<1>3. CASE /\ phase' = [phase EXCEPT ![c] = "asking"]
           /\ inbox' = Append(inbox, Call("policy", c, NoBatch, NoPid, p, Resolved(p, found)))
           /\ UNCHANGED tries
  <2>1. Call("policy", c, NoBatch, NoPid, p, Resolved(p, found)) \in Calls
    BY Named DEF Call, Calls, AnyPid
  <2>2. inbox' \in Seq(Calls)
    BY <1>3, <2>1, CallSent DEF KInv, Shaped
  <2> QED BY <1>1, <1>3, <2>1, <2>2 DEF KInv, Shaped
<1> QED BY <1>2, <1>3 DEF Decide

\* switchPrefix().
LEMMA SwitchedShaped ==
    ASSUME KInv, NEW x, NEW s \in AnySize,
           NEW known \in [Pids -> [size : AnySize, count : Nat]]
    PROVE  /\ SwitchedShows(x, s) \in [Conns -> AnySize]
           /\ SwitchedAnswers(known, x, s) \in [Pids -> [size : AnySize, count : Nat]]
<1>1. SwitchedShows(x, s) \in [Conns -> AnySize]
  BY DEF SwitchedShows, KInv, Shaped
<1>2. \A p \in Pids : [known[p] EXCEPT !.size = s] \in [size : AnySize, count : Nat]
  OBVIOUS
<1>3. SwitchedAnswers(known, x, s) \in [Pids -> [size : AnySize, count : Nat]]
  BY <1>2 DEF SwitchedAnswers
<1> QED BY <1>1, <1>3

\* The processes asked about are processes.
LEMMA EarlierKnown == ASSUME IInv, NEW x \in WinePrefixes, NEW game PROVE Earlier(x, game) \in SUBSET Pids
<1>1. relays[x] \subseteq Conns /\ \A c \in Conns : owner[c] \in Pids \cup {NoPid}
  BY DEF IInv, Kept, AnyPid
<1> QED BY <1>1 DEF Earlier

\* Calls that follow those already on their way: told of processes, which
\* nobody's decision waits for.
TellsMore(new, calls) ==
    /\ new \in Seq(Calls) /\ DOMAIN calls \subseteq DOMAIN new
    /\ \A i \in DOMAIN calls : new[i] = calls[i]
    /\ \A i \in DOMAIN new \ DOMAIN calls :
          /\ new[i].kind = "shown" /\ new[i].conn = NoConn /\ new[i].pid \in Pids
          /\ \A j \in DOMAIN calls : j < i

LEMMA CallsAdded ==
    ASSUME NEW calls \in Seq(Calls), NEW more \in Seq(Calls),
           \A i \in DOMAIN more : more[i].kind = "shown" /\ more[i].conn = NoConn /\ more[i].pid \in Pids
    PROVE  /\ TellsMore(calls \o more, calls)
           /\ \A i \in DOMAIN (calls \o more) \ DOMAIN calls : \E k \in DOMAIN more : (calls \o more)[i] = more[k]
           /\ \A k \in DOMAIN more : \E i \in DOMAIN (calls \o more) : (calls \o more)[i] = more[k]
<1> DEFINE new == calls \o more
<1>1. /\ new \in Seq(Calls) /\ Len(new) = Len(calls) + Len(more)
      /\ \A i \in 1..Len(calls) + Len(more) :
            new[i] = IF i <= Len(calls) THEN calls[i] ELSE more[i - Len(calls)]
  BY ConcatProperties
<1>2. /\ DOMAIN new = 1..Len(new) /\ DOMAIN calls = 1..Len(calls) /\ DOMAIN more = 1..Len(more)
      /\ Len(calls) \in Nat /\ Len(more) \in Nat
  BY <1>1, LenProperties
<1> HIDE DEF new
<1>3. /\ DOMAIN calls \subseteq DOMAIN new
      /\ \A i \in DOMAIN calls : new[i] = calls[i]
  BY <1>1, <1>2
<1>4. ASSUME NEW i \in DOMAIN new \ DOMAIN calls
      PROVE  /\ \E k \in DOMAIN more : new[i] = more[k]
             /\ \A j \in DOMAIN calls : j < i
  <2>1. i \in 1..Len(calls) + Len(more) /\ ~(i <= Len(calls)) /\ i - Len(calls) \in DOMAIN more
    BY <1>1, <1>2, <1>4
  <2>2. new[i] = more[i - Len(calls)]
    BY <1>1, <2>1
  <2> QED BY <1>2, <2>1, <2>2
<1>5. ASSUME NEW k \in DOMAIN more
      PROVE  \E i \in DOMAIN new : new[i] = more[k]
  <2>1. /\ Len(calls) + k \in DOMAIN new /\ ~(Len(calls) + k <= Len(calls))
        /\ (Len(calls) + k) - Len(calls) = k
    BY <1>1, <1>2, <1>5
  <2>2. new[Len(calls) + k] = more[(Len(calls) + k) - Len(calls)]
    BY <1>1, <1>2, <2>1
  <2> QED BY <2>1, <2>2
<1>6. TellsMore(new, calls)
  BY <1>1, <1>3, <1>4 DEF TellsMore
<1> QED BY <1>4, <1>5, <1>6 DEF new

\* showPrefix().
LEMMA ShowPrefixShaped ==
    ASSUME IInv, KInv, NEW c \in Conns, NEW x \in WinePrefixes, NEW s \in AnySize, NEW game \in Pids,
           NEW known \in [Pids -> [size : AnySize, count : Nat]], NEW calls \in Seq(Calls),
           ShowPrefix(x, s, game, known, calls, c)
    PROVE  /\ shown' \in [WinePrefixes -> [size : AnySize, game : AnyPid]]
           /\ shows' \in [Conns -> AnySize]
           /\ answers' \in [Pids -> [size : AnySize, count : Nat]]
           /\ batches' \in [Batches -> [prefix : WinePrefixes \cup {NoPrefix}, size : AnySize,
                                        game : AnyPid, waits : SUBSET Pids]]
           /\ TellsMore(inbox', calls)
           /\ \A i \in DOMAIN inbox' \ DOMAIN calls : inbox'[i].game = game
           /\ \A p \in Earlier(x, game) : \E i \in DOMAIN inbox' : inbox'[i].kind = "shown" /\ inbox'[i].pid = p
<1> DEFINE ask == Earlier(x, game)
<1>1. ask \in SUBSET Pids
  BY EarlierKnown
<1>2. shown' \in [WinePrefixes -> [size : AnySize, game : AnyPid]]
  BY DEF ShowPrefix, KInv, Shaped, AnyPid
<1>3. CASE /\ ask = {} /\ shows' = [SwitchedShows(x, s) EXCEPT ![c] = s]
           /\ answers' = SwitchedAnswers(known, x, s) /\ inbox' = calls /\ UNCHANGED batches
  <2>1. /\ SwitchedShows(x, s) \in [Conns -> AnySize]
        /\ answers' \in [Pids -> [size : AnySize, count : Nat]]
    BY <1>3, SwitchedShaped
  <2>2. shows' \in [Conns -> AnySize]
    BY <1>3, <2>1
  <2>3. batches' = batches /\ TellsMore(inbox', calls)
    BY <1>3 DEF TellsMore
  <2> QED BY <1>2, <1>3, <2>1, <2>2, <2>3 DEF KInv, Shaped
<1>4. CASE /\ ask # {} /\ shows' = [shows EXCEPT ![c] = s] /\ answers' = known
           /\ \E b \in Batches :
                 /\ batches[b] = NoRound
                 /\ batches' = [batches EXCEPT ![b] =
                        [prefix |-> x, size |-> s, game |-> game, waits |-> ask]]
                 /\ inbox' = calls \o SetToSeq({ShownCall(b, game, p) : p \in ask})
  <2>1. PICK b \in Batches :
                 /\ batches' = [batches EXCEPT ![b] =
                        [prefix |-> x, size |-> s, game |-> game, waits |-> ask]]
                 /\ inbox' = calls \o SetToSeq({ShownCall(b, game, p) : p \in ask})
    BY <1>4
  <2> DEFINE more == SetToSeq({ShownCall(b, game, p) : p \in ask})
  <2>2. game \in AnyPid
    BY DEF AnyPid
  <2> HIDE DEF ask
  <2>3. /\ more \in Seq(Calls)
        /\ \A i \in DOMAIN more : \E p \in ask : more[i] = ShownCall(b, game, p)
        /\ \A p \in ask : \E i \in DOMAIN more : more[i] = ShownCall(b, game, p)
    BY <1>1, <2>2, CallsOfRound
  <2> HIDE DEF more
  <2>4. \A i \in DOMAIN more : /\ more[i].kind = "shown" /\ more[i].conn = NoConn
                               /\ more[i].pid \in Pids /\ more[i].game = game
    BY <1>1, <2>3 DEF ShownCall, Call
  <2>5. inbox' = calls \o more
    BY <2>1 DEF more
  <2>6. /\ TellsMore(inbox', calls)
        /\ \A i \in DOMAIN inbox' \ DOMAIN calls : \E k \in DOMAIN more : inbox'[i] = more[k]
        /\ \A k \in DOMAIN more : \E i \in DOMAIN inbox' : inbox'[i] = more[k]
    <3>1. /\ TellsMore(calls \o more, calls)
          /\ \A i \in DOMAIN (calls \o more) \ DOMAIN calls : \E k \in DOMAIN more : (calls \o more)[i] = more[k]
          /\ \A k \in DOMAIN more : \E i \in DOMAIN (calls \o more) : (calls \o more)[i] = more[k]
      BY <2>3, <2>4, CallsAdded
    <3> QED BY <2>5, <3>1
  <2>7. ASSUME NEW p \in ask
        PROVE  \E i \in DOMAIN inbox' : inbox'[i].kind = "shown" /\ inbox'[i].pid = p
    <3>1. PICK k \in DOMAIN more : more[k] = ShownCall(b, game, p)
      BY <2>3
    <3>2. more[k].kind = "shown" /\ more[k].pid = p
      BY <3>1 DEF ShownCall, Call
    <3> QED BY <2>6, <3>2
  <2>8. shows' \in [Conns -> AnySize]
    BY <1>4 DEF KInv, Shaped
  <2>9. batches' \in [Batches -> [prefix : WinePrefixes \cup {NoPrefix}, size : AnySize,
                                  game : AnyPid, waits : SUBSET Pids]]
    BY <1>1, <2>1, <2>2 DEF KInv, Shaped
  <2>10. \A i \in DOMAIN inbox' \ DOMAIN calls : inbox'[i].game = game
    BY <2>4, <2>6
  <2>11. answers' \in [Pids -> [size : AnySize, count : Nat]]
    BY <1>4
  <2> QED BY <1>2, <2>6, <2>7, <2>8, <2>9, <2>10, <2>11 DEF ask
<1> QED BY <1>3, <1>4 DEF ShowPrefix

\* relayClient() where the backend takes the connection.
LEMMA AcceptedShaped ==
    ASSUME IInv, KInv, NEW c \in Conns, NEW p \in AnyPid, NEW size \in AnySize, NEW ans \in BOOLEAN,
           NEW count, NEW calls \in Seq(Calls),
           BackendAccepts(c, p, size, ans, count, calls)
    PROVE  /\ tries' \in [Conns -> 0..MaxTries]
           /\ shows' \in [Conns -> AnySize]
           /\ opaque' \in [Conns -> BOOLEAN]
           /\ answers' \in [Pids -> [size : AnySize, count : Nat]]
           /\ shown' \in [WinePrefixes -> [size : AnySize, game : AnyPid]]
           /\ batches' \in [Batches -> [prefix : WinePrefixes \cup {NoPrefix}, size : AnySize,
                                        game : AnyPid, waits : SUBSET Pids]]
           /\ TellsMore(inbox', calls)
<1> DEFINE x == Prefix(p)
           follows == x # NoPrefix /\ size = NoSize /\ shown[x].size # NoSize
           s == IF follows THEN shown[x].size ELSE size
           game == IF follows THEN shown[x].game ELSE NoPid
           known == IF (ans \/ follows) /\ p # NoPid
                    THEN [answers EXCEPT ![p] = [size |-> s, count |-> @.count + 1]]
                    ELSE answers
<1>p. /\ x \in WinePrefixes \cup {NoPrefix} /\ NoPrefix \notin WinePrefixes /\ NoPid \notin Pids
      /\ (x # NoPrefix => p \in Pids) /\ (p # NoPid => p \in Pids) /\ MaxTries \in Nat
      /\ NoConn \notin Conns
  BY ConstantsAssumption DEF ConstantsAssumption, Prefix, AnyPid
<1>1. s \in AnySize /\ game \in AnyPid
  <2>1. follows => shown[x] \in [size : AnySize, game : AnyPid]
    BY <1>p DEF KInv, Shaped
  <2> QED BY <2>1 DEF AnyPid
<1>2. known \in [Pids -> [size : AnySize, count : Nat]]
  <2> HIDE DEF follows, s
  <2>1. \A q \in Pids : answers[q].count + 1 \in Nat
    BY DEF KInv, Shaped
  <2> QED BY <1>p, <1>1, <2>1 DEF KInv, Shaped
<1>a. /\ tries' = [tries EXCEPT ![c] = 0]
      /\ opaque' = [opaque EXCEPT ![c] = FALSE]
      /\ IF x # NoPrefix /\ game = NoPid /\ s # NoSize
         THEN ShowPrefix(x, s, p, known, calls, c)
         ELSE /\ shows' = [shows EXCEPT ![c] = s]
              /\ answers' = known
              /\ inbox' = IF game # NoPid /\ p # NoPid /\ p # game
                          THEN Append(calls, ShownCall(NoBatch, game, p))
                          ELSE calls
              /\ UNCHANGED <<shown, batches>>
  BY DEF BackendAccepts
<1>3. tries' \in [Conns -> 0..MaxTries] /\ opaque' \in [Conns -> BOOLEAN]
  BY <1>a, <1>p DEF KInv, Shaped
<1> HIDE DEF known
<1>4. CASE x # NoPrefix /\ game = NoPid /\ s # NoSize
  <2>1. x \in WinePrefixes /\ p \in Pids /\ ShowPrefix(x, s, p, known, calls, c)
    BY <1>4, <1>a, <1>p
  <2> HIDE DEF x, s
  <2> QED BY <1>1, <1>2, <1>3, <2>1, ShowPrefixShaped
<1>5. CASE ~(x # NoPrefix /\ game = NoPid /\ s # NoSize)
  <2>1. /\ shows' = [shows EXCEPT ![c] = s] /\ answers' = known /\ UNCHANGED <<shown, batches>>
        /\ inbox' = IF game # NoPid /\ p # NoPid /\ p # game
                    THEN Append(calls, ShownCall(NoBatch, game, p)) ELSE calls
    BY <1>a, <1>5
  <2> HIDE DEF s, game
  <2>2. CASE inbox' = calls
    <3>1. TellsMore(inbox', calls)
      BY <2>2 DEF TellsMore
    <3>2. shows' \in [Conns -> AnySize]
      BY <1>1, <2>1 DEF KInv, Shaped
    <3> QED BY <1>2, <1>3, <2>1, <3>1, <3>2 DEF KInv, Shaped
  <2>3. CASE p \in Pids /\ inbox' = Append(calls, ShownCall(NoBatch, game, p))
    <3>1. ShownCall(NoBatch, game, p) \in Calls
      BY <1>1, <2>3 DEF ShownCall, Call, Calls, AnyPid
    <3>2. /\ ShownCall(NoBatch, game, p).kind = "shown" /\ ShownCall(NoBatch, game, p).conn = NoConn
          /\ ShownCall(NoBatch, game, p).pid \in Pids
      BY <2>3 DEF ShownCall, Call
    <3> DEFINE m == ShownCall(NoBatch, game, p)
    <3> HIDE DEF m
    <3>3. TellsMore(inbox', calls)
      BY <2>3, <3>1, <3>2, CallSent DEF TellsMore, m
    <3>4. shows' \in [Conns -> AnySize]
      BY <1>1, <2>1 DEF KInv, Shaped
    <3> QED BY <1>2, <1>3, <2>1, <3>3, <3>4 DEF KInv, Shaped
  <2> QED BY <1>p, <2>1, <2>2, <2>3
<1> QED BY <1>4, <1>5

\* A call nobody waits for any more stays a call about the same.
LEMMA UnawaitedByConn ==
    ASSUME KInv, NEW c
    PROVE  /\ WithoutConn(c) \in Seq(Calls) /\ DOMAIN WithoutConn(c) = DOMAIN inbox
           /\ \A i \in DOMAIN inbox :
                 /\ WithoutConn(c)[i].kind = inbox[i].kind /\ WithoutConn(c)[i].pid = inbox[i].pid
                 /\ WithoutConn(c)[i].game = inbox[i].game
                 /\ WithoutConn(c)[i].conn = IF inbox[i].conn = c THEN NoConn ELSE inbox[i].conn
<1> DEFINE calls == WithoutConn(c)
<1>1. inbox \in Seq(Calls) /\ Len(inbox) \in Nat /\ DOMAIN inbox = 1..Len(inbox)
  BY LenProperties DEF KInv, Shaped
<1>2. \A i \in DOMAIN inbox : inbox[i] \in Calls
  BY <1>1, ElementOfSeq
<1>3. \A i \in DOMAIN inbox :
         /\ calls[i] \in Calls
         /\ calls[i].kind = inbox[i].kind /\ calls[i].pid = inbox[i].pid
         /\ calls[i].game = inbox[i].game
         /\ calls[i].conn = IF inbox[i].conn = c THEN NoConn ELSE inbox[i].conn
  BY <1>2 DEF Calls, WithoutConn
<1>4. calls \in [1..Len(inbox) -> Calls]
  BY <1>1, <1>3 DEF WithoutConn
<1> HIDE DEF calls
<1>5. calls \in Seq(Calls)
  BY <1>1, <1>4, SeqDef
<1>6. DOMAIN calls = DOMAIN inbox
  BY <1>1, <1>4
<1> QED BY <1>3, <1>5, <1>6 DEF calls

LEMMA UnawaitedByRound ==
    ASSUME KInv, NEW b, NEW p
    PROVE  /\ WithoutRound(b, p) \in Seq(Calls) /\ DOMAIN WithoutRound(b, p) = DOMAIN inbox
           /\ \A i \in DOMAIN inbox :
                 /\ WithoutRound(b, p)[i].kind = inbox[i].kind
                 /\ WithoutRound(b, p)[i].pid = inbox[i].pid
                 /\ WithoutRound(b, p)[i].game = inbox[i].game
                 /\ WithoutRound(b, p)[i].conn = inbox[i].conn
<1> DEFINE calls == WithoutRound(b, p)
<1>1. inbox \in Seq(Calls) /\ Len(inbox) \in Nat /\ DOMAIN inbox = 1..Len(inbox)
  BY LenProperties DEF KInv, Shaped
<1>2. \A i \in DOMAIN inbox : inbox[i] \in Calls
  BY <1>1, ElementOfSeq
<1>3. \A i \in DOMAIN inbox :
         /\ calls[i] \in Calls
         /\ calls[i].kind = inbox[i].kind /\ calls[i].pid = inbox[i].pid
         /\ calls[i].game = inbox[i].game /\ calls[i].conn = inbox[i].conn
  BY <1>2 DEF Calls, WithoutRound
<1>4. calls \in [1..Len(inbox) -> Calls]
  BY <1>1, <1>3 DEF WithoutRound
<1> HIDE DEF calls
<1>5. calls \in Seq(Calls)
  BY <1>1, <1>4, SeqDef
<1>6. DOMAIN calls = DOMAIN inbox
  BY <1>1, <1>4
<1> QED BY <1>3, <1>5, <1>6 DEF calls

\* The effect's record, when it hears of one more process.
LEMMA RecordShaped ==
    ASSUME KInv
    PROVE  /\ \A p : ServedSize(p) \in AnySize
           /\ \A p \in ServedPids : ServedSize(p) \in Sizes
           /\ \A p \in AnyPid, s \in AnySize : Recorded(p, s) \in Seq(Served)
<1>1. served \in Seq(Served) /\ Len(served) \in Nat /\ DOMAIN served = 1..Len(served)
  BY LenProperties DEF KInv, Shaped
<1>2. \A i \in DOMAIN served : served[i] \in Served
  BY <1>1, ElementOfSeq
<1>3. ASSUME NEW p \in ServedPids
      PROVE  ServedSize(p) \in Sizes
  <2>1. \E e \in ToSet(served) : e.pid = p
    BY DEF ServedPids, ToSet
  <2>2. (CHOOSE e \in ToSet(served) : e.pid = p) \in ToSet(served)
    BY <2>1
  <2>3. \A e \in ToSet(served) : e.size \in Sizes
    BY <1>2 DEF ToSet, Served
  <2> QED BY <2>2, <2>3 DEF ServedSize
<1>4. ASSUME NEW p
      PROVE  ServedSize(p) \in AnySize
  BY <1>3 DEF ServedSize, AnySize
<1>5. ASSUME NEW p \in AnyPid, NEW s \in AnySize
      PROVE  Recorded(p, s) \in Seq(Served)
  <2>1. CASE s = NoSize \/ p \in ServedPids
    BY <1>1, <2>1 DEF Recorded
  <2>2. CASE ~(s = NoSize \/ p \in ServedPids)
    <3> DEFINE longer == Append(served, [pid |-> p, size |-> s])
    <3>1. [pid |-> p, size |-> s] \in Served
      BY <2>2 DEF Served, AnySize
    <3>2. longer \in Seq(Served) /\ longer # <<>>
      BY <1>1, <3>1, AppendProperties
    <3>3. Tail(longer) \in Seq(Served)
      <4> HIDE DEF longer
      <4> QED BY <3>2, HeadTailProperties
    <3> QED BY <2>2, <3>2, <3>3 DEF Recorded
  <2> QED BY <2>1, <2>2
<1> QED BY <1>3, <1>4, <1>5

\* relayClient(), for a connection that is not relayed yet.
LEMMA RelayClientShaped ==
    ASSUME IInv, KInv, NEW c \in Conns, NEW p \in AnyPid, NEW size \in AnySize, NEW ans \in BOOLEAN,
           NEW count, NEW calls \in Seq(Calls), RelayClient(c, p, size, ans, count, calls),
           replies' \in Seq(AnyReply), UNCHANGED <<program, effectVars>>
    PROVE  /\ KInv'
           /\ TellsMore(inbox', calls)
<1>k. KInv
  OBVIOUS
<1>m. /\ program' = program /\ served' = served /\ wish' = wish /\ listed' = listed /\ saves' = saves
      /\ MaxTries \in Nat
  BY ConstantsAssumption DEF effectVars, ConstantsAssumption
<1>1. PendingKnown'
  <2>1. \/ phase' = [phase EXCEPT ![c] = "relay"] /\ owner' = [owner EXCEPT ![c] = p]
        \/ phase' = [phase EXCEPT ![c] = "closed"] /\ owner' = [owner EXCEPT ![c] = NoPid]
    BY DEF RelayClient, BackendAccepts, BackendRefuses
  <2>2. \A d \in Conns : /\ d # c => phase'[d] = phase[d] /\ owner'[d] = owner[d]
                         /\ phase'[c] \notin PendingPhases
    BY <2>1 DEF IInv, Kept, PendingPhases
  <2> QED BY <1>k, <2>2 DEF KInv, PendingKnown, Pending
<1>2. CASE BackendRefuses(c, count, calls)
  <2>1. /\ tries' = [tries EXCEPT ![c] = 0] /\ inbox' = calls
        /\ UNCHANGED <<shows, opaque, answers, shown, batches>>
    BY <1>2 DEF BackendRefuses, relayVars
  <2>2. tries' \in [Conns -> 0..MaxTries]
    BY <1>k, <1>m, <2>1 DEF KInv, Shaped
  <2>3. Shaped'
    BY <1>k, <1>m, <2>1, <2>2 DEF KInv, Shaped
  <2>4. TellsMore(inbox', calls)
    BY <2>1 DEF TellsMore
  <2> QED BY <1>1, <2>3, <2>4 DEF KInv
<1>3. CASE BackendAccepts(c, p, size, ans, count, calls)
  <2>1. /\ tries' \in [Conns -> 0..MaxTries]
        /\ shows' \in [Conns -> AnySize]
        /\ opaque' \in [Conns -> BOOLEAN]
        /\ answers' \in [Pids -> [size : AnySize, count : Nat]]
        /\ shown' \in [WinePrefixes -> [size : AnySize, game : AnyPid]]
        /\ batches' \in [Batches -> [prefix : WinePrefixes \cup {NoPrefix}, size : AnySize,
                                     game : AnyPid, waits : SUBSET Pids]]
        /\ TellsMore(inbox', calls)
    BY <1>3, AcceptedShaped
  <2>2. inbox' \in Seq(Calls)
    BY <2>1 DEF TellsMore
  <2>3. Shaped'
    BY <1>k, <1>m, <2>1, <2>2 DEF KInv, Shaped
  <2> QED BY <1>1, <2>1, <2>3 DEF KInv
<1> QED BY <1>2, <1>3 DEF RelayClient

\* decideClient(), for a connection whose decision is out from now on.
LEMMA DecidedShaped ==
    ASSUME KInv, NEW c \in Conns, owner'[c] \in Pids, \A d \in Conns \ {c} : owner'[d] = owner[d],
           \A d \in Conns \ {c} : phase'[d] = phase[d],
           tries' \in [Conns -> 0..MaxTries], program' \in [WinePrefixes -> Programs \cup {NoProgram}],
           inbox' \in Seq(Calls), replies' \in Seq(AnyReply),
           UNCHANGED <<relayVars, answers, shown, batches, effectVars>>
    PROVE  KInv'
<1>1. PendingKnown'
  BY DEF KInv, PendingKnown, Pending
<1>2. Shaped'
  BY DEF KInv, Shaped, relayVars, effectVars
<1> QED BY <1>1, <1>2 DEF KInv

\* The reply that arrives.
LEMMA ReplyArrives ==
    ASSUME KInv, replies # <<>>
    PROVE  Head(replies) \in AnyReply /\ Tail(replies) \in Seq(AnyReply)
BY TailDrawn DEF KInv, Shaped

\* checkPrefix()'s question.
LEMMA CheckPrefixShaped ==
    ASSUME KInv, NEW c \in Conns, NEW p \in Pids, CheckPrefix(c, p)
    PROVE  /\ phase' = [phase EXCEPT ![c] = "checking"]
           /\ Call("prefix", c, NoBatch, NoPid, p, NoProgram) \in Calls
           /\ inbox' = Append(inbox, Call("prefix", c, NoBatch, NoPid, p, NoProgram))
           /\ inbox' \in Seq(Calls) /\ UNCHANGED <<tries, program>>
<1>1. Call("prefix", c, NoBatch, NoPid, p, NoProgram) \in Calls
  BY DEF Call, Calls, AnyPid
<1>2. inbox' = Append(inbox, Call("prefix", c, NoBatch, NoPid, p, NoProgram))
  BY DEF CheckPrefix
<1>3. inbox' \in Seq(Calls)
  BY <1>1, <1>2, CallSent DEF KInv, Shaped
<1> QED BY <1>1, <1>2, <1>3 DEF CheckPrefix

\* A connection is decided anew: decideClient(), from wherever it is called.
LEMMA DecideKeepsShape ==
    ASSUME KInv, NEW c \in Conns, NEW p \in Pids, NEW found \in Scanned(PrefixOf[p]),
           owner'[c] = p, \A d \in Conns \ {c} : owner'[d] = owner[d],
           IInv, Decide(c, p, found), replies' \in Seq(AnyReply),
           UNCHANGED <<relayVars, answers, shown, batches, effectVars>>
    PROVE  KInv'
<1>1. /\ program' \in [WinePrefixes -> Programs \cup {NoProgram}]
      /\ tries' \in [Conns -> 0..MaxTries] /\ inbox' \in Seq(Calls)
      /\ phase' = [phase EXCEPT ![c] = "waiting"] \/ phase' = [phase EXCEPT ![c] = "asking"]
  BY DecideShaped
<1>2. \A d \in Conns \ {c} : phase'[d] = phase[d]
  BY <1>1 DEF IInv, Kept
<1> QED BY <1>1, <1>2, DecidedShaped

\* acceptClient() for a process that has to be asked about.
LEMMA AcceptUnknownShaped ==
    ASSUME IInv, KInv, NEW c \in Conns, NEW p \in Pids, AcceptUnknown(c, p)
    PROVE  KInv'
<1>1. /\ owner' = [owner EXCEPT ![c] = p]
      /\ UNCHANGED <<relayVars, answers, shown, batches, replies, effectVars>>
  BY DEF AcceptUnknown
<1>2. owner'[c] = p /\ \A d \in Conns \ {c} : owner'[d] = owner[d]
  BY <1>1 DEF IInv, Kept
<1>3. replies' \in Seq(AnyReply)
  BY <1>1 DEF KInv, Shaped
<1>4. PICK found \in Scanned(PrefixOf[p]) :
        IF Resolved(p, found) = NoProgram THEN CheckPrefix(c, p) ELSE Decide(c, p, found)
  BY DEF AcceptUnknown
<1>5. CASE Decide(c, p, found)
  BY <1>1, <1>2, <1>3, <1>5, DecideKeepsShape
<1>6. CASE CheckPrefix(c, p)
  <2>1. phase' = [phase EXCEPT ![c] = "checking"] /\ inbox' \in Seq(Calls) /\ UNCHANGED <<tries, program>>
    BY <1>6, CheckPrefixShaped
  <2>2. \A d \in Conns \ {c} : phase'[d] = phase[d]
    BY <2>1 DEF IInv, Kept
  <2>3. /\ tries' \in [Conns -> 0..MaxTries]
        /\ program' \in [WinePrefixes -> Programs \cup {NoProgram}]
    BY <2>1 DEF KInv, Shaped
  <2> QED BY <1>1, <1>2, <1>3, <2>1, <2>2, <2>3, DecidedShaped
<1> QED BY <1>4, <1>5, <1>6

\* proceed() of showPrefix().
LEMMA ProceedShaped ==
    ASSUME IInv, KInv, NEW b \in Batches, NEW p, Proceed(b, p), inbox' \in Seq(Calls),
           replies' \in Seq(AnyReply)
    PROVE  KInv'
<1> DEFINE r == batches[b]
           left == r.waits \ {p}
           x == r.prefix
<1>a. /\ batches' = [batches EXCEPT ![b] =
                            IF left = {} THEN NoRound ELSE [r EXCEPT !.waits = left]]
      /\ \/ shows' = SwitchedShows(x, r.size) /\ answers' = SwitchedAnswers(answers, x, r.size)
         \/ UNCHANGED <<shows, answers>>
      /\ UNCHANGED <<phase, owner, tries, opaque, program, shown>>
      /\ served' = served /\ wish' = wish /\ listed' = listed /\ saves' = saves
  BY DEF Proceed, effectVars
<1>1. r \in [prefix : WinePrefixes \cup {NoPrefix}, size : AnySize, game : AnyPid, waits : SUBSET Pids]
  BY DEF KInv, Shaped
<1> DEFINE new == IF left = {} THEN NoRound ELSE [r EXCEPT !.waits = left]
<1>2. new \in [prefix : WinePrefixes \cup {NoPrefix}, size : AnySize, game : AnyPid, waits : SUBSET Pids]
  <2>1. NoRound \in [prefix : WinePrefixes \cup {NoPrefix}, size : AnySize, game : AnyPid, waits : SUBSET Pids]
    BY DEF NoRound, AnySize, AnyPid
  <2>2. left \in SUBSET Pids
    BY <1>1
  <2> HIDE DEF r, left
  <2>3. [r EXCEPT !.waits = left] \in
            [prefix : WinePrefixes \cup {NoPrefix}, size : AnySize, game : AnyPid, waits : SUBSET Pids]
    BY <1>1, <2>2
  <2> QED BY <2>1, <2>3
<1>3. batches' = [batches EXCEPT ![b] = new]
  BY <1>a
<1> HIDE DEF new
<1>4. batches' \in [Batches -> [prefix : WinePrefixes \cup {NoPrefix}, size : AnySize,
                                game : AnyPid, waits : SUBSET Pids]]
  BY <1>2, <1>3 DEF KInv, Shaped
<1>5. r.size \in AnySize /\ answers \in [Pids -> [size : AnySize, count : Nat]]
  BY <1>1 DEF KInv, Shaped
<1> HIDE DEF r
<1>6. shows' \in [Conns -> AnySize] /\ answers' \in [Pids -> [size : AnySize, count : Nat]]
  <2>1. CASE shows' = SwitchedShows(x, r.size) /\ answers' = SwitchedAnswers(answers, x, r.size)
    BY <1>5, <2>1, SwitchedShaped
  <2>2. CASE UNCHANGED <<shows, answers>>
    BY <2>2 DEF KInv, Shaped
  <2> QED BY <1>a, <2>1, <2>2
<1>7. Shaped'
  BY <1>a, <1>4, <1>6 DEF KInv, Shaped
<1>8. PendingKnown'
  BY <1>a DEF KInv, PendingKnown, Pending
<1> QED BY <1>7, <1>8 DEF KInv

\* forgetRelay().
LEMMA ForgetShaped ==
    ASSUME IInv, KInv, NEW c \in Conns, Forget(c)
    PROVE  KInv'
<1> DEFINE p == owner[c]
           x == Prefix(p)
<1>a. /\ phase' = [phase EXCEPT ![c] = "closed"]
      /\ owner' = [owner EXCEPT ![c] = NoPid]
      /\ shows' = [shows EXCEPT ![c] = NoSize]
      /\ opaque' = [opaque EXCEPT ![c] = FALSE]
      /\ answers' = IF answered[c] /\ p # NoPid /\ answers[p].count > 0
                    THEN [answers EXCEPT ![p] =
                              IF @.count = 1 THEN NoAnswer
                              ELSE [size |-> @.size, count |-> @.count - 1]]
                    ELSE answers
      /\ program' = program \/ program' = [program EXCEPT ![x] = NoProgram]
      /\ shown' = shown \/ shown' = [shown EXCEPT ![x] = NotShown]
      /\ UNCHANGED <<tries, batches, inbox, replies>>
      /\ served' = served /\ wish' = wish /\ listed' = listed /\ saves' = saves
  BY DEF Forget, effectVars
<1>1. shows' \in [Conns -> AnySize] /\ opaque' \in [Conns -> BOOLEAN]
  BY <1>a DEF KInv, Shaped, AnySize
<1>2. program' \in [WinePrefixes -> Programs \cup {NoProgram}]
  BY <1>a DEF KInv, Shaped
<1>3. shown' \in [WinePrefixes -> [size : AnySize, game : AnyPid]]
  <2>1. NotShown \in [size : AnySize, game : AnyPid]
    BY DEF NotShown, AnySize, AnyPid
  <2> QED BY <1>a, <2>1 DEF KInv, Shaped
<1>4. answers' \in [Pids -> [size : AnySize, count : Nat]]
  <2>1. CASE answers' = answers
    BY <2>1 DEF KInv, Shaped
  <2>2. CASE /\ answers[p].count > 0 /\ p # NoPid
             /\ answers' = [answers EXCEPT ![p] =
                              IF answers[p].count = 1 THEN NoAnswer
                              ELSE [size |-> answers[p].size, count |-> answers[p].count - 1]]
    <3>1. p \in Pids
      BY <2>2 DEF IInv, Kept, AnyPid
    <3>2. answers[p].size \in AnySize /\ answers[p].count - 1 \in Nat
      BY <2>2, <3>1 DEF KInv, Shaped
    <3>3. NoAnswer \in [size : AnySize, count : Nat]
      BY DEF NoAnswer, AnySize
    <3> DEFINE new == IF answers[p].count = 1 THEN NoAnswer
                      ELSE [size |-> answers[p].size, count |-> answers[p].count - 1]
    <3>4. new \in [size : AnySize, count : Nat]
      BY <3>2, <3>3
    <3>5. answers' = [answers EXCEPT ![p] = new]
      BY <2>2
    <3> HIDE DEF new
    <3> QED BY <3>4, <3>5 DEF KInv, Shaped
  <2> QED BY <1>a, <2>1, <2>2
<1>5. Shaped'
  BY <1>a, <1>1, <1>2, <1>3, <1>4 DEF KInv, Shaped
<1>6. \A d \in Conns \ {c} : phase'[d] = phase[d] /\ owner'[d] = owner[d]
  BY <1>a DEF IInv, Kept
<1>7. PendingKnown'
  <2>1. phase'[c] \notin PendingPhases
    BY <1>a DEF IInv, Kept, PendingPhases
  <2> QED BY <1>6, <2>1 DEF KInv, PendingKnown, Pending
<1> QED BY <1>5, <1>7 DEF KInv

\* What the effect sends back.
LEMMA ReplySent ==
    ASSUME NEW q \in Seq(AnyReply), NEW r \in AnyReply
    PROVE  /\ Append(q, r) \in Seq(AnyReply)
           /\ DOMAIN q = 1..Len(q) /\ DOMAIN Append(q, r) = 1..(Len(q) + 1) /\ Len(q) \in Nat
           /\ \A i \in DOMAIN q : Append(q, r)[i] = q[i]
           /\ Append(q, r)[Len(q) + 1] = r
<1>1. /\ Append(q, r) \in Seq(AnyReply) /\ Len(Append(q, r)) = Len(q) + 1
      /\ \A i \in 1..Len(q) : Append(q, r)[i] = q[i]
      /\ Append(q, r)[Len(q) + 1] = r
  BY AppendProperties
<1>2. Len(q) \in Nat /\ DOMAIN q = 1..Len(q) /\ DOMAIN Append(q, r) = 1..Len(Append(q, r))
  BY <1>1, LenProperties
<1> QED BY <1>1, <1>2

\* The effect takes the call that came first.
LEMMA EffectShaped ==
    ASSUME IInv, KInv, EffectAnswers
    PROVE  /\ KInv'
           /\ Head(inbox) \in Calls
           /\ \/ replies' = replies
              \/ /\ Head(inbox).kind \in {"prefix", "policy"} => Head(inbox).conn # NoConn
                 /\ \E r \in AnyReply : /\ r.conn = (IF Head(inbox).kind = "shown" THEN NoConn ELSE Head(inbox).conn)
                                        /\ r.kind = Head(inbox).kind
                                        /\ r.kind = "policy" => r.value = PolicyAnswer(Head(inbox).program)
                                        /\ replies' = Append(replies, r)
<1> DEFINE m == Head(inbox)
<1>1. inbox # <<>> /\ inbox' = Tail(inbox)
  BY DEF EffectAnswers, AnswerPrefix, AnswerPolicy, AnswerShown
<1>2. m \in Calls /\ inbox' \in Seq(Calls)
  BY <1>1, TailDrawn DEF KInv, Shaped
<1>3. /\ PolicyAnswer(m.program) \in AnySize \cup {"retry"}
      /\ m.conn \in Conns \cup {NoConn} /\ m.batch \in Batches \cup {NoBatch} /\ m.pid \in AnyPid
  <2>1. m.program \in Programs \cup {NoProgram}
    BY <1>2 DEF Calls
  <2>2. m.conn \in Conns \cup {NoConn} /\ m.batch \in Batches \cup {NoBatch} /\ m.pid \in AnyPid
    BY <1>2 DEF Calls
  <2> HIDE DEF m
  <2>3. PolicyAnswer(m.program) \in AnySize \cup {"retry"}
    BY <2>1 DEF PolicyAnswer, KInv, Shaped, AnySize
  <2> QED BY <2>2, <2>3
<1>u. UNCHANGED <<phase, owner, tries, relayVars, answers, prefixVars, wish, listed, saves>>
  BY DEF EffectAnswers
<1> HIDE DEF m
<1>4. /\ \/ replies' = replies
         \/ /\ m.kind \in {"prefix", "policy"} => m.conn # NoConn
            /\ \E r \in AnyReply : /\ r.conn = (IF m.kind = "shown" THEN NoConn ELSE m.conn)
                                   /\ r.kind = m.kind
                                   /\ r.kind = "policy" => r.value = PolicyAnswer(m.program)
                                   /\ replies' = Append(replies, r)
      /\ served' = served \/ \E s \in AnySize : served' = Recorded(m.pid, s)
  <2>1. CASE AnswerPrefix
    <3>1. m.kind = "prefix" /\ served' = served
      BY <2>1 DEF AnswerPrefix, m
    <3>2. PICK may \in {"match", "none"} :
            replies' = IF m.conn = NoConn THEN replies
                       ELSE Append(replies, Reply("prefix", m.conn, NoBatch, NoPid, may))
      BY <2>1 DEF AnswerPrefix, m
    <3> DEFINE r == Reply("prefix", m.conn, NoBatch, NoPid, may)
    <3>3. r \in AnyReply /\ r.conn = m.conn /\ r.kind = "prefix"
      BY <1>3 DEF Reply, AnyReply, Replies, AnyPid
    <3> HIDE DEF r
    <3>4. replies' = replies \/ (m.conn # NoConn /\ replies' = Append(replies, r))
      BY <3>2 DEF r
    <3> QED BY <3>1, <3>3, <3>4
  <2>2. CASE AnswerPolicy
    <3> DEFINE value == PolicyAnswer(m.program)
    <3>1. /\ m.kind = "policy"
          /\ replies' = IF m.conn = NoConn THEN replies
                        ELSE Append(replies, Reply("policy", m.conn, NoBatch, NoPid, value))
          /\ served' = IF value = "retry" THEN served ELSE Recorded(m.pid, value)
      BY <2>2 DEF AnswerPolicy, m
    <3> HIDE DEF value
    <3>v. value \in AnySize \cup {"retry"}
      BY <1>3 DEF value
    <3> DEFINE r == Reply("policy", m.conn, NoBatch, NoPid, value)
    <3>3. r \in AnyReply /\ r.conn = m.conn /\ r.kind = "policy" /\ r.value = value
      BY <1>3, <3>v DEF Reply, AnyReply, Replies, AnyPid
    <3> HIDE DEF r
    <3>4. replies' = replies \/ (m.conn # NoConn /\ replies' = Append(replies, r))
      BY <3>1 DEF r
    <3>5. served' = served \/ \E s \in AnySize : served' = Recorded(m.pid, s)
      BY <3>1, <3>v
    <3> QED BY <3>1, <3>3, <3>4, <3>5 DEF value
  <2>3. CASE AnswerShown
    <3>1. /\ m.kind = "shown"
          /\ replies' = IF m.batch = NoBatch THEN replies
                        ELSE Append(replies, Reply("shown", NoConn, m.batch, m.pid, "told"))
          /\ served' = Recorded(m.pid, ServedSize(m.game))
      BY <2>3 DEF AnswerShown, m
    <3> DEFINE r == Reply("shown", NoConn, m.batch, m.pid, "told")
    <3>3. r \in AnyReply /\ r.conn = NoConn /\ r.kind = "shown"
      BY <1>3 DEF Reply, AnyReply, Replies
    <3> HIDE DEF r
    <3>4. replies' = replies \/ replies' = Append(replies, r)
      BY <3>1 DEF r
    <3>5. \E s \in AnySize : served' = Recorded(m.pid, s)
      BY <3>1, RecordShaped
    <3> QED BY <3>1, <3>3, <3>4, <3>5
  <2> QED BY <2>1, <2>2, <2>3 DEF EffectAnswers
<1>5. replies' \in Seq(AnyReply)
  <2>1. replies \in Seq(AnyReply)
    BY DEF KInv, Shaped
  <2>2. replies' = replies \/ \E r \in AnyReply : replies' = Append(replies, r)
    BY <1>4
  <2>3. \A r \in AnyReply : Append(replies, r) \in Seq(AnyReply)
    BY <2>1, ReplySent
  <2> QED BY <2>1, <2>2, <2>3
<1>6. served' \in Seq(Served)
  BY <1>3, <1>4, RecordShaped DEF KInv, Shaped
<1>7. Shaped'
  BY <1>2, <1>5, <1>6, <1>u DEF KInv, Shaped, relayVars, prefixVars
<1>8. PendingKnown'
  BY <1>u DEF KInv, PendingKnown, Pending
<1> QED BY <1>2, <1>4, <1>7, <1>8 DEF KInv, m

LEMMA KSteps == IInv /\ KInv /\ [Next]_vars => KInv'
<1> SUFFICES ASSUME IInv, KInv, [Next]_vars PROVE KInv'
  OBVIOUS
<1>i. /\ inbox \in Seq(Calls) /\ replies \in Seq(AnyReply)
      /\ NoSize \in AnySize /\ NoPid \in AnyPid
      /\ \A c \in Conns : owner[c] \in AnyPid
      /\ \A c \in Conns : phase[c] \in PendingPhases => owner[c] \in Pids
      /\ \A p \in Pids : answers[p].size \in AnySize
  BY DEF KInv, Shaped, AnySize, AnyPid, IInv, Kept, PendingKnown, Pending
<1>r. replies # <<>> => Tail(replies) \in Seq(AnyReply) /\ Head(replies) \in AnyReply
  BY ReplyArrives
<1>1. ASSUME NEW c \in Conns, AcceptUnidentified(c) PROVE KInv'
  <2>1. /\ RelayClient(c, NoPid, NoSize, FALSE, pending + 1, inbox)
        /\ UNCHANGED <<program, replies, effectVars>>
    BY <1>1 DEF AcceptUnidentified
  <2>2. UNCHANGED <<program, effectVars>> /\ replies' \in Seq(AnyReply) /\ FALSE \in BOOLEAN
    BY <1>i, <2>1
  <2> QED BY <1>i, <2>1, <2>2, RelayClientShaped
<1>2. ASSUME NEW c \in Conns, NEW p \in Pids, AcceptKnown(c, p) PROVE KInv'
  <2>1. /\ RelayClient(c, p, answers[p].size, TRUE, pending + 1, inbox)
        /\ UNCHANGED <<program, replies, effectVars>>
    BY <1>2 DEF AcceptKnown
  <2>2. /\ UNCHANGED <<program, effectVars>> /\ replies' \in Seq(AnyReply) /\ TRUE \in BOOLEAN
        /\ p \in AnyPid
    BY <1>i, <2>1 DEF AnyPid
  <2> QED BY <1>i, <2>1, <2>2, RelayClientShaped
<1>3. ASSUME NEW c \in Conns, NEW p \in Pids, AcceptUnknown(c, p) PROVE KInv'
  BY <1>3, AcceptUnknownShaped
<1>4. ASSUME NEW c \in Conns, Retry(c) PROVE KInv'
  <2>1. /\ phase[c] = "waiting"
        /\ \E found \in Scanned(PrefixOf[owner[c]]) : Decide(c, owner[c], found)
        /\ UNCHANGED <<owner, relayVars, answers, shown, batches, replies, effectVars>>
    BY <1>4 DEF Retry
  <2>2. owner[c] \in Pids /\ owner' = owner /\ replies' \in Seq(AnyReply)
    BY <1>i, <2>1 DEF PendingPhases
  <2>3. PICK found \in Scanned(PrefixOf[owner[c]]) : Decide(c, owner[c], found)
    BY <2>1
  <2> QED BY <2>1, <2>2, <2>3, DecideKeepsShape
<1>5. ASSUME NEW c \in Conns, PrefixReply(c) PROVE KInv'
  <2>1. phase[c] = "checking" /\ replies' \in Seq(AnyReply) /\ UNCHANGED effectVars
    BY <1>5, <1>r DEF PrefixReply, Arrives
  <2>2. CASE RelayClient(c, owner[c], NoSize, TRUE, pending, inbox) /\ UNCHANGED program
    <3>1. UNCHANGED <<program, effectVars>> /\ TRUE \in BOOLEAN
      BY <2>1, <2>2
    <3> QED BY <1>i, <2>1, <2>2, <3>1, RelayClientShaped
  <2>3. CASE /\ \E found \in Scanned(PrefixOf[owner[c]]) : Decide(c, owner[c], found)
             /\ UNCHANGED <<owner, relayVars, answers, shown, batches>>
    <3>1. owner[c] \in Pids /\ owner' = owner
          /\ UNCHANGED <<relayVars, answers, shown, batches, effectVars>>
      BY <1>i, <2>1, <2>3 DEF PendingPhases
    <3>2. PICK found \in Scanned(PrefixOf[owner[c]]) : Decide(c, owner[c], found)
      BY <2>3
    <3> QED BY <2>1, <3>1, <3>2, DecideKeepsShape
  <2> QED BY <1>5, <2>2, <2>3 DEF PrefixReply
<1>6. ASSUME NEW c \in Conns, PolicyReply(c) PROVE KInv'
  <2>1. /\ phase[c] = "asking" /\ replies' \in Seq(AnyReply) /\ UNCHANGED <<program, effectVars>>
        /\ Head(replies) \in AnyReply /\ Head(replies).kind = "policy"
    BY <1>6, <1>r DEF PolicyReply, Arrives
  <2>2. CASE \E size \in AnySize : RelayClient(c, owner[c], size, TRUE, pending, inbox)
    <3>1. PICK size \in AnySize : RelayClient(c, owner[c], size, TRUE, pending, inbox)
      BY <2>2
    <3>2. TRUE \in BOOLEAN /\ owner[c] \in AnyPid
      BY <1>i
    <3> QED BY <1>i, <2>1, <3>1, <3>2, RelayClientShaped
  <2>3. CASE /\ tries[c] < MaxTries
             /\ phase' = [phase EXCEPT ![c] = "waiting"]
             /\ tries' = [tries EXCEPT ![c] = @ + 1]
             /\ UNCHANGED <<owner, relayVars, answers, shown, batches, inbox>>
    <3>1. MaxTries \in Nat
      BY ConstantsAssumption DEF ConstantsAssumption
    <3>2. tries' \in [Conns -> 0..MaxTries]
      BY <2>3, <3>1 DEF KInv, Shaped
    <3>3. /\ \A d \in Conns \ {c} : phase'[d] = phase[d]
          /\ owner' = owner /\ inbox' = inbox /\ program' = program
          /\ UNCHANGED <<relayVars, answers, shown, batches, effectVars>>
      BY <2>1, <2>3 DEF IInv, Kept
    <3>4. program \in [WinePrefixes -> Programs \cup {NoProgram}] /\ owner[c] \in Pids
      BY <1>i, <2>1 DEF KInv, Shaped, PendingPhases
    <3> QED BY <1>i, <2>1, <3>2, <3>3, <3>4, DecidedShaped
  <2>4. Head(replies).value \in AnySize \cup {"retry"}
    BY <2>1 DEF AnyReply, Replies
  <2>5. (IF Head(replies).value = "retry" THEN NoSize ELSE Head(replies).value) \in AnySize
    BY <1>i, <2>4
  <2> QED BY <1>6, <2>2, <2>3, <2>5 DEF PolicyReply
<1>7. ASSUME NEW c \in Conns, CallFails(c) PROVE KInv'
  <2> DEFINE calls == WithoutConn(c)
  <2> DEFINE places == {i \in DOMAIN replies : replies[i].conn = c}
  <2>1. /\ replies' = Dropped(places)
        /\ RelayClient(c, owner[c], NoSize, FALSE, pending, calls)
        /\ UNCHANGED <<program, effectVars>>
    BY <1>7 DEF CallFails
  <2>2. calls \in Seq(Calls)
    BY UnawaitedByConn
  <2>3. places \in SUBSET DOMAIN replies
    OBVIOUS
  <2> HIDE DEF calls, places
  <2>4. replies' \in Seq(AnyReply)
    BY <1>i, <2>1, <2>3, DroppedDrawn
  <2>5. FALSE \in BOOLEAN /\ owner[c] \in AnyPid
    BY <1>i
  <2> QED BY <1>i, <2>1, <2>2, <2>4, <2>5, RelayClientShaped
<1>8. ASSUME NEW c \in Conns, TurnsOpaque(c) PROVE KInv'
  <2>1. opaque' = [opaque EXCEPT ![c] = TRUE]
    BY <1>8 DEF TurnsOpaque
  <2>2. opaque' \in [Conns -> BOOLEAN]
    BY <2>1 DEF KInv, Shaped
  <2>3. UNCHANGED <<phase, owner, tries, shows, answers, prefixVars, inbox, replies, effectVars>>
    BY <1>8 DEF TurnsOpaque
  <2>4. Shaped'
    BY <2>2, <2>3 DEF KInv, Shaped, prefixVars, effectVars
  <2> QED BY <2>3, <2>4 DEF KInv, PendingKnown, Pending
<1>9. ASSUME NEW c \in Conns, Finish(c) PROVE KInv'
  <2>1. /\ phase' = [phase EXCEPT ![c] = "finished"]
        /\ UNCHANGED <<owner, tries, relayVars, answers, prefixVars, inbox, replies, effectVars>>
    BY <1>9 DEF Finish
  <2>2. Shaped'
    BY <2>1 DEF KInv, Shaped, relayVars, prefixVars, effectVars
  <2>3. \A d \in Conns : phase'[d] \in PendingPhases => phase[d] \in PendingPhases
    BY <2>1 DEF IInv, Kept, PendingPhases
  <2>4. PendingKnown'
    BY <2>1, <2>3 DEF KInv, PendingKnown, Pending
  <2> QED BY <2>2, <2>4 DEF KInv
<1>10. ASSUME NEW c \in Conns, Forget(c) PROVE KInv'
  BY <1>10, ForgetShaped
<1>11. ASSUME NEW b \in Batches, NEW p \in Pids, ShownReply(b, p) PROVE KInv'
  <2>1. Proceed(b, p) /\ inbox' = inbox /\ replies # <<>> /\ replies' = Tail(replies)
    BY <1>11 DEF ShownReply
  <2> QED BY <1>i, <1>r, <2>1, ProceedShaped
<1>12. ASSUME NEW b \in Batches, NEW p \in Pids, ShownLapses(b, p) PROVE KInv'
  <2> DEFINE calls == WithoutRound(b, p)
  <2> DEFINE places == {i \in DOMAIN replies : replies[i].batch = b /\ replies[i].pid = p}
  <2>1. replies' = Dropped(places) /\ inbox' = calls /\ Proceed(b, p)
    BY <1>12 DEF ShownLapses
  <2>2. calls \in Seq(Calls)
    BY UnawaitedByRound
  <2>3. places \in SUBSET DOMAIN replies
    OBVIOUS
  <2> HIDE DEF calls, places
  <2>4. replies' \in Seq(AnyReply)
    BY <1>i, <2>1, <2>3, DroppedDrawn
  <2> QED BY <2>1, <2>2, <2>4, ProceedShaped
<1>13. CASE EffectAnswers
  BY <1>13, EffectShaped
<1>14. CASE SaveSettings
  <2>1. /\ saves < MaxSaves /\ saves' = saves + 1 /\ wish' \in [Programs -> AnySize]
        /\ UNCHANGED <<phase, owner, tries, relayVars, answers, prefixVars, inbox, replies, served, listed>>
    BY <1>14 DEF SaveSettings
  <2>2. saves' \in 0..MaxSaves
    BY <2>1, ConstantsAssumption DEF KInv, Shaped, ConstantsAssumption
  <2>3. Shaped'
    BY <2>1, <2>2 DEF KInv, Shaped, relayVars, prefixVars
  <2> QED BY <2>1, <2>3 DEF KInv, PendingKnown, Pending
<1>15. CASE ModesListed
  <2>1. /\ listed' = TRUE
        /\ UNCHANGED <<phase, owner, tries, relayVars, answers, prefixVars, inbox, replies, served, wish, saves>>
    BY <1>15 DEF ModesListed
  <2>2. Shaped'
    BY <2>1 DEF KInv, Shaped, relayVars, prefixVars
  <2> QED BY <2>1, <2>2 DEF KInv, PendingKnown, Pending
<1>16. CASE UNCHANGED vars
  <2>1. Shaped'
    BY <1>16 DEF KInv, Shaped, vars, relayVars, prefixVars, effectVars
  <2> QED BY <1>16, <2>1 DEF KInv, PendingKnown, Pending, vars
<1> QED
  BY <1>1, <1>2, <1>3, <1>4, <1>5, <1>6, <1>7, <1>8, <1>9, <1>10, <1>11, <1>12, <1>13,
     <1>14, <1>15, <1>16 DEF Next

\* Every variable of the proxy and the effect's record keeps its type: no count
\* falls below zero, no answer of a call is mistaken for another's, and a program
\* is looked up for known processes only (session.h, connection.cpp,
\* x11proxypolicy.cpp).
THEOREM SessionTyped == Spec => []TypeOK
<1>1. Spec => [](IInv /\ KInv)
  <2>1. Init => IInv /\ KInv
    BY InitIInv, InitKInv
  <2>2. IInv /\ KInv /\ [Next]_vars => (IInv /\ KInv)'
    BY Invariance, KSteps
  <2> QED BY <2>1, <2>2, PTL DEF Spec
<1>2. IInv /\ KInv => TypeOK
  BY ShapedIsTyped DEF KInv
<1> QED BY <1>1, <1>2, PTL

-----------------------------------------------------------------------------
(* Who is shown a screen is on the effect's record, or is about to be.     *)

\* The effect has process p on record, or a call that puts it there comes.
Reported(p) ==
    \/ p \in ServedPids
    \/ \E i \in DOMAIN inbox : inbox[i].kind = "shown" /\ inbox[i].pid = p

\* A connection has at most one question out, and only while its decision waits
\* for the answer: a question or an answer of an earlier client is never taken for
\* one of the client that has the connection's descriptor now.
Awaited ==
    /\ \A i \in DOMAIN inbox : inbox[i].conn # NoConn => phase[inbox[i].conn] \in {"checking", "asking"}
    /\ \A i \in DOMAIN replies : replies[i].conn # NoConn => phase[replies[i].conn] \in {"checking", "asking"}
Lone ==
    /\ \A i, j \in DOMAIN inbox : inbox[i].conn = inbox[j].conn => i = j \/ inbox[i].conn = NoConn
    /\ \A i, j \in DOMAIN replies : replies[i].conn = replies[j].conn => i = j \/ replies[i].conn = NoConn
    /\ \A i \in DOMAIN inbox, j \in DOMAIN replies :
          inbox[i].conn = replies[j].conn => inbox[i].conn = NoConn

\* What is asked is asked of the process behind the connection.
CallsKnown ==
    \A i \in DOMAIN inbox :
        /\ inbox[i].kind # "prefix" => inbox[i].pid \in Pids
        /\ inbox[i].kind = "policy" /\ inbox[i].conn # NoConn => inbox[i].pid = owner[inbox[i].conn]

\* A size is answered only for a process on record.
RepliesServed ==
    \A i \in DOMAIN replies :
        replies[i].kind = "policy" /\ replies[i].conn # NoConn /\ replies[i].value \in Sizes
            => owner[replies[i].conn] \in ServedPids

\* The game a process is told to belong to is on record by then.
GamesFirst ==
    \A i \in DOMAIN inbox : inbox[i].kind = "shown" =>
        \/ inbox[i].game \in ServedPids
        \/ \E j \in DOMAIN inbox : j < i /\ inbox[j].kind = "shown" /\ inbox[j].pid = inbox[i].game

\* The record names processes, each once.
RecordedOnce ==
    /\ \A i \in DOMAIN served : served[i].pid \in Pids
    /\ \A i, j \in DOMAIN served : served[i].pid = served[j].pid => i = j

\* All that may yet be shown a size is reported: the connections of a prefix that
\* shows one, and the processes whose next connection gets the answer kept.
ScreensReported ==
    \A x \in WinePrefixes : shown[x].size # NoSize =>
        /\ shown[x].game \in Pids /\ Reported(shown[x].game)
        /\ \A r \in relays[x] : Reported(owner[r])
AnswersReported == \A p \in Pids : answers[p].count > 0 /\ answers[p].size # NoSize => Reported(p)

QueuesInv == Awaited /\ Lone /\ CallsKnown /\ RepliesServed /\ GamesFirst /\ RecordedOnce
ReportedInv == QueuesInv /\ ScreensReported /\ AnswersReported /\ ShownIsServed

\* Every process that ever runs has its place on the effect's record.
RecordHoldsAll == Cardinality(Pids) <= ServedLimit

\* The record never has to forget one.
LEMMA RecordKeeps ==
    ASSUME RecordHoldsAll, KInv, RecordedOnce, NEW p \in Pids, NEW s \in AnySize,
           NEW new, new = Recorded(p, s)
    PROVE  /\ DOMAIN served \subseteq DOMAIN new
           /\ \A i \in DOMAIN served : new[i] = served[i]
           /\ \A i \in DOMAIN new : new[i].pid \in Pids
           /\ \A i, j \in DOMAIN new : new[i].pid = new[j].pid => i = j
           /\ s # NoSize => \E i \in DOMAIN new : new[i].pid = p
<1>1. CASE s = NoSize \/ p \in ServedPids
  BY <1>1 DEF Recorded, RecordedOnce, ServedPids
<1>2. CASE ~(s = NoSize \/ p \in ServedPids)
  <2> DEFINE e == [pid |-> p, size |-> s]
             longer == Append(served, e)
             n == Len(served) + 1
             f == [i \in 1..n |-> longer[i].pid]
  <2>1. served \in Seq(Served) /\ Len(served) \in Nat /\ DOMAIN served = 1..Len(served)
    BY LenProperties DEF KInv, Shaped
  <2>2. e \in Served /\ e.pid = p
    BY <1>2 DEF Served, AnySize, AnyPid
  <2> HIDE DEF e
  <2>3. /\ longer \in Seq(Served) /\ Len(longer) = n
        /\ \A i \in 1..Len(served) : longer[i] = served[i]
        /\ longer[n] = e
    BY <2>1, <2>2, AppendProperties
  <2>4. DOMAIN longer = 1..n
    BY <2>3, LenProperties
  <2> HIDE DEF longer
  <2>5. \A i \in 1..n : longer[i].pid \in Pids
    BY <2>1, <2>2, <2>3 DEF RecordedOnce
  <2>6. \A i \in 1..Len(served) : longer[i].pid # p
    BY <1>2, <2>1, <2>3 DEF ServedPids
  <2>7. \A i, j \in 1..n : longer[i].pid = longer[j].pid => i = j
    BY <2>1, <2>2, <2>3, <2>6 DEF RecordedOnce
  <2>8. f \in Injection(1..n, Pids)
    BY <2>5, <2>7 DEF Injection, IsInjective
  <2>9. n <= ServedLimit
    <3>1. Cardinality(1..n) = n
      BY <2>1, FS_Interval
    <3>2. IsFiniteSet(Pids) /\ ServedLimit \in Nat
      BY ConstantsAssumption DEF ConstantsAssumption
    <3> HIDE DEF f, n
    <3>3. Cardinality(1..n) <= Cardinality(Pids) /\ Cardinality(Pids) \in Nat
      BY <2>8, <3>2, FS_Injection, FS_CardinalityType
    <3>4. n \in Nat
      BY <2>1 DEF n
    <3> QED BY <3>1, <3>2, <3>3, <3>4 DEF RecordHoldsAll
  <2>10. new = longer
    <3>1. ~(Len(longer) > ServedLimit)
      BY <2>1, <2>3, <2>9, ConstantsAssumption DEF ConstantsAssumption
    <3> QED BY <1>2, <3>1 DEF Recorded, longer, e
  <2> QED BY <2>1, <2>2, <2>3, <2>4, <2>5, <2>7, <2>10
<1> QED BY <1>1, <1>2

\* The calls on their way, some of which nobody waits for any more.
SameCalls(calls) ==
    /\ calls \in Seq(Calls) /\ DOMAIN calls = DOMAIN inbox
    /\ \A i \in DOMAIN inbox :
          /\ calls[i].kind = inbox[i].kind /\ calls[i].pid = inbox[i].pid /\ calls[i].game = inbox[i].game
          /\ calls[i].conn \in {inbox[i].conn, NoConn}

\* What the proxy sends takes nobody off the record.
LEMMA StaysReported ==
    ASSUME NEW calls, SameCalls(calls), DOMAIN calls \subseteq DOMAIN inbox',
           \A i \in DOMAIN calls : inbox'[i] = calls[i], served' = served
    PROVE  \A p : Reported(p) => Reported(p)'
<1>1. \A i \in DOMAIN inbox : inbox'[i].kind = inbox[i].kind /\ inbox'[i].pid = inbox[i].pid
  BY DEF SameCalls
<1>2. DOMAIN inbox \subseteq DOMAIN inbox'
  BY DEF SameCalls
<1> QED BY <1>1, <1>2 DEF Reported, ServedPids

LEMMA GamesStayFirst ==
    ASSUME KInv, GamesFirst, NEW calls, SameCalls(calls), TellsMore(inbox', calls), served' = served,
           \A i \in DOMAIN inbox' \ DOMAIN calls : Reported(inbox'[i].game)
    PROVE  GamesFirst'
<1>1. /\ DOMAIN inbox \subseteq DOMAIN inbox' /\ ServedPids' = ServedPids
      /\ \A i \in DOMAIN inbox : /\ inbox'[i].kind = inbox[i].kind /\ inbox'[i].pid = inbox[i].pid
                                 /\ inbox'[i].game = inbox[i].game
      /\ \A i \in DOMAIN inbox' \ DOMAIN inbox : /\ \A j \in DOMAIN inbox : j < i
                                                 /\ Reported(inbox'[i].game)
  BY DEF SameCalls, TellsMore, ServedPids
<1>2. ASSUME NEW i \in DOMAIN inbox', inbox'[i].kind = "shown"
      PROVE  \/ inbox'[i].game \in ServedPids
             \/ \E j \in DOMAIN inbox' : j < i /\ inbox'[j].kind = "shown" /\ inbox'[j].pid = inbox'[i].game
  <2>1. CASE i \in DOMAIN inbox
    <3>1. \/ inbox[i].game \in ServedPids
          \/ \E j \in DOMAIN inbox : j < i /\ inbox[j].kind = "shown" /\ inbox[j].pid = inbox[i].game
      BY <1>1, <1>2, <2>1 DEF GamesFirst
    <3> QED BY <1>1, <2>1, <3>1
  <2>2. CASE i \notin DOMAIN inbox
    BY <1>1, <1>2, <2>2 DEF Reported
  <2> QED BY <2>1, <2>2
<1> QED BY <1>1, <1>2 DEF GamesFirst

\* At most one new question, of a connection that has no other out.
LEMMA StaysLone ==
    ASSUME Lone, NEW f, DrawnFrom(replies', replies, f),
           DOMAIN inbox \subseteq DOMAIN inbox',
           \A i \in DOMAIN inbox : inbox'[i].conn \in {inbox[i].conn, NoConn},
           \A i \in DOMAIN inbox' \ DOMAIN inbox : inbox'[i].conn # NoConn =>
                /\ \A j \in DOMAIN inbox' : inbox'[j].conn = inbox'[i].conn => j = i
                /\ \A j \in DOMAIN replies' : replies'[j].conn # inbox'[i].conn
    PROVE  Lone'
<1>1. \A i, j \in DOMAIN inbox' : inbox'[i].conn = inbox'[j].conn => i = j \/ inbox'[i].conn = NoConn
  BY DEF Lone
<1>2. \A i, j \in DOMAIN replies' : replies'[i].conn = replies'[j].conn => i = j \/ replies'[i].conn = NoConn
  BY DEF Lone, DrawnFrom
<1>3. \A i \in DOMAIN inbox', j \in DOMAIN replies' :
         inbox'[i].conn = replies'[j].conn => inbox'[i].conn = NoConn
  BY DEF Lone, DrawnFrom
<1> QED BY <1>1, <1>2, <1>3 DEF Lone

LEMMA Messages ==
    ASSUME KInv
    PROVE  /\ \A i \in DOMAIN inbox : inbox[i] \in Calls /\ inbox[i].conn \in Conns \cup {NoConn}
           /\ \A i \in DOMAIN replies : replies[i] \in AnyReply /\ replies[i].conn \in Conns \cup {NoConn}
           /\ DOMAIN inbox = 1..Len(inbox) /\ DOMAIN replies = 1..Len(replies)
           /\ Len(inbox) \in Nat /\ Len(replies) \in Nat
<1>1. /\ inbox \in Seq(Calls) /\ replies \in Seq(AnyReply)
      /\ DOMAIN inbox = 1..Len(inbox) /\ DOMAIN replies = 1..Len(replies)
      /\ Len(inbox) \in Nat /\ Len(replies) \in Nat
  BY LenProperties DEF KInv, Shaped
<1>2. /\ \A i \in DOMAIN inbox : inbox[i] \in Calls
      /\ \A i \in DOMAIN replies : replies[i] \in AnyReply
  BY <1>1, ElementOfSeq
<1>3. \A m \in Calls : m.conn \in Conns \cup {NoConn}
  BY DEF Calls
<1>4. \A m \in AnyReply : m.conn \in Conns \cup {NoConn}
  BY DEF AnyReply, Replies
<1> QED BY <1>1, <1>2, <1>3, <1>4

\* A step of the proxy that asks about no connection, and after which nothing of
\* the connections in "gone" is on its way.
LEMMA QueuesStay ==
    ASSUME KInv, QueuesInv, NEW calls, SameCalls(calls), TellsMore(inbox', calls), served' = served,
           NEW f, DrawnFrom(replies', replies, f),
           \A i \in DOMAIN inbox' \ DOMAIN calls : Reported(inbox'[i].game),
           NEW gone,
           \A d \in Conns \ gone : phase'[d] = phase[d] /\ owner'[d] = owner[d],
           \A i \in DOMAIN calls : calls[i].conn \notin gone,
           \A j \in DOMAIN replies' : replies'[j].conn \notin gone
    PROVE  QueuesInv' /\ \A p : Reported(p) => Reported(p)'
<1>q. Awaited /\ Lone /\ CallsKnown /\ RepliesServed /\ GamesFirst /\ RecordedOnce
  BY DEF QueuesInv
<1>1. /\ DOMAIN inbox \subseteq DOMAIN inbox'
      /\ \A i \in DOMAIN inbox : /\ inbox'[i].kind = inbox[i].kind /\ inbox'[i].pid = inbox[i].pid
                                 /\ inbox'[i].game = inbox[i].game
                                 /\ inbox'[i].conn \in {inbox[i].conn, NoConn}
                                 /\ inbox'[i].conn \notin gone
      /\ \A i \in DOMAIN inbox' \ DOMAIN inbox : /\ inbox'[i].kind = "shown" /\ inbox'[i].conn = NoConn
                                                 /\ inbox'[i].pid \in Pids
  BY DEF SameCalls, TellsMore
<1>2. \A j \in DOMAIN replies' : /\ f[j] \in DOMAIN replies /\ replies'[j] = replies[f[j]]
                                 /\ replies'[j].conn \notin gone
  BY DEF DrawnFrom
<1>3. /\ \A i \in DOMAIN inbox : inbox[i].conn \in Conns \cup {NoConn}
      /\ \A i \in DOMAIN replies : replies[i].conn \in Conns \cup {NoConn}
  BY Messages
<1>4. ServedPids' = ServedPids
  BY DEF ServedPids
<1>5. Awaited'
  <2>1. ASSUME NEW i \in DOMAIN inbox', inbox'[i].conn # NoConn
        PROVE  phase'[inbox'[i].conn] \in {"checking", "asking"}
    <3>1. i \in DOMAIN inbox /\ inbox'[i].conn = inbox[i].conn /\ inbox[i].conn \in Conns \ gone
      BY <1>1, <1>3, <2>1
    <3> QED BY <1>q, <2>1, <3>1 DEF Awaited
  <2>2. ASSUME NEW j \in DOMAIN replies', replies'[j].conn # NoConn
        PROVE  phase'[replies'[j].conn] \in {"checking", "asking"}
    <3>1. f[j] \in DOMAIN replies /\ replies'[j] = replies[f[j]] /\ replies'[j].conn \in Conns \ gone
      BY <1>2, <1>3, <2>2
    <3>2. phase[replies'[j].conn] \in {"checking", "asking"}
      BY <1>q, <2>2, <3>1 DEF Awaited
    <3> QED BY <3>1, <3>2
  <2> QED BY <2>1, <2>2 DEF Awaited
<1>6. Lone'
  BY <1>q, <1>1, StaysLone
<1>7. CallsKnown'
  <2>1. ASSUME NEW i \in DOMAIN inbox', inbox'[i].kind # "prefix"
        PROVE  inbox'[i].pid \in Pids
    BY <1>q, <1>1, <2>1 DEF CallsKnown
  <2>2. ASSUME NEW i \in DOMAIN inbox', inbox'[i].kind = "policy", inbox'[i].conn # NoConn
        PROVE  inbox'[i].pid = owner'[inbox'[i].conn]
    <3>1. i \in DOMAIN inbox
      BY <1>1, <2>2
    <3>2. inbox'[i].conn = inbox[i].conn /\ inbox[i].conn \in Conns \ gone
      BY <1>1, <1>3, <2>2, <3>1
    <3> QED BY <1>q, <1>1, <2>2, <3>1, <3>2 DEF CallsKnown
  <2> QED BY <2>1, <2>2 DEF CallsKnown
<1>8. RepliesServed'
  <2> SUFFICES ASSUME NEW j \in DOMAIN replies', replies'[j].kind = "policy",
                      replies'[j].conn # NoConn, replies'[j].value \in Sizes
               PROVE  owner'[replies'[j].conn] \in ServedPids
    BY <1>4 DEF RepliesServed
  <2>1. f[j] \in DOMAIN replies /\ replies'[j] = replies[f[j]] /\ replies'[j].conn \in Conns \ gone
    BY <1>2, <1>3
  <2>2. owner[replies'[j].conn] \in ServedPids
    BY <1>q, <2>1 DEF RepliesServed
  <2> QED BY <2>1, <2>2
<1>9. GamesFirst'
  BY <1>q, GamesStayFirst
<1>10. RecordedOnce'
  BY <1>q DEF RecordedOnce
<1>11. \A p : Reported(p) => Reported(p)'
  <2>1. DOMAIN calls \subseteq DOMAIN inbox' /\ \A i \in DOMAIN calls : inbox'[i] = calls[i]
    BY DEF TellsMore
  <2>2. DOMAIN calls \subseteq DOMAIN inbox
    BY DEF SameCalls
  <2> QED BY <1>1, <1>4 DEF Reported
<1> QED BY <1>5, <1>6, <1>7, <1>8, <1>9, <1>10, <1>11 DEF QueuesInv

\* A step of the proxy that asks one question about connection c, of which nothing
\* else is on its way.
LEMMA QuestionAsked ==
    ASSUME KInv, QueuesInv, NEW c \in Conns, NEW m \in Calls, m.kind \in {"prefix", "policy"},
           m.conn = c, m.pid \in Pids, m.pid = owner'[c], inbox' = Append(inbox, m),
           NEW f, DrawnFrom(replies', replies, f),
           \A i \in DOMAIN inbox : inbox[i].conn # c,
           \A j \in DOMAIN replies' : replies'[j].conn # c,
           phase'[c] \in {"checking", "asking"}, served' = served,
           \A d \in Conns \ {c} : phase'[d] = phase[d] /\ owner'[d] = owner[d]
    PROVE  QueuesInv' /\ \A p : Reported(p) => Reported(p)'
<1>q. Awaited /\ Lone /\ CallsKnown /\ RepliesServed /\ GamesFirst /\ RecordedOnce
  BY DEF QueuesInv
<1> DEFINE n == Len(inbox) + 1
<1>1. /\ DOMAIN inbox = 1..Len(inbox) /\ DOMAIN inbox' = 1..n /\ Len(inbox) \in Nat
      /\ \A i \in DOMAIN inbox : inbox'[i] = inbox[i]
      /\ inbox'[n] = m
  <2>1. inbox \in Seq(Calls)
    BY DEF KInv, Shaped
  <2> QED BY <2>1, CallSent
<1>c. NoConn \notin Conns
  BY ConstantsAssumption DEF ConstantsAssumption
<1>d. /\ DOMAIN inbox \subseteq DOMAIN inbox' /\ n \in DOMAIN inbox' /\ n \notin DOMAIN inbox
      /\ \A i \in DOMAIN inbox' : i \in DOMAIN inbox \/ i = n
      /\ \A i \in DOMAIN inbox : i < n
  BY <1>1
<1> HIDE DEF n
<1>2. \A j \in DOMAIN replies' : f[j] \in DOMAIN replies /\ replies'[j] = replies[f[j]]
  BY DEF DrawnFrom
<1>3. /\ \A i \in DOMAIN inbox : inbox[i].conn \in Conns \cup {NoConn}
      /\ \A i \in DOMAIN replies : replies[i].conn \in Conns \cup {NoConn}
  BY Messages
<1>4. ServedPids' = ServedPids
  BY DEF ServedPids
<1>5. Awaited'
  <2>1. ASSUME NEW i \in DOMAIN inbox', inbox'[i].conn # NoConn
        PROVE  phase'[inbox'[i].conn] \in {"checking", "asking"}
    <3>1. CASE i = n
      BY <1>1, <3>1
    <3>2. CASE i \in DOMAIN inbox
      <4>1. inbox'[i] = inbox[i] /\ inbox[i].conn \in Conns \ {c}
        BY <1>1, <1>3, <2>1, <3>2
      <4> QED BY <1>q, <2>1, <3>2, <4>1 DEF Awaited
    <3> QED BY <1>d, <3>1, <3>2
  <2>2. ASSUME NEW j \in DOMAIN replies', replies'[j].conn # NoConn
        PROVE  phase'[replies'[j].conn] \in {"checking", "asking"}
    <3>1. f[j] \in DOMAIN replies /\ replies'[j] = replies[f[j]] /\ replies'[j].conn \in Conns \ {c}
      BY <1>2, <1>3, <2>2
    <3>2. phase[replies'[j].conn] \in {"checking", "asking"}
      BY <1>q, <2>2, <3>1 DEF Awaited
    <3> QED BY <3>1, <3>2
  <2> QED BY <2>1, <2>2 DEF Awaited
<1>6. Lone'
  <2>1. \A i \in DOMAIN inbox : inbox'[i].conn \in {inbox[i].conn, NoConn}
    BY <1>1
  <2>2. ASSUME NEW i \in DOMAIN inbox' \ DOMAIN inbox
        PROVE  /\ \A j \in DOMAIN inbox' : inbox'[j].conn = inbox'[i].conn => j = i
               /\ \A j \in DOMAIN replies' : replies'[j].conn # inbox'[i].conn
    <3>1. i = n /\ inbox'[i].conn = c
      BY <1>1, <1>d, <2>2
    <3>2. \A j \in DOMAIN inbox : inbox'[j].conn # c
      BY <1>1
    <3> QED BY <1>d, <3>1, <3>2
  <2> QED BY <1>q, <1>d, <2>1, <2>2, StaysLone
<1>7. CallsKnown'
  <2>1. ASSUME NEW i \in DOMAIN inbox', inbox'[i].kind # "prefix"
        PROVE  inbox'[i].pid \in Pids
    BY <1>q, <1>1, <1>d, <2>1 DEF CallsKnown
  <2>2. ASSUME NEW i \in DOMAIN inbox', inbox'[i].kind = "policy", inbox'[i].conn # NoConn
        PROVE  inbox'[i].pid = owner'[inbox'[i].conn]
    <3>1. CASE i = n
      BY <1>1, <3>1
    <3>2. CASE i \in DOMAIN inbox
      <4>1. inbox'[i] = inbox[i] /\ inbox[i].conn \in Conns \ {c}
        BY <1>1, <1>3, <2>2, <3>2
      <4> QED BY <1>q, <2>2, <3>2, <4>1 DEF CallsKnown
    <3> QED BY <1>d, <3>1, <3>2
  <2> QED BY <2>1, <2>2 DEF CallsKnown
<1>8. RepliesServed'
  <2> SUFFICES ASSUME NEW j \in DOMAIN replies', replies'[j].kind = "policy",
                      replies'[j].conn # NoConn, replies'[j].value \in Sizes
               PROVE  owner'[replies'[j].conn] \in ServedPids
    BY <1>4 DEF RepliesServed
  <2>1. f[j] \in DOMAIN replies /\ replies'[j] = replies[f[j]] /\ replies'[j].conn \in Conns \ {c}
    BY <1>2, <1>3
  <2>2. owner[replies'[j].conn] \in ServedPids
    BY <1>q, <2>1 DEF RepliesServed
  <2> QED BY <2>1, <2>2
<1>9. GamesFirst'
  <2> SUFFICES ASSUME NEW i \in DOMAIN inbox', inbox'[i].kind = "shown"
               PROVE  \/ inbox'[i].game \in ServedPids
                      \/ \E j \in DOMAIN inbox' : j < i /\ inbox'[j].kind = "shown" /\ inbox'[j].pid = inbox'[i].game
    BY <1>4 DEF GamesFirst
  <2>1. i \in DOMAIN inbox /\ inbox'[i] = inbox[i]
    BY <1>1, <1>d
  <2>2. \/ inbox[i].game \in ServedPids
        \/ \E j \in DOMAIN inbox : j < i /\ inbox[j].kind = "shown" /\ inbox[j].pid = inbox[i].game
    BY <1>q, <2>1 DEF GamesFirst
  <2> QED BY <1>1, <1>d, <2>1, <2>2
<1>10. RecordedOnce'
  BY <1>q DEF RecordedOnce
<1>11. \A p : Reported(p) => Reported(p)'
  BY <1>1, <1>4, <1>d DEF Reported
<1> QED BY <1>5, <1>6, <1>7, <1>8, <1>9, <1>10, <1>11 DEF QueuesInv

\* Who was to be reported still is.
LEMMA ReportsStay ==
    ASSUME IInv, KInv, ReportedInv, QueuesInv', \A p : Reported(p) => Reported(p)',
           \A x \in WinePrefixes :
                /\ shown'[x] = shown[x] \/ shown'[x].size = NoSize
                /\ relays'[x] \subseteq relays[x]
                /\ \A r \in relays'[x] : owner'[r] = owner[r],
           \A p \in Pids : answers'[p].count > 0 /\ answers'[p].size # NoSize => Reported(p),
           \A c \in Live' : shows'[c] # NoSize => Reported(owner'[c])
    PROVE  ReportedInv'
<1>1. ScreensReported'
  <2> SUFFICES ASSUME NEW x \in WinePrefixes, shown'[x].size # NoSize
               PROVE  /\ shown'[x].game \in Pids /\ Reported(shown[x].game)'
                      /\ \A r \in relays'[x] : Reported(owner[r])'
    BY DEF ScreensReported
  <2>1. /\ shown'[x] = shown[x] /\ shown[x].game \in Pids /\ Reported(shown[x].game)
        /\ \A r \in relays[x] : Reported(owner[r])
    BY DEF ReportedInv, ScreensReported
  <2>2. Reported(shown[x].game)'
    BY <2>1 DEF Reported
  <2>3. \A r \in relays'[x] : Reported(owner[r])'
    BY <2>1 DEF Reported
  <2> QED BY <2>1, <2>2, <2>3
<1>2. AnswersReported'
  BY DEF AnswersReported
<1>3. ShownIsServed'
  <2> SUFFICES ASSUME NEW c \in Live', shows'[c] # NoSize
               PROVE  \/ owner'[c] \in ServedPids'
                      \/ \E i \in DOMAIN inbox' : inbox'[i].kind = "shown" /\ inbox'[i].pid = owner'[c]
    BY DEF ShownIsServed
  <2> QED BY DEF Reported
<1> QED BY <1>1, <1>2, <1>3 DEF ReportedInv

\* showPrefix(), with everybody it shows the screen reported by then.
LEMMA ShowPrefixReports ==
    ASSUME IInv, NEW c \in Conns, NEW x \in WinePrefixes, NEW s, NEW game \in Pids,
           NEW known, NEW calls, ShowPrefix(x, s, game, known, calls, c),
           DOMAIN shows = Conns, DOMAIN shown = WinePrefixes,
           Reported(game)',
           \A p \in Earlier(x, game) : \E i \in DOMAIN inbox' : inbox'[i].kind = "shown" /\ inbox'[i].pid = p
    PROVE  /\ \A r \in relays[x] : \A q : q = owner[r] => Reported(q)'
           /\ shown'[x] = [size |-> s, game |-> game]
           /\ \A y \in WinePrefixes \ {x} : shown'[y] = shown[y]
           /\ shows'[c] = s
           /\ \A d \in Conns \ {c} : shows'[d] = shows[d] \/ d \in relays[x]
           /\ \A p \in Pids : answers'[p] = known[p]
                              \/ (answers'[p].count = known[p].count /\ \E r \in relays[x] : owner[r] = p)
<1>1. \A r \in relays[x] : \A q : q = owner[r] => Reported(q)'
  <2> SUFFICES ASSUME NEW r \in relays[x], NEW q, q = owner[r]
               PROVE  Reported(q)'
    OBVIOUS
  <2>1. r \in Conns /\ Prefix(owner[r]) = x
    BY DEF IInv, CountersAgree, Live
  <2>2. q # NoPid
    BY <2>1, ConstantsAssumption DEF ConstantsAssumption, Prefix
  <2>3. q = game \/ q \in Earlier(x, game)
    BY <2>2 DEF Earlier
  <2> QED BY <2>3 DEF Reported
<1>2. shown' = [shown EXCEPT ![x] = [size |-> s, game |-> game]]
  BY DEF ShowPrefix
<1>3. CASE /\ shows' = [SwitchedShows(x, s) EXCEPT ![c] = s]
           /\ answers' = SwitchedAnswers(known, x, s)
  <2>1. \A d \in Conns : SwitchedShows(x, s)[d] = shows[d] \/ d \in relays[x]
    BY DEF SwitchedShows, Switched
  <2>2. DOMAIN SwitchedShows(x, s) = Conns
    BY DEF SwitchedShows
  <2>3. ASSUME NEW p \in Pids
        PROVE  answers'[p] = known[p]
               \/ (answers'[p].count = known[p].count /\ \E r \in relays[x] : owner[r] = p)
    <3>1. CASE known[p].count > 0 /\ \E r \in Switched(x, s) : owner[r] = p
      <4>1. \E r \in relays[x] : owner[r] = p
        BY <3>1 DEF Switched
      <4>2. answers'[p] = [known[p] EXCEPT !.size = s]
        BY <1>3, <3>1 DEF SwitchedAnswers
      <4>3. answers'[p].count = known[p].count
        BY <4>2
      <4> QED BY <4>1, <4>3
    <3>2. CASE ~(known[p].count > 0 /\ \E r \in Switched(x, s) : owner[r] = p)
      BY <1>3, <3>2 DEF SwitchedAnswers
    <3> QED BY <3>1, <3>2
  <2> QED BY <1>1, <1>2, <1>3, <2>1, <2>2, <2>3
<1>4. CASE shows' = [shows EXCEPT ![c] = s] /\ answers' = known
  BY <1>1, <1>2, <1>4
<1> QED BY <1>3, <1>4 DEF ShowPrefix

\* relayClient() where the backend takes the connection: a size it shows is the
\* answer of a process on record, or the screen of the prefix, whose game is.
LEMMA AcceptedReports ==
    ASSUME IInv, KInv, ReportedInv, NEW c \in Conns, c \notin Live, NEW p \in AnyPid,
           NEW size \in AnySize, size # NoSize => p \in Pids /\ Reported(p), NEW ans \in BOOLEAN, NEW count,
           NEW calls \in Seq(Calls), SameCalls(calls), served' = served,
           BackendAccepts(c, p, size, ans, count, calls), TellsMore(inbox', calls)
    PROVE  /\ \A i \in DOMAIN inbox' \ DOMAIN calls : Reported(inbox'[i].game)
           /\ ScreensReported' /\ AnswersReported' /\ ShownIsServed'
<1> DEFINE x == Prefix(p)
           follows == x # NoPrefix /\ size = NoSize /\ shown[x].size # NoSize
           s == IF follows THEN shown[x].size ELSE size
           game == IF follows THEN shown[x].game ELSE NoPid
           known == IF (ans \/ follows) /\ p # NoPid
                    THEN [answers EXCEPT ![p] = [size |-> s, count |-> @.count + 1]]
                    ELSE answers
<1>p. /\ x \in WinePrefixes \cup {NoPrefix} /\ NoPrefix \notin WinePrefixes /\ NoPid \notin Pids
      /\ (x # NoPrefix => p \in Pids) /\ (p # NoPid => p \in Pids)
  BY ConstantsAssumption DEF ConstantsAssumption, Prefix, AnyPid
<1>a. /\ phase' = [phase EXCEPT ![c] = "relay"]
      /\ owner' = [owner EXCEPT ![c] = p]
      /\ IF x = NoPrefix
         THEN UNCHANGED relays
         ELSE relays' = [relays EXCEPT ![x] = @ \cup {c}]
      /\ IF x # NoPrefix /\ game = NoPid /\ s # NoSize
         THEN ShowPrefix(x, s, p, known, calls, c)
         ELSE /\ shows' = [shows EXCEPT ![c] = s]
              /\ answers' = known
              /\ inbox' = IF game # NoPid /\ p # NoPid /\ p # game
                          THEN Append(calls, ShownCall(NoBatch, game, p))
                          ELSE calls
              /\ UNCHANGED <<shown, batches>>
  BY DEF BackendAccepts
<1>i. ScreensReported /\ AnswersReported /\ ShownIsServed
  BY DEF ReportedInv
<1>1. \A y \in WinePrefixes : relays[y] \subseteq Live /\ relays[y] \subseteq Conns /\ c \notin relays[y]
  BY DEF IInv, CountersAgree, Live
<1>2. \A y \in WinePrefixes : relays'[y] = IF y = x THEN relays[y] \cup {c} ELSE relays[y]
  <2>1. CASE x = NoPrefix
    BY <1>a, <1>p, <2>1
  <2>2. CASE x # NoPrefix
    <3> HIDE DEF x
    <3> QED BY <1>a, <1>p, <2>2 DEF IInv, Kept
  <2> QED BY <2>1, <2>2
<1>3. /\ owner'[c] = p /\ \A d \in Conns \ {c} : owner'[d] = owner[d]
      /\ Live' \subseteq Live \cup {c}
  BY <1>a DEF IInv, Kept, Live
<1>4. /\ DOMAIN shows = Conns /\ DOMAIN shown = WinePrefixes /\ DOMAIN answers = Pids
      /\ \A q \in Pids : answers[q].count \in Nat
  BY DEF KInv, Shaped
<1>5. \A q : Reported(q) => Reported(q)'
  <2>1. DOMAIN calls \subseteq DOMAIN inbox' /\ \A i \in DOMAIN calls : inbox'[i] = calls[i]
    BY DEF TellsMore
  <2> QED BY <2>1, StaysReported
<1>6. follows => x \in WinePrefixes /\ game \in Pids /\ Reported(game) /\ p \in Pids
  BY <1>i, <1>p DEF ScreensReported
<1>7. \A q \in Pids : known[q] = answers[q] \/ (q = p /\ known[q].size = s)
  <2> HIDE DEF s, follows
  <2> QED BY <1>4
<1>8. \A d \in Live : shows[d] # NoSize => Reported(owner[d])
  BY <1>i DEF ShownIsServed, Reported
<1>9. CASE x # NoPrefix /\ game = NoPid /\ s # NoSize
  <2>1. /\ x \in WinePrefixes /\ p \in Pids /\ ShowPrefix(x, s, p, known, calls, c)
        /\ s \in AnySize /\ Reported(p) /\ Reported(p)'
    <3>1. ~follows
      BY <1>6, <1>9, <1>p
    <3> QED BY <1>9, <1>a, <1>p, <1>5, <3>1
  <2>2. known \in [Pids -> [size : AnySize, count : Nat]]
    <3> HIDE DEF follows, s
    <3>1. \A q \in Pids : answers[q].count + 1 \in Nat
      BY <1>4
    <3> QED BY <1>p, <2>1, <3>1 DEF KInv, Shaped
  <2> HIDE DEF x, s, game, known, follows
  <2>3. /\ \A i \in DOMAIN inbox' \ DOMAIN calls : inbox'[i].game = p
        /\ \A q \in Earlier(x, p) : \E i \in DOMAIN inbox' : inbox'[i].kind = "shown" /\ inbox'[i].pid = q
    BY <2>1, <2>2, ShowPrefixShaped
  <2>4. /\ \A r \in relays[x] : \A q : q = owner[r] => Reported(q)'
        /\ shown'[x] = [size |-> s, game |-> p]
        /\ \A y \in WinePrefixes \ {x} : shown'[y] = shown[y]
        /\ shows'[c] = s
        /\ \A d \in Conns \ {c} : shows'[d] = shows[d] \/ d \in relays[x]
        /\ \A q \in Pids : answers'[q] = known[q]
                           \/ (answers'[q].count = known[q].count /\ \E r \in relays[x] : owner[r] = q)
    BY <1>4, <2>1, <2>3, ShowPrefixReports
  <2>5. ScreensReported'
    <3> SUFFICES ASSUME NEW y \in WinePrefixes, shown'[y].size # NoSize
                 PROVE  /\ shown'[y].game \in Pids /\ Reported(shown[y].game)'
                        /\ \A r \in relays'[y] : Reported(owner[r])'
      BY DEF ScreensReported
    <3>1. CASE y = x
      <4>1. shown'[y].game = p
        BY <2>4, <3>1
      <4>2. \A r \in relays'[y] : r = c \/ (r \in relays[x] /\ owner'[r] = owner[r])
        BY <1>1, <1>2, <1>3, <2>1, <3>1
      <4>3. \A r \in relays'[y] : \A q : q = owner'[r] => Reported(q)'
        BY <1>3, <2>1, <2>4, <4>2
      <4>4. \A r \in relays'[y] : Reported(owner[r])'
        BY <4>3 DEF Reported
      <4>5. Reported(shown[y].game)'
        BY <2>1, <4>1 DEF Reported
      <4> QED BY <2>1, <4>1, <4>4, <4>5
    <3>2. CASE y # x
      <4>1. /\ shown'[y] = shown[y] /\ relays'[y] = relays[y]
            /\ \A r \in relays[y] : owner'[r] = owner[r]
        BY <1>1, <1>2, <1>3, <2>4, <3>2
      <4>2. /\ shown[y].game \in Pids /\ Reported(shown[y].game)
            /\ \A r \in relays[y] : Reported(owner[r])
        BY <1>i, <4>1 DEF ScreensReported
      <4>3. Reported(shown[y].game)'
        BY <1>5, <4>1, <4>2 DEF Reported
      <4>4. \A r \in relays'[y] : Reported(owner[r])'
        BY <1>5, <4>1, <4>2 DEF Reported
      <4> QED BY <4>1, <4>2, <4>3, <4>4
    <3> QED BY <3>1, <3>2
  <2>6. AnswersReported'
    <3> SUFFICES ASSUME NEW q \in Pids, answers'[q].count > 0, answers'[q].size # NoSize
                 PROVE  Reported(q)'
      BY DEF AnswersReported
    <3>1. CASE \E r \in relays[x] : owner[r] = q
      BY <2>4, <3>1
    <3>2. CASE answers'[q] = known[q]
      <4>1. CASE q = p
        BY <2>1, <4>1
      <4>2. CASE q # p
        BY <1>5, <1>7, <1>i, <3>2, <4>2 DEF AnswersReported
      <4> QED BY <4>1, <4>2
    <3> QED BY <2>4, <3>1, <3>2
  <2>7. \A d \in Live' : shows'[d] # NoSize => \A q : q = owner'[d] => Reported(q)'
    <3> SUFFICES ASSUME NEW d \in Live', shows'[d] # NoSize, NEW q, q = owner'[d]
                 PROVE  Reported(q)'
      OBVIOUS
    <3>1. CASE d = c
      BY <1>3, <2>1, <3>1
    <3>2. CASE d # c
      <4>1. d \in Live /\ d \in Conns /\ q = owner[d]
        BY <1>3, <3>2 DEF Live
      <4> QED BY <1>5, <1>8, <2>4, <3>2, <4>1
    <3> QED BY <3>1, <3>2
  <2>8. ShownIsServed'
    BY <2>7 DEF ShownIsServed, Reported
  <2> QED BY <2>1, <2>3, <2>5, <2>6, <2>8
<1>10. CASE ~(x # NoPrefix /\ game = NoPid /\ s # NoSize)
  <2>1. /\ shows' = [shows EXCEPT ![c] = s] /\ answers' = known /\ shown' = shown
        /\ inbox' = IF game # NoPid /\ p # NoPid /\ p # game
                    THEN Append(calls, ShownCall(NoBatch, game, p)) ELSE calls
    BY <1>a, <1>10
  <2>2. ASSUME follows
        PROVE  Reported(p)'
    <3>1. CASE p = game
      BY <1>5, <1>6, <2>2, <3>1
    <3>2. CASE p # game
      <4>1. inbox' = Append(calls, ShownCall(NoBatch, game, p)) /\ ShownCall(NoBatch, game, p) \in Calls
        <5>1. game # NoPid /\ p # NoPid /\ game \in Pids /\ p \in Pids
          BY <1>6, <1>p, <2>2
        <5> HIDE DEF game
        <5> QED BY <2>1, <3>2, <5>1 DEF ShownCall, Call, Calls, AnyPid
      <4> DEFINE m == ShownCall(NoBatch, game, p)
      <4>2. m.kind = "shown" /\ m.pid = p
        BY DEF ShownCall, Call
      <4> HIDE DEF m
      <4>3. Len(calls) + 1 \in DOMAIN inbox' /\ inbox'[Len(calls) + 1] = m
        BY <4>1, CallSent DEF m
      <4> QED BY <4>2, <4>3 DEF Reported
    <3> QED BY <3>1, <3>2
  <2>3. s # NoSize => p \in Pids /\ Reported(p)'
    BY <1>5, <1>6, <2>2
  <2>4. \A i \in DOMAIN inbox' \ DOMAIN calls : Reported(inbox'[i].game)
    <3>1. CASE inbox' = calls
      BY <3>1
    <3>2. CASE game # NoPid /\ p \in Pids /\ inbox' = Append(calls, ShownCall(NoBatch, game, p))
      <4>1. game \in Pids /\ Reported(game)
        BY <1>6, <3>2
      <4> HIDE DEF game
      <4> DEFINE m == ShownCall(NoBatch, game, p)
      <4>2. m \in Calls /\ m.game = game
        BY <3>2, <4>1 DEF ShownCall, Call, Calls, AnyPid
      <4>3. inbox' = Append(calls, m)
        BY <3>2
      <4> HIDE DEF m
      <4>4. \A i \in DOMAIN inbox' \ DOMAIN calls : inbox'[i] = m
        BY <4>2, <4>3, CallSent
      <4> QED BY <4>1, <4>2, <4>4
    <3> QED BY <1>p, <2>1, <3>1, <3>2
  <2>5. \A y \in WinePrefixes : y = x /\ shown[y].size # NoSize => s # NoSize
    <3> SUFFICES ASSUME x \in WinePrefixes, shown[x].size # NoSize PROVE s # NoSize
      OBVIOUS
    <3> QED BY <1>p
  <2> HIDE DEF x, s, game, known, follows
  <2>6. ScreensReported'
    <3> SUFFICES ASSUME NEW y \in WinePrefixes, shown'[y].size # NoSize
                 PROVE  /\ shown'[y].game \in Pids /\ Reported(shown[y].game)'
                        /\ \A r \in relays'[y] : Reported(owner[r])'
      BY DEF ScreensReported
    <3>1. /\ shown[y].game \in Pids /\ Reported(shown[y].game)
          /\ \A r \in relays[y] : Reported(owner[r])
      BY <1>i, <2>1 DEF ScreensReported
    <3>2. Reported(shown[y].game)'
      BY <1>5, <2>1, <3>1 DEF Reported
    <3>3. \A r \in relays'[y] : \A q : q = owner'[r] => Reported(q)'
      <4> SUFFICES ASSUME NEW r \in relays'[y], NEW q, q = owner'[r]
                   PROVE  Reported(q)'
        OBVIOUS
      <4>1. CASE r = c
        <5>1. y = x
          BY <1>1, <1>2, <4>1
        <5> QED BY <1>3, <2>1, <2>3, <2>5, <4>1, <5>1
      <4>2. CASE r # c
        <5>1. r \in relays[y] /\ q = owner[r]
          BY <1>1, <1>2, <1>3, <4>2
        <5> QED BY <1>5, <3>1, <5>1
      <4> QED BY <4>1, <4>2
    <3>4. \A r \in relays'[y] : Reported(owner[r])'
      BY <3>3 DEF Reported
    <3> QED BY <2>1, <3>1, <3>2, <3>4
  <2>7. AnswersReported'
    <3> SUFFICES ASSUME NEW q \in Pids, answers'[q].count > 0, answers'[q].size # NoSize
                 PROVE  Reported(q)'
      BY DEF AnswersReported
    <3> QED BY <1>5, <1>7, <1>i, <2>1, <2>3 DEF AnswersReported
  <2>8. \A d \in Live' : shows'[d] # NoSize => \A q : q = owner'[d] => Reported(q)'
    <3> SUFFICES ASSUME NEW d \in Live', shows'[d] # NoSize, NEW q, q = owner'[d]
                 PROVE  Reported(q)'
      OBVIOUS
    <3>1. CASE d = c
      BY <1>3, <1>4, <2>1, <2>3, <3>1
    <3>2. CASE d # c
      <4>1. d \in Live /\ d \in Conns /\ q = owner[d]
        BY <1>3, <3>2 DEF Live
      <4>2. shows'[d] = shows[d]
        BY <1>4, <2>1, <3>2, <4>1
      <4> QED BY <1>5, <1>8, <4>1, <4>2
    <3> QED BY <3>1, <3>2
  <2>9. ShownIsServed'
    BY <2>8 DEF ShownIsServed, Reported
  <2> QED BY <2>4, <2>6, <2>7, <2>9
<1> QED BY <1>9, <1>10

LEMMA NothingLost ==
    ASSUME KInv
    PROVE  SameCalls(inbox) /\ TellsMore(inbox, inbox) /\ DrawnFrom(replies, replies, [j \in DOMAIN replies |-> j])
<1>1. inbox \in Seq(Calls)
  BY DEF KInv, Shaped
<1> QED BY <1>1 DEF SameCalls, TellsMore, DrawnFrom

\* relayClient(), for a connection of which nothing is on its way any more.
LEMMA RelayClientReports ==
    ASSUME IInv, KInv, ReportedInv, NEW c \in Conns, c \notin Live, NEW p \in AnyPid,
           NEW size \in AnySize, size # NoSize => p \in Pids /\ Reported(p), NEW ans \in BOOLEAN, NEW count,
           NEW calls \in Seq(Calls), SameCalls(calls), \A i \in DOMAIN calls : calls[i].conn # c,
           NEW f, DrawnFrom(replies', replies, f), \A j \in DOMAIN replies' : replies'[j].conn # c,
           replies' \in Seq(AnyReply),
           RelayClient(c, p, size, ans, count, calls), UNCHANGED <<program, effectVars>>
    PROVE  ReportedInv'
<1>1. KInv' /\ TellsMore(inbox', calls)
  BY RelayClientShaped
<1>2. served' = served /\ QueuesInv
  BY DEF effectVars, ReportedInv
<1>3. \/ phase' = [phase EXCEPT ![c] = "relay"] /\ owner' = [owner EXCEPT ![c] = p]
      \/ phase' = [phase EXCEPT ![c] = "closed"] /\ owner' = [owner EXCEPT ![c] = NoPid]
  BY DEF RelayClient, BackendAccepts, BackendRefuses
<1>4. \A d \in Conns \ {c} : phase'[d] = phase[d] /\ owner'[d] = owner[d]
  BY <1>3 DEF IInv, Kept
<1>5. CASE BackendAccepts(c, p, size, ans, count, calls)
  <2>1. /\ \A i \in DOMAIN inbox' \ DOMAIN calls : Reported(inbox'[i].game)
        /\ ScreensReported' /\ AnswersReported' /\ ShownIsServed'
    BY <1>1, <1>2, <1>5, AcceptedReports
  <2>2. \A i \in DOMAIN calls : calls[i].conn \notin {c}
    OBVIOUS
  <2>3. \A j \in DOMAIN replies' : replies'[j].conn \notin {c}
    OBVIOUS
  <2>4. QueuesInv'
    BY <1>1, <1>2, <1>4, <2>1, <2>2, <2>3, QueuesStay
  <2> QED BY <2>1, <2>4 DEF ReportedInv
<1>6. CASE BackendRefuses(c, count, calls)
  <2>1. /\ inbox' = calls /\ phase'[c] = "closed"
        /\ UNCHANGED <<shows, answers, relays, shown>>
    BY <1>6 DEF BackendRefuses, relayVars, IInv, Kept
  <2>2. \A i \in DOMAIN inbox' \ DOMAIN calls : Reported(inbox'[i].game)
    BY <2>1
  <2>3. \A i \in DOMAIN calls : calls[i].conn \notin {c}
    OBVIOUS
  <2>4. \A j \in DOMAIN replies' : replies'[j].conn \notin {c}
    OBVIOUS
  <2>5. QueuesInv' /\ \A q : Reported(q) => Reported(q)'
    BY <1>1, <1>2, <1>4, <2>2, <2>3, <2>4, QueuesStay
  <2>6. \A x \in WinePrefixes : relays[x] \subseteq Conns \ {c}
    BY DEF IInv, CountersAgree, Live
  <2>7. \A d \in Live' : d \in Live /\ owner'[d] = owner[d]
    BY <1>4, <2>1 DEF Live, LivePhases
  <2>8. \A d \in Live' : shows'[d] # NoSize => Reported(owner'[d])
    BY <2>1, <2>7 DEF ReportedInv, ShownIsServed, Reported
  <2>9. \A q \in Pids : answers'[q].count > 0 /\ answers'[q].size # NoSize => Reported(q)
    BY <2>1 DEF ReportedInv, AnswersReported
  <2> QED BY <1>4, <2>1, <2>5, <2>6, <2>8, <2>9, ReportsStay
<1> QED BY <1>5, <1>6 DEF RelayClient

\* A decision that goes on: the connection waits for its timer, or asks.
LEMMA DecisionReports ==
    ASSUME IInv, KInv, ReportedInv, NEW c \in Conns, c \notin Live, owner'[c] \in Pids,
           phase'[c] \in PendingPhases,
           \A d \in Conns \ {c} : phase'[d] = phase[d] /\ owner'[d] = owner[d],
           \A i \in DOMAIN inbox : inbox[i].conn # c,
           NEW f, DrawnFrom(replies', replies, f), \A j \in DOMAIN replies' : replies'[j].conn # c,
           \/ inbox' = inbox
           \/ /\ phase'[c] \in {"checking", "asking"}
              /\ \E m \in Calls : /\ m.kind \in {"prefix", "policy"} /\ m.conn = c
                                  /\ m.pid = owner'[c] /\ inbox' = Append(inbox, m),
           UNCHANGED <<shows, answers, relays, shown, served>>
    PROVE  ReportedInv'
<1>q. QueuesInv
  BY DEF ReportedInv
<1>1. QueuesInv' /\ \A q : Reported(q) => Reported(q)'
  <2>1. CASE inbox' = inbox
    <3>1. SameCalls(inbox) /\ TellsMore(inbox', inbox)
      BY <2>1, NothingLost
    <3>2. \A i \in DOMAIN inbox' \ DOMAIN inbox : Reported(inbox'[i].game)
      BY <2>1
    <3>3. \A i \in DOMAIN inbox : inbox[i].conn \notin {c}
      OBVIOUS
    <3>4. \A j \in DOMAIN replies' : replies'[j].conn \notin {c}
      OBVIOUS
    <3>5. served' = served
      OBVIOUS
    <3> QED BY <1>q, <3>1, <3>2, <3>3, <3>4, <3>5, QueuesStay
  <2>2. CASE /\ phase'[c] \in {"checking", "asking"}
             /\ \E m \in Calls : /\ m.kind \in {"prefix", "policy"} /\ m.conn = c
                                 /\ m.pid = owner'[c] /\ inbox' = Append(inbox, m)
    <3>1. PICK m \in Calls : /\ m.kind \in {"prefix", "policy"} /\ m.conn = c
                             /\ m.pid = owner'[c] /\ inbox' = Append(inbox, m)
      BY <2>2
    <3>2. m.pid \in Pids /\ served' = served
      BY <3>1
    <3> QED BY <1>q, <2>2, <3>1, <3>2, QuestionAsked
  <2> QED BY <2>1, <2>2
<1>2. \A x \in WinePrefixes : relays[x] \subseteq Conns \ {c}
  BY DEF IInv, CountersAgree, Live
<1>3. \A d \in Live' : d \in Live /\ owner'[d] = owner[d]
  BY DEF Live, LivePhases, PendingPhases
<1>4. \A d \in Live' : shows'[d] # NoSize => Reported(owner'[d])
  BY <1>3 DEF ReportedInv, ShownIsServed, Reported
<1>5. \A q \in Pids : answers'[q].count > 0 /\ answers'[q].size # NoSize => Reported(q)
  BY DEF ReportedInv, AnswersReported
<1> QED BY <1>1, <1>2, <1>4, <1>5, ReportsStay

\* A step that touches nothing of what the screens are: with none of the proxy's
\* connections but those in "gone" moved, and nothing asked.
LEMMA QuietReports ==
    ASSUME IInv, KInv, ReportedInv, NEW calls, SameCalls(calls), inbox' = calls,
           NEW f, DrawnFrom(replies', replies, f), served' = served,
           NEW gone, \A d \in Conns \ gone : phase'[d] = phase[d] /\ owner'[d] = owner[d],
           \A i \in DOMAIN inbox : inbox[i].conn \notin gone /\ NoConn \notin gone,
           \A j \in DOMAIN replies : replies[j].conn \notin gone,
           \A x \in WinePrefixes :
                /\ shown'[x] = shown[x] \/ shown'[x].size = NoSize
                /\ relays'[x] \subseteq relays[x]
                /\ \A r \in relays'[x] : owner'[r] = owner[r],
           \A p \in Pids : answers'[p].count > 0 /\ answers'[p].size # NoSize => Reported(p),
           \A c \in Live' : shows'[c] # NoSize => Reported(owner'[c])
    PROVE  ReportedInv'
<1>1. QueuesInv /\ TellsMore(inbox', calls)
  BY DEF ReportedInv, SameCalls, TellsMore
<1>2. \A i \in DOMAIN inbox' \ DOMAIN calls : Reported(inbox'[i].game)
  OBVIOUS
<1>3. \A i \in DOMAIN calls : calls[i].conn \notin gone
  BY DEF SameCalls
<1>4. \A j \in DOMAIN replies' : replies'[j].conn \notin gone
  BY DEF DrawnFrom
<1>5. QueuesInv' /\ \A p : Reported(p) => Reported(p)'
  BY <1>1, <1>2, <1>3, <1>4, QueuesStay
<1> QED BY <1>5, ReportsStay

\* Nothing of a connection that asked nothing is on its way.
LEMMA Silent ==
    ASSUME QueuesInv, NEW c \in Conns, phase[c] \notin {"checking", "asking"}
    PROVE  /\ \A i \in DOMAIN inbox : inbox[i].conn # c
           /\ \A j \in DOMAIN replies : replies[j].conn # c
<1>1. c # NoConn
  BY ConstantsAssumption DEF ConstantsAssumption
<1> QED BY <1>1 DEF QueuesInv, Awaited

\* Once a connection's reply arrives nothing of it is left on its way.
LEMMA ReplyTaken ==
    ASSUME KInv, QueuesInv, NEW c \in Conns, replies # <<>>, Head(replies).conn = c
    PROVE  /\ \A i \in DOMAIN inbox : inbox[i].conn # c
           /\ \E f : DrawnFrom(Tail(replies), replies, f)
           /\ \A j \in DOMAIN Tail(replies) : Tail(replies)[j].conn # c
           /\ 1 \in DOMAIN replies /\ replies[1] = Head(replies)
<1>1. c # NoConn /\ Lone
  BY ConstantsAssumption DEF ConstantsAssumption, QueuesInv
<1>2. /\ Head(replies) = replies[1] /\ 1 \in DOMAIN replies
      /\ \E f : DrawnFrom(Tail(replies), replies, f) /\ \A j \in DOMAIN Tail(replies) : f[j] = j + 1
  BY TailDrawn DEF KInv, Shaped
<1>3. PICK f : DrawnFrom(Tail(replies), replies, f) /\ \A j \in DOMAIN Tail(replies) : f[j] = j + 1
  BY <1>2
<1>4. \A i \in DOMAIN inbox : inbox[i].conn # c
  BY <1>1, <1>2 DEF Lone
<1>5. ASSUME NEW j \in DOMAIN Tail(replies)
      PROVE  Tail(replies)[j].conn # c
  <2>1. f[j] \in DOMAIN replies /\ f[j] = j + 1 /\ Tail(replies)[j] = replies[f[j]]
    BY <1>3 DEF DrawnFrom
  <2>2. DOMAIN replies = 1..Len(replies) /\ Len(replies) \in Nat
    BY Messages
  <2>3. f[j] # 1
    <3>1. Tail(replies) \in Seq(AnyReply)
      BY TailDrawn DEF KInv, Shaped
    <3>2. j \in Nat /\ j >= 1
      <4>1. DOMAIN Tail(replies) = 1..Len(Tail(replies)) /\ Len(Tail(replies)) \in Nat
        BY <3>1, LenProperties
      <4> QED BY <4>1, <1>5
    <3> QED BY <2>1, <3>2
  <2> QED BY <1>1, <1>2, <2>1, <2>3 DEF Lone
<1> QED BY <1>2, <1>3, <1>4, <1>5

\* Nobody waits for connection c any more: its call's answer, or its reply, is
\* nobody's.
LEMMA CallForgotten ==
    ASSUME KInv, QueuesInv, NEW c \in Conns
    PROVE  LET places == {i \in DOMAIN replies : replies[i].conn = c}
           IN  /\ WithoutConn(c) \in Seq(Calls) /\ SameCalls(WithoutConn(c))
               /\ \A i \in DOMAIN WithoutConn(c) : WithoutConn(c)[i].conn # c
               /\ Dropped(places) \in Seq(AnyReply)
               /\ \E f : DrawnFrom(Dropped(places), replies, f)
               /\ \A j \in DOMAIN Dropped(places) : Dropped(places)[j].conn # c
<1> DEFINE places == {i \in DOMAIN replies : replies[i].conn = c}
<1>1. c # NoConn /\ Lone
  BY ConstantsAssumption DEF ConstantsAssumption, QueuesInv
<1>2. /\ WithoutConn(c) \in Seq(Calls) /\ DOMAIN WithoutConn(c) = DOMAIN inbox
      /\ \A i \in DOMAIN inbox :
            /\ WithoutConn(c)[i].kind = inbox[i].kind /\ WithoutConn(c)[i].pid = inbox[i].pid
            /\ WithoutConn(c)[i].game = inbox[i].game
            /\ WithoutConn(c)[i].conn = IF inbox[i].conn = c THEN NoConn ELSE inbox[i].conn
  BY UnawaitedByConn
<1>3. SameCalls(WithoutConn(c)) /\ \A i \in DOMAIN WithoutConn(c) : WithoutConn(c)[i].conn # c
  BY <1>1, <1>2 DEF SameCalls
<1>4. places \in SUBSET DOMAIN replies /\ \A i, j \in places : i = j
  BY <1>1 DEF Lone
<1>5. \A k \in DOMAIN replies : replies[k].conn = c => k \in places
  OBVIOUS
<1> HIDE DEF places
<1>r. replies \in Seq(AnyReply)
  BY DEF KInv, Shaped
<1>6. /\ Dropped(places) \in Seq(AnyReply)
      /\ \E f : /\ DrawnFrom(Dropped(places), replies, f)
                /\ (\A i, j \in places : i = j) => \A k \in DOMAIN Dropped(places) : f[k] \notin places
  BY <1>r, <1>4, DroppedDrawn
<1>7. PICK f : /\ DrawnFrom(Dropped(places), replies, f)
               /\ \A k \in DOMAIN Dropped(places) : f[k] \notin places
  BY <1>4, <1>6
<1>8. \A j \in DOMAIN Dropped(places) : Dropped(places)[j].conn # c
  BY <1>5, <1>7 DEF DrawnFrom
<1> QED BY <1>2, <1>3, <1>6, <1>7, <1>8 DEF places

\* The effect's record after the call that came first: nobody is off it, and the
\* process the call was about is on it where the answer is a size.
LEMMA EffectRecords ==
    ASSUME RecordHoldsAll, IInv, KInv, QueuesInv, EffectAnswers
    PROVE  /\ RecordedOnce' /\ ServedPids \subseteq ServedPids'
           /\ inbox # <<>> /\ inbox' = Tail(inbox) /\ 1 \in DOMAIN inbox /\ Head(inbox) = inbox[1]
           /\ inbox[1].kind = "shown" => inbox[1].pid \in ServedPids'
           /\ inbox[1].kind = "policy" /\ PolicyAnswer(inbox[1].program) \in Sizes
                => inbox[1].pid \in ServedPids'
<1> DEFINE m == inbox[1]
<1>q. GamesFirst /\ RecordedOnce /\ CallsKnown
  BY DEF QueuesInv
<1>1. inbox # <<>> /\ inbox' = Tail(inbox)
  BY DEF EffectAnswers, AnswerPrefix, AnswerPolicy, AnswerShown
<1>2. /\ 1 \in DOMAIN inbox /\ Head(inbox) = m
      /\ \A i \in DOMAIN inbox : ~(i < 1)
  <2>1. inbox \in Seq(Calls)
    BY DEF KInv, Shaped
  <2>2. 1 \in DOMAIN inbox /\ Head(inbox) = inbox[1]
    BY <1>1, <2>1, TailDrawn
  <2> QED BY <2>2, Messages
<1>3. m.kind # "prefix" => m.pid \in Pids
  BY <1>q, <1>2 DEF CallsKnown
<1>4. ASSUME NEW s \in AnySize, m.pid \in Pids, served' = Recorded(m.pid, s)
      PROVE  /\ RecordedOnce' /\ ServedPids \subseteq ServedPids'
             /\ s # NoSize => m.pid \in ServedPids'
  <2>1. /\ DOMAIN served \subseteq DOMAIN served'
        /\ \A i \in DOMAIN served : served'[i] = served[i]
        /\ \A i \in DOMAIN served' : served'[i].pid \in Pids
        /\ \A i, j \in DOMAIN served' : served'[i].pid = served'[j].pid => i = j
        /\ s # NoSize => \E i \in DOMAIN served' : served'[i].pid = m.pid
    BY <1>q, <1>4, RecordKeeps
  <2> QED BY <2>1 DEF RecordedOnce, ServedPids
<1>5. CASE AnswerPrefix
  <2>1. served' = served /\ m.kind = "prefix"
    BY <1>2, <1>5 DEF AnswerPrefix
  <2> QED BY <1>1, <1>2, <1>q, <2>1 DEF RecordedOnce, ServedPids
<1>6. CASE AnswerPolicy
  <2> DEFINE value == PolicyAnswer(m.program)
  <2>1. m.kind = "policy" /\ served' = IF value = "retry" THEN served ELSE Recorded(m.pid, value)
    BY <1>2, <1>6 DEF AnswerPolicy
  <2>2. value \in AnySize \cup {"retry"} /\ "retry" \notin AnySize /\ NoSize \notin Sizes
    <3>1. m \in Calls
      BY <1>2, Messages
    <3>2. m.program \in Programs \cup {NoProgram}
      BY <3>1 DEF Calls
    <3> HIDE DEF m
    <3>3. value \in AnySize \cup {"retry"}
      BY <3>2 DEF PolicyAnswer, KInv, Shaped, AnySize
    <3> QED BY <3>3, ConstantsAssumption DEF ConstantsAssumption, AnySize
  <2>3. CASE value = "retry"
    BY <1>1, <1>2, <1>q, <2>1, <2>2, <2>3 DEF RecordedOnce, ServedPids, AnySize
  <2>4. CASE value # "retry"
    BY <1>1, <1>2, <1>3, <1>4, <2>1, <2>2, <2>4
  <2> QED BY <2>3, <2>4
<1>7. CASE AnswerShown
  <2>1. m.kind = "shown" /\ served' = Recorded(m.pid, ServedSize(m.game))
    BY <1>2, <1>7 DEF AnswerShown
  <2>2. m.game \in ServedPids
    BY <1>q, <1>2, <2>1 DEF GamesFirst
  <2>3. ServedSize(m.game) \in Sizes /\ ServedSize(m.game) \in AnySize /\ NoSize \notin Sizes
    BY <2>2, RecordShaped, ConstantsAssumption DEF ConstantsAssumption
  <2>4. ServedSize(m.game) # NoSize
    BY <2>3
  <2> QED BY <1>1, <1>2, <1>3, <1>4, <2>1, <2>3, <2>4
<1> QED BY <1>5, <1>6, <1>7 DEF EffectAnswers

\* The effect takes the call that came first.
LEMMA EffectReports ==
    ASSUME RecordHoldsAll, IInv, KInv, ReportedInv, EffectAnswers
    PROVE  ReportedInv'
<1> DEFINE m == inbox[1]
<1>q. /\ QueuesInv
      /\ Awaited /\ Lone /\ CallsKnown /\ RepliesServed /\ GamesFirst /\ RecordedOnce
  BY DEF ReportedInv, QueuesInv
<1>1. /\ RecordedOnce' /\ ServedPids \subseteq ServedPids'
      /\ inbox # <<>> /\ inbox' = Tail(inbox) /\ 1 \in DOMAIN inbox /\ Head(inbox) = m
      /\ m.kind = "shown" => m.pid \in ServedPids'
      /\ m.kind = "policy" /\ PolicyAnswer(m.program) \in Sizes => m.pid \in ServedPids'
  BY <1>q, EffectRecords
<1>u. UNCHANGED <<phase, owner, shows, answers, relays, shown>>
  BY DEF EffectAnswers, relayVars, prefixVars
<1>2. \/ replies' = replies
      \/ /\ m.kind \in {"prefix", "policy"} => m.conn # NoConn
         /\ \E r \in AnyReply : /\ r.conn = (IF m.kind = "shown" THEN NoConn ELSE m.conn)
                                /\ r.kind = m.kind
                                /\ r.kind = "policy" => r.value = PolicyAnswer(m.program)
                                /\ replies' = Append(replies, r)
  BY <1>1, EffectShaped
<1>3. /\ \A j \in DOMAIN inbox' : j + 1 \in DOMAIN inbox /\ inbox'[j] = inbox[j + 1] /\ j + 1 # 1
      /\ \A i \in DOMAIN inbox : i = 1 \/ (i - 1 \in DOMAIN inbox' /\ (i - 1) + 1 = i)
      /\ \A i, j \in DOMAIN inbox' : i + 1 = j + 1 => i = j
      /\ \A i \in DOMAIN inbox, j \in DOMAIN inbox' : i < j + 1 => i = 1 \/ i - 1 < j
  <2>1. inbox \in Seq(Calls) /\ Len(inbox) \in Nat /\ DOMAIN inbox = 1..Len(inbox)
    BY Messages DEF KInv, Shaped
  <2>2. /\ Tail(inbox) \in Seq(Calls) /\ Len(Tail(inbox)) = Len(inbox) - 1
        /\ \A i \in 1..Len(Tail(inbox)) : Tail(inbox)[i] = inbox[i + 1]
    BY <1>1, <2>1, HeadTailProperties
  <2>3. DOMAIN inbox' = 1..(Len(inbox) - 1)
    BY <1>1, <2>2, LenProperties
  <2>4. \A j \in DOMAIN inbox' : inbox'[j] = inbox[j + 1]
    BY <1>1, <2>2, <2>3
  <2> QED BY <2>1, <2>3, <2>4
<1>4. \A i \in DOMAIN inbox : i # 1 => \E j \in DOMAIN inbox' : inbox'[j] = inbox[i]
  <2> SUFFICES ASSUME NEW i \in DOMAIN inbox, i # 1
               PROVE  \E j \in DOMAIN inbox' : inbox'[j] = inbox[i]
    OBVIOUS
  <2>1. i - 1 \in DOMAIN inbox' /\ inbox'[i - 1] = inbox[(i - 1) + 1] /\ (i - 1) + 1 = i
    BY <1>3
  <2> QED BY <2>1
<1>5. \A j \in DOMAIN inbox' : \E i \in DOMAIN inbox : i # 1 /\ inbox'[j] = inbox[i]
  BY <1>3
<1>6. \A p : Reported(p) => Reported(p)'
  <2> SUFFICES ASSUME NEW p, Reported(p), p \notin ServedPids'
               PROVE  \E j \in DOMAIN inbox' : inbox'[j].kind = "shown" /\ inbox'[j].pid = p
    BY DEF Reported
  <2>1. PICK i \in DOMAIN inbox : inbox[i].kind = "shown" /\ inbox[i].pid = p
    BY <1>1 DEF Reported
  <2>2. i # 1
    BY <1>1, <2>1
  <2> QED BY <1>4, <2>1, <2>2
<1>7. GamesFirst'
  <2> SUFFICES ASSUME NEW j \in DOMAIN inbox', inbox'[j].kind = "shown", inbox'[j].game \notin ServedPids'
               PROVE  \E k \in DOMAIN inbox' : k < j /\ inbox'[k].kind = "shown" /\ inbox'[k].pid = inbox'[j].game
    BY DEF GamesFirst
  <2>1. j + 1 \in DOMAIN inbox /\ inbox'[j] = inbox[j + 1]
    BY <1>3
  <2>2. PICK i \in DOMAIN inbox : i < j + 1 /\ inbox[i].kind = "shown" /\ inbox[i].pid = inbox[j + 1].game
    BY <1>q, <1>1, <2>1 DEF GamesFirst
  <2>3. i # 1
    BY <1>1, <2>1, <2>2
  <2>4. i - 1 \in DOMAIN inbox' /\ (i - 1) + 1 = i /\ i - 1 < j
    BY <1>3, <2>2, <2>3
  <2>5. inbox'[i - 1] = inbox[i]
    BY <1>3, <2>4
  <2> QED BY <2>1, <2>2, <2>4, <2>5
<1>8. CallsKnown'
  <2> SUFFICES ASSUME NEW j \in DOMAIN inbox'
               PROVE  /\ inbox'[j].kind # "prefix" => inbox'[j].pid \in Pids
                      /\ inbox'[j].kind = "policy" /\ inbox'[j].conn # NoConn
                            => inbox'[j].pid = owner[inbox'[j].conn]
    BY <1>u DEF CallsKnown
  <2> QED BY <1>q, <1>5 DEF CallsKnown
<1>9. \A i, j \in DOMAIN inbox' : inbox'[i].conn = inbox'[j].conn => i = j \/ inbox'[i].conn = NoConn
  <2> SUFFICES ASSUME NEW i \in DOMAIN inbox', NEW j \in DOMAIN inbox', inbox'[i].conn = inbox'[j].conn,
                      inbox'[i].conn # NoConn
               PROVE  i = j
    OBVIOUS
  <2>1. i + 1 \in DOMAIN inbox /\ j + 1 \in DOMAIN inbox
        /\ inbox'[i] = inbox[i + 1] /\ inbox'[j] = inbox[j + 1]
    BY <1>3
  <2>2. i + 1 = j + 1
    BY <1>q, <2>1 DEF Lone
  <2> QED BY <1>3, <2>2
<1>10. \A j \in DOMAIN inbox' : inbox'[j].conn = m.conn => m.conn = NoConn
  BY <1>q, <1>1, <1>5 DEF Lone
<1>11. Awaited' /\ Lone' /\ RepliesServed'
  <2>1. CASE replies' = replies
    <3>1. Awaited'
      BY <1>q, <1>5, <1>u, <2>1 DEF Awaited
    <3>2. \A i \in DOMAIN inbox', j \in DOMAIN replies' :
             inbox'[i].conn = replies'[j].conn => inbox'[i].conn = NoConn
      BY <1>q, <1>5, <2>1 DEF Lone
    <3>3. Lone'
      BY <1>q, <1>9, <2>1, <3>2 DEF Lone
    <3>4. RepliesServed'
      BY <1>q, <1>1, <1>u, <2>1 DEF RepliesServed
    <3> QED BY <3>1, <3>3, <3>4
  <2>2. CASE \E r \in AnyReply : /\ r.conn = (IF m.kind = "shown" THEN NoConn ELSE m.conn)
                                 /\ r.kind = m.kind
                                 /\ r.kind = "policy" => r.value = PolicyAnswer(m.program)
                                 /\ replies' = Append(replies, r)
    <3>r. PICK r \in AnyReply : /\ r.conn = (IF m.kind = "shown" THEN NoConn ELSE m.conn)
                                /\ r.kind = m.kind
                                /\ r.kind = "policy" => r.value = PolicyAnswer(m.program)
                                /\ replies' = Append(replies, r)
      BY <2>2
    <3> DEFINE n == Len(replies) + 1
    <3>1. /\ DOMAIN replies' = 1..n /\ DOMAIN replies = 1..Len(replies) /\ Len(replies) \in Nat
          /\ \A j \in DOMAIN replies : replies'[j] = replies[j]
          /\ replies'[n] = r
      <4>1. replies \in Seq(AnyReply)
        BY DEF KInv, Shaped
      <4> QED BY <3>r, <4>1, ReplySent
    <3>2. \A j \in DOMAIN replies' : j \in DOMAIN replies \/ j = n
      BY <3>1
    <3> HIDE DEF n, m
    <3>3. r.conn = m.conn \/ r.conn = NoConn
      BY <3>r
    <3>4. r.conn # NoConn => phase[r.conn] \in {"checking", "asking"}
      BY <1>q, <1>1, <3>3 DEF Awaited, m
    <3>5. Awaited'
      <4>1. \A i \in DOMAIN inbox' : inbox'[i].conn # NoConn => phase[inbox'[i].conn] \in {"checking", "asking"}
        BY <1>q, <1>5 DEF Awaited
      <4>2. \A j \in DOMAIN replies' : replies'[j].conn # NoConn => phase[replies'[j].conn] \in {"checking", "asking"}
        BY <1>q, <3>1, <3>2, <3>4 DEF Awaited
      <4> QED BY <1>u, <4>1, <4>2 DEF Awaited
    <3>6. \A j \in DOMAIN replies : replies[j].conn = r.conn => r.conn = NoConn
      BY <1>q, <1>1, <3>3 DEF Lone, m
    <3>7. \A i, j \in DOMAIN replies' : replies'[i].conn = replies'[j].conn => i = j \/ replies'[i].conn = NoConn
      BY <1>q, <3>1, <3>2, <3>6 DEF Lone
    <3>8. \A i \in DOMAIN inbox', j \in DOMAIN replies' :
             inbox'[i].conn = replies'[j].conn => inbox'[i].conn = NoConn
      <4>1. \A i \in DOMAIN inbox', j \in DOMAIN replies :
               inbox'[i].conn = replies[j].conn => inbox'[i].conn = NoConn
        BY <1>q, <1>5 DEF Lone
      <4>2. \A i \in DOMAIN inbox' : inbox'[i].conn = r.conn => inbox'[i].conn = NoConn
        BY <1>10, <3>3
      <4> QED BY <3>1, <3>2, <4>1, <4>2
    <3>9. Lone'
      BY <1>9, <3>7, <3>8 DEF Lone
    <3>10. RepliesServed'
      <4> SUFFICES ASSUME NEW j \in DOMAIN replies', replies'[j].kind = "policy",
                          replies'[j].conn # NoConn, replies'[j].value \in Sizes
                   PROVE  owner[replies'[j].conn] \in ServedPids'
        BY <1>u DEF RepliesServed
      <4>1. CASE j \in DOMAIN replies
        BY <1>q, <1>1, <3>1, <4>1 DEF RepliesServed
      <4>2. CASE j = n
        <5>1. /\ m.kind = "policy" /\ m.conn = r.conn /\ m.conn # NoConn
              /\ PolicyAnswer(m.program) \in Sizes /\ replies'[j] = r
          BY <3>1, <3>r, <4>2
        <5>2. m.pid = owner[m.conn]
          BY <1>q, <1>1, <5>1 DEF CallsKnown, m
        <5> QED BY <1>1, <5>1, <5>2
      <4> QED BY <3>2, <4>1, <4>2
    <3> QED BY <3>5, <3>9, <3>10
  <2> QED BY <1>2, <2>1, <2>2
<1>12. QueuesInv'
  BY <1>1, <1>7, <1>8, <1>11 DEF QueuesInv
<1>13. /\ \A c \in Live' : shows'[c] # NoSize => Reported(owner'[c])
       /\ \A p \in Pids : answers'[p].count > 0 /\ answers'[p].size # NoSize => Reported(p)
  BY <1>u DEF ReportedInv, ShownIsServed, Reported, AnswersReported, Live
<1> QED BY <1>6, <1>12, <1>13, <1>u, ReportsStay

\* proceed() of showPrefix(): who is switched is a connection of the prefix.
LEMMA ProceedReports ==
    ASSUME IInv, KInv, ReportedInv, NEW b \in Batches, NEW p, Proceed(b, p),
           NEW calls, SameCalls(calls), inbox' = calls, NEW f, DrawnFrom(replies', replies, f)
    PROVE  ReportedInv'
<1> DEFINE r == batches[b]
           x == r.prefix
<1>a. /\ \/ /\ x # NoPrefix /\ shown[x] = [size |-> r.size, game |-> r.game]
            /\ shows' = SwitchedShows(x, r.size) /\ answers' = SwitchedAnswers(answers, x, r.size)
         \/ UNCHANGED <<shows, answers>>
      /\ UNCHANGED <<phase, owner, relays, shown>>
      /\ served' = served
  BY DEF Proceed, effectVars
<1>1. /\ \A d \in Live : shows[d] # NoSize => Reported(owner[d])
      /\ AnswersReported
  BY DEF ReportedInv, ShownIsServed, Reported
<1>2. /\ \A d \in Live : shows'[d] # NoSize => Reported(owner[d])
      /\ \A q \in Pids : answers'[q].count > 0 /\ answers'[q].size # NoSize => Reported(q)
  <2>1. CASE UNCHANGED <<shows, answers>>
    BY <1>1, <2>1 DEF AnswersReported
  <2>2. CASE /\ x # NoPrefix /\ shown[x] = [size |-> r.size, game |-> r.game]
             /\ shows' = SwitchedShows(x, r.size) /\ answers' = SwitchedAnswers(answers, x, r.size)
    <3>1. x \in WinePrefixes /\ shown[x].size = r.size
      BY <2>2 DEF KInv, Shaped
    <3>2. r.size # NoSize => \A q \in relays[x] : Reported(owner[q])
      BY <3>1 DEF ReportedInv, ScreensReported
    <3> HIDE DEF r, x
    <3>3. ASSUME NEW d \in Live, shows'[d] # NoSize
          PROVE  Reported(owner[d])
      <4>1. d \in Conns
        BY <3>3 DEF Live
      <4>2. CASE d \in Switched(x, r.size)
        <5>1. shows'[d] = r.size /\ d \in relays[x]
          BY <2>2, <4>1, <4>2 DEF SwitchedShows, Switched
        <5> QED BY <3>2, <3>3, <5>1
      <4>3. CASE d \notin Switched(x, r.size)
        <5>1. shows'[d] = shows[d]
          BY <2>2, <4>1, <4>3 DEF SwitchedShows
        <5> QED BY <1>1, <3>3, <5>1
      <4> QED BY <4>2, <4>3
    <3>4. ASSUME NEW q \in Pids, answers'[q].count > 0, answers'[q].size # NoSize
          PROVE  Reported(q)
      <4>1. CASE answers[q].count > 0 /\ \E d \in Switched(x, r.size) : owner[d] = q
        <5>1. answers'[q] = [answers[q] EXCEPT !.size = r.size] /\ answers[q] \in [size : AnySize, count : Nat]
          BY <2>2, <4>1 DEF SwitchedAnswers, KInv, Shaped
        <5>2. answers'[q].size = r.size
          BY <5>1
        <5>3. \E d \in relays[x] : owner[d] = q
          BY <4>1 DEF Switched
        <5> QED BY <3>2, <3>4, <5>2, <5>3
      <4>2. CASE ~(answers[q].count > 0 /\ \E d \in Switched(x, r.size) : owner[d] = q)
        <5>1. answers'[q] = answers[q]
          BY <2>2, <4>2 DEF SwitchedAnswers
        <5> QED BY <1>1, <3>4, <5>1 DEF AnswersReported
      <4> QED BY <4>1, <4>2
    <3> QED BY <3>3, <3>4
  <2> QED BY <1>a, <2>1, <2>2
<1>3. \A d \in Live' : shows'[d] # NoSize => Reported(owner'[d])
  BY <1>2, <1>a DEF Live
<1> DEFINE gone == {}
<1>4. \A d \in Conns \ gone : phase'[d] = phase[d] /\ owner'[d] = owner[d]
  BY <1>a
<1>5. /\ \A i \in DOMAIN inbox : inbox[i].conn \notin gone /\ NoConn \notin gone
      /\ \A j \in DOMAIN replies : replies[j].conn \notin gone
  OBVIOUS
<1>6. \A y \in WinePrefixes : /\ shown'[y] = shown[y] \/ shown'[y].size = NoSize
                              /\ relays'[y] \subseteq relays[y]
                              /\ \A q \in relays'[y] : owner'[q] = owner[q]
  BY <1>a
<1> HIDE DEF r, x, gone
<1> QED BY <1>2, <1>3, <1>4, <1>5, <1>6, <1>a, QuietReports

\* forgetRelay(): what is kept of the connection's process goes with the last.
LEMMA ForgetReports ==
    ASSUME IInv, KInv, ReportedInv, NEW c \in Conns, Forget(c)
    PROVE  ReportedInv'
<1> DEFINE p == owner[c]
           x == Prefix(p)
<1>a. /\ phase[c] = "finished"
      /\ phase' = [phase EXCEPT ![c] = "closed"]
      /\ owner' = [owner EXCEPT ![c] = NoPid]
      /\ shows' = [shows EXCEPT ![c] = NoSize]
      /\ answers' = IF answered[c] /\ p # NoPid /\ answers[p].count > 0
                    THEN [answers EXCEPT ![p] =
                              IF @.count = 1 THEN NoAnswer
                              ELSE [size |-> @.size, count |-> @.count - 1]]
                    ELSE answers
      /\ relays' = IF x = NoPrefix THEN relays
                   ELSE [relays EXCEPT ![x] = @ \ {c}]
      /\ shown' = shown \/ shown' = [shown EXCEPT ![x] = NotShown]
      /\ inbox' = inbox /\ replies' = replies /\ served' = served
  BY DEF Forget, effectVars
<1>q. QueuesInv
  BY DEF ReportedInv
<1>1. \A d \in Conns \ {c} : phase'[d] = phase[d] /\ owner'[d] = owner[d] /\ shows'[d] = shows[d]
  BY <1>a DEF IInv, Kept, KInv, Shaped
<1>2. /\ \A i \in DOMAIN inbox : inbox[i].conn \notin {c} /\ NoConn \notin {c}
      /\ \A j \in DOMAIN replies : replies[j].conn \notin {c}
  <2>1. phase[c] \notin {"checking", "asking"} /\ NoConn \notin Conns
    BY <1>a, ConstantsAssumption DEF ConstantsAssumption
  <2> QED BY <1>q, <2>1, Silent
<1>3. \A y \in WinePrefixes : shown'[y] = shown[y] \/ shown'[y].size = NoSize
  BY <1>a DEF KInv, Shaped, NotShown
<1>4. \A y \in WinePrefixes : relays'[y] \subseteq relays[y] \ {c}
  <2> SUFFICES ASSUME NEW y \in WinePrefixes PROVE relays'[y] \subseteq relays[y] \ {c}
    OBVIOUS
  <2>1. c \in relays[y] => y = x
    BY DEF IInv, CountersAgree
  <2>2. y # NoPrefix
    BY ConstantsAssumption DEF ConstantsAssumption
  <2> HIDE DEF x
  <2> QED BY <1>a, <2>1, <2>2 DEF IInv, Kept
<1>5. \A y \in WinePrefixes : relays[y] \subseteq Conns
  BY DEF IInv, Kept
<1>6. \A y \in WinePrefixes : /\ shown'[y] = shown[y] \/ shown'[y].size = NoSize
                              /\ relays'[y] \subseteq relays[y]
                              /\ \A r \in relays'[y] : owner'[r] = owner[r]
  BY <1>1, <1>3, <1>4, <1>5
<1>7. \A d \in Live' : shows'[d] # NoSize => Reported(owner'[d])
  <2>1. phase'[c] = "closed"
    BY <1>a DEF IInv, Kept
  <2>2. \A d \in Live' : d \in Conns \ {c} /\ d \in Live
    BY <1>1, <2>1 DEF Live, LivePhases
  <2> QED BY <1>1, <2>2 DEF ReportedInv, ShownIsServed, Reported
<1>8. \A q \in Pids : answers'[q].count > 0 /\ answers'[q].size # NoSize => Reported(q)
  <2> SUFFICES ASSUME NEW q \in Pids, answers'[q].count > 0, answers'[q].size # NoSize
               PROVE  answers[q].count > 0 /\ answers[q].size # NoSize
    BY DEF ReportedInv, AnswersReported
  <2>1. CASE answers' = answers
    BY <2>1
  <2>2. CASE /\ answers[p].count > 0
             /\ answers' = [answers EXCEPT ![p] =
                              IF answers[p].count = 1 THEN NoAnswer
                              ELSE [size |-> answers[p].size, count |-> answers[p].count - 1]]
    <3> HIDE DEF p
    <3>1. DOMAIN answers = Pids
      BY DEF KInv, Shaped
    <3> QED BY <2>2, <3>1 DEF NoAnswer
  <2> QED BY <1>a, <2>1, <2>2
<1>9. SameCalls(inbox) /\ DrawnFrom(replies', replies, [j \in DOMAIN replies |-> j])
  BY <1>a, NothingLost
<1> HIDE DEF p, x
<1>10. \A d \in Conns \ {c} : phase'[d] = phase[d] /\ owner'[d] = owner[d]
  BY <1>1
<1> QED BY <1>a, <1>2, <1>6, <1>7, <1>8, <1>9, <1>10, QuietReports

\* A step in which the screens, the queues and the record stay as they are; a
\* relay's end is no more than that.
LEMMA StillReported ==
    ASSUME IInv, KInv, ReportedInv, NEW c,
           phase' = phase \/ (c \in Conns /\ phase[c] = "relay" /\ phase' = [phase EXCEPT ![c] = "finished"]),
           UNCHANGED <<owner, shows, answers, relays, shown, inbox, replies, served>>
    PROVE  ReportedInv'
<1>q. QueuesInv
  BY DEF ReportedInv
<1> DEFINE gone == IF phase' = phase THEN {} ELSE {c}
<1>1. \A d \in Conns \ gone : phase'[d] = phase[d] /\ owner'[d] = owner[d]
  BY DEF IInv, Kept
<1>2. /\ \A i \in DOMAIN inbox : inbox[i].conn \notin gone /\ NoConn \notin gone
      /\ \A j \in DOMAIN replies : replies[j].conn \notin gone
  <2>1. CASE phase' = phase
    BY <2>1
  <2>2. CASE phase' # phase
    <3>1. phase[c] \notin {"checking", "asking"} /\ NoConn \notin Conns
      BY <2>2, ConstantsAssumption DEF ConstantsAssumption
    <3> QED BY <1>q, <3>1, Silent
  <2> QED BY <2>1, <2>2
<1>3. /\ \A y \in WinePrefixes : /\ shown'[y] = shown[y] \/ shown'[y].size = NoSize
                                 /\ relays'[y] \subseteq relays[y]
                                 /\ \A r \in relays'[y] : owner'[r] = owner[r]
      /\ inbox' = inbox /\ served' = served
  OBVIOUS
<1>4. Live' = Live
  BY DEF IInv, Kept, Live, LivePhases
<1>5. /\ \A d \in Live' : shows'[d] # NoSize => Reported(owner'[d])
      /\ \A q \in Pids : answers'[q].count > 0 /\ answers'[q].size # NoSize => Reported(q)
  BY <1>4 DEF ReportedInv, ShownIsServed, Reported, AnswersReported
<1>6. SameCalls(inbox) /\ DrawnFrom(replies', replies, [j \in DOMAIN replies |-> j])
  <2>1. replies' = replies
    OBVIOUS
  <2> QED BY <2>1, NothingLost
<1> HIDE DEF gone
<1> QED BY <1>1, <1>2, <1>3, <1>5, <1>6, QuietReports

\* decideClient() and checkPrefix(), for a connection of which nothing is on its way.
LEMMA DecideReports ==
    ASSUME IInv, KInv, ReportedInv, NEW c \in Conns, c \notin Live, NEW p \in Pids, owner'[c] = p,
           NEW found \in Scanned(PrefixOf[p]), Decide(c, p, found) \/ CheckPrefix(c, p),
           \A d \in Conns \ {c} : owner'[d] = owner[d],
           \A i \in DOMAIN inbox : inbox[i].conn # c,
           NEW f, DrawnFrom(replies', replies, f), \A j \in DOMAIN replies' : replies'[j].conn # c,
           UNCHANGED <<shows, answers, relays, shown, served>>
    PROVE  ReportedInv'
<1>1. \/ phase' = [phase EXCEPT ![c] = "waiting"] /\ inbox' = inbox
      \/ /\ phase' = [phase EXCEPT ![c] = "asking"] \/ phase' = [phase EXCEPT ![c] = "checking"]
         /\ \E m \in Calls : /\ m.kind \in {"prefix", "policy"} /\ m.conn = c
                             /\ m.pid = p /\ inbox' = Append(inbox, m)
  <2>1. CASE Decide(c, p, found)
    <3>1. \/ phase' = [phase EXCEPT ![c] = "waiting"] /\ inbox' = inbox
          \/ /\ phase' = [phase EXCEPT ![c] = "asking"]
             /\ \E prog : /\ Call("policy", c, NoBatch, NoPid, p, prog) \in Calls
                          /\ inbox' = Append(inbox, Call("policy", c, NoBatch, NoPid, p, prog))
      BY <2>1, DecideShaped
    <3>2. \A prog : LET m == Call("policy", c, NoBatch, NoPid, p, prog)
                    IN  m.kind = "policy" /\ m.conn = c /\ m.pid = p
      BY DEF Call
    <3> QED BY <3>1, <3>2
  <2>2. CASE CheckPrefix(c, p)
    <3> DEFINE m == Call("prefix", c, NoBatch, NoPid, p, NoProgram)
    <3>1. phase' = [phase EXCEPT ![c] = "checking"] /\ m \in Calls /\ inbox' = Append(inbox, m)
      BY <2>2, CheckPrefixShaped
    <3>2. m.kind = "prefix" /\ m.conn = c /\ m.pid = p
      BY DEF Call
    <3> HIDE DEF m
    <3> QED BY <3>1, <3>2
  <2> QED BY <2>1, <2>2
<1>2. /\ phase'[c] \in PendingPhases
      /\ inbox' = inbox \/ phase'[c] \in {"checking", "asking"}
      /\ \A d \in Conns \ {c} : phase'[d] = phase[d]
  BY <1>1 DEF IInv, Kept, PendingPhases
<1>3. \/ inbox' = inbox
      \/ /\ phase'[c] \in {"checking", "asking"}
         /\ \E m \in Calls : /\ m.kind \in {"prefix", "policy"} /\ m.conn = c
                             /\ m.pid = owner'[c] /\ inbox' = Append(inbox, m)
  BY <1>1, <1>2
<1> QED BY <1>2, <1>3, DecisionReports

LEMMA ReportedSteps == RecordHoldsAll /\ IInv /\ KInv /\ ReportedInv /\ [Next]_vars => ReportedInv'
<1> SUFFICES ASSUME RecordHoldsAll, IInv, KInv, ReportedInv, [Next]_vars PROVE ReportedInv'
  OBVIOUS
<1>q. QueuesInv
  BY DEF ReportedInv
<1>i. /\ inbox \in Seq(Calls) /\ replies \in Seq(AnyReply)
      /\ NoSize \in AnySize /\ NoPid \in AnyPid /\ TRUE \in BOOLEAN /\ FALSE \in BOOLEAN
      /\ \A c \in Conns : owner[c] \in AnyPid
      /\ \A c \in Conns : phase[c] \in PendingPhases => owner[c] \in Pids
      /\ \A p \in Pids : p \in AnyPid /\ answers[p].size \in AnySize
  BY DEF KInv, Shaped, AnySize, AnyPid, IInv, Kept, PendingKnown, Pending
<1>r. replies # <<>> => Tail(replies) \in Seq(AnyReply) /\ Head(replies) \in AnyReply
  BY ReplyArrives
<1>n. SameCalls(inbox) /\ DrawnFrom(replies, replies, [j \in DOMAIN replies |-> j])
  BY NothingLost
<1>l. \A c \in Conns : c \notin Live <=> phase[c] \notin {"relay", "finished"}
  BY DEF Live, LivePhases
<1>s. \A c \in Conns : phase[c] \notin {"checking", "asking"} =>
        /\ \A i \in DOMAIN inbox : inbox[i].conn # c
        /\ \A j \in DOMAIN replies : replies[j].conn # c
  BY <1>q, Silent
<1>1. ASSUME NEW c \in Conns, AcceptUnidentified(c) PROVE ReportedInv'
  <2>1. /\ RelayClient(c, NoPid, NoSize, FALSE, pending + 1, inbox)
        /\ UNCHANGED <<program, effectVars>> /\ replies' = replies /\ phase[c] = "closed"
    BY <1>1 DEF AcceptUnidentified
  <2>2. /\ c \notin Live
        /\ \A i \in DOMAIN inbox : inbox[i].conn # c
        /\ \A j \in DOMAIN replies' : replies'[j].conn # c
    BY <1>l, <1>s, <2>1
  <2>3. DrawnFrom(replies', replies, [j \in DOMAIN replies |-> j]) /\ replies' \in Seq(AnyReply)
    BY <1>i, <1>n, <2>1
  <2> QED BY <1>i, <1>n, <2>1, <2>2, <2>3, RelayClientReports
<1>2. ASSUME NEW c \in Conns, NEW p \in Pids, AcceptKnown(c, p) PROVE ReportedInv'
  <2>1. /\ RelayClient(c, p, answers[p].size, TRUE, pending + 1, inbox) /\ answers[p].count > 0
        /\ UNCHANGED <<program, effectVars>> /\ replies' = replies /\ phase[c] = "closed"
    BY <1>2 DEF AcceptKnown
  <2>2. /\ c \notin Live
        /\ \A i \in DOMAIN inbox : inbox[i].conn # c
        /\ \A j \in DOMAIN replies' : replies'[j].conn # c
    BY <1>l, <1>s, <2>1
  <2>3. DrawnFrom(replies', replies, [j \in DOMAIN replies |-> j]) /\ replies' \in Seq(AnyReply)
    BY <1>i, <1>n, <2>1
  <2>4. answers[p].size # NoSize => p \in Pids /\ Reported(p)
    BY <2>1 DEF ReportedInv, AnswersReported
  <2> QED BY <1>i, <1>n, <2>1, <2>2, <2>3, <2>4, RelayClientReports
<1>3. ASSUME NEW c \in Conns, NEW p \in Pids, AcceptUnknown(c, p) PROVE ReportedInv'
  <2>1. /\ phase[c] = "closed" /\ owner' = [owner EXCEPT ![c] = p] /\ replies' = replies
        /\ UNCHANGED <<shows, answers, relays, shown, served>>
    BY <1>3 DEF AcceptUnknown, relayVars, effectVars
  <2>2. PICK found \in Scanned(PrefixOf[p]) : Decide(c, p, found) \/ CheckPrefix(c, p)
    BY <1>3 DEF AcceptUnknown
  <2>3. /\ c \notin Live
        /\ \A i \in DOMAIN inbox : inbox[i].conn # c
        /\ \A j \in DOMAIN replies' : replies'[j].conn # c
    BY <1>l, <1>s, <2>1
  <2>4. owner'[c] = p /\ \A d \in Conns \ {c} : owner'[d] = owner[d]
    BY <2>1 DEF IInv, Kept
  <2>5. DrawnFrom(replies', replies, [j \in DOMAIN replies |-> j])
    BY <1>n, <2>1
  <2> QED BY <2>1, <2>2, <2>3, <2>4, <2>5, DecideReports
<1>4. ASSUME NEW c \in Conns, Retry(c) PROVE ReportedInv'
  <2>1. /\ phase[c] = "waiting" /\ owner' = owner /\ replies' = replies
        /\ UNCHANGED <<shows, answers, relays, shown, served>>
    BY <1>4 DEF Retry, relayVars, effectVars
  <2>2. PICK found \in Scanned(PrefixOf[owner[c]]) : Decide(c, owner[c], found)
    BY <1>4 DEF Retry
  <2>3. /\ c \notin Live /\ owner[c] \in Pids
        /\ \A i \in DOMAIN inbox : inbox[i].conn # c
        /\ \A j \in DOMAIN replies' : replies'[j].conn # c
    BY <1>i, <1>l, <1>s, <2>1 DEF PendingPhases
  <2>4. owner'[c] = owner[c] /\ \A d \in Conns \ {c} : owner'[d] = owner[d]
    BY <2>1
  <2>5. DrawnFrom(replies', replies, [j \in DOMAIN replies |-> j])
    BY <1>n, <2>1
  <2> QED BY <2>1, <2>2, <2>3, <2>4, <2>5, DecideReports
<1>5. ASSUME NEW c \in Conns, PrefixReply(c) PROVE ReportedInv'
  <2>1. /\ phase[c] = "checking" /\ replies # <<>> /\ Head(replies).conn = c /\ replies' = Tail(replies)
        /\ UNCHANGED effectVars
    BY <1>5 DEF PrefixReply, Arrives
  <2>2. /\ \A i \in DOMAIN inbox : inbox[i].conn # c
        /\ \A j \in DOMAIN replies' : replies'[j].conn # c
        /\ \E f : DrawnFrom(Tail(replies), replies, f)
    BY <1>q, <2>1, ReplyTaken
  <2>3. PICK f : DrawnFrom(replies', replies, f)
    BY <2>1, <2>2
  <2>4. c \notin Live /\ owner[c] \in Pids /\ replies' \in Seq(AnyReply)
    BY <1>i, <1>l, <1>r, <2>1 DEF PendingPhases
  <2>5. CASE RelayClient(c, owner[c], NoSize, TRUE, pending, inbox) /\ UNCHANGED program
    <3>1. UNCHANGED <<program, effectVars>>
      BY <2>1, <2>5
    <3> QED BY <1>i, <1>n, <2>2, <2>3, <2>4, <2>5, <3>1, RelayClientReports
  <2>6. CASE /\ \E found \in Scanned(PrefixOf[owner[c]]) : Decide(c, owner[c], found)
             /\ UNCHANGED <<owner, relayVars, answers, relays, shown>>
    <3>1. PICK found \in Scanned(PrefixOf[owner[c]]) : Decide(c, owner[c], found)
      BY <2>6
    <3>2. UNCHANGED <<shows, answers, relays, shown, served>> /\ owner' = owner
      BY <2>1, <2>6 DEF relayVars, effectVars
    <3>3. owner'[c] = owner[c] /\ \A d \in Conns \ {c} : owner'[d] = owner[d]
      BY <3>2
    <3> QED BY <2>2, <2>3, <2>4, <3>1, <3>2, <3>3, DecideReports
  <2> QED BY <1>5, <2>5, <2>6 DEF PrefixReply
<1>6. ASSUME NEW c \in Conns, PolicyReply(c) PROVE ReportedInv'
  <2>1. /\ phase[c] = "asking" /\ replies # <<>> /\ Head(replies).conn = c /\ Head(replies).kind = "policy"
        /\ replies' = Tail(replies)
        /\ UNCHANGED <<program, effectVars>>
    BY <1>6 DEF PolicyReply, Arrives
  <2>2. /\ \A i \in DOMAIN inbox : inbox[i].conn # c
        /\ \A j \in DOMAIN replies' : replies'[j].conn # c
        /\ \E f : DrawnFrom(Tail(replies), replies, f)
        /\ 1 \in DOMAIN replies /\ replies[1] = Head(replies)
    BY <1>q, <2>1, ReplyTaken
  <2>3. PICK f : DrawnFrom(replies', replies, f)
    BY <2>1, <2>2
  <2>4. c \notin Live /\ owner[c] \in Pids /\ replies' \in Seq(AnyReply) /\ c # NoConn
    BY <1>i, <1>l, <1>r, <2>1, ConstantsAssumption DEF PendingPhases, ConstantsAssumption
  <2> DEFINE size == IF Head(replies).value = "retry" THEN NoSize ELSE Head(replies).value
  <2>5. size \in AnySize
    <3>1. Head(replies).value \in AnySize \cup {"retry"}
      BY <1>r, <2>1 DEF AnyReply, Replies
    <3> QED BY <1>i, <3>1
  <2>6. size # NoSize => owner[c] \in Pids /\ Reported(owner[c])
    <3>1. size # NoSize => Head(replies).value \in Sizes
      BY <2>5 DEF AnySize
    <3> HIDE DEF size
    <3> QED BY <1>q, <2>1, <2>2, <2>4, <3>1 DEF QueuesInv, RepliesServed, Reported
  <2>7. CASE RelayClient(c, owner[c], size, TRUE, pending, inbox)
    <3> HIDE DEF size
    <3>1. owner[c] \in AnyPid
      BY <1>i
    <3> QED BY <1>i, <1>n, <2>1, <2>2, <2>3, <2>4, <2>5, <2>6, <2>7, <3>1, RelayClientReports
  <2>8. CASE /\ phase' = [phase EXCEPT ![c] = "waiting"]
             /\ UNCHANGED <<owner, relayVars, answers, relays, shown, inbox>>
    <3>1. /\ phase'[c] \in PendingPhases /\ owner'[c] \in Pids
          /\ \A d \in Conns \ {c} : phase'[d] = phase[d] /\ owner'[d] = owner[d]
      BY <2>4, <2>8 DEF IInv, Kept, PendingPhases
    <3>2. UNCHANGED <<shows, answers, relays, shown, served>> /\ inbox' = inbox
      BY <2>1, <2>8 DEF relayVars, effectVars
    <3> QED BY <2>2, <2>3, <2>4, <3>1, <3>2, DecisionReports
  <2> QED BY <1>6, <2>7, <2>8 DEF PolicyReply
<1>7. ASSUME NEW c \in Conns, CallFails(c) PROVE ReportedInv'
  <2> DEFINE places == {i \in DOMAIN replies : replies[i].conn = c}
             calls == WithoutConn(c)
  <2>1. /\ phase[c] \in {"checking", "asking"} /\ replies' = Dropped(places)
        /\ RelayClient(c, owner[c], NoSize, FALSE, pending, calls)
        /\ UNCHANGED <<program, effectVars>>
    BY <1>7 DEF CallFails
  <2>2. /\ calls \in Seq(Calls) /\ SameCalls(calls)
        /\ \A i \in DOMAIN calls : calls[i].conn # c
        /\ Dropped(places) \in Seq(AnyReply)
        /\ \E f : DrawnFrom(Dropped(places), replies, f)
        /\ \A j \in DOMAIN Dropped(places) : Dropped(places)[j].conn # c
    BY <1>q, CallForgotten
  <2> HIDE DEF places, calls
  <2>3. PICK f : DrawnFrom(replies', replies, f)
    BY <2>1, <2>2
  <2>4. /\ c \notin Live /\ owner[c] \in AnyPid /\ replies' \in Seq(AnyReply)
        /\ \A j \in DOMAIN replies' : replies'[j].conn # c
    BY <1>i, <1>l, <2>1, <2>2
  <2> QED BY <1>i, <2>1, <2>2, <2>3, <2>4, RelayClientReports
<1>8. ASSUME NEW c \in Conns, TurnsOpaque(c) PROVE ReportedInv'
  BY <1>8, StillReported DEF TurnsOpaque, prefixVars, effectVars
<1>9. ASSUME NEW c \in Conns, Finish(c) PROVE ReportedInv'
  <2>1. /\ phase[c] = "relay" /\ phase' = [phase EXCEPT ![c] = "finished"]
        /\ UNCHANGED <<owner, shows, answers, relays, shown, inbox, replies, served>>
    BY <1>9 DEF Finish, relayVars, prefixVars, effectVars
  <2> QED BY <2>1, StillReported
<1>10. ASSUME NEW c \in Conns, Forget(c) PROVE ReportedInv'
  BY <1>10, ForgetReports
<1>11. ASSUME NEW b \in Batches, NEW p \in Pids, ShownReply(b, p) PROVE ReportedInv'
  <2>1. Proceed(b, p) /\ inbox' = inbox /\ replies # <<>> /\ replies' = Tail(replies)
    BY <1>11 DEF ShownReply
  <2>2. \E f : DrawnFrom(Tail(replies), replies, f)
    BY <1>i, <2>1, TailDrawn
  <2>3. PICK f : DrawnFrom(replies', replies, f)
    BY <2>1, <2>2
  <2> QED BY <1>n, <2>1, <2>3, ProceedReports
<1>12. ASSUME NEW b \in Batches, NEW p \in Pids, ShownLapses(b, p) PROVE ReportedInv'
  <2> DEFINE places == {i \in DOMAIN replies : replies[i].batch = b /\ replies[i].pid = p}
             calls == WithoutRound(b, p)
  <2>1. replies' = Dropped(places) /\ inbox' = calls /\ Proceed(b, p)
    BY <1>12 DEF ShownLapses
  <2>2. SameCalls(calls)
    BY UnawaitedByRound DEF SameCalls
  <2>3. places \in SUBSET DOMAIN replies
    OBVIOUS
  <2> HIDE DEF calls, places
  <2>4. \E f : DrawnFrom(Dropped(places), replies, f)
    BY <1>i, <2>3, DroppedDrawn
  <2>5. PICK f : DrawnFrom(replies', replies, f)
    BY <2>1, <2>4
  <2> QED BY <2>1, <2>2, <2>5, ProceedReports
<1>13. CASE EffectAnswers
  BY <1>13, EffectReports
<1>14. CASE SaveSettings \/ ModesListed \/ UNCHANGED vars
  <2>1. UNCHANGED <<phase, owner, shows, answers, relays, shown, inbox, replies, served>>
    BY <1>14 DEF SaveSettings, ModesListed, vars, relayVars, prefixVars, effectVars
  <2> QED BY <2>1, StillReported
<1> QED
  BY <1>1, <1>2, <1>3, <1>4, <1>5, <1>6, <1>7, <1>8, <1>9, <1>10, <1>11, <1>12, <1>13, <1>14 DEF Next

LEMMA InitReported == Init => ReportedInv
<1> SUFFICES ASSUME Init PROVE ReportedInv
  OBVIOUS
<1>1. inbox = <<>> /\ replies = <<>> /\ served = <<>>
  BY DEF Init
<1>2. DOMAIN inbox = {} /\ DOMAIN replies = {} /\ DOMAIN served = {}
  BY <1>1
<1>3. QueuesInv
  BY <1>2 DEF QueuesInv, Awaited, Lone, CallsKnown, RepliesServed, GamesFirst, RecordedOnce
<1>4. ScreensReported /\ AnswersReported /\ ShownIsServed
  BY DEF Init, ScreensReported, AnswersReported, ShownIsServed, NotShown, NoAnswer, Live, LivePhases
<1> QED BY <1>3, <1>4 DEF ReportedInv

\* While the effect's record has room for every process, no connection shows a
\* screen of its own without the effect having its process on record, or a call
\* that records it on its way: however answers, timeouts and new connections
\* interleave, the windows of a process shown a smaller screen are presented and
\* not asked to resize (connection.cpp: relayClient(), showPrefix(),
\* switchPrefix(); x11proxypolicy.cpp: upscaleRecordServed()).
THEOREM ShownIsOnRecord == RecordHoldsAll /\ Spec => []ShownIsServed
<1> SUFFICES ASSUME RecordHoldsAll PROVE Spec => []ShownIsServed
  OBVIOUS
<1>1. Init => IInv /\ KInv /\ ReportedInv
  BY InitIInv, InitKInv, InitReported
<1>2. IInv /\ KInv /\ ReportedInv /\ [Next]_vars => (IInv /\ KInv /\ ReportedInv)'
  BY Invariance, KSteps, ReportedSteps
<1>3. ReportedInv => ShownIsServed
  BY DEF ReportedInv
<1> QED BY <1>1, <1>2, <1>3, PTL DEF Spec
=============================================================================
