--------------------------- MODULE ProxyLifeProofs ---------------------------
(***************************************************************************)
(* Theorems of ProxyLife, for any relays, resource ranges, time of grace   *)
(* and number of connections and signals.                                  *)
(***************************************************************************)
EXTENDS ProxyLife, TLAPS

\* A relay is known by its registration: no two have one, and none has the
\* zero that an unregistered range carries.
Registered ==
    /\ \A r \in Relays : relays[r] # NoRelay => relays[r].base \in Bases /\ relays[r].registration \in 1..generation
    /\ \A r, other \in Relays :
           relays[r] # NoRelay /\ relays[other] # NoRelay /\ r # other
               => relays[r].registration # relays[other].registration

\* A range that is registered is that of a relay which is still there; one the
\* server serves is registered.
Owned ==
    /\ \A b \in Bases :
           registry[b] # NoClient =>
               \E r \in Relays : relays[r] # NoRelay /\ relays[r].base = b
                                 /\ registry[b] = [relay |-> r, generation |-> relays[r].registration]
    /\ \A r \in Relays :
           relays[r].served =>
               relays[r] # NoRelay
               /\ registry[relays[r].base] = [relay |-> r, generation |-> relays[r].registration]

\* Without the backend there is no connection.
NothingWithout ==
    ~Serving => /\ \A r \in Relays : relays[r] = NoRelay
                /\ \A b \in Bases : registry[b] = NoClient

\* The time a backend that ignores being asked has had is what its timer lost.
TimeIsCounted ==
    backend = "deaf" => IF killTimer = -1 THEN waited = 0 ELSE waited + killTimer = Grace

LifeInv == LifeTypeOK /\ Registered /\ Owned /\ NothingWithout /\ TimeIsCounted

\* What the proofs need to know of the bounds.
LEMMA Bounds == Grace \in Nat \ {0} /\ MaxConnections \in Nat /\ MaxSignals \in Nat
BY LifeAssumption

LEMMA LifeStarts == LifeInit => LifeInv
<1> SUFFICES ASSUME LifeInit PROVE LifeInv
  OBVIOUS
<1> USE Bounds
<1>1. /\ stage \in {"stock", "failed", "running"}
      /\ backend \in {"none", "running", "deaf", "ended"}
      /\ killTimer = -1 /\ waited = 0 /\ signals = 0 /\ generation = 0
      /\ relays = [r \in Relays |-> NoRelay] /\ registry = [b \in Bases |-> NoClient]
      /\ routing = TRUE /\ warned = FALSE
  <2>1. stage \in {"stock", "failed", "running"}
    BY DEF LifeInit
  <2>2. backend \in {"none", "running", "deaf", "ended"}
    BY DEF LifeInit
  <2> QED
    BY <2>1, <2>2 DEF LifeInit
<1>2. LifeTypeOK
  <2>1. relays \in [Relays -> [base : Bases \cup {NoOne}, registration : Nat, served : BOOLEAN]]
    BY <1>1 DEF NoRelay
  <2>2. registry \in [Bases -> [relay : Relays \cup {NoOne}, generation : Nat]]
    BY <1>1 DEF NoClient
  <2>3. killTimer \in -1..Grace /\ waited \in 0..(Grace + 1) /\ signals \in 0..MaxSignals
        /\ generation \in 0..MaxConnections
    BY <1>1
  <2> QED
    BY <1>1, <2>1, <2>2, <2>3 DEF LifeTypeOK
<1>3. Registered /\ Owned
  BY <1>1 DEF Registered, Owned, NoRelay, NoClient
<1>4. NothingWithout /\ TimeIsCounted
  BY <1>1 DEF NothingWithout, TimeIsCounted
<1> QED
  BY <1>2, <1>3, <1>4 DEF LifeInv

\* What has nothing to do with connections leaves them alone.
LEMMA ConnectionsKept ==
    ASSUME LifeInv, UNCHANGED <<relays, registry, generation, stage>>
    PROVE  Registered' /\ Owned' /\ NothingWithout'
BY DEF LifeInv, Registered, Owned, NothingWithout, Serving

LEMMA ConnectKeeps ==
    ASSUME LifeInv, NEW r \in Relays, NEW b \in Bases, Connect(r, b)
    PROVE  LifeInv'
<1> USE Bounds
<1> DEFINE New == [base |-> b, registration |-> generation + 1, served |-> TRUE]
<1>1. /\ Serving /\ relays[r] = NoRelay /\ generation < MaxConnections
      /\ generation' = generation + 1
      /\ registry' = [registry EXCEPT ![b] = [relay |-> r, generation |-> generation + 1]]
      /\ relays' = [relays EXCEPT ![r] = New]
      /\ UNCHANGED <<stage, startup, backend, killTimer, waited, signals, routing, warned>>
      /\ \A other \in Relays : relays[other].base = b => ~relays[other].served
  BY DEF Connect
<1>2. LifeTypeOK'
  BY <1>1 DEF LifeInv, LifeTypeOK
<1>3. /\ relays'[r] = New /\ New # NoRelay
      /\ \A other \in Relays : other # r => relays'[other] = relays[other]
      /\ registry'[b] = [relay |-> r, generation |-> generation + 1]
      /\ \A other \in Bases : other # b => registry'[other] = registry[other]
  BY <1>1 DEF LifeInv, LifeTypeOK, NoRelay
<1>4. Registered'
  <2>1. \A other \in Relays : relays'[other] # NoRelay =>
            relays'[other].base \in Bases /\ relays'[other].registration \in 1..(generation + 1)
    BY <1>3 DEF LifeInv, LifeTypeOK, Registered
  <2>2. \A x, y \in Relays : relays'[x] # NoRelay /\ relays'[y] # NoRelay /\ x # y
            => relays'[x].registration # relays'[y].registration
    BY <1>3 DEF LifeInv, LifeTypeOK, Registered
  <2> QED
    BY <1>1, <2>1, <2>2 DEF Registered
<1>5. Owned'
  <2>1. ASSUME NEW c \in Bases, registry'[c] # NoClient
        PROVE  \E x \in Relays : relays'[x] # NoRelay /\ relays'[x].base = c
                   /\ registry'[c] = [relay |-> x, generation |-> relays'[x].registration]
    <3>1. CASE c = b
      BY <3>1, <1>3
    <3>2. CASE c # b
      <4>1. registry'[c] = registry[c] /\ registry[c] # NoClient
        BY <3>2, <2>1, <1>3
      <4>2. PICK x \in Relays : relays[x] # NoRelay /\ relays[x].base = c
                     /\ registry[c] = [relay |-> x, generation |-> relays[x].registration]
        BY <4>1 DEF LifeInv, Owned
      <4>3. relays'[x] = relays[x]
        BY <4>2, <1>1, <1>3
      <4> QED
        BY <4>1, <4>2, <4>3
    <3> QED
      BY <3>1, <3>2
  <2>2. ASSUME NEW x \in Relays, relays'[x].served
        PROVE  relays'[x] # NoRelay
               /\ registry'[relays'[x].base] = [relay |-> x, generation |-> relays'[x].registration]
    <3>1. CASE x = r
      BY <3>1, <1>3
    <3>2. CASE x # r
      <4>1. relays'[x] = relays[x] /\ relays[x] # NoRelay /\ relays[x].base \in Bases
        BY <3>2, <2>2, <1>3 DEF LifeInv, Owned, Registered
      <4>2. relays[x].base # b
        BY <4>1, <2>2, <1>1
      <4> QED
        BY <4>1, <4>2, <2>2, <1>3 DEF LifeInv, Owned
    <3> QED
      BY <3>1, <3>2
  <2> QED
    BY <2>1, <2>2 DEF Owned
<1>6. NothingWithout' /\ TimeIsCounted'
  BY <1>1 DEF LifeInv, NothingWithout, TimeIsCounted, Serving
<1> QED
  BY <1>2, <1>4, <1>5, <1>6 DEF LifeInv

LEMMA ServerClosesKeeps ==
    ASSUME LifeInv, NEW r \in Relays, ServerCloses(r)
    PROVE  LifeInv'
<1> USE Bounds
<1>1. /\ relays[r] # NoRelay /\ Serving
      /\ relays' = [relays EXCEPT ![r] = [relays[r] EXCEPT !.served = FALSE]]
      /\ UNCHANGED <<stage, startup, backend, killTimer, waited, signals, registry, generation, routing, warned>>
  BY DEF ServerCloses, LifeInv, Owned, NothingWithout, NoRelay
<1>2. LifeTypeOK'
  BY <1>1 DEF LifeInv, LifeTypeOK
<1>3. /\ \A x \in Relays : relays'[x].base = relays[x].base /\ relays'[x].registration = relays[x].registration
                           /\ (relays'[x].served => relays[x].served)
      /\ \A x \in Relays : relays'[x] # NoRelay <=> relays[x] # NoRelay
  <2>1. relays[r].registration # 0
    BY <1>1 DEF LifeInv, Registered, LifeTypeOK
  <2>2. relays'[r] # NoRelay
    BY <2>1, <1>1 DEF LifeInv, LifeTypeOK, NoRelay
  <2> QED
    BY <2>2, <1>1 DEF LifeInv, LifeTypeOK
<1>4. Registered' /\ Owned' /\ NothingWithout' /\ TimeIsCounted'
  BY <1>1, <1>3 DEF LifeInv, Registered, Owned, NothingWithout, TimeIsCounted, Serving
<1> QED
  BY <1>2, <1>4 DEF LifeInv

LEMMA DrainedKeeps ==
    ASSUME LifeInv, NEW r \in Relays, Drained(r)
    PROVE  LifeInv'
<1> USE Bounds
<1> DEFINE b == relays[r].base
<1>1. /\ Serving /\ relays[r] # NoRelay /\ ~relays[r].served /\ b \in Bases
      /\ relays' = [relays EXCEPT ![r] = NoRelay]
      /\ registry' = IF registry[b].generation = relays[r].registration
                     THEN [registry EXCEPT ![b] = NoClient] ELSE registry
      /\ UNCHANGED <<stage, startup, backend, killTimer, waited, signals, generation, routing, warned>>
  BY DEF Drained, RemoveOwn, LifeInv, Registered
<1>2. LifeTypeOK'
  <2>1. relays' \in [Relays -> [base : Bases \cup {NoOne}, registration : Nat, served : BOOLEAN]]
    BY <1>1 DEF LifeInv, LifeTypeOK, NoRelay
  <2>2. registry' \in [Bases -> [relay : Relays \cup {NoOne}, generation : Nat]]
    BY <1>1 DEF LifeInv, LifeTypeOK, NoClient
  <2> QED
    BY <1>1, <2>1, <2>2 DEF LifeInv, LifeTypeOK
<1>3. /\ relays'[r] = NoRelay
      /\ \A x \in Relays : x # r => relays'[x] = relays[x]
      /\ \A c \in Bases : registry'[c] \in {registry[c], NoClient}
  BY <1>1 DEF LifeInv, LifeTypeOK
<1>4. Registered'
  BY <1>1, <1>3 DEF LifeInv, Registered
<1>5. ASSUME NEW c \in Bases, registry'[c] # NoClient
      PROVE  \E x \in Relays : relays'[x] # NoRelay /\ relays'[x].base = c
                 /\ registry'[c] = [relay |-> x, generation |-> relays'[x].registration]
  <2>1. registry'[c] = registry[c] /\ registry[c] # NoClient
    BY <1>3, <1>5
  <2>2. PICK x \in Relays : relays[x] # NoRelay /\ relays[x].base = c
                 /\ registry[c] = [relay |-> x, generation |-> relays[x].registration]
    BY <2>1 DEF LifeInv, Owned
  <2>3. x # r
    BY <2>1, <2>2, <1>1, <1>5 DEF LifeInv, LifeTypeOK
  <2> QED
    BY <2>1, <2>2, <2>3, <1>3
<1>6. ASSUME NEW x \in Relays, relays'[x].served
      PROVE  relays'[x] # NoRelay
             /\ registry'[relays'[x].base] = [relay |-> x, generation |-> relays'[x].registration]
  <2>1. x # r /\ relays'[x] = relays[x]
    BY <1>3, <1>6 DEF NoRelay
  <2>2. relays[x] # NoRelay /\ relays[x].base \in Bases
        /\ registry[relays[x].base] = [relay |-> x, generation |-> relays[x].registration]
    BY <2>1, <1>6 DEF LifeInv, Owned, Registered
  <2>3. relays[x].registration # relays[r].registration
    BY <2>1, <2>2, <1>1 DEF LifeInv, Registered
  <2>4. registry'[relays[x].base] = registry[relays[x].base]
    BY <2>2, <2>3, <1>1 DEF LifeInv, LifeTypeOK
  <2> QED
    BY <2>1, <2>2, <2>4
<1>7. NothingWithout' /\ TimeIsCounted'
  BY <1>1 DEF LifeInv, NothingWithout, TimeIsCounted, Serving
<1> QED
  BY <1>2, <1>4, <1>5, <1>6, <1>7 DEF LifeInv, Owned

LEMMA FinishedKeeps ==
    ASSUME LifeInv, Finished
    PROVE  LifeInv'
<1> USE Bounds
<1>1. /\ stage' = "ended" /\ killTimer' = -1 /\ backend = "ended"
      /\ relays' = [r \in Relays |-> NoRelay]
      /\ UNCHANGED <<startup, backend, waited, signals, generation, routing, warned>>
  BY DEF Finished
<1>2. registry' = [b \in Bases |-> NoClient]
  <2>1. ASSUME NEW b \in Bases
        PROVE  (IF \E r \in Relays : relays[r].base = b /\ relays[r].registration = registry[b].generation
                THEN NoClient ELSE registry[b]) = NoClient
    <3>1. CASE registry[b] = NoClient
      BY <3>1
    <3>2. CASE registry[b] # NoClient
      <4>1. PICK r \in Relays : relays[r].base = b
                     /\ registry[b] = [relay |-> r, generation |-> relays[r].registration]
        BY <3>2 DEF LifeInv, Owned
      <4>2. registry[b].generation = relays[r].registration
        BY <4>1
      <4> QED
        BY <4>1, <4>2
    <3> QED
      BY <3>1, <3>2
  <2> QED
    BY <2>1 DEF Finished
<1>3. LifeTypeOK'
  BY <1>1, <1>2 DEF LifeInv, LifeTypeOK, NoRelay, NoClient
<1>4. Registered' /\ Owned' /\ NothingWithout'
  BY <1>1, <1>2 DEF Registered, Owned, NothingWithout, NoRelay, NoClient
<1>5. TimeIsCounted'
  BY <1>1 DEF TimeIsCounted
<1> QED
  BY <1>3, <1>4, <1>5 DEF LifeInv

\* One step per action; those that are not about connections change the
\* timers alone.
LEMMA LifeStep == LifeInv /\ [LifeNext]_lifeVars => LifeInv'
<1> SUFFICES ASSUME LifeInv, [LifeNext]_lifeVars PROVE LifeInv'
  OBVIOUS
<1> USE Bounds
<1>1. CASE \E r \in Relays, b \in Bases : Connect(r, b)
  BY <1>1, ConnectKeeps
<1>2. CASE \E r \in Relays : ServerCloses(r) \/ Drained(r)
  BY <1>2, ServerClosesKeeps, DrainedKeeps
<1>3. CASE Finished
  BY <1>3, FinishedKeeps
<1>4. CASE Signal
  <2>1. LifeTypeOK'
    BY <1>4 DEF Signal, Serving, LifeInv, LifeTypeOK
  <2>2. TimeIsCounted'
    <3>1. CASE killTimer = -1
      <4>1. killTimer' = Grace /\ waited' = waited /\ (backend' = "deaf" => backend = "deaf")
        BY <1>4, <3>1 DEF Signal
      <4>2. backend = "deaf" => waited = 0
        BY <3>1 DEF LifeInv, TimeIsCounted
      <4> QED
        BY <4>1, <4>2 DEF TimeIsCounted
    <3>2. CASE killTimer # -1
      BY <1>4, <3>2 DEF Signal, LifeInv, TimeIsCounted
    <3> QED
      BY <3>1, <3>2
  <2> QED
    BY <1>4, <2>1, <2>2, ConnectionsKept DEF Signal, LifeInv
<1>5. CASE Tick
  <2>1. LifeTypeOK'
    BY <1>5 DEF Tick, Serving, LifeInv, LifeTypeOK
  <2>2. TimeIsCounted'
    BY <1>5 DEF Tick, LifeInv, LifeTypeOK, TimeIsCounted
  <2> QED
    BY <1>5, <2>1, <2>2, ConnectionsKept DEF Tick, LifeInv
<1>6. CASE Kill
  <2>1. LifeTypeOK' /\ TimeIsCounted'
    BY <1>6 DEF Kill, Serving, LifeInv, LifeTypeOK, TimeIsCounted
  <2> QED
    BY <1>6, <2>1, ConnectionsKept DEF Kill, LifeInv
<1>7. CASE SaveRouting \/ Check
  <2>1. UNCHANGED <<stage, backend, killTimer, waited, relays, registry, generation>>
        /\ signals' \in 0..MaxSignals
    BY <1>7 DEF SaveRouting, Check, LifeInv, LifeTypeOK
  <2>2. routing' \in BOOLEAN /\ warned' \in BOOLEAN
    BY <1>7, Zenon DEF SaveRouting, Check, LifeInv, LifeTypeOK
  <2>3. LifeTypeOK' /\ TimeIsCounted'
    BY <2>1, <2>2 DEF LifeInv, LifeTypeOK, TimeIsCounted
  <2> QED
    BY <2>1, <2>3, ConnectionsKept DEF LifeInv
<1>8. CASE UNCHANGED lifeVars
  BY <1>8 DEF lifeVars, LifeInv, LifeTypeOK, Registered, Owned, NothingWithout, TimeIsCounted, Serving
<1> QED
  BY <1>1, <1>2, <1>3, <1>4, <1>5, <1>6, <1>7, <1>8 DEF LifeNext

LEMMA LifeInvariance == LifeSpec => []LifeInv
BY LifeStarts, LifeStep, PTL DEF LifeSpec

\* The state of the proxy's life keeps its types: no time runs past its bound
\* and every range is some connection's or no one's (session.h, registry.h).
THEOREM LifeTypeCorrect == LifeSpec => []LifeTypeOK
BY LifeInvariance, PTL DEF LifeInv

\* For any number of connections that share a resource range one after another,
\* a relay that drains late never takes the range from the connection that has
\* it now (Registry::remove(), registry.cpp:15-23).
THEOREM RangesNameTheirOwner == LifeSpec => []RegistryNamesOwner
<1>1. LifeInv => RegistryNamesOwner
  <2> SUFFICES ASSUME LifeInv PROVE RegistryNamesOwner
    OBVIOUS
  <2>1. ASSUME NEW r \in Relays, relays[r].served PROVE registry[relays[r].base].relay = r
    <3>1. registry[relays[r].base] = [relay |-> r, generation |-> relays[r].registration]
      BY <2>1 DEF LifeInv, Owned
    <3> QED
      BY <3>1
  <2>2. ASSUME stage = "ended", NEW b \in Bases PROVE registry[b].relay = NoOne
    <3>1. registry[b] = NoClient
      BY <2>2 DEF LifeInv, NothingWithout, Serving
    <3> QED
      BY <3>1 DEF NoClient
  <2> QED
    BY <2>1, <2>2 DEF RegistryNamesOwner, ProcessFor
<1> QED
  BY <1>1, LifeInvariance, PTL

\* For any time of grace and any number of signals, a backend that ignores them
\* is killed when the time of the first is up (watchSignals(),
\* session.cpp:122-137).
THEOREM GraceIsBounded == LifeSpec => []KillIsNotPutOff
<1>1. LifeInv => KillIsNotPutOff
  BY Bounds DEF LifeInv, LifeTypeOK, TimeIsCounted, KillIsNotPutOff
<1> QED
  BY <1>1, LifeInvariance, PTL
==============================================================================
