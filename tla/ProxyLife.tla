----------------------------- MODULE ProxyLife -----------------------------
(***************************************************************************)
(* The session proxy's own life (x11proxy/main.cpp, startup.cpp,           *)
(* session.cpp, registry.cpp, lifecycle.cpp): whether it stands in for     *)
(* Xwayland at all, which descriptors it keeps and which it hands on, how  *)
(* it and its backend end, and whose connection a resource is.             *)
(***************************************************************************)
EXTENDS Integers, Sequences, SequencesExt, FiniteSets

CONSTANTS
    CommandLines, \* arguments KWin can start the proxy with
    BackendListener, WmPair, \* the proxy's own descriptors
    Bases,        \* resource ranges the server hands out
    Relays,       \* connections the proxy can have
    Grace,        \* time a backend asked to end is given, 1500 ms in the code
    MaxConnections, \* bound: connections made
    MaxSignals    \* bound: signals sent, and settings saved

Descriptors == UNION {{line[i].fd : i \in DOMAIN line} : line \in CommandLines}
WithDescriptor == {"-listenfd", "-wm", "-displayfd", "-initfd"}
NoOne == "none"

ASSUME LifeAssumption ==
    /\ \A line \in CommandLines : \A i \in DOMAIN line :
           line[i].flag \in WithDescriptor \cup {"-other"}
    /\ BackendListener \notin Descriptors /\ WmPair \notin Descriptors
    /\ Grace \in Nat \ {0} /\ MaxConnections \in Nat /\ MaxSignals \in Nat

VARIABLES
    stage,       \* what the process is
    startup,     \* m_startup
    backend,     \* m_server
    killTimer,   \* time left of m_killTimer, -1 when it does not run
    waited,      \* time since the backend was asked to end and did not
    signals,
    relays,      \* each connection: its range, the server's, its registration
    registry,    \* m_registry
    generation,
    routing,     \* the saved settings ask for the proxy
    warned       \* m_warned

lifeVars == <<stage, startup, backend, killTimer, waited, signals, relays, registry, generation,
              routing, warned>>

NoRelay == [base |-> NoOne, registration |-> 0, served |-> FALSE]
NoClient == [relay |-> NoOne, generation |-> 0]

LifeTypeOK ==
    /\ stage \in {"stock", "failed", "running", "ended"}
    /\ backend \in {"none", "running", "deaf", "ended"}
    /\ killTimer \in -1..Grace /\ waited \in 0..(Grace + 1) /\ signals \in 0..MaxSignals
    /\ relays \in [Relays -> [base : Bases \cup {NoOne}, registration : Nat, served : BOOLEAN]]
    /\ registry \in [Bases -> [relay : Relays \cup {NoOne}, generation : Nat]]
    /\ generation \in 0..MaxConnections /\ routing \in BOOLEAN /\ warned \in BOOLEAN

-----------------------------------------------------------------------------
\* Startup::descriptorArgument(): the listeners stay with the proxy, which listens
\* for the backend elsewhere; the window manager's connection goes through a
\* relay; any other descriptor is the backend's.
DescriptorArgument(parsed, argument) ==
    CASE argument.flag = "-listenfd" ->
             [parsed EXCEPT !.listeners = Append(@, argument.fd),
                            !.arguments = IF parsed.listeners = <<>>
                                          THEN Append(@, [argument EXCEPT !.fd = BackendListener])
                                          ELSE @]
      [] argument.flag = "-wm" ->
             IF parsed.windowManager # NoOne THEN [parsed EXCEPT !.failed = TRUE]
             ELSE [parsed EXCEPT !.windowManager = argument.fd,
                                 !.arguments = Append(@, [argument EXCEPT !.fd = WmPair]),
                                 !.handed = @ \cup {WmPair}]
      [] argument.flag \in {"-displayfd", "-initfd"} ->
             [parsed EXCEPT !.arguments = Append(@, argument), !.handed = @ \cup {argument.fd}]
      [] OTHER -> [parsed EXCEPT !.arguments = Append(@, argument)]

\* Startup::parse(): a descriptor that is not open, and a line without listener
\* or window manager or a Wayland socket, fail.
Parsed(line, wayland) ==
    LET empty == [arguments |-> <<>>, listeners |-> <<>>, windowManager |-> NoOne,
                  handed |-> {BackendListener}, failed |-> FALSE]
        step(parsed, argument) ==
            IF parsed.failed \/ (argument.flag \in WithDescriptor /\ ~argument.open)
            THEN [parsed EXCEPT !.failed = TRUE]
            ELSE DescriptorArgument(parsed, argument)
        all == FoldLeft(step, empty, line)
    IN  [all EXCEPT !.failed = @ \/ all.listeners = <<>> \/ all.windowManager = NoOne \/ ~wayland,
                    !.handed = @ \cup {"wayland"}]

\* main(): the stock server runs in the proxy's place unless KWin, told to route,
\* started it.  A backend may not start, or ignore being asked to end.
LifeInit ==
    /\ \E line \in CommandLines, byKWin, routed, wayland \in BOOLEAN :
           LET direct == \/ ~byKWin \/ ~routed
                         \/ \A i \in DOMAIN line : line[i].flag # "-listenfd"
           IN  /\ startup = Parsed(line, wayland)
               /\ stage = IF direct THEN "stock"
                          ELSE IF startup.failed THEN "failed" ELSE "running"
    /\ backend \in IF stage = "running" THEN {"running", "deaf", "ended"} ELSE {"none"}
    /\ killTimer = -1 /\ waited = 0 /\ signals = 0
    /\ relays = [r \in Relays |-> NoRelay]
    /\ registry = [b \in Bases |-> NoClient] /\ generation = 0
    /\ routing = TRUE /\ warned = FALSE

Serving == stage = "running"

\* The server gives a range no connection of its own has, and the proxy reads it
\* in the setup reply.
Connect(r, b) ==
    /\ Serving /\ relays[r] = NoRelay /\ generation < MaxConnections
    /\ \A other \in Relays : relays[other].base = b => ~relays[other].served
    /\ generation' = generation + 1
    /\ registry' = [registry EXCEPT ![b] = [relay |-> r, generation |-> generation']]
    /\ relays' = [relays EXCEPT ![r] = [base |-> b, registration |-> generation', served |-> TRUE]]
    /\ UNCHANGED <<stage, startup, backend, killTimer, waited, signals, routing, warned>>

\* The server closes a connection; its relay still has bytes to drain.
ServerCloses(r) ==
    /\ relays[r].served
    /\ relays' = [relays EXCEPT ![r].served = FALSE]
    /\ UNCHANGED <<stage, startup, backend, killTimer, waited, signals, registry, generation, routing,
                   warned>>

\* Seeded fault: whatever is registered for the range goes.
RemoveAny(b, registration) == [registry EXCEPT ![b] = NoClient]

\* Registry::remove(): only what this connection registered.
RemoveOwn(b, registration) ==
    IF registry[b].generation = registration THEN [registry EXCEPT ![b] = NoClient] ELSE registry

\* ~Policy(): the relay of a connection that ended is destroyed.
Drained(r) ==
    /\ Serving /\ relays[r] # NoRelay /\ ~relays[r].served
    /\ registry' = RemoveOwn(relays[r].base, relays[r].registration)
    /\ relays' = [relays EXCEPT ![r] = NoRelay]
    /\ UNCHANGED <<stage, startup, backend, killTimer, waited, signals, generation, routing, warned>>

\* Registry::processFor()
ProcessFor(b) == registry[b].relay

-----------------------------------------------------------------------------
\* Seeded fault: every signal starts the time anew.
SignalRestarts ==
    /\ Serving /\ signals < MaxSignals /\ signals' = signals + 1
    /\ killTimer' = Grace
    /\ backend' \in IF backend = "running" THEN {"ended"} ELSE {backend}
    /\ UNCHANGED <<stage, startup, waited, relays, registry, generation, routing, warned>>

\* watchSignals(): the first signal starts the time the backend is given; one
\* that arrives meanwhile leaves it alone.
Signal ==
    /\ Serving /\ signals < MaxSignals /\ signals' = signals + 1
    /\ IF killTimer = -1
       THEN /\ killTimer' = Grace
            /\ backend' \in IF backend = "running" THEN {"ended"} ELSE {backend}
       ELSE UNCHANGED <<killTimer, backend>>
    /\ UNCHANGED <<stage, startup, waited, relays, registry, generation, routing, warned>>

\* Time passes no further than the timer that is due.
Tick ==
    /\ Serving /\ killTimer > 0
    /\ killTimer' = killTimer - 1
    /\ waited' = IF backend = "deaf" /\ waited <= Grace THEN waited + 1 ELSE waited
    /\ UNCHANGED <<stage, startup, backend, signals, relays, registry, generation, routing, warned>>

Kill ==
    /\ Serving /\ killTimer = 0
    /\ killTimer' = -1 /\ backend' = "ended"
    /\ UNCHANGED <<stage, startup, waited, signals, relays, registry, generation, routing, warned>>

\* The backend is gone: the proxy ends with it, and its relays before its records.
Finished ==
    /\ Serving /\ backend = "ended"
    /\ stage' = "ended"
    /\ relays' = [r \in Relays |-> NoRelay]
    /\ registry' = [b \in Bases |->
           IF \E r \in Relays : relays[r].base = b /\ relays[r].registration = registry[b].generation
           THEN NoClient ELSE registry[b]]
    /\ killTimer' = -1
    /\ UNCHANGED <<startup, backend, waited, signals, generation, routing, warned>>

SaveRouting ==
    /\ Serving /\ signals < MaxSignals /\ signals' = signals + 1
    /\ routing' = ~routing
    /\ UNCHANGED <<stage, startup, backend, killTimer, waited, relays, registry, generation, warned>>

\* Lifecycle::check(): the person is told once that logging out is required.
Check ==
    /\ Serving /\ warned # ~routing
    /\ warned' = ~routing
    /\ UNCHANGED <<stage, startup, backend, killTimer, waited, signals, relays, registry, generation,
                   routing>>

LifeNext ==
    \/ \E r \in Relays, b \in Bases : Connect(r, b)
    \/ \E r \in Relays : ServerCloses(r) \/ Drained(r)
    \/ Signal \/ Tick \/ Kill \/ Finished \/ SaveRouting \/ Check

LifeSpec == LifeInit /\ [][LifeNext]_lifeVars
-----------------------------------------------------------------------------
\* A resource of a connection the server serves is found to be that connection's
\* and no other's, though its range belonged to one whose relay is not gone yet;
\* and nothing is found once the proxy ended.
\* (Registry::remove(), registry.cpp:15-23; ~Session(), session.cpp:58-66)
RegistryNamesOwner ==
    /\ Serving => \A r \in Relays : relays[r].served => ProcessFor(relays[r].base) = r
    /\ stage = "ended" => \A b \in Bases : ProcessFor(b) = NoOne

\* A backend that ignores being asked to end is killed when its time is up,
\* however many signals arrive meanwhile.
\* (watchSignals(), session.cpp:122-137)
KillIsNotPutOff == backend = "deaf" => waited <= Grace
=============================================================================
