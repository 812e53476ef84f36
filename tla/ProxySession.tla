---------------------------- MODULE ProxySession ----------------------------
(***************************************************************************)
(* The session proxy in front of Xwayland: which screen each X11           *)
(* connection is shown.                                                    *)
(*                                                                         *)
(* A client that connects is held until the effect in KWin answered, over  *)
(* D-Bus, which size its process is to see; it is then relayed to the      *)
(* backend server.  Connections of one Wine prefix share one screen: once  *)
(* a program of the prefix was answered with a size, the connections       *)
(* answered earlier are switched to it, after the effect recorded their    *)
(* processes.  The module holds the proxy (src/x11proxy/session.h,         *)
(* connection.cpp), the effect's record of the processes it answered       *)
(* (plugins/upscale/x11proxypolicy.cpp) and the calls in flight between    *)
(* them.  A relay is only its size and whether it still reads its stream;  *)
(* module Relay models the rest.                                           *)
(***************************************************************************)
EXTENDS Naturals, FiniteSets, Sequences, SequencesExt

CONSTANTS
    Conns,       \* descriptors a client connection can have
    Pids,        \* processes
    WinePrefixes,    \* Wine prefixes
    Programs,    \* programs an entry of the effect can name
    Sizes,       \* screen sizes the effect can answer with
    Batches,     \* names for the outstanding rounds of x11ProcessShown calls
    PrefixOf,    \* the prefix a process runs in, or NoPrefix
    ProgramOf,   \* the program a process names, or NoProgram: a component
    NoConn, NoPid, NoPrefix, NoProgram, NoSize, NoBatch,
    MaxClients,  \* decisions and relays together, 512 in the code
    ServedLimit, \* processes the effect remembers, 128 in the code
    MaxTries,    \* bound: timed retries one decision's deadline has room for
    MaxInbox,    \* bound: calls the effect may be behind when one connects
    MaxSaves,    \* bound: changes of the saved settings
    Faults       \* bound: which of the rarer events an instance has, of
                 \* "unidentified", "opaque", "backend" and "timeout"

ASSUME ConstantsAssumption ==
    /\ IsFiniteSet(Conns)
    /\ IsFiniteSet(Pids)
    /\ "retry" \notin Sizes \cup {NoSize}
    /\ NoConn \notin Conns
    /\ NoPid \notin Pids
    /\ NoPrefix \notin WinePrefixes
    /\ NoProgram \notin Programs
    /\ NoSize \notin Sizes
    /\ NoBatch \notin Batches
    /\ PrefixOf \in [Pids -> WinePrefixes \cup {NoPrefix}]
    /\ ProgramOf \in [Pids -> Programs \cup {NoProgram}]
    /\ \A p \in Pids : PrefixOf[p] = NoPrefix => ProgramOf[p] # NoProgram
    /\ MaxClients \in Nat \ {0}
    /\ ServedLimit \in Nat \ {0}
    /\ MaxTries \in Nat
    /\ MaxInbox \in Nat
    /\ MaxSaves \in Nat
    /\ Faults \subseteq {"unidentified", "opaque", "backend", "timeout"}

VARIABLES
    phase,       \* where each connection stands, see Phases
    owner,       \* the process behind each connection
    tries,       \* timed retries each decision has used
    pending,     \* m_pendingConnections
    shows,       \* the size each relay's policy shows its client
    answered,    \* the relay was created from an answer (forgetRelay's capture)
    opaque,      \* the relay passes its stream unread (Framer::m_transparent)
    answers,     \* m_answers: size and count, absent where the count is 0
    program,     \* m_prefixPrograms
    connections, \* m_prefixConnections
    relays,      \* m_prefixRelays
    shown,       \* m_prefixShown: size and game, absent where there is no size
    batches,     \* showPrefix's rounds of calls that have not all come back
    inbox,       \* calls on their way to the effect
    replies,     \* answers on their way back
    served,      \* the effect's record of answered processes, oldest first
    wish,        \* what the saved settings answer for each program
    listed,      \* Xwayland's modes are known to KWin
    saves        \* how often the settings changed

relayVars == <<shows, answered, opaque>>
prefixVars == <<program, connections, relays, shown, batches>>
effectVars == <<served, wish, listed, saves>>
vars == <<phase, owner, tries, pending, relayVars, answers, prefixVars, inbox,
          replies, effectVars>>

PendingPhases == {"checking", "waiting", "asking"}
LivePhases == {"relay", "finished"}
Phases == {"closed"} \cup PendingPhases \cup LivePhases

Pending == {c \in Conns : phase[c] \in PendingPhases}
Live == {c \in Conns : phase[c] \in LivePhases}      \* m_relays
AnyPid == Pids \cup {NoPid}
AnySize == Sizes \cup {NoSize}
Prefix(p) == IF p = NoPid THEN NoPrefix ELSE PrefixOf[p]

NoAnswer == [size |-> NoSize, count |-> 0]
NotShown == [size |-> NoSize, game |-> NoPid]
NoRound == [prefix |-> NoPrefix, size |-> NoSize, game |-> NoPid, waits |-> {}]

Call(kind, c, b, g, p, prog) ==
    [kind |-> kind, conn |-> c, batch |-> b, game |-> g, pid |-> p,
     program |-> prog]
ShownCall(b, g, p) == Call("shown", NoConn, b, g, p, NoProgram)
Reply(kind, c, b, p, value) ==
    [kind |-> kind, conn |-> c, batch |-> b, pid |-> p, value |-> value]

Calls == [kind : {"prefix", "policy", "shown"}, conn : Conns \cup {NoConn},
          batch : Batches \cup {NoBatch}, game : AnyPid, pid : AnyPid,
          program : Programs \cup {NoProgram}]
Replies(kind, values) ==
    [kind : {kind}, conn : Conns \cup {NoConn}, batch : Batches \cup {NoBatch},
     pid : AnyPid, value : values]
AnyReply == Replies("prefix", {"match", "none"})
            \cup Replies("policy", AnySize \cup {"retry"})
            \cup Replies("shown", {"told"})
Served == [pid : AnyPid, size : Sizes]

TypeOK ==
    /\ phase \in [Conns -> Phases]
    /\ owner \in [Conns -> AnyPid]
    /\ tries \in [Conns -> 0..MaxTries]
    /\ pending \in Nat
    /\ shows \in [Conns -> AnySize]
    /\ answered \in [Conns -> BOOLEAN]
    /\ opaque \in [Conns -> BOOLEAN]
    /\ answers \in [Pids -> [size : AnySize, count : Nat]]
    /\ program \in [WinePrefixes -> Programs \cup {NoProgram}]
    /\ connections \in [WinePrefixes -> Nat]
    /\ relays \in [WinePrefixes -> SUBSET Conns]
    /\ shown \in [WinePrefixes -> [size : AnySize, game : AnyPid]]
    /\ batches \in [Batches -> [prefix : WinePrefixes \cup {NoPrefix},
                                size : AnySize, game : AnyPid,
                                waits : SUBSET Pids]]
    /\ inbox \in Seq(Calls)
    /\ replies \in Seq(AnyReply)
    /\ served \in Seq(Served)
    /\ wish \in [Programs -> AnySize]
    /\ listed \in BOOLEAN
    /\ saves \in 0..MaxSaves

Init ==
    /\ phase = [c \in Conns |-> "closed"]
    /\ owner = [c \in Conns |-> NoPid]
    /\ tries = [c \in Conns |-> 0]
    /\ pending = 0
    /\ shows = [c \in Conns |-> NoSize]
    /\ answered = [c \in Conns |-> FALSE]
    /\ opaque = [c \in Conns |-> FALSE]
    /\ answers = [p \in Pids |-> NoAnswer]
    /\ program = [x \in WinePrefixes |-> NoProgram]
    /\ connections = [x \in WinePrefixes |-> 0]
    /\ relays = [x \in WinePrefixes |-> {}]
    /\ shown = [x \in WinePrefixes |-> NotShown]
    /\ batches = [b \in Batches |-> NoRound]
    /\ inbox = <<>>
    /\ replies = <<>>
    /\ served = <<>>
    /\ wish \in [Programs -> AnySize]
    /\ listed \in BOOLEAN
    /\ saves = 0

-----------------------------------------------------------------------------
(* Showing a prefix one screen.                                            *)

\* The relays of prefix x that changeDisplay() switches to size s: those that
\* still run, read their stream and see another screen.
Switched(x, s) ==
    {r \in relays[x] : phase[r] = "relay" /\ ~opaque[r] /\ shows[r] # s}

\* Seeded fault: only the relays that came with an answer are walked.
SwitchedShowsAnswered(x, s) ==
    [r \in Conns |-> IF r \in Switched(x, s) /\ answered[r] THEN s ELSE shows[r]]

\* switchPrefix(): the switched relays show s, and so do the kept answers of
\* their processes, where there are any.
SwitchedShows(x, s) ==
    [r \in Conns |-> IF r \in Switched(x, s) THEN s ELSE shows[r]]
SwitchedAnswers(known, x, s) ==
    [p \in Pids |->
        IF known[p].count > 0 /\ \E r \in Switched(x, s) : owner[r] = p
        THEN [known[p] EXCEPT !.size = s]
        ELSE known[p]]

\* Seeded fault: a process whose own question failed is not told of.
EarlierAnswered(x, game) ==
    {owner[r] : r \in {q \in relays[x] : answered[q]}} \ {game, NoPid}

\* The processes the effect has to hear of before their relays are switched.
Earlier(x, game) == {owner[r] : r \in relays[x]} \ {game, NoPid}

\* showPrefix(): with nobody to wait for the prefix is switched at once;
\* otherwise each earlier process is one call of a new round.  "known" is
\* m_answers, "calls" the inbox so far and "later" the relay being created,
\* not yet one of the prefix's.
ShowPrefix(x, s, game, known, calls, later) ==
    LET ask == Earlier(x, game)
    IN  /\ shown' = [shown EXCEPT ![x] = [size |-> s, game |-> game]]
        /\ \/ /\ ask = {}
              /\ shows' = [SwitchedShows(x, s) EXCEPT ![later] = s]
              /\ answers' = SwitchedAnswers(known, x, s)
              /\ inbox' = calls
              /\ UNCHANGED batches
           \/ /\ ask # {}
              /\ shows' = [shows EXCEPT ![later] = s]
              /\ answers' = known
              /\ \E b \in Batches :
                    /\ batches[b] = NoRound
                    /\ batches' = [batches EXCEPT ![b] =
                            [prefix |-> x, size |-> s, game |-> game, waits |-> ask]]
                    /\ inbox' = calls \o
                            SetToSeq({ShownCall(b, game, p) : p \in ask})

-----------------------------------------------------------------------------
(* Deciding a connection.                                                  *)

\* Seeded fault: an early return that forgets the outstanding decision.
BackendRefusesUncounted(c, count, calls) ==
    /\ "backend" \in Faults
    /\ pending' = count
    /\ phase' = [phase EXCEPT ![c] = "closed"]
    /\ owner' = [owner EXCEPT ![c] = NoPid]
    /\ tries' = [tries EXCEPT ![c] = 0]
    /\ inbox' = calls
    /\ UNCHANGED <<relayVars, answers, connections, relays, shown, batches>>

\* relayClient() where the backend server does not take the connection.
BackendRefuses(c, count, calls) ==
    /\ "backend" \in Faults
    /\ pending' = count - 1
    /\ phase' = [phase EXCEPT ![c] = "closed"]
    /\ owner' = [owner EXCEPT ![c] = NoPid]
    /\ tries' = [tries EXCEPT ![c] = 0]
    /\ inbox' = calls
    /\ UNCHANGED <<relayVars, answers, connections, relays, shown, batches>>

\* relayClient() where it does.  A connection of a prefix that shows a screen
\* is shown that whenever its own answer named none.
BackendAccepts(c, p, size, ans, count, calls) ==
    LET x == Prefix(p)
        follows == x # NoPrefix /\ size = NoSize /\ shown[x].size # NoSize
        s == IF follows THEN shown[x].size ELSE size
        game == IF follows THEN shown[x].game ELSE NoPid
        known == IF (ans \/ follows) /\ p # NoPid
                 THEN [answers EXCEPT ![p] = [size |-> s, count |-> @.count + 1]]
                 ELSE answers
    IN  /\ pending' = count - 1
        /\ phase' = [phase EXCEPT ![c] = "relay"]
        /\ owner' = [owner EXCEPT ![c] = p]
        /\ tries' = [tries EXCEPT ![c] = 0]
        /\ answered' = [answered EXCEPT ![c] = ans \/ follows]
        /\ opaque' = [opaque EXCEPT ![c] = FALSE]
        /\ IF x = NoPrefix
           THEN UNCHANGED <<connections, relays>>
           ELSE /\ connections' = [connections EXCEPT ![x] = @ + 1]
                /\ relays' = [relays EXCEPT ![x] = @ \cup {c}]
        /\ IF x # NoPrefix /\ game = NoPid /\ s # NoSize
           THEN ShowPrefix(x, s, p, known, calls, c)
           ELSE /\ shows' = [shows EXCEPT ![c] = s]
                /\ answers' = known
                /\ inbox' = IF game # NoPid /\ p # NoPid /\ p # game
                            THEN Append(calls, ShownCall(NoBatch, game, p))
                            ELSE calls
                /\ UNCHANGED <<shown, batches>>

\* relayClient(); count is m_pendingConnections as it finds it.
RelayClient(c, p, size, ans, count, calls) ==
    \/ BackendRefuses(c, count, calls)
    \/ BackendAccepts(c, p, size, ans, count, calls)

\* upscalePrefixProgram(): what reading every process finds the prefix to run.
Scanned(x) ==
    {NoProgram} \cup {ProgramOf[p] : p \in {q \in Pids : PrefixOf[q] = x}}

\* resolveCandidates(): the program a connection of process p is answered for,
\* found being what a scan would name, and what the prefix is now known to run.
Resolved(p, found) ==
    IF ProgramOf[p] # NoProgram THEN ProgramOf[p]
    ELSE IF program[PrefixOf[p]] # NoProgram THEN program[PrefixOf[p]]
    ELSE found
Learnt(p, found) ==
    IF PrefixOf[p] = NoPrefix THEN program
    ELSE [program EXCEPT ![PrefixOf[p]] = Resolved(p, found)]

\* decideClient(): wait for the prefix's program while the deadline has room,
\* else ask the effect.
Decide(c, p, found) ==
    /\ program' = Learnt(p, found)
    /\ \/ /\ Resolved(p, found) = NoProgram
          /\ tries[c] < MaxTries
          /\ phase' = [phase EXCEPT ![c] = "waiting"]
          /\ tries' = [tries EXCEPT ![c] = @ + 1]
          /\ UNCHANGED inbox
       \/ /\ phase' = [phase EXCEPT ![c] = "asking"]
          /\ inbox' = Append(inbox,
                Call("policy", c, NoBatch, NoPid, p, Resolved(p, found)))
          /\ UNCHANGED tries

\* checkPrefix(): a component of a prefix whose program nobody names asks
\* whether any entry could match that prefix.
CheckPrefix(c, p) ==
    /\ phase' = [phase EXCEPT ![c] = "checking"]
    /\ inbox' = Append(inbox, Call("prefix", c, NoBatch, NoPid, p, NoProgram))
    /\ UNCHANGED <<tries, program>>

\* acceptClient()'s bound on decisions and relays together.
HasRoom ==
    /\ pending + Cardinality(Live) < MaxClients
    /\ Len(inbox) < MaxInbox

\* acceptClient() for a client whose process the kernel does not name.
AcceptUnidentified(c) ==
    /\ "unidentified" \in Faults
    /\ phase[c] = "closed"
    /\ HasRoom
    /\ RelayClient(c, NoPid, NoSize, FALSE, pending + 1, inbox)
    /\ UNCHANGED <<program, replies, effectVars>>

\* Seeded fault: the connection is relayed before it was counted.
AcceptKnownUncounted(c, p) ==
    /\ phase[c] = "closed"
    /\ HasRoom
    /\ answers[p].count > 0
    /\ RelayClient(c, p, answers[p].size, TRUE, pending, inbox)
    /\ UNCHANGED <<program, replies, effectVars>>

\* acceptClient() for a process that was answered and still has a connection:
\* it gets that answer.
AcceptKnown(c, p) ==
    /\ phase[c] = "closed"
    /\ HasRoom
    /\ answers[p].count > 0
    /\ RelayClient(c, p, answers[p].size, TRUE, pending + 1, inbox)
    /\ UNCHANGED <<program, replies, effectVars>>

\* acceptClient() for any other process.
AcceptUnknown(c, p) ==
    /\ phase[c] = "closed"
    /\ HasRoom
    /\ answers[p].count = 0
    /\ pending' = pending + 1
    /\ owner' = [owner EXCEPT ![c] = p]
    /\ \E found \in Scanned(PrefixOf[p]) :
          IF Resolved(p, found) = NoProgram
          THEN CheckPrefix(c, p)
          ELSE Decide(c, p, found)
    /\ UNCHANGED <<relayVars, answers, connections, relays, shown, batches,
                   replies, effectVars>>

\* The single-shot timer of decideClient(), 250 ms for a prefix's program and
\* 20 ms for KWin's mode list.
Retry(c) ==
    /\ phase[c] = "waiting"
    /\ \E found \in Scanned(PrefixOf[owner[c]]) : Decide(c, owner[c], found)
    /\ UNCHANGED <<owner, pending, relayVars, answers, connections, relays,
                   shown, batches, replies, effectVars>>

-----------------------------------------------------------------------------
(* Answers and deadlines.                                                  *)

\* Connection c's reply of one kind is the next to arrive.
Arrives(kind, c) ==
    /\ replies # <<>>
    /\ Head(replies).kind = kind
    /\ Head(replies).conn = c
    /\ replies' = Tail(replies)

\* checkPrefix()'s reply: hold the connection, or relay it at the full size.
PrefixReply(c) ==
    /\ phase[c] = "checking"
    /\ Arrives("prefix", c)
    /\ \/ /\ Head(replies).value = "match"
          /\ \E found \in Scanned(PrefixOf[owner[c]]) : Decide(c, owner[c], found)
          /\ UNCHANGED <<owner, pending, relayVars, answers, connections,
                         relays, shown, batches>>
       \/ /\ Head(replies).value = "none"
          /\ RelayClient(c, owner[c], NoSize, TRUE, pending, inbox)
          /\ UNCHANGED program
    /\ UNCHANGED effectVars

\* Seeded fault: KWin's mode list is waited for without a deadline.
PolicyReplyForEver(c) ==
    /\ phase[c] = "asking"
    /\ Arrives("policy", c)
    /\ \/ /\ Head(replies).value = "retry"
          /\ phase' = [phase EXCEPT ![c] = "waiting"]
          /\ UNCHANGED <<owner, tries, pending, relayVars, answers, connections,
                         relays, shown, batches, inbox>>
       \/ /\ Head(replies).value # "retry"
          /\ RelayClient(c, owner[c], Head(replies).value, TRUE, pending, inbox)
    /\ UNCHANGED <<program, effectVars>>

\* decideClient()'s reply.  "retry" is KWin's modes not being listed yet: asked
\* again while the deadline has room, else an answer that names no size.
PolicyReply(c) ==
    /\ phase[c] = "asking"
    /\ Arrives("policy", c)
    /\ \/ /\ Head(replies).value = "retry"
          /\ tries[c] < MaxTries
          /\ phase' = [phase EXCEPT ![c] = "waiting"]
          /\ tries' = [tries EXCEPT ![c] = @ + 1]
          /\ UNCHANGED <<owner, pending, relayVars, answers, connections,
                         relays, shown, batches, inbox>>
       \/ RelayClient(c, owner[c],
                      IF Head(replies).value = "retry" THEN NoSize
                      ELSE Head(replies).value,
                      TRUE, pending, inbox)
    /\ UNCHANGED <<program, effectVars>>

\* The reply of a call that is not waited for any more, of which there is one at
\* most, reaches nobody.
Dropped(places) ==
    IF places = {} THEN replies ELSE RemoveAt(replies, CHOOSE i \in places : TRUE)

\* The calls on their way, with nobody waiting for those of connection c, or
\* for those of process p in round b.
WithoutConn(c) ==
    [i \in DOMAIN inbox |-> IF inbox[i].conn = c THEN [inbox[i] EXCEPT !.conn = NoConn]
                            ELSE inbox[i]]
WithoutRound(b, p) ==
    [i \in DOMAIN inbox |-> IF inbox[i].batch = b /\ inbox[i].pid = p
                            THEN [inbox[i] EXCEPT !.batch = NoBatch] ELSE inbox[i]]

\* Either call's error: its time passed, or nobody offers the service.  The
\* connection is relayed as it came and its process counts as unanswered.  The
\* effect still gets a call the proxy no longer waits for.
CallFails(c) ==
    /\ "timeout" \in Faults
    /\ phase[c] \in {"checking", "asking"}
    /\ replies' = Dropped({i \in DOMAIN replies : replies[i].conn = c})
    /\ RelayClient(c, owner[c], NoSize, FALSE, pending, WithoutConn(c))
    /\ UNCHANGED <<program, effectVars>>

\* proceed() of showPrefix(): one call of round b came back.  The last one
\* switches the prefix, unless it shows another screen by now.
Proceed(b, p) ==
    LET r == batches[b]
        left == r.waits \ {p}
        current == r.prefix # NoPrefix
                   /\ shown[r.prefix] = [size |-> r.size, game |-> r.game]
    IN  /\ batches' = [batches EXCEPT ![b] =
                            IF left = {} THEN NoRound ELSE [r EXCEPT !.waits = left]]
        /\ IF left = {} /\ current
           THEN /\ shows' = SwitchedShows(r.prefix, r.size)
                /\ answers' = SwitchedAnswers(answers, r.prefix, r.size)
           ELSE UNCHANGED <<shows, answers>>
        /\ UNCHANGED <<phase, owner, tries, pending, answered, opaque, program,
                       connections, relays, shown, effectVars>>

ShownReply(b, p) ==
    /\ p \in batches[b].waits
    /\ replies # <<>>
    /\ Head(replies).kind = "shown"
    /\ Head(replies).batch = b /\ Head(replies).pid = p
    /\ replies' = Tail(replies)
    /\ Proceed(b, p)
    /\ UNCHANGED inbox

\* The call's half second passed first.
ShownLapses(b, p) ==
    /\ "timeout" \in Faults
    /\ p \in batches[b].waits
    /\ replies' = Dropped({i \in DOMAIN replies : replies[i].batch = b /\ replies[i].pid = p})
    /\ inbox' = WithoutRound(b, p)
    /\ Proceed(b, p)

-----------------------------------------------------------------------------
(* Relays.                                                                 *)

\* A request made the rest of the connection ambiguous.
TurnsOpaque(c) ==
    /\ "opaque" \in Faults
    /\ phase[c] = "relay" /\ ~opaque[c]
    /\ opaque' = [opaque EXCEPT ![c] = TRUE]
    /\ UNCHANGED <<phase, owner, tries, pending, shows, answered, answers,
                   prefixVars, inbox, replies, effectVars>>

\* Relay::finish(), which leaves the deletion to the event loop.
Finish(c) ==
    /\ phase[c] = "relay"
    /\ phase' = [phase EXCEPT ![c] = "finished"]
    /\ UNCHANGED <<owner, tries, pending, relayVars, answers, prefixVars, inbox,
                   replies, effectVars>>

\* Seeded fault: the prefix's screen outlives its last connection.
ForgetKeepsScreen(c) ==
    LET p == owner[c]
        x == Prefix(p)
    IN  /\ phase[c] = "finished"
        /\ phase' = [phase EXCEPT ![c] = "closed"]
        /\ owner' = [owner EXCEPT ![c] = NoPid]
        /\ shows' = [shows EXCEPT ![c] = NoSize]
        /\ answered' = [answered EXCEPT ![c] = FALSE]
        /\ opaque' = [opaque EXCEPT ![c] = FALSE]
        /\ answers' = [answers EXCEPT ![p] = NoAnswer]
        /\ relays' = [relays EXCEPT ![x] = @ \ {c}]
        /\ connections' = [connections EXCEPT ![x] = @ - 1]
        /\ program' = [program EXCEPT ![x] = NoProgram]
        /\ UNCHANGED <<tries, pending, shown, batches, inbox, replies, effectVars>>

\* forgetRelay().
Forget(c) ==
    LET p == owner[c]
        x == Prefix(p)
        last == x # NoPrefix /\ connections[x] = 1
    IN  /\ phase[c] = "finished"
        /\ phase' = [phase EXCEPT ![c] = "closed"]
        /\ owner' = [owner EXCEPT ![c] = NoPid]
        /\ shows' = [shows EXCEPT ![c] = NoSize]
        /\ answered' = [answered EXCEPT ![c] = FALSE]
        /\ opaque' = [opaque EXCEPT ![c] = FALSE]
        /\ answers' = IF answered[c] /\ p # NoPid /\ answers[p].count > 0
                      THEN [answers EXCEPT ![p] =
                                IF @.count = 1 THEN NoAnswer
                                ELSE [size |-> @.size, count |-> @.count - 1]]
                      ELSE answers
        /\ relays' = IF x = NoPrefix THEN relays
                     ELSE [relays EXCEPT ![x] = @ \ {c}]
        /\ connections' = IF x = NoPrefix \/ connections[x] = 0 THEN connections
                          ELSE [connections EXCEPT ![x] = @ - 1]
        /\ program' = IF last THEN [program EXCEPT ![x] = NoProgram] ELSE program
        /\ shown' = IF last THEN [shown EXCEPT ![x] = NotShown] ELSE shown
        /\ UNCHANGED <<tries, pending, batches, inbox, replies, effectVars>>

-----------------------------------------------------------------------------
(* The effect.                                                             *)

ServedPids == {served[i].pid : i \in DOMAIN served}
ServedSize(p) ==
    IF p \in ServedPids
    THEN (CHOOSE e \in ToSet(served) : e.pid = p).size
    ELSE NoSize

\* upscaleRecordServed(): the first answer of a process stays; the oldest
\* process goes once there are too many.
Recorded(p, s) ==
    IF s = NoSize \/ p \in ServedPids
    THEN served
    ELSE LET longer == Append(served, [pid |-> p, size |-> s])
         IN  IF Len(longer) > ServedLimit THEN Tail(longer) ELSE longer

\* What x11ConnectionPolicy() answers for a program.
PolicyAnswer(prog) ==
    IF prog = NoProgram THEN NoSize
    ELSE IF wish[prog] # NoSize /\ ~listed THEN "retry"
    ELSE wish[prog]

\* x11PrefixMayMatch(): whether some entry's pattern names the prefix.
AnswerPrefix ==
    /\ inbox # <<>>
    /\ LET m == Head(inbox)
       IN  /\ m.kind = "prefix"
           /\ \E may \in {"match", "none"} :
                 replies' = IF m.conn = NoConn THEN replies
                            ELSE Append(replies,
                                    Reply("prefix", m.conn, NoBatch, NoPid, may))
    /\ UNCHANGED served

\* x11ConnectionPolicy(): the process is recorded before the answer goes back,
\* whether or not anybody still waits for it.
AnswerPolicy ==
    /\ inbox # <<>>
    /\ LET m == Head(inbox)
           value == PolicyAnswer(m.program)
       IN  /\ m.kind = "policy"
           /\ replies' = IF m.conn = NoConn THEN replies
                         ELSE Append(replies,
                                Reply("policy", m.conn, NoBatch, NoPid, value))
           /\ served' = IF value = "retry" THEN served
                        ELSE Recorded(m.pid, value)

\* x11ProcessShown(): the process joins the record of the one that was served.
AnswerShown ==
    /\ inbox # <<>>
    /\ LET m == Head(inbox)
       IN  /\ m.kind = "shown"
           /\ replies' = IF m.batch = NoBatch THEN replies
                         ELSE Append(replies,
                                Reply("shown", NoConn, m.batch, m.pid, "told"))
           /\ served' = Recorded(m.pid, ServedSize(m.game))

EffectAnswers ==
    /\ AnswerPrefix \/ AnswerPolicy \/ AnswerShown
    /\ inbox' = Tail(inbox)
    /\ UNCHANGED <<phase, owner, tries, pending, relayVars, answers, prefixVars,
                   wish, listed, saves>>

\* The user saves other settings, and KWin learns Xwayland's modes.
SaveSettings ==
    /\ saves < MaxSaves
    /\ saves' = saves + 1
    /\ wish' \in [Programs -> AnySize]
    /\ UNCHANGED <<phase, owner, tries, pending, relayVars, answers, prefixVars,
                   inbox, replies, served, listed>>
ModesListed ==
    /\ ~listed
    /\ listed' = TRUE
    /\ UNCHANGED <<phase, owner, tries, pending, relayVars, answers, prefixVars,
                   inbox, replies, served, wish, saves>>

-----------------------------------------------------------------------------
Next ==
    \/ \E c \in Conns :
          \/ AcceptUnidentified(c)
          \/ \E p \in Pids : AcceptKnown(c, p) \/ AcceptUnknown(c, p)
          \/ Retry(c)
          \/ PrefixReply(c)
          \/ PolicyReply(c)
          \/ CallFails(c)
          \/ TurnsOpaque(c)
          \/ Finish(c)
          \/ Forget(c)
    \/ \E b \in Batches, p \in Pids : ShownReply(b, p) \/ ShownLapses(b, p)
    \/ EffectAnswers
    \/ SaveSettings
    \/ ModesListed

Spec == Init /\ [][Next]_vars

\* Timers fire, and a call the effect does not answer fails within its time:
\* both are the proxy's own event loop, whatever the effect does.
Fairness ==
    /\ \A c \in Conns : WF_vars(Retry(c)) /\ WF_vars(CallFails(c))
    /\ \A b \in Batches, p \in Pids : WF_vars(ShownLapses(b, p))

FairSpec == Spec /\ Fairness

-----------------------------------------------------------------------------
(* Properties.                                                             *)

\* What the proxy counts is what it holds: outstanding decisions, the relays
\* each kept answer belongs to, and each prefix's connections.  A count that
\* drifts keeps a dead process's answer for the next process of that number,
\* forgets a running prefix's screen, or closes the proxy to new clients.
CountersAgree ==
    /\ pending = Cardinality(Pending)
    /\ \A p \in Pids : answers[p].count =
            Cardinality({c \in Live : owner[c] = p /\ answered[c]})
    /\ \A x \in WinePrefixes :
            /\ relays[x] = {c \in Live : Prefix(owner[c]) = x}
            /\ connections[x] = Cardinality(relays[x])

\* Decisions and relays together never exceed the bound that keeps the proxy's
\* descriptors from running out (connection.cpp:53-58).
ClientsBounded == Cardinality(Pending) + Cardinality(Live) <= MaxClients

\* A prefix's screen is forgotten with its last connection: no game started in
\* it later is shown the screen of the one before.
ScreenForgotten ==
    \A x \in WinePrefixes : relays[x] = {} => shown[x] = NotShown

\* One prefix is one screen: once no round of the current show is out, every
\* relay of the prefix that can be switched shows that screen.
PrefixAgrees ==
    \A x \in WinePrefixes :
        LET settled == \A b \in Batches :
                ~(/\ batches[b].prefix = x
                  /\ batches[b].game = shown[x].game
                  /\ batches[b].size = shown[x].size)
        IN  shown[x].size # NoSize /\ settled =>
                \A r \in relays[x] :
                    phase[r] = "relay" /\ ~opaque[r] => shows[r] = shown[x].size

\* Every process shown a smaller screen is on the effect's record, or the call
\* that puts it there is on its way: the effect presents its windows instead of
\* asking them to resize.
ShownIsServed ==
    \A c \in Live :
        shows[c] # NoSize =>
            \/ owner[c] \in ServedPids
            \/ \E i \in DOMAIN inbox :
                  inbox[i].kind = "shown" /\ inbox[i].pid = owner[c]

\* The effect first: a relay is switched only once the effect has its process
\* on record, or the half second it was given has passed (showPrefix()).
EffectFirst ==
    [][LET Told(p, waiting) == \E i \in DOMAIN inbox' :
                /\ inbox'[i].kind = "shown" /\ inbox'[i].pid = p
                /\ (inbox'[i].batch # NoBatch) = waiting
       IN  \A c \in Conns :
              phase[c] = "relay" /\ phase'[c] = "relay" /\ shows'[c] # shows[c] =>
                  \/ owner[c] \in ServedPids
                  \/ Told(owner[c], FALSE)
                  \/ ~Told(owner[c], TRUE)]_vars

\* No client is held for ever: each decision ends, whatever the effect does.
ClientsDecided ==
    \A c \in Conns : phase[c] \in PendingPhases ~> phase[c] \notin PendingPhases

\* "One program sees one screen" (connection.cpp:63-65): the connections of a
\* process that runs in no prefix show it the same size.
OneProgramOneScreen ==
    \A c, d \in Live :
        /\ owner[c] = owner[d] /\ owner[c] # NoPid
        /\ Prefix(owner[c]) = NoPrefix
        => shows[c] = shows[d]
=============================================================================
