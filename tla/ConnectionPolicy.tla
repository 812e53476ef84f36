-------------------------- MODULE ConnectionPolicy --------------------------
(***************************************************************************)
(* How the session proxy reads one connection (x11proxy/policy.cpp,        *)
(* policy_identity.cpp, policy_display.cpp, framer.cpp, display.cpp): it   *)
(* frames the requests as the server will, remembers those whose reply it  *)
(* rewrites by a sequence number that wraps, and, when the screen it shows *)
(* is changed, puts events of its own between the server's messages.       *)
(*                                                                         *)
(* A message is its kind and the number of the request it belongs to,      *)
(* counted from one without wrapping; the code has that number modulo      *)
(* Span.  What a reply carries is in module DisplayLists.                  *)
(***************************************************************************)
EXTENDS Integers, Sequences, SequencesExt, FiniteSets

CONSTANTS
    Views,       \* screen sizes the effect can answer with
    Native,      \* no answer: the server's own screen
    Offered,     \* sizes the server has a mode for
    Span,        \* sequence numbers, 65536 in the code
    Asked,       \* bound: the kinds of requests a client makes
    MaxRequests, \* bound: requests a client makes
    MaxChanges   \* bound: events of the server, and screens changed

\* Requests by what the policy makes of them: QueryExtension, BigReqEnable, the
\* RandR requests, GetGeometry of the root, one with a reply too large to be
\* held, and any other.
Randr == {"select", "sizes", "config", "modes", "setSize"}
Kinds == Randr \cup {"queryRandr", "queryBig", "enable", "geometry", "image", "plain"}
Replied == Kinds \ {"select", "setSize", "plain"}

ASSUME PolicyAssumption ==
    /\ Native \notin Views /\ Offered \subseteq Views
    /\ Asked \subseteq Kinds
    /\ Span \in Nat \ {0, 1} /\ MaxRequests \in Nat /\ MaxChanges \in Nat

VARIABLES
    sentCount,    \* m_sequence of the client
    readCount,    \* request of the last message the client read
    toProxy, toServer, fromServer, toClient,
    half,         \* the framer holds or streams a part of the server's next message
    streaming,    \* and that message is too large to be held
    requests,     \* m_requests, by sequence number
    extensions,   \* m_extensions
    big,          \* who takes a zero length for an extended one
    transparent,
    setup,        \* the setup reply passed
    view,         \* m_display
    selected,     \* m_randrSelections of the root
    lastSequence, \* m_lastSequence
    deferred,     \* m_deferred
    changes

policyVars == <<sentCount, readCount, toProxy, toServer, fromServer, toClient, half, streaming,
                requests, extensions, big, transparent, setup, view, selected, lastSequence,
                deferred, changes>>

NoEntry == [kind |-> "none", number |-> 0]
Message == [kind : {"reply", "error", "event"}, number : 0..MaxRequests, large : BOOLEAN]

\* DisplayReplies of a size: whether it still speaks, what it learnt of modes
\* and of the legacy size table.
ViewOf(size) == [size |-> size, enabled |-> size # Native, modes |-> FALSE, table |-> FALSE]

PolicyTypeOK ==
    /\ sentCount \in 0..MaxRequests /\ readCount \in 0..MaxRequests
    /\ toProxy \in Seq([kind : Kinds, number : 1..MaxRequests])
    /\ toServer \in Seq([kind : Kinds \cup {"noOperation"}, number : 1..MaxRequests, read : BOOLEAN,
                         big : BOOLEAN])
    /\ fromServer \in Seq(Message) /\ toClient \in Seq(0..MaxRequests)
    /\ half \in BOOLEAN /\ streaming \in BOOLEAN
    /\ requests \in [0..(Span - 1) -> [kind : Kinds \cup {"none"}, number : 0..MaxRequests]]
    /\ extensions \subseteq {"RANDR", "BIG-REQUESTS"}
    /\ big \subseteq {"framer", "server"}
    /\ transparent \in BOOLEAN /\ setup \in BOOLEAN /\ selected \in BOOLEAN
    /\ view \in [size : Views \cup {Native}, enabled : BOOLEAN, modes : BOOLEAN, table : BOOLEAN]
    /\ lastSequence \in 0..MaxRequests /\ deferred \in Seq(0..MaxRequests)
    /\ changes \in 0..MaxChanges

PolicyInit ==
    /\ sentCount = 0 /\ readCount = 0
    /\ toProxy = <<>> /\ toServer = <<>> /\ fromServer = <<>> /\ toClient = <<>>
    /\ half = FALSE /\ streaming = FALSE
    /\ requests = [n \in 0..(Span - 1) |-> NoEntry]
    /\ extensions = {} /\ big = {} /\ transparent = FALSE /\ setup = FALSE
    /\ view \in {ViewOf(size) : size \in Views \cup {Native}}
    /\ selected = FALSE /\ lastSequence = 0 /\ deferred = <<>>
    /\ changes = 0

-----------------------------------------------------------------------------
\* request(): the entry of the number taken before is gone; a request is
\* remembered when its reply is rewritten or learnt from, or when its extension
\* is known at all.
Remembered(request) ==
    \/ request.kind \in {"queryRandr", "queryBig", "geometry"}
    \/ request.kind \in Randr /\ "RANDR" \in extensions
    \/ request.kind = "enable" /\ "BIG-REQUESTS" \in extensions

\* Seeded fault: what was remembered under the number stays.
RequestKept(request) ==
    IF Remembered(request)
    THEN [requests EXCEPT ![request.number % Span] =
             [kind |-> request.kind, number |-> request.number]]
    ELSE requests

RequestNoted(request) ==
    [requests EXCEPT ![request.number % Span] =
        IF Remembered(request) THEN [kind |-> request.kind, number |-> request.number]
        ELSE NoEntry]

\* Seeded fault: an opcode never asked about is any other request.
NeverUnreadable(request) == FALSE

\* What a request makes unreadable: BigReqEnable under an opcode the client never
\* asked the server about, and a legacy size that is in no table shown to it.
Unreadable(request) ==
    \/ request.kind = "enable" /\ "BIG-REQUESTS" \notin extensions /\ "framer" \notin big
    \/ /\ request.kind = "config" /\ "RANDR" \in extensions
       /\ view.enabled /\ ~view.table

\* Policy::frame() for a request: one the server will refuse is not rewritten;
\* a size the connection has already is a NoOperation.
ReadRequest ==
    LET request == Head(toProxy)
        reads == ~transparent
        satisfied == /\ reads /\ request.kind = "setSize" /\ "RANDR" \in extensions
                     /\ view.enabled
    IN  /\ toProxy # <<>>
        /\ toProxy' = Tail(toProxy)
        /\ toServer' = Append(toServer, [kind |-> IF satisfied THEN "noOperation" ELSE request.kind,
                                         number |-> request.number, read |-> reads,
                                         big |-> "framer" \in big])
        /\ IF reads
           THEN /\ requests' = RequestNoted(request)
                /\ transparent' = Unreadable(request)
                /\ big' = IF request.kind = "enable" /\ "BIG-REQUESTS" \in extensions
                          THEN big \cup {"framer"} ELSE big
                /\ selected' = (selected \/ (request.kind = "select" /\ "RANDR" \in extensions))
           ELSE UNCHANGED <<requests, transparent, big, selected>>
        /\ UNCHANGED <<sentCount, readCount, fromServer, toClient, half, streaming, extensions,
                       setup, view, lastSequence, deferred, changes>>

\* DisplayReplies::reply() on what a reply teaches: the modes and the table of a
\* size the server has no mode for withdraw the policy.
Taught(kind) ==
    IF ~view.enabled
    THEN IF kind = "sizes" THEN [view EXCEPT !.table = FALSE] ELSE view
    ELSE IF kind \in {"modes", "sizes"} /\ view.size \notin Offered
    THEN [view EXCEPT !.enabled = FALSE, !.modes = FALSE,
                      !.table = IF kind = "sizes" THEN FALSE ELSE @]
    ELSE IF kind = "modes" THEN [view EXCEPT !.modes = TRUE]
    ELSE IF kind = "sizes" THEN [view EXCEPT !.table = TRUE]
    ELSE view

\* response(): a reply or an error takes what was remembered under its number.
Response(message) ==
    LET entry == requests[message.number % Span] IN
    IF message.kind = "event" THEN UNCHANGED <<requests, extensions, view>>
    ELSE /\ requests' = [requests EXCEPT ![message.number % Span] = NoEntry]
         /\ extensions' =
               IF message.kind = "error" THEN extensions
               ELSE extensions \cup (CASE entry.kind = "queryRandr" -> {"RANDR"}
                                       [] entry.kind = "queryBig" -> {"BIG-REQUESTS"}
                                       [] OTHER -> {})
         /\ view' = IF message.kind = "error" THEN view ELSE Taught(entry.kind)

\* A part of the server's next message arrives.  One too large to be held is
\* read for its number and relayed from here on as it comes.
ReadHalf ==
    LET message == Head(fromServer) IN
    /\ fromServer # <<>> /\ ~half
    /\ half' = TRUE
    /\ streaming' = message.large
    /\ IF message.large /\ ~transparent
       THEN /\ requests' = [requests EXCEPT ![message.number % Span] = NoEntry]
            /\ lastSequence' = message.number
       ELSE UNCHANGED <<requests, lastSequence>>
    /\ UNCHANGED <<sentCount, readCount, toProxy, toServer, fromServer, toClient, extensions, big,
                   transparent, setup, view, selected, deferred, changes>>

\* feed() of the server's side: a whole message, perhaps with a part of the one
\* behind it.  What was deferred follows once no message is in progress.
ReadMessage(more) ==
    LET message == Head(fromServer) IN
    /\ fromServer # <<>>
    /\ more => Len(fromServer) > 1 /\ ~fromServer[2].large
    /\ fromServer' = Tail(fromServer)
    /\ half' = more /\ streaming' = FALSE
    /\ toClient' = (toClient \o <<message.number>>) \o (IF more THEN <<>> ELSE deferred)
    /\ deferred' = IF more THEN deferred ELSE <<>>
    /\ IF transparent THEN UNCHANGED <<requests, extensions, view, lastSequence>>
       ELSE /\ IF streaming THEN UNCHANGED <<requests, extensions, view>> ELSE Response(message)
            /\ lastSequence' = message.number
    /\ UNCHANGED <<sentCount, readCount, toProxy, toServer, big, transparent, setup, selected,
                   changes>>

\* setupReply(): the client reads the size of its screen; until then nothing can
\* be said of a change.
SetupReply ==
    /\ ~setup /\ setup' = TRUE
    /\ UNCHANGED <<sentCount, readCount, toProxy, toServer, fromServer, toClient, half, streaming,
                   requests, extensions, big, transparent, view, selected, lastSequence, deferred,
                   changes>>

\* changeDisplay(): a new view, and the events that tell a client of it which
\* selected them, numbered as the message it read last.
ChangeDisplay(size) ==
    LET told == IF setup /\ "RANDR" \in extensions /\ selected THEN <<lastSequence>> ELSE <<>> IN
    /\ changes < MaxChanges /\ changes' = changes + 1
    /\ size # view.size /\ ~transparent
    /\ view' = ViewOf(size)
    /\ IF half THEN deferred' = deferred \o told /\ UNCHANGED toClient
       ELSE toClient' = toClient \o told /\ UNCHANGED deferred
    /\ UNCHANGED <<sentCount, readCount, toProxy, toServer, fromServer, half, streaming, requests,
                   extensions, big, transparent, setup, selected, lastSequence>>

-----------------------------------------------------------------------------
\* The client and the server.  A client keeps fewer requests unanswered than
\* there are numbers, and reads what it is sent.
ClientRequests(kind) ==
    /\ setup /\ sentCount < MaxRequests
    /\ sentCount - readCount < Span - 1
    /\ sentCount' = sentCount + 1
    /\ toProxy' = Append(toProxy, [kind |-> kind, number |-> sentCount'])
    /\ UNCHANGED <<readCount, toServer, fromServer, toClient, half, streaming, requests, extensions,
                   big, transparent, setup, view, selected, lastSequence, deferred, changes>>

ClientReads ==
    /\ toClient # <<>>
    /\ readCount' = Head(toClient) /\ toClient' = Tail(toClient)
    /\ UNCHANGED <<sentCount, toProxy, toServer, fromServer, half, streaming, requests, extensions,
                   big, transparent, setup, view, selected, lastSequence, deferred, changes>>

ServerAnswers(refused) ==
    LET request == Head(toServer) IN
    /\ toServer # <<>>
    /\ refused => request.kind \notin {"enable", "noOperation"}
    /\ toServer' = Tail(toServer)
    /\ fromServer' = IF refused \/ request.kind \in Replied
                     THEN Append(fromServer, [kind |-> IF refused THEN "error" ELSE "reply",
                                              number |-> request.number,
                                              large |-> request.kind = "image" /\ ~refused])
                     ELSE fromServer
    /\ big' = IF request.kind = "enable" THEN big \cup {"server"} ELSE big
    /\ UNCHANGED <<sentCount, readCount, toProxy, toClient, half, streaming, requests, extensions,
                   transparent, setup, view, selected, lastSequence, deferred, changes>>

\* An event has the number of the request the server handled last.
ServerEvent ==
    LET unhandled == Len(toServer) + Len(toProxy) IN
    /\ setup /\ changes < MaxChanges /\ changes' = changes + 1
    /\ fromServer' = Append(fromServer, [kind |-> "event", number |-> sentCount - unhandled,
                                         large |-> FALSE])
    /\ UNCHANGED <<sentCount, readCount, toProxy, toServer, toClient, half, streaming, requests,
                   extensions, big, transparent, setup, view, selected, lastSequence, deferred>>

PolicyNext ==
    \/ \E kind \in Asked : ClientRequests(kind)
    \/ ReadRequest \/ ReadHalf \/ SetupReply \/ ClientReads \/ ServerEvent
    \/ \E more \in BOOLEAN : ReadMessage(more)
    \/ \E size \in Views : ChangeDisplay(size)
    \/ \E refused \in BOOLEAN : ServerAnswers(refused)

PolicySpec == PolicyInit /\ [][PolicyNext]_policyVars
-----------------------------------------------------------------------------
\* A reply is rewritten as the answer to the request it is the answer to: what is
\* found under its number was remembered for it, as long as the connection is
\* read, though numbers come round again and some requests have no reply.
\* (request() and response(), policy.cpp:72-172)
ReplyFindsItsRequest ==
    ~transparent => \A i \in DOMAIN fromServer :
        LET message == fromServer[i]
            entry == requests[message.number % Span] IN
        message.kind = "reply" => entry = NoEntry \/ entry.number = message.number

\* A request is taken to end where the server takes it to end, or the connection
\* is not read: a length of zero means the same to both.
\* (request() and Framer::requestLength(), policy.cpp:100-115, framer.cpp:66-92)
FramedAsServer ==
    toServer # <<>> /\ Head(toServer).read => (Head(toServer).big <=> "server" \in big)

\* No message reaches the client behind one of a later request: an event of the
\* proxy's own carries no lower number than what was relayed before it.
\* (changeDisplay() and m_lastSequence, policy_display.cpp:10-30, policy.h:81-83)
NumbersNeverFall ==
    \A i \in DOMAIN toClient : toClient[i] >= IF i = 1 THEN readCount ELSE toClient[i - 1]
=============================================================================
