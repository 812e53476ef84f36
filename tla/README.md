# Verification of kwin-effect-upscale

TLA+ models of the upscale effect for KWin and of its session proxy for X11
clients: modules, TLC configurations that check them on small instances, and
proofs checked by TLAPS. Every definition is translated from the source;
`PROJECT.json` maps each to the lines it stands for.

## 1. The system and its parts

The repository builds two programs. The *effect* (`src/plugins/upscale`) runs
inside KWin, enlarges a game's smaller window to its output and tries to make
the game draw smaller in the first place. The *proxy* (`src/x11proxy`) stands in
front of Xwayland's socket and shows the games' processes a smaller screen.
They talk over D-Bus: the proxy asks which screen a process is to see
(`x11PrefixMayMatch`, `x11ConnectionPolicy`) and reports processes that were
switched later (`x11ProcessShown`). A third part, the settings page, writes the
file the effect reads. Everything in each program runs on one event loop, so
what interleaves are callbacks: timers, replies, socket notifiers, X events,
Wayland requests, frames, and what a person does.

| component | state | operations | what is hard |
|---|---|---|---|
| Session (proxy), `connection.cpp` | outstanding decisions, answers by process with a count of relays, and per Wine prefix its program, its count of connections, its relays and the screen shown | accept, check prefix, decide, retry, reply, time out, relay, show a prefix, forget | replies that overtake connections, rounds of calls outliving a prefix, counts kept in callbacks |
| Effect's record, `x11proxypolicy.cpp` | the last 128 processes answered with a size | three D-Bus methods | answers nobody waits for any more, settings and mode list that change in between |
| Relay, `relay.cpp` | per side a queue of packets, byte and descriptor counts, end of stream, two notifiers | receive, queue, deliver, send, refresh, finish, change screen | partial writes, limits, flow control, descriptors against bytes, end of stream |
| Framer and policy, `framer.cpp`, `policy*.cpp` | an incomplete message per side, outstanding requests by number, extensions, selections, deferred events | frame, note, rewrite, defer, turn transparent | numbers that wrap, lengths whose meaning changes, a message in parts while the screen changes |
| Display replies, `display*.cpp` | the modes and sizes a client was shown, and their places in the server's lists | rewrite RandR, VidMode and setup replies | indices into lists read before a change |
| Process identity, `identity*.cpp` | none kept; what `/proc` shows of a process at one moment | read a process, scan a prefix | Wine rewrites a command line while it starts a program |
| Registry, `registry.cpp` | resource ranges and their connection | add, remove, find | ranges reused before the old relay is gone |
| Proxy start and end, `startup.cpp`, `session.cpp`, `lifecycle.cpp` | inherited sockets, the backend's process, a kill timer | parse, start, signal, exit | repeated signals against the timer |
| X11 negotiation, `x11resolution*.cpp` | per window a request, per key a verdict, tokens of waits | ask, restore, validate, retry, release, withdraw | property changes and configures that cross, several timers per window |
| X11 startup, `x11resolution_startup.cpp` | held map requests | hold, flush | timer, answer, unmap and destruction in any order |
| Wayland scale, `waylandscale.cpp`, `waylandresize.cpp`, `waylandinitial.cpp` | per window the scale and size asked for | request, check, release | a late answer after the fallback; KWin re-setting the scale |
| Mode override and logical sizes, `modeoverride.cpp`, `logicalsize.cpp` | what each client was told, by object and by connector | decide at bind, announce, restore, log | another monitor at the connector, late destruction, KWin's own events between the effect's |
| Effect core, `upscale*.cpp`, `display.cpp` | candidate, window enlarged and drawn over its output, refusals, failed passes, text shown | activate, paint, refuse, reconfigure, release | what is left on the screen when a window, a pass or the text goes, and while KWin calls no hook |
| Eligibility and sizes, `eligibility*.cpp`, `resolution.h`, `picture.h` | none | checks of one window, shares, rounding | precedence, and rounding that has to agree between what is asked and what is accepted |
| Recognition, `matching.cpp`, `windowidentity.cpp`, `gamerecognition.cpp` | the compiled list, entries kept per window, the desktop's index of games | read, match, keep, invalidate | what is kept outlives what it was made of |
| Profiles, `application.cpp`, `applicationeditor.cpp` | package, user's file and the page's copy of entries | read in layers, edit, save what differs, import | a value that is written as no value, old keys |
| Global settings, `upscale_config.cpp`, `settings.cpp`, `legacysettings.cpp` | file, generated class, controls, the effect's copy | load, change, Defaults, Apply | four copies and two releases' keys |
| Input filters, `pictureinput.cpp`, `x11input.cpp`, `touchinput.cpp`, `tabletinput.cpp` | focus and mapping of the seat, pens and touches begun | press, move, release, re-target | windows and pictures that come and go while something is down |
| Rendering, overlay text, widgets | shaders, text, layout | | not modelled: nothing else depends on them |

What makes each correct: the session's counts are exact, no client waits for
ever, a prefix's programs agree on one screen and the effect knows of every
process shown a smaller one; the relay is a faithful byte stream with timely
descriptors and bounded memory, told of another screen between messages only,
and reads every message as server and client do; the effect's requests are given
back, waits end, and nothing told to a program stays with it; a frame leaves no
picture beside the one before it; a program that does as it is asked is enlarged;
what is kept, indexed, saved or shown is what it stands for; input reaches what
the user sees.

## 2. Modules

| module | models | role |
|---|---|---|
| `ProxySession` | `session.h`, `connection.cpp`, `x11proxypolicy.cpp` and the calls in flight | component |
| `MCSession` | instances of it | TLC |
| `ProxySessionProofs` | theorems of `ProxySession` | TLAPS |
| `Relay` | `relay.cpp`, and of `framer.cpp`, `policy.cpp`, `policy_display.cpp` what decides when bytes move | component |
| `ByteStream` | what a relay promises its peers | abstract specification, implemented by `Relay` |
| `MCRelay` | an instance of it | TLC |
| `MCProgress` | instances of `Relay` and `WaylandScale` together | TLC |
| `RelayProofs` | theorems of `Relay` | TLAPS |
| `ConnectionPolicy` | `policy.cpp`, `policy_identity.cpp`, `policy_display.cpp`, `framer.cpp`: which message is which | component |
| `ConnectionPolicyProofs` | theorems of `ConnectionPolicy` | TLAPS |
| `DisplayLists` | `display.cpp`, `display_legacy.cpp`: what is shown of the server's lists | component |
| `ProcessIdentity` | `identity.cpp`, `identity_proc.cpp`, and the names `windowidentity.h` gives | component |
| `ProxyLife` | `main.cpp`, `startup.cpp`, `session.cpp`, `registry.cpp`, `lifecycle.cpp` | component |
| `ProxyLifeProofs` | theorems of `ProxyLife` | TLAPS |
| `X11Resolution` | `x11resolution.cpp`, `_events`, `_validate`, `_present`, `x11geometry.cpp`, with the client, Xwayland and KWin as they rely on them | component |
| `MCX11` | instances of it | TLC |
| `X11ResolutionProofs` | theorems of `X11Resolution` | TLAPS |
| `HeldMaps` | `x11resolution_startup.cpp` | component |
| `WaylandScale` | `waylandscale.cpp`, `waylandresize.cpp`, `waylandinitial.cpp`, `autorequest.cpp` | component |
| `WaylandScaleProofs` | theorems of `WaylandScale` | TLAPS |
| `OutputAdvertisement` | `modeoverride.cpp`, `logicalsize.cpp` | component |
| `OutputAdvertisementProofs` | theorems of `OutputAdvertisement` | TLAPS |
| `Sizes` | `resolution.h`, `picture.h`, and of `modeoverride.cpp`, `waylandscale.cpp`, `waylandresize.cpp`, `x11modes.cpp` the arithmetic | operators |
| `Eligibility` | `eligibility.cpp`, `eligibility_over.cpp`, `presentation.h` and what the ways of asking ask of it | operators |
| `AskedWindows` | the ways of asking joined with the checks | component |
| `EffectFrames` | `upscale.cpp`, `upscale_over.cpp`, `upscale_display.cpp`, `display.cpp` | component |
| `Recognition` | `matching.cpp`, `pattern.cpp`, `windowidentity.cpp`, `x11proxypolicy.cpp`, the layers of `settings.cpp` | component |
| `GameIndex` | `gamerecognition.cpp` | component |
| `ProfileStore` | `application.cpp`, `legacysettings.cpp`, `applicationeditor.cpp` with its controls | component |
| `SettingsPage` | `upscale_config.cpp`, `displaycontrols.cpp`, `placement.cpp`, `settings.cpp`, `legacysettings.cpp` | component |
| `PictureInput` | `pictureinput.cpp`, `x11input.cpp`, `touchinput.cpp`, `tabletinput.cpp` | component |
| `PartsProofs` | theorems of `HeldMaps`, `DisplayLists`, `GameIndex`, `Recognition`, `PictureInput`, `SettingsPage` and `EffectFrames` | TLAPS |
| `MCParts` | an instance of every component without one of its own | TLC |

`Eligibility` extends `Sizes`; `AskedWindows`, `Recognition` and `ProfileStore`
extend `Eligibility`, `SettingsPage` extends `Sizes`. `MCParts` extends the
components that no other MC module does. Operators named as seeded faults are wrong variants of the definition
after them, kept to show that each property can fail; no specification uses them.

### ProxySession

A connection is a member of `Conns` and goes through `phase`: "closed",
"checking" (the call of `checkPrefix` is out), "waiting" (a timer of
`decideClient` is armed), "asking" (the call of `decideClient` is out), "relay",
"finished" (`Relay::finish` ran, `forgetRelay` did not yet). The other variables
are the members of `Session` under their names (`m_` dropped), the calls and
replies in flight as two sequences in the order D-Bus delivers them, and the
effect's record `served`. Each callback is one action: `AcceptUnidentified`,
`AcceptKnown`, `AcceptUnknown` are the three ways through `acceptClient`,
`Retry`, `PrefixReply`, `PolicyReply`, `CallFails` the ways a decision goes on,
`ShownReply` and `ShownLapses` the ends of one call of a round, `Finish` and
`Forget` the two steps of a relay's end. `BackendAccepts` is the whole of
`relayClient`, with the screen of the prefix it may start to show; a round of
`x11ProcessShown` calls is an element of `Batches`.

A relay is only the size its policy shows and whether it still reads its stream.
A process' prefix, program and component are constants: they are read from
`/proc` once per question and do not change. Which program a scan of `/proc`
finds for a prefix is any of its programs, or none.

### Relay

Bytes are counted. `received`, `passed`, `held` and the lengths in `queue` carry
everything the properties compare; where messages end is the peers' choice, so a
chunk may complete a message anywhere or nowhere (`Framed`). A descriptor is
named by the byte it was sent with. `Receive`, `Send` and `ChangeDisplay` are
the three entries of the class; `Deliver` writes at once when the queue was
empty, and `Refresh` is part of each of them, as in the code. `SendFails`
covers every error of `sendmsg`, and a write to a side already shut.

### X11Resolution

One program's windows on one output: one key, so one negotiation. The record
`control` holds what this code changes: `m_requests`, `m_negotiations`,
`m_waitingForBuffer`, `m_withdrawals`, `m_overdue`, `m_releases`, `m_generation`,
its pending callbacks (`timers`), the size KWin's window has, what the client
was `told` and has not read, and which surfaces are `stretched`. The helpers
`Restore`, `Release`, `Begin`, `Ask`, `Apply`, `Refuse` and `Validate` are the
methods of those names, each from the record before to the record after, so that
a handler that calls several of them is still one action. The handlers are the
actions `Map` (`watch`), `Close` (`forget`), `SaveSettings` (`reconfigure`),
`ModeChanged`, `LeaveRequested`, `FullscreenRequested` and `ResizeRequested`
(`event`), `Commits` (the damage handler with `present`), and one per callback
under "Callbacks".

Time is only order. A validation, a wait and a deadline get a number after every
pending one (`Number`), which is all the code compares, and deadlines come in
that order because each is three seconds after it was set. A quarter of a second
(`retry`) and a zero timer may come at any time.

External are the client, Xwayland and KWin. A client is of one kind: it answers
each resize by selecting the size as its mode ("mode"), by only drawing it
("buffer"), or not at all ("deaf"), or by any of a set of these. Xwayland keeps
the mode as a property and tells KWin of each change; KWin 6.6 sizes a
fullscreen window from it after this code saw the event (`SizesByMode`), KWin 6.3
does not. That is how `ask()`'s comment describes them.

Abstractions: a fullscreen window covers its output, so `fullscreen` stands for
both tests; positions and the primary output are in `Available`, the modes
`begin()` takes; `wanted` is the listed mode the settings come to; KWin answers a
resize request it decides itself with the size the window has; `m_restoring` is
never true between two steps. At most one window of the program is mapped at a
time, a new one after another closed: two mapped windows share one mode
property's value and one negotiation in ways that need a model of the client's
several connections.

### ConnectionPolicy and DisplayLists

`ConnectionPolicy` follows single messages of one connection, where `Relay`
counts bytes. A message is its kind and the number of its request, counted
without wrapping; `requests` is `m_requests`, found by that number modulo `Span`
as the code finds it by 16 bits. `ReadRequest` is `Policy::frame()` of a request,
`ReadHalf` and `ReadMessage` what the framer and `response()` make of a part and of
the whole of the server's next message, `ChangeDisplay` the change of screen with
the events it queues. `big` says who already takes a zero length for an extended
one. Each does from the request that enables it on, when it comes to it: the framer
as it relays BigReqEnable (`policy.cpp:99`), the server when it reads it. What can
set them apart is that the framer knows the request by an opcode it learned from a
reply; one of that form under another opcode makes the stream transparent
(`Unreadable`).

`DisplayLists` is the state of `DisplayReplies` over a server that replaces its
list of modes at any time: which modes a reply names, the place shown for each
size and the server's place behind it. `legacy` is what the client was shown
last, which is all it has when it names a place: a reply and its reading are one step. So
a place of the list before, named while its successor is between proxy and client,
is not modelled. The server refuses such a request when its own list changed, by the
time the request carries; when only the proxy's list did, because the policy was
withdrawn, that time is the same, and the place would be taken for one of the new
list. Nothing is claimed of that request.

### ProcessIdentity

A process is what was started (a member of `Starts`, with its command line,
environment, sandbox and what it really runs) and the command line `/proc` shows
now, which `WineWrites` changes twice, as Wine does. `ProgramIdentity` and
`PrefixProgram` are the two questions the proxy asks, `EffectNames` the names the
effect gives the window later. A path is a sequence of names; of their text only
the ending `.exe`, the form of a drive and capitals matter, and these are
constants. One prefix named through two links counts as two, as in the code.
A `..` after a link is not in the instance: the code takes it away before it
follows the link, and the file meant is another.

### ProxyLife

`LifeInit` is `main()` as far as the running `Session` (parse, or become the stock
Xwayland), `Signal`, `Tick`, `Kill` and `Finished` the end of the backend and of
the proxy, `Connect` and `Drained` a connection's registration and its relay's
end. Between `ServerCloses` and `Drained` the server may hand out the range again.
`generation` is the number that tells two registrations of one range apart.
`SaveRouting` and `Check` are the warning of `lifecycle.cpp`.

### WaylandScale

`windows` is KWin's state of each window: the size and the scale it asked for,
what the client committed, the output. `scaleRequests` is `m_requests`. A handler
that KWin calls synchronously is an operator from the state before to the state
after (`TargetHeard`, `CheckAnswer`, `Release`), so an action that makes KWin emit
a signal contains what the handlers do. A client draws smaller for a scale, for a
size, only for its first configure, by a viewport of its own, or never. The
client of the kind "viewport" commits a smaller buffer on its own and is asked
again after each change of the output, which is why the properties speak of one
wait and not of all of them.

### OutputAdvertisement

A program's objects are sequences, each with what was sent on it and, of an
xdg_output, what was applied. KWin's own events (`EventsOf`) go out one by one in
the request that creates the object, and `Logged` is the protocol logger between
them: what it sends on an object goes out before the event it was called for. `Idle`
runs when the round of requests is over.

A screen is a connector, and `monitor` what is there. What is told is a share of the
monitor's size as it is read at that moment, so sizes are percentages of what KWin
says; whether the monitor is worth a mode (`large`) and lists the scale (`steps`)
changes with it. `Plug` brings any monitor, `Unplug` withdraws the Wayland object,
which `Destroy` destroys later, `SetUp` changes mode or scale while the screen is
there, on which KWin describes every object anew. The records are kept as the code
keeps them: `announced` by the output's Wayland object, `advertised` and `logical`
by the connector's name, so the last two outlive the monitor. `older` is history: the
programs told of a connector before what is there changed, and not since.

Left out: the objects of a screen that is gone are inert (`Gone`), and what is still
sent on them, as by restoring a switched-off output, changes nothing a program sees;
a program releases no wl_output; and two outputs at one position, which
`toldOutput()` cannot tell apart. `Answered` is of one object at a time: that at most
one waits when one is answered is `OneAtATime` of the proof.

### HeldMaps

Events of a window arrive in order (`arriving`); each is handled by the effect,
which may keep it back, and then by KWin. `meant` is what KWin would have made of
the same events without the effect, which is what holding has to come to.

### Sizes, Eligibility, AskedWindows

`Sizes` is the arithmetic in exact shares. `Eligibility` is the checks in their
order, each naming the refusal it gives, on a record of what KWin answers about
one window. `AskedWindows` joins what is asked with what is accepted: its states
are the outputs, settings and ways of asking, and the window of a program that
does exactly what it is asked.

### EffectFrames

An output has what is damaged and what it shows (`pixels`). `Frame` is one frame of
an active effect, through `prePaintScreen`, the area painted, the pass that may
fail, the request for a smaller buffer and the display; `PlainFrame` is KWin's
without the effect. Everything else that happens (a commit, a resize, a window
raised, moved or closed, the screen locked, settings saved) damages what KWin
repaints for it. `IsActive` is the disjunction of `isActive()`: a candidate, a window
that is to be asked or whose answer is awaited (`AutoWaiting`), text to show. `asked`
holds the requests; how a request goes on is `WaylandScale`, here its window answers
or does not, at any frame. `behind` is history: the outputs KWin painted without the
effect after the effect had left a picture or text there.

### Recognition, GameIndex, ProfileStore, SettingsPage

`Recognition` keeps what the code keeps: the compiled list with its generation,
what is resolved per address, and the record of served processes. An address may
be used by another window. What a current index names as games is `gameNames`, which
changes as games are installed (`ReplaceMenu`); `sinceOpened` is history, what it named
at some time and at all times since each window opened, because a window is
recognised once for each desktop entry it names. `reading` is the settings as read
last, the previous release's switch among them (`switchedOff`). `GameIndex` reads directories and entries step by step
while packages are installed and a clock with coarse ticks goes on; that the
directories exist is assumed. `ProfileStore` is a package's layer, the user's
groups and the page's copy with its originals; `RetireLegacyKeys` writes what
the entry has, also a value only the package states, and the instance has keys of
the previous release only on an entry the user added, where the two agree.
`SettingsPage` has one key for all settings that are only copied and one method
for the four. `Followed` is what the effect makes of the settings it kept. The
previous release's switch `Enabled` (`OldSwitch`) is a key like the other old ones,
but that no key of this release replaces it: the effect reads it, the page neither
shows nor reads it, and Apply leaves it in the file on purpose.

### PictureInput

The seat is what KWin holds (`seat`), what the client was told (`told`) and whom
each filter claims it for. A `place` is on the window and its picture, on the
picture only, on a bar, or on another output. `SceneChanges` is any change of how
the game is shown, at any moment, also while a button, a finger or a pen is down. The
code leaves the order of its two filters to KWin's list of filters; `X11First` is
FALSE, since the picture's filter is installed first. Touches and pens ask
`TouchPictured`, with the condition on the seat's pointer that `letterboxedPicture()`
has; the pointer of such a behaviour stays where it was at first, on the game or off.

A touch is `finger`: who has it, where, and what its client was told, which `Down`
settles and `Mapped` keeps. Of a pen, `told` is the filter's note (`m_pens`) and
`heard` what the game made of all it was sent, also by KWin, whose forwarding is
external: it enters and leaves the window it finds, and a contact the game never
heard begin ends unheard. `forwarded`, `takenBack` and `onPicture` are history: KWin
spoke to the game last, a picture took the pen back after that, and the contact began
on a picture. A client that supports no tablets, to which delivery fails, and pens
and touches that last beyond the effect are left out.

### MCParts and MCProgress

The components without state in common are checked by one specification:
`subject` names the component that moves, the others keep their first state. A
behaviour of a subject is a behaviour of its own specification, and one
configuration gives every module its instance. `MCProgress` does the same with `turn`
for the two of them whose liveness is checked, `Relay` and `WaylandScale`, since
liveness costs TLC much more than an invariant; `Continues` is the fairness of
whichever of them moves. What couples them is in the modules
as input: the answer of the effect in `ProxySession`, a process that was served in
`Recognition` and `Eligibility`, the index of `GameIndex` in `Recognition`, a request
of the X11 control in `PictureInput`, what is asked of a window in `EffectFrames`.

## 3. Runs

| run | question | result |
|---|---|---|
| `session_prefix` | Do the programs of one prefix end up on one screen that the effect knows of, and is it forgotten in time? | holds |
| `session_answered` | With every fault, are the counts exact and is every client decided? | holds |
| `session_reopen` | Is a relay switched only after the effect heard of its process? | violated, see 6 |
| `session_native` | Does one program see one screen without a prefix? | violated, see 6 |
| `progress` | Is the relay a byte stream within its limits, that ends when it should, and does a Wayland request end and take back what it asked? | holds |
| `relay_between` | Is the client told of another screen between two messages? | violated, see 6 |
| `x11_calm` | Do request, client and KWin end up agreeing, with nothing asked or given back before the client answered? | holds |
| `x11_contested` | With clients that answer late, partly or not at all, does every wait end and the asking stop, and is all given back? | holds |
| `x11_hasty` | The same as the first, for settings saved while the answer is in KWin's queue. | violated, see 6 |
| `x11_reassert` | The same, for a client that asks for fullscreen again while its request is released. | violated, see 6 |
| `parts` | Each of the other components: the eighteen properties below. | holds |
| `policy_numbers` | Does a client read the messages in the order of their numbers? | violated, see 6 |

What `parts` shows, and `progress` of the Wayland requests (the last two):

| property | component | it says |
|---|---|---|
| `ReplyFindsItsRequest` | `ConnectionPolicy` | a reply is rewritten as the answer to its own request, though numbers come round |
| `FramedAsServer` | `ConnectionPolicy` | a zero length means the same to proxy and server, or the stream is not read |
| `ShownStaysTrue` | `DisplayLists` | the modes and places a client was shown go on meaning what they meant |
| `NamedForItsFile` | `ProcessIdentity` | at every moment of Wine's start a process is named for the file it runs, as its window will be |
| `RegistryNamesOwner` | `ProxyLife` | a range that is reused early names its new owner |
| `KillIsNotPutOff` | `ProxyLife` | signals do not restart the timer that kills a backend |
| `HoldIsInvisible` | `HeldMaps` | holding changes when KWin sees a mapping, never what comes of it |
| `EnlargedAsAsked` | `AskedWindows` | a program that does as it is asked is enlarged, and fills the output |
| `ClaimedByFirst` | `Recognition` | a window is claimed by the first entry that matches it now, and acts when it is claimed or a game, unless the old switch is off |
| `IndexTellsTheMenu` | `GameIndex` | an index taken for current names the games there are |
| `SavedIsRead` | `ProfileStore` | what is saved is read back, over a package that changed as well |
| `AppliedTogether` | `OutputAdvertisement` | no logical size is applied that does not belong with the mode told last, but to a program not told of the screen since its monitor changed |
| `NothingStaysTold` | `OutputAdvertisement` | what was told stays only while an announcement on record takes it back |
| `ScreenStaysTrue` | `EffectFrames` | what is not to be painted again is one picture, and text about what is described |
| `PointerIsWhereShown` | `PictureInput` | pointer events reach what is shown under the pointer, at that position |
| `TouchKeepsItsClient` | `PictureInput` | a touch stays with what it began on, mapped as that was shown, or reaches nothing |
| `StrokesComplete` | `PictureInput` | a pen's strokes are neither contradicted nor left unfinished |
| `PageTellsTheEffect` | `SettingsPage` | with nothing to apply, the page shows what the effect follows, but for the old switch, which is kept |
| `GivenBack` | `WaylandScale` | what was asked of a window goes back with the request, whatever KWin set meanwhile |
| `RequestEnds` | `WaylandScale` | no drawing client is waited for for ever |

Bounds. `session_prefix` has three connections for a game and a component of its
prefix: two relays to switch and one that changes the plan meanwhile; two rounds
can be out at once, and two connections of the game keep one answer.
`session_answered` has two connections and every fault, one timed retry
(`MaxTries`, the deadline's room) and one change of settings. `MaxInbox` bounds
how far the effect may be behind when another client connects; calls already
being made are not cut off. In `progress` the relay has messages of three bytes at
most held whole, reads of two, and a server that sends eight, more than the
queue's six: full queues, resting readers and every split of a message occur,
and a second change of screen adds no new case because events are only counted.
`x11_calm` has one window of a client of KWin 6.6 and four moves of the user and
the client (`MaxMoves`): settings saved and fullscreen left and entered between
a request, its answer and its verdict, and a resize asked for meanwhile. Its
clients answer within the validation window (`Prompt`) and always in the same
way; the user and the client move only once KWin handled what came before, and
go in or out of fullscreen once the client answered too (`May`). Each of these
matters, and the code depends on it: a client that answers after its verdict, or
sometimes with a mode and sometimes without, ends at another size than was asked,
as does one that leaves fullscreen with an answer outstanding. `x11_contested`
drops them all, and asks less: two windows after each other, a mode that is
refused, one replacement allowed (`MaxAttempts`, six in the code), one move. It
is KWin 6.3, because under KWin 6.6 settings saved at the wrong moment can make
KWin and the client answer each other with two sizes for ever, which is the
finding of `x11_hasty` carried on.
`CHECK_DEADLOCK FALSE` in the configurations of `X11Resolution`, `Relay`,
`ConnectionPolicy` and the components: all windows closed and all moves made, a
finished relay, a client that sent its last request, an effect that ended, or a bound
reached takes no more steps. `Symmetry` permutes connections and rounds, which nothing
distinguishes, in runs without liveness.

The bounds of the other runs, by component:

- `ConnectionPolicy`: numbers wrap at two (`Span`) and five requests are made, so
  each number is used again twice, with requests that have a reply and one that has
  none, errors, parts of a reply, and one event or change of screen at any point.
- `DisplayLists`: three modes of which two have one size, lists that lose, split
  and reorder them, changed twice.
- `ProcessIdentity`: two processes at a time and three over a behaviour, a second
  of a prefix before the first is gone; twelve starts, one for each way Wine, a
  launcher, a sandbox and the host write a command line.
- `ProxyLife`: two ranges and three connections, so one is reused before the old
  relay drains; a grace of three ticks and two signals, a second within it.
- `WaylandScale`: two windows, one of any kind of client, two outputs and two
  changes; thirty frames of patience are two, since only the last one acts.
  `OutputScales` is {100, 150}: see `GivenBack` in 6 for what {100, 200} shows.
- `OutputAdvertisement`: two programs, one claimed with new objects and one a game
  of "All games" with old ones (one has two objects of each kind, the other one), a
  connector, a monitor worth a mode and one that is not, and three changes of settings
  or of the screen: enough to unplug, plug another monitor and save.
- `HeldMaps`: two identifiers, three requests of clients in any order against the
  timers of their holds, one save.
- `AskedWindows`: eleven outputs, nine shares, ten ways of asking. `Even` are the
  outputs for the two ways that round logical units, see 6.
- `EffectFrames`: two windows on two outputs and three events between any number
  of frames: one window opens in any way, a second one competes or moves over. The
  bound is one of TLC only: the theorem is of any number of events.
- `Recognition`: entries that match by a part, a last name or a class, in both
  orders, one disabled and one whose pattern is no expression, and settings with the
  old switch off; two addresses, two processes, three menus, a record of one
  (`ServedLimit`, 128 in the code), four steps.
- `GameIndex`: two locations with an entry of the same name, ticks of two, two
  installations at any point of a reading.
- `ProfileStore`: a package, its successor and none, three files of the user,
  three steps. No import of a file that states less than the package, see 6.
- `SettingsPage`: six files (none, the previous release's, both, one edited
  by hand, and two with the old switch), three turns, the effect told late. With `plugging` FALSE no screen comes or
  goes, which halves the states of the rest.
- `PictureInput`: the game in each of six ways with at most one complication
  (`MCScenes`), one kind of device in a behaviour, nothing else bounded.

Fairness. `ProxySession` assumes that the proxy's own timers fire: `Retry` is a
single-shot timer, `CallFails` and `ShownLapses` the deadlines given to
`asyncCall`. The effect is never assumed to answer. `Relay` assumes that each
peer goes on reading (`Send`); nothing forces a peer to send. `X11Resolution`
assumes that KWin's event loop handles its events and timers, and that the client
reads its resizes and commits what it draws; what it makes of a resize, whether it
moves on its own, and that windows come or go is never assumed. `WaylandScale`
assumes that KWin asks for frames of an output while it shows windows
(`FramesKeepComing`); no client is assumed to commit or to answer.

Exceptions a property makes are findings of 6 that the property steps around, so
that it says something of the rest: `AppliedTogether` and `NothingStaysTold` leave out
a program that was told of an older monitor (`older`); `ScreenStaysTrue` leaves out an
output KWin painted without the effect after the effect left something there
(`behind`), until a frame of the effect paints the whole of it; `PointerIsWhereShown`
leaves `told` out while `untold` is set; `TouchKeepsItsClient` admits KWin's own
mapping where a picture with bars is touched while the pointer is elsewhere;
`StrokesComplete` leaves out a pen a picture took back (`takenBack`);
`PageTellsTheEffect` leaves out the old switch, of which it says that nothing done with
the page changes it, and compares with what the effect follows (`Followed`), not with
the text of the file. `ClaimedByFirst` says what a window is taken for only where the
menu agreed about it since the window opened, since the code asks once.

## 4. Proofs

`ProxySessionProofs` proves, for every set of connections, processes, prefixes,
sizes and rounds, and whatever the effect answers:

- `CountsAreExact` and `ClientsStayBounded`: the counters of `Session` are the
  numbers of what they count, so the comparison in `acceptClient` bounds what is
  there.
- `ScreensAreForgotten`: a prefix without a connection has no screen.
- `PrefixIsOneScreen`: without a call out for it, a prefix's screen is what all
  its relays show, as far as they can be switched.

The first three are inductive together (`IInv`), with the fact that the maps the
counts live in keep their domains (`Kept`): the count of an answer that is
forgotten is at least one because its relay is still there, and a prefix's last
connection is recognised by a count only because the count is exact. `Accepted`
is the step of `relayClient`, `ForgetKeeps` that of `forgetRelay`; every other
step only moves decisions (`Steady`). `PrefixAgrees` needs, beside `IInv`, that a
relay is in one prefix only (`OnePrefix`) and what a round of calls is (`Rounds`):
a new show has its own round or switches at once (`AcceptedAgrees`), and the round
that ends a show is the one that switches (`ProceedAgrees`).

- `SessionTyped`: the types of all variables. They are inductive with the fact
  that a decision is out for a known process only (`PendingKnown`): its prefix and
  program are looked up by it.
- `ShownIsOnRecord`: who is shown a screen of its own is on the effect's record,
  or a call that records it is on its way. Its hypothesis `RecordHoldsAll` says
  that the record has room for every process: the code forgets the oldest of 128,
  running or not, and without it the statement is not true (see 5).

The invariant of the second (`ReportedInv`) joins what the proxy shows to what is in
both queues. A size reaches a connection as the answer of its own process, as an
answer kept for the process, or as its prefix's screen; so the processes of all
three are reported (`RepliesServed`, `AnswersReported`, `ScreensReported`). The
first needs that an answer is the connection's own: descriptors are used again, and
a question or answer of the client before may be on its way (`Awaited`, `Lone`,
`CallsKnown`). A call that records a process copies the size of the game it names,
so the game is on record before the call is read (`GamesFirst`): that holds because
a process that is reported was so by a call sent earlier, and the effect reads calls
in the order they were sent. `QueuesStay`, `QuestionAsked` and `EffectReports` are
the steps of the queues; `AcceptedReports` is `relayClient`, `ProceedReports` the end
of a round, `ForgetReports` that of a connection. Sequences are handled by what an
operation leaves in place (`DrawnFrom`, `TellsMore`), with the theorems of the
library about `Append`, `Tail` and `SubSeq`.

`RelayProofs` proves, for every buffer limit, read size, descriptor limit and
event length that `ConstantsAssumption` admits:

- `TypeCorrect` (proved, and repeated by no run): no queue, count or notifier leaves its type. The interesting
  part is that a partial write leaves a packet of natural lengths and that the
  room a read needs is there.
- `NoValidFrameReachesLimit`: a connection ends for a full queue only if its
  screen changed.
- `WritesOnlyWhatWaits`: `send()` never takes the front of an empty queue.
- `EventsWaitForMessage` and `NoEventInsideMessage`.

The invariants are not inductive alone. `IInv` adds to the types: a reader is on
only while its peer's queue has `BurstLimit` bytes of room (`ReaderHasRoom`), what
the framer holds is shorter than the buffer limit and nothing is held while a
long message passes (`HeldIsShort`), deferred events come from a change of screen
(`DeferredNeedsChange`), and a stream that is read and not inside a long message
was passed on to the end of a message (`WholeUnlessStreaming`).
`NoValidFrameReachesLimit` follows because a chunk releases at most what was held
and one read, which is less than `BurstLimit`; `NoEventInsideMessage` because
events leave only with the end of a message. `Invariance` shows `IInv` inductive,
one step per action; the lemmas before it state what each action does to the
queues and to the framer.

From a second invariant, `StreamInv`, it proves:

- `NothingLost` (`CleanEnd`) and `NoneOvertaken` (`DescriptorsInTime`).
- `RelaysByteStreams`: `Spec => IsByteStream`, the relay implements the byte
  stream of `ByteStream`. Every action is mapped to one of the stream's steps, or to
  none when it only queues.

`StreamInv` says that what was received is
what was passed, queued and held, byte for byte; the descriptors not yet passed
are the ones waiting and those in the queue, each packet's no earlier than where
the packet starts; and an end of stream is passed on only with nothing left
(`DoneAfterAll`).

`ConnectionPolicyProofs` proves, for any span of numbers and any number of
requests, events and changes of screen:

- `Typed`, `RepliesFindTheirRequests` (`ReplyFindsItsRequest`) and
  `FramingIsTheServers` (`FramedAsServer`).

A number is stored modulo the span and grows without bound, so what has to be
inductive is that every message in flight has its place in one numbering, in order
(`NumberedInOrder`), and that less than a span of requests is unanswered
(`FewUnanswered`); then two numbers with the same remainder are one. For the framing it is that whatever was sent before the
request that enables long requests was read by the rules the server still has, and
what follows it by the ones it will have (`FramingAgrees`).

`ProxyLifeProofs` proves, for any ranges, connections, signals and grace:

- `LifeTypeCorrect`.
- `RangesNameTheirOwner`: `RegistryNamesOwner`, though a range is reused while
  the relay that had it still drains.
- `GraceIsBounded`: `KillIsNotPutOff`, for any number of signals.

`LifeInv` adds to the types that every relay has a generation that was handed out
and no two have the same (`Registered`), that what is registered for a range is a
relay that is still there, and a relay the server serves is registered (`Owned`),
that without a running proxy there are neither (`NothingWithout`), and that the
time waited is what the timer lost of the grace (`TimeIsCounted`).
Removal is harmless to the new owner because it compares generations, and they
differ because `Registered` says no two relays have the same.

`OutputAdvertisementProofs` proves, for any programs, versions, screens, monitors
and settings, and any number of objects:

- `WhatIsToldIsOnRecord`: `NothingStaysTold`.

`AdInv` holds beside the types: an event on its way is of an object there is
(`SendsOnObjects`); an object is of a screen that is plugged, or inert, and an
xdg_output has the wl_output it came from (`OfPlugged`); an output not announced
is told its real mode (`OutputsReal`); an xdg_output that was told nothing says
what KWin said, and one that was told something is announced or was told it of an
older monitor (`LogicalReal`); a program with an object of a screen whose logical
size it was told is announced that screen, with the same exception
(`KnownByObject`); a logical size on record is one the settings still tell
(`ToldByWish`); and a program that was told of an older monitor has an announcement
on record whose restore takes that back (`OlderTold`). `ToldByWish` is what makes the
rest inductive: a connector that is plugged again has its old logical size on record,
and the next `Bind` announces it, if the monitor there is worth a mode, because the
settings have not changed since, as every save restores first. Where the monitor is
not worth one, nothing is announced and the old size is told all the same: that is
the exception, and the finding at `logicalsize.cpp:79`.

- `SizeAndModeTogether`: `AppliedTogether`.

Its `TogetherInv` says beside `AdInv` that the size on record is the settings'
(`OnRecord`) and belongs with what the newest object of a screen was told, unless
that was of an older monitor (`NewestTold`); and that KWin's events on their way are
the rest of one object's, which heard what comes before them and alone waits to be
answered (`OneAtATime`). So `SendEvent` finds the mode and the size of one answer,
and nothing waits once all is sent.

`WaylandScaleProofs` proves, for any windows, outputs, scales and clients:

- `ScaleTyped`, and `GivesBack`: `GivenBack`, for instances that are `Apart`, where
  no output's own scale is the one the effect asks for on another. Without that
  hypothesis it is false, which is the finding at `waylandscale.cpp:85`.

Each handler is an operator from one record of windows and requests to the next, so
each has a lemma of its own (what it keeps of `ScaleInv` and of `StandingInv`, the
standing of one request towards its window), and an action is one of them after
what KWin or the client changed.

`X11ResolutionProofs` proves, for any windows, client, versions of KWin and moves:

- `ControlInvariance`: types, and that timers, waits, withdrawals, deadlines and
  requests of a window match each other (`ControlOK`) after every callback. Each
  method that takes the record to the next (`Restore`, `Release`, `Begin`, `Ask`,
  `Apply`, `Refuse`, `Validate`) has its lemma.
- `NoPictureOutlivesItsRequest`: `StretchedByRequest`, which follows.
- `CalmlyAsked`: `NothingAskedMeanwhile`, when no client asks again for the
  fullscreen it has and nobody acts before KWin handled what came before (`Calm`;
  with either it is false, see `x11_reassert` and `x11_hasty`). `CalmInv` says what
  is on its way then: at most one message about the state, a request to enter
  finds the window bare, and one that left has its request looked at (`LookedAt`).
- `AnswersAwaited`: `AnswerIsAwaited`, whatever the client, the user and KWin do.
  `Orderly` says that a verdict's timer is due under its own number, that the
  negotiation's validation is the number of the request that stands or none, and
  that a release callback which still counts belongs to a request that was answered,
  is due at that request's verdict, or comes after it. A number given out is greater
  than every one still pending (`NumberIsNew`), so a callback never passes for
  another's. What most handlers do to the record is one relation (`Subsides`:
  nothing is asked, released or judged anew), which keeps `Orderly`
  (`StaysOrderly`); requests, releases and verdicts have lemmas of their own.
- `WindowsEndAsAsked` (`EndsAsAsked`) and `SizedOnlyByRequest` (`SizedByRequest`),
  of `Regular` behaviours: nobody asks again for the fullscreen it has or acts
  before KWin handled what came before; the client answers within the validation
  window (`Prompt`), chooses no mode of its own and, if it is of the kind that
  selects what it is told, always does (`Selects`); and no window opens under a mode
  that another one left (`OpensBare`). TLC finds one or the other property false
  without any of them, `x11_hasty` is one such run; the instance of `x11_calm`
  satisfies them all, the last because it has one window.

  Here an answer is a race: KWin sizes the window again whenever the property
  changes, and a client that has read its last resize may not have got there yet.
  `FitInv` adds to `ControlInv`, `CalmInv` and `Orderly` what is under way
  (`Steady`). Of any client: a mapped window has the size of its request or its own
  (`Sized`), only it has something told, asked or timed (`Only`), and a request that
  is not being released asks for what is wanted (`Standing`). Of one that selects
  modes (`Fit`): what it was told ends in the mode of the window's size (`Leads`),
  and while the window is fullscreen its mode turns to that once (`Once`); a change
  KWin has not handled is that turn; a window without a request either has no mode,
  or its withdrawal is awaited by a wait that no change has ended (`Withdrawing`);
  under a request the mode is none or the one asked for, and while it is none the
  verdict has not come (`Answering`). So a change of mode that KWin handles sizes
  the window to what it has already (`ModeGood`), a request is only given back by a
  callback once its mode is there (`RestoreGood`, `Has`), because callbacks with a
  deadline come when the client is idle (`DueIsIdle`), and nothing is asked while
  another mode is current (`AskSizeGood`). Each method again has its lemma, from a
  `Good` record to a `Good` record (`Keeps`), and each action one.

`PartsProofs` proves one property of each of seven components:

- `NothingShowsOfAHold` (`HoldIsInvisible`), for any windows and events. `HeldInv`
  follows a window's events as a trail: what was handled, applied to what KWin had,
  with what was kept back and what still arrives, comes to what was `meant`.
- `ShownGoesOnMeaning` (`ShownStaysTrue`), for any lists a server goes through.
  `ListsInv` says that what the client was shown is what the proxy knows
  (`ShownAsKnown`) and that the places it was shown are kept (`PlacesKept`).
- `CurrentIndexIsRight` (`IndexTellsTheMenu`), for any directories, entries and
  lengths of a tick, and any number of installations while they are read. For an
  index or a reading, `Reliable` says: as long as nothing that was read has
  another time now, the entries it found are there, those it did not find are not,
  and the programs it names are those entries' games. It is inductive because a time
  is kept only when it is older than any stamp still to come (`Past`), and because
  for everything said the directory was read (`Covered`).
- `FirstEntryClaims` (`ClaimedByFirst`), for any entries, windows, processes and
  menus, and settings with the previous release's switch on or off.
  The candidates come from an index by last name, so what is to be shown of
  patterns is that what a pattern pins is where its entry is filed (`PinnedByMatch`,
  `FiledWhereFound`); what is kept by address is right for the list and the names
  it was matched with (`KeptOf`), and read only when those are still the same. What
  a window was recognised as is kept while its desktop entry is the same, so of the
  menu it can only be said that the name was a game's at some time of the spell the
  window is open for, and was taken for one if it always was.
- `FramesLeaveNothing` (`ScreenStaysTrue`), for any windows and outputs and any number
  of events between frames. The property is about outputs of which nothing is to be
  painted; `FramesInv` follows what the effect's last frame left of every output on
  the way there. What was left is the picture of the window recorded as enlarged, and
  a commit damages all that is made from it (`PictureInv`); unless all of it is to be painted
  again, the output is one picture (`LeftWhole`) and its text is of a display that is
  on and of a window that is still there (`LeftText`); and unless anything is to be
  painted, the window recorded is the one that would be found and the text is about
  what is described (`LeftShown`). An output KWin painted without the effect
  (`behind`) is left out until a frame paints the whole of it: `StartsWhole` and `TextComesOff`
  of 6 are what would have to hold of it, and do not.
- `WhatBeganEnds` (`StrokesComplete`), however the game is shown, whenever a picture
  begins or ends, and wherever a pen goes. `Sound` says that what the filter noted of
  a pen is what the game has heard of it while the filter speaks to it, and that
  nothing is noted once KWin does; `PenInv` that this holds of every pen a picture did
  not take back after KWin had forwarded it. That case is the finding at
  `pictureinput.cpp:345`, which `BegunOnPictureEnds` describes.
- `PageIsTrue` (`PageTellsTheEffect`), for any file of either release, with or without
  the old switch, screens, sizes and edits. `PageInv` says that the page can be applied as it is (`Consistent`),
  that what the settings class read is what the file says, and that the effect's
  copy is the file's once no call is on its way. What it needs of a step is that
  what Apply writes is read back key by key, with no old key left that would speak
  where a default was written (`WrittenIsRead`, `AppliedIsRead`), and that taking or
  moving a corner keeps the three apart (`Taken`, `Separated`, `ApartIsKept`). Apply
  leaves the old switch as it is (`KeptGlobal`), and what the effect follows differs
  from what the page can say by that switch alone (`SwitchIsTheDifference`).

That a least place in a list or a first failure exists is shown by a least
counterexample (`WFMin` of the well-foundedness of the naturals), which stands in
for induction.

Assumptions are those in the modules (`ConstantsAssumption`, `LifeAssumption`,
`AdvertisementAssumption`, `RecognitionAssumption` and so on), which TLC evaluates
on the instances; only `Apart`, `Calm`, `Regular` and `RecordHoldsAll` are
hypotheses of a theorem. `Calm` and `Regular` hold of the instance of `x11_calm`,
and `RecordHoldsAll` of the sessions' (`ServedLimit` is the number of processes
there).

Only model-checked:

- liveness under fairness (`ClientsDecided`, `ReadAgain`, `EndPassedOn`,
  `ComesToRest`, `RequestEnds`), which this prover does not do;
- `NamedForItsFile`, whose paths are searched and folded, which needs induction over
  data, and `EnlargedAsAsked`, which is rounding of products of two variables;
- `PointerIsWhereShown` and `TouchKeepsItsClient`, which are about the scenes listed in
  `MCParts`, each with at most one complication: they are not claimed of every
  combination of them;
- `SavedIsRead`, whose entries are merged layer by layer.

## 5. What is not modelled

- Rendering: shaders, uniforms, the submission of passes. That a pass fails is an
  event of `EffectFrames`.
- The text and layout of displays, statistics and pages, which widgets are enabled,
  previews, picking a window. Nothing depends on them.
- `X11Resolution`: several mapped windows of one program, several outputs and the
  loss of Xwayland. The negotiation is per program and output, so several windows
  share one; what Xwayland makes of several connections' mode properties would
  have to be modelled first.
- `ConnectionPolicy` and `DisplayLists`: field offsets, padding and byte order,
  DGA and Xinerama. Their tests go through them one by one.
- `PictureInput`: pointer locks, several seats, two games at once, a pointer that
  moves during a touch or a stroke, clients without tablet support, and touches and
  pens that last beyond the effect. That KWin enters and leaves the window it finds
  under a pen it is given is assumed of KWin (`PenForwarded`).
- `OutputAdvertisement`: outputs at one position, which the code takes for one, and
  what is sent on objects of an output that is gone.
- `Recognition` and `ProfileStore`: D-Bus methods that report what is kept,
  catalogue files given on their own, the wording of problems.
- `SettingsPage` and `EffectFrames` treat the text of a display and its
  statistics as one thing that is on the screen or not.
- Generated build information, tests, tools and packaging.

What would be worth adding: several windows in `X11Resolution`.

The hazards listed in `PROJECT.json` name the line where each bites. One has no
property: the record of 128 served processes can forget one that still runs
(`x11proxypolicy.cpp:46`), which the code accepts.

## 6. Findings

Shown by a run:

- `connection.cpp:292`: a round of calls is recognised by size and process, so
  one that outlives its prefix switches the next one's relays too early.
- `connection.cpp:71`: two connections opened at once by one native process are
  decided apart.
- `policy.cpp:39`: events deferred while the stream turns opaque are inserted
  wherever the server's next chunk ends.
- `x11resolution_events.cpp:170`: settings saved while the client's answer waits
  in KWin's queue restore the window at once, and KWin then sizes it to the mode
  of the request that was given up.
- `x11resolution_events.cpp:117`: a fullscreen request repeated while a release
  waits makes `begin()` give the old request back and ask anew before the client
  withdrew its mode.
- `policy_display.cpp:23`: an event of a changed screen is numbered before the
  server's held message and sent after it, so a later number comes first.

Shown by TLC when the definition named is checked instead of the properties of `parts`:
it states what the code or its comments say. No run keeps it, since a property of
`parts` says the same with the exception it needs. All are invariants of the instance of `Parts.cfg`, but
`StartsWhole`, an action property that fails with four events (`MaxEvents = 4`).

- `logicalsize.cpp:79` (`OnlyToldScreens`): a logical size is kept by the connector's name
  and outlives the monitor, so the next one, too small to be told anything, is
  described by it.
- `modeoverride.cpp:99` (`AdvertisedOnRecord`): the late destruction of a withdrawn output
  removes the record of the monitor that came back at its connector.
- `upscale_over.cpp:47` (`StartsWhole`): a window that stops and starts qualifying
  while the effect is inactive is not painted whole when it starts again.
- `upscale.cpp:108` (`TextComesOff`): a window that stops being described by its size
  alone leaves its text on the screen.
- `pictureinput.cpp:345` (`BegunOnPictureEnds`): a contact begun on a picture that ends and
  begins again under the pen does not end for the game.
- `pictureinput.cpp:273` (`TouchIsWhereShown`): a picture with bars is not found under a
  touch or a pen while the pointer is not on the game.
- `upscale_config.cpp:372` (`PageSeesTheSame`): the effect follows the previous release's
  switch, which the page neither shows nor removes.

Met while modelling, and stepped around by an instance or an exception of the
property named:

- `waylandscale.cpp:85` (`GivenBack`): KWin's own scale is told from the effect's
  by its value, so the two coincide where one output has half the other's.
- `waylandresize.cpp:28` (`EnlargedAsAsked`): whole logical units round a request
  up past the share at some fractional scales and on odd outputs; such a client
  is refused or not enlarged by the factor asked for.
- `upscale_config.cpp:402` (`PageTellsTheEffect`): Defaults leaves the methods as
  they are stored. The model does what the code does.
- `x11resolution.cpp:526` (`PointerIsWhereShown`): the client is not told the
  position that follows from the mapping given back.
- `pictureinput.cpp:349` (`StrokesComplete`): pens are kept per tool, not per
  client; a pen moved from one game to another enters nowhere.
- `applicationeditor.cpp:317` (`SavedIsRead`): an import that states less than
  the package is not kept as such.
- `upscale.h:151`: a window that moves to another output keeps its refusal for
  colours.
- `modeoverride.cpp:132`: a share that rounds to a pixel less than the output is
  advertised, and its answer refused.

## 7. Running the checks

    tlasany Relay.tla
    tlc -workers 2 -config Progress.cfg MCProgress
    tlc -workers 2 -config Parts.cfg MCParts
    tlapm RelayProofs.tla
    tlapm OutputAdvertisementProofs.tla

`MCParts` and `MCProgress` take about three minutes each on two cores, every other
run less.
