----------------------------- MODULE ProcessIdentity -----------------------------
(***************************************************************************)
(* What a process runs, as the proxy reads it from /proc before the first  *)
(* X11 byte (x11proxy/identity.cpp, identity_proc.cpp), and as the effect  *)
(* names the window that follows (plugins/upscale/windowidentity.h).       *)
(*                                                                         *)
(* Wine starts a program as an argument of its loader and writes the       *)
(* program over the command line afterwards, so what is read depends on    *)
(* the moment; a launcher names a program that does not run yet.           *)
(*                                                                         *)
(* A path is the sequence of its names, the root being <<>>.  An argument  *)
(* is written in one of four forms: [form, parts].  Of names the code      *)
(* looks at their ending and their case; both are given by constants.      *)
(***************************************************************************)
EXTENDS Naturals, FiniteSets, SequencesExt

CONSTANTS
    Starts,       \* what is started: [executable, command, cwd, info, environment,
                  \* file, runs, sandbox]
    ExeNames,     \* the names that end in .exe
    DriveNames,   \* the names that are a letter and a colon
    LowerCase,    \* function: a name with capitals |-> the name without
    LinksTo,      \* function: a directory that is a link |-> where it leads
    Existing,     \* the files and directories there are, links resolved
    DosDevices,   \* function: a prefix |-> its dosdevices, in order: [name, root]
    MaxProcesses, \* bound: processes at a time
    MaxStarts     \* bound: processes over a behaviour

Nowhere == <<"nowhere">>  \* no path: a link that cannot be read, a variable not set
Unnamed == ""

ASSUME IdentityAssumption ==
    /\ DOMAIN LowerCase \cap {LowerCase[n] : n \in DOMAIN LowerCase} = {}
    /\ Nowhere \notin Existing /\ <<>> \in Existing
    /\ MaxProcesses \in Nat /\ MaxStarts \in Nat

VARIABLES
    processes, \* what /proc shows, in its order: [start, command]
    started    \* how many were started

identityVars == <<processes, started>>

(***************************************************************************)
(* Names and paths.                                                        *)
(***************************************************************************)

Unix(parts) == [form |-> "absolute", parts |-> parts]
Windows(parts) == [form |-> "windows", parts |-> parts]
NoArgument == Windows(<<>>)

WithoutLongPathPrefix(argument) ==
    IF argument.form = "long" THEN Windows(argument.parts) ELSE argument

LoaderNames == {"wine", "wine64", "wine-preloader", "wine64-preloader"}
WineLoader(argument) ==
    argument.form \in {"absolute", "relative"} /\ Last(argument.parts) \in LoaderNames

WindowsPath(argument) ==
    argument.form = "windows" /\ Len(argument.parts) > 1 /\ argument.parts[1] \in DriveNames

EndsInExe(argument) == argument.parts # <<>> /\ Last(argument.parts) \in ExeNames

Capital(name) ==
    IF \E n \in DOMAIN LowerCase : LowerCase[n] = name
    THEN CHOOSE n \in DOMAIN LowerCase : LowerCase[n] = name ELSE name

\* Seeded fault: the first drive that holds it.
WindowsPathForFirst(file, drives) ==
    LET holding == {i \in DOMAIN drives : IsPrefix(drives[i].root, file) /\ drives[i].root # file}
    IN  IF holding = {} THEN NoArgument
        ELSE LET drive == drives[CHOOSE i \in holding : \A j \in holding : i >= j]
             IN  Windows(<<Capital(drive.name)>> \o SubSeq(file, Len(drive.root) + 1, Len(file)))

\* The drive that holds a file most closely, the first of those that tie.
WindowsPathFor(file, drives) ==
    LET holding == {i \in DOMAIN drives : IsPrefix(drives[i].root, file) /\ drives[i].root # file}
        closest == {i \in holding : \A j \in holding : Len(drives[j].root) <= Len(drives[i].root)}
    IN  IF holding = {} THEN NoArgument
        ELSE LET drive == drives[CHOOSE i \in closest : \A j \in closest : i <= j]
             IN  Windows(<<Capital(drive.name)>> \o SubSeq(file, Len(drive.root) + 1, Len(file)))

\* A step back leaves the folder before it.
ProgramPath(parts) ==
    FoldLeft(LAMBDA clean, name :
                 IF name = ".." /\ clean # <<>> /\ Last(clean) # ".." THEN Front(clean) ELSE Append(clean, name),
             <<>>, parts)

Folded(parts) == [i \in DOMAIN parts |-> IF parts[i] \in DOMAIN LowerCase THEN LowerCase[parts[i]] ELSE parts[i]]
WineComponent(program) ==
    /\ Len(program) > 3
    /\ SubSeq(Folded(program), 1, 3) \in {<<"c:", "windows", "system32">>, <<"c:", "windows", "syswow64">>}

\* <scheme>://<where>/<program>
RuntimeIdentity(scheme, where, program) ==
    IF where = Nowhere \/ program = <<>> THEN Nowhere ELSE <<scheme, where>> \o program

\* The name of the first [Application] group that has one.
FlatpakApplication(info) ==
    LET GroupAt(i) == LET headers == {j \in 1..i : info[j].group # Unnamed}
                      IN  IF headers = {} THEN Unnamed
                          ELSE info[CHOOSE j \in headers : \A k \in headers : k <= j].group
        naming == {i \in DOMAIN info : info[i].name # Unnamed /\ GroupAt(i) = "Application"}
    IN  IF naming = {} THEN Nowhere ELSE <<info[CHOOSE i \in naming : \A j \in naming : i <= j].name>>

Application == "app" \* where Flatpak puts an application
BelowApp(executable) == Len(executable) > 1 /\ executable[1] = Application

(***************************************************************************)
(* Reading a process.                                                      *)
(***************************************************************************)

PrefixOfEnvironment(environment) ==
    CASE environment.wineprefix # Nowhere -> ProgramPath(environment.wineprefix)
      [] environment.wineprefix = Nowhere /\ environment.home # Nowhere ->
           ProgramPath(Append(environment.home, ".wine"))
      [] OTHER -> Nowhere

\* canonicalFilePath(): no link of these leads to another, none is stepped
\* back over, and what is not there has no such path.
Canonical(path) ==
    LET links == {n \in 1..Len(path) : SubSeq(path, 1, n) \in DOMAIN LinksTo}
        real == IF links = {} THEN path
                ELSE LET n == CHOOSE n \in links : TRUE
                     IN  LinksTo[SubSeq(path, 1, n)] \o SubSeq(path, n + 1, Len(path))
    IN  IF real \in Existing THEN real ELSE Nowhere

\* A path as Wine sees it: with its links resolved, as far as it exists.
Resolved(path) ==
    CASE Canonical(path) # Nowhere -> Canonical(path)
      [] Canonical(path) = Nowhere /\ Canonical(Front(path)) # Nowhere ->
           Append(Canonical(Front(path)), Last(path))
      [] OTHER -> ProgramPath(path)

DrivesOf(prefix) ==
    IF Canonical(prefix) \in DOMAIN DosDevices
    THEN SelectSeq(DosDevices[Canonical(prefix)], LAMBDA d : d.name \in DriveNames /\ d.root # Nowhere)
    ELSE <<>>

AbsoluteIn(cwd, argument) == IF argument.form = "absolute" THEN argument.parts ELSE cwd \o argument.parts

WindowsName(argument, cwd, drives) ==
    IF WindowsPath(argument) THEN argument.parts
    ELSE WindowsPathFor(Resolved(AbsoluteIn(cwd, argument)), drives).parts

\* The program a component was started to run: the first argument that names
\* an .exe which is not Wine's own.
LaunchedProgram(command, cwd, prefix) ==
    LET Named(argument) ==
            IF EndsInExe(argument)
            THEN ProgramPath(WindowsName(WithoutLongPathPrefix(argument), cwd, DrivesOf(prefix))) ELSE <<>>
        programs == [i \in 1..(Len(command) - 1) |-> Named(command[i + 1])]
        launched == SelectInSeq(programs, LAMBDA program : program # <<>> /\ ~WineComponent(program))
    IN  IF launched = 0 THEN <<>> ELSE programs[launched]

\* Seeded fault: the loader is taken for the program.
LoaderKept(command) == command

\* Wine's loader comes first until Wine has written the program in its place.
WithoutLoader(command) == IF Len(command) > 1 /\ WineLoader(command[1]) THEN Tail(command) ELSE command

OfHost(executable, flatpak) ==
    [executable |-> executable, program |-> executable, prefix |-> Nowhere, flatpak |-> flatpak,
     component |-> FALSE, launched |-> <<>>]

\* A program named by its Unix path is not the file the process executes.
KeepsUnixPath(s, first) ==
    /\ ~WindowsPath(first) /\ EndsInExe(first)
    /\ Resolved(AbsoluteIn(s.cwd, first)) # Resolved(s.executable)

OnDrive(s, first) ==
    IF KeepsUnixPath(s, first)
    THEN WindowsPathFor(Resolved(AbsoluteIn(s.cwd, first)), DrivesOf(PrefixOfEnvironment(s.environment)))
    ELSE first

OfWine(s, command, program, prefix) ==
    [executable |-> s.executable, program |-> program, prefix |-> prefix,
     flatpak |-> FlatpakApplication(s.info), component |-> WineComponent(program),
     launched |-> IF WineComponent(program) THEN LaunchedProgram(command, s.cwd, prefix) ELSE <<>>]

Identified(s, command, named) ==
    IF WindowsPath(named)
    THEN OfWine(s, command, ProgramPath(named.parts), PrefixOfEnvironment(s.environment))
    ELSE OfHost(s.executable, FlatpakApplication(s.info))

ProgramIdentity(p) ==
    LET s == p.start
        command == WithoutLoader(p.command)
    IN  IF command = <<>> THEN [OfHost(s.executable, FlatpakApplication(s.info)) EXCEPT !.program = <<>>]
        ELSE Identified(s, command, OnDrive(s, WithoutLongPathPrefix(command[1])))

\* The strings a profile may be matched against, in match order.
CandidatesOf(identity) ==
    LET named == IF identity.prefix # Nowhere THEN RuntimeIdentity("wine", identity.prefix, identity.program)
                 ELSE IF identity.flatpak # Nowhere /\ BelowApp(identity.program)
                 THEN RuntimeIdentity("flatpak", identity.flatpak, identity.program)
                 ELSE identity.program
    IN  SelectSeq(IF named = identity.executable THEN <<named>> ELSE <<named, identity.executable>>,
                  LAMBDA candidate : candidate \notin {Nowhere, <<>>})

\* The program of a prefix, running or about to.
RunsOrWill(identity) == IF identity.component THEN identity.launched ELSE identity.program
PrefixProgram(prefix) ==
    LET identities == [i \in DOMAIN processes |-> ProgramIdentity(processes[i])]
        first == SelectInSeq(identities, LAMBDA identity :
                                 identity.prefix = prefix /\ RunsOrWill(identity) # <<>>)
    IN  IF prefix = Nowhere \/ first = 0 THEN <<>> ELSE RunsOrWill(identities[first])

\* windowidentity.h: how the effect names the program behind a window, by the
\* sandbox its Wayland connection declared, if it is one.
ProgramName(executable, sandbox) ==
    IF sandbox = Nowhere \/ ~BelowApp(executable) THEN executable
    ELSE RuntimeIdentity("flatpak", sandbox, executable)
\* A window of Xwayland's is of a connection that declares no sandbox.
EffectNames(s) == {ProgramName(s.executable, sandbox) : sandbox \in {Nowhere, s.sandbox}}

(***************************************************************************)
(* Processes.                                                              *)
(***************************************************************************)

Start(s) ==
    /\ started < MaxStarts /\ Len(processes) < MaxProcesses
    /\ processes' = Append(processes, [start |-> s, command |-> s.command])
    /\ started' = started + 1
Exit(i) ==
    /\ processes' = RemoveAt(processes, i)
    /\ UNCHANGED started

\* The drive Wine names a file on holds it, and none that does is deeper.
RunsUnderWine(s) == WineLoader(Unix(s.executable))
NamesOnDrive(file, prefix) ==
    {<<Capital(d.name)>> \o SubSeq(file, Len(d.root) + 1, Len(file)) :
        d \in {e \in ToSet(DosDevices[Canonical(prefix)]) :
                  /\ e.name \in DriveNames /\ e.root # Nowhere /\ IsPrefix(e.root, file)
                  /\ ~\E other \in ToSet(DosDevices[Canonical(prefix)]) :
                        /\ other.name \in DriveNames /\ other.root # Nowhere
                        /\ IsPrefix(other.root, file) /\ Len(other.root) > Len(e.root)}}

\* Wine writes the command line over: the loader goes first, and the program
\* is named on a drive then or never.
WineWrites(i) ==
    LET p == processes[i]
    IN  /\ RunsUnderWine(p.start)
        /\ \/ /\ WineLoader(p.command[1])
              /\ processes' = [processes EXCEPT ![i].command = Tail(@)]
           \/ /\ ~WindowsPath(WithoutLongPathPrefix(p.command[1]))
              /\ \E name \in NamesOnDrive(p.start.file, PrefixOfEnvironment(p.start.environment)) :
                    processes' = [processes EXCEPT ![i].command = <<Windows(name)>> \o Tail(WithoutLoader(@))]
        /\ UNCHANGED started

IdentityInit == processes = <<>> /\ started = 0
IdentityNext ==
    \/ \E s \in Starts : Start(s)
    \/ \E i \in DOMAIN processes : Exit(i) \/ WineWrites(i)

\* The files Wine has for its own programs, and what a process is to run.
Wines(file, prefix) ==
    \E folder \in {"system32", "syswow64"} : IsPrefix(prefix \o <<"drive_c", "windows", folder>>, file)
PrefixOf(s) == PrefixOfEnvironment(s.environment)
Runs(s) == IF Wines(s.file, Canonical(PrefixOf(s))) THEN s.runs ELSE s.file

NamedForFile(s, identity) ==
    IF RunsUnderWine(s)
    THEN /\ identity.component <=> Wines(s.file, Canonical(PrefixOf(s)))
         /\ ~identity.component =>
               \E name \in NamesOnDrive(s.file, PrefixOf(s)) :
                  CandidatesOf(identity) = <<<<"wine", PrefixOf(s)>> \o name, s.executable>>
    ELSE /\ EffectNames(s) \subseteq ToSet(CandidatesOf(identity))
         /\ identity.prefix = Nowhere
NamedForRun(prefix, run, program) ==
    IF run = {} THEN program = <<>> ELSE \E file \in run : program \in NamesOnDrive(file, prefix)

\* Whenever a process is read, while Wine starts it or after, it is named for
\* the file it runs: a Windows program on the drive that holds the file, in its
\* prefix, whichever way it was started; any other as the effect will name its
\* window, in its sandbox or not.  And what a prefix is said to run is a program
\* some process of it runs or was started to run, named as that program will be.
NamedForItsFile ==
    LET inWine == {p.start : p \in {q \in ToSet(processes) : RunsUnderWine(q.start)}}
    IN  /\ \A p \in ToSet(processes) : NamedForFile(p.start, ProgramIdentity(p))
        /\ \A prefix \in {PrefixOf(s) : s \in inWine} :
              NamedForRun(prefix, {Runs(s) : s \in {o \in inWine : PrefixOf(o) = prefix}} \ {Nowhere},
                          PrefixProgram(prefix))
================================================================================
