------------------------------ MODULE LuanConfig ------------------------------
(***************************************************************************)
(* documentRoot/.luanmac.json and its two writers: the luan process, which *)
(* merges arguments, environment and file at its start (LuanCLI/main.swift  *)
(* 224-266), and the app's settings (LuanMac/AppSettings.swift).           *)
(*                                                                         *)
(* Neither locks the file against the other, and neither replaces it       *)
(* atomically: a write truncates it first.  The document-root lock lets    *)
(* one luan process at a time be past its start, so `cli` is one record.   *)
(* `jwt` stands for the secrets both programs know (jwtSecret,             *)
(* activationKey), `ws` for those only luan knows (wsToken, purgeToken).   *)
(***************************************************************************)
EXTENDS Integers

CONSTANTS
    Ports,        \* ports somebody may choose
    DefaultPort,  \* 8080, in both programs
    WithApp,      \* whether the app is used on this document root
    MaxSecrets,   \* bound: no secret is generated by the app beyond it
    MaxRuns       \* bound: starts of luan

ASSUME ConfigAssumption ==
    /\ DefaultPort \in Ports /\ Ports \subseteq Nat \ {0}
    /\ WithApp \in BOOLEAN
    /\ MaxSecrets \in Nat /\ MaxRuns \in Nat

NoPort == 0     \* no -p argument
Empty == 0      \* no such secret

VARIABLES
    file,      \* the configuration file
    settings,  \* the app's copy: port and jwt
    saving,    \* what the app does when the save under way is done; no; closed
    env,       \* the secret in the environment a reset has taken for its start
    cli,       \* the luan process: stage, arguments, what it read, what it uses
    fresh,     \* secrets generated so far
    runs,      \* starts of luan so far
    last,      \* history: the secrets of the last service
    chosen,    \* history: the last port given as an argument
    disturbed  \* history: the app has saved, or a process died in a write

progVars == <<file, settings, saving, env, cli, fresh, runs>>
vars == <<progVars, last, chosen, disturbed>>

\* Files.  cli: only the keys luan writes; full: all the app needs to decode it.
Kinds == {"absent", "torn", "cli", "full"}
Secret == Nat
File == [kind : Kinds, port : Ports \cup {NoPort}, jwt : Secret, ws : Secret]
Absent == [kind |-> "absent", port |-> NoPort, jwt |-> Empty, ws |-> Empty]
Torn == [Absent EXCEPT !.kind = "torn"]
Defaults == [port |-> DefaultPort, jwt |-> Empty]

\* set is history: the secret the app had when it started the process.
Idle == [stage |-> "none", by |-> "terminal", arg |-> NoPort, env |-> Empty, set |-> Empty,
         saved |-> Absent, port |-> DefaultPort, jwt |-> Empty, ws |-> Empty]
Readable == {f \in File : f.kind # "torn"}
Cli == [stage : {"none", "locked", "merged", "writing", "serving"},
        by : {"terminal", "app"}, arg : Ports \cup {NoPort}, env : Secret, set : Secret,
        saved : Readable, port : Ports, jwt : Secret, ws : Secret]

TypeOK ==
    /\ file \in File
    /\ settings \in [port : Ports, jwt : Secret]
    /\ saving \in {"closed", "no", "save", "start", "reset"} /\ env \in Secret
    /\ cli \in Cli
    /\ fresh \in Nat /\ runs \in 0..MaxRuns
    /\ last \in [jwt : Secret, ws : Secret] /\ chosen \in Ports /\ disturbed \in BOOLEAN

Init ==
    /\ file = Absent /\ settings = Defaults /\ saving = "closed" /\ env = Empty /\ cli = Idle
    /\ fresh = 0 /\ runs = 0
    /\ last = [jwt |-> Empty, ws |-> Empty] /\ chosen = DefaultPort /\ disturbed = FALSE

\* The write half of a save.  A file that somebody else has filled since it
\* was truncated is overlaid, and no longer parses if it was the longer one.
Fill(content) == file' = content \/ (file # Torn /\ file' = Torn)

-------------------------------------------------------------------------------
(* luan. *)

Launch(who, arg, secret, set) ==
    /\ cli.stage = "none" /\ runs < MaxRuns
    /\ cli' = [Idle EXCEPT !.stage = "locked", !.by = who, !.arg = arg, !.env = secret,
                           !.set = set]
    /\ runs' = runs + 1

StartByHand(arg) ==
    /\ Launch("terminal", arg, Empty, Empty)
    /\ UNCHANGED <<file, settings, saving, env, fresh, last, chosen, disturbed>>

\* Mutant: a file that does not parse is used as it is.
LoadUnparsed == file

\* What cannot be parsed counts as no file.
LoadSavedConfig == IF file.kind = "torn" THEN Absent ELSE file

\* Mutants of MergeSecret: the file first; the file never.
MergeSavedFirst(given, saved, new) ==
    IF saved # Empty THEN saved ELSE IF given # Empty THEN given ELSE new

MergeIgnoresSaved(given, saved, new) == IF given # Empty THEN given ELSE new

MergeSecret(given, saved, new) ==
    IF given # Empty THEN given ELSE IF saved # Empty THEN saved ELSE new

\* An explicit port, else the saved one, else the default.
Merge ==
    /\ cli.stage = "locked"
    /\ LET saved == LoadSavedConfig IN
       cli' = [cli EXCEPT
                !.stage = "merged",
                !.saved = saved,
                !.port = IF cli.arg # NoPort THEN cli.arg
                         ELSE IF saved.port # NoPort THEN saved.port ELSE DefaultPort,
                !.jwt = MergeSecret(cli.env, saved.jwt, fresh + 1),
                !.ws = MergeSecret(Empty, saved.ws, fresh + 2)]
    /\ fresh' = fresh + 2
    /\ UNCHANGED <<file, settings, saving, env, runs, last, chosen, disturbed>>

\* Dirty is set unless all four secrets are arguments, which is not modelled.
OpenConfig ==
    /\ cli.stage = "merged"
    /\ cli' = [cli EXCEPT !.stage = "writing"]
    /\ file' = Torn
    /\ UNCHANGED <<settings, saving, env, fresh, runs, last, chosen, disturbed>>

\* The port written is the one of the arguments or their default: the saved
\* port is looked at only afterwards.
WriteWith(jwt) ==
    /\ cli.stage = "writing"
    /\ Fill([kind |-> IF cli.saved.kind = "full" THEN "full" ELSE "cli",
             port |-> IF cli.arg # NoPort THEN cli.arg ELSE DefaultPort,
             jwt |-> jwt, ws |-> cli.ws])
    /\ cli' = [cli EXCEPT !.stage = "serving"]
    /\ last' = [jwt |-> cli.jwt, ws |-> cli.ws]
    /\ chosen' = IF cli.arg # NoPort THEN cli.arg ELSE chosen
    /\ UNCHANGED <<settings, saving, env, fresh, runs, disturbed>>

\* Mutant: only the secrets that were read are written again.
WriteSavedSecrets == WriteWith(cli.saved.jwt)

WriteConfig == WriteWith(cli.jwt)

\* The service ends, or the process is killed at any point.
Exit ==
    /\ cli.stage # "none"
    /\ cli' = Idle
    /\ disturbed' = (disturbed \/ cli.stage = "writing")
    /\ UNCHANGED <<file, settings, saving, env, fresh, runs, last, chosen>>

-------------------------------------------------------------------------------
(* The app's settings.  The main actor does nothing else during a save. *)

AppIdle == saving = "no"

\* The window appears, or the document root is typed in again.
Load ==
    /\ WithApp /\ saving \in {"closed", "no"}
    /\ saving' = "no"
    /\ settings' = IF file.kind = "full" THEN [port |-> file.port, jwt |-> file.jwt] ELSE Defaults
    /\ UNCHANGED <<file, env, cli, fresh, runs, last, chosen, disturbed>>

\* The fields of the sheet can be edited unless the app runs a service.
CanEdit == AppIdle /\ (cli.by = "app" => cli.stage = "none")

EditPort(port) ==
    /\ CanEdit
    /\ settings' = [settings EXCEPT !.port = port]
    /\ UNCHANGED <<file, saving, env, cli, fresh, runs, last, chosen, disturbed>>

\* Another secret by request: the old one is not to be kept.
EditSecret ==
    /\ CanEdit /\ fresh < MaxSecrets
    /\ fresh' = fresh + 1
    /\ settings' = [settings EXCEPT !.jwt = fresh + 1]
    /\ last' = [last EXCEPT !.jwt = Empty]
    /\ UNCHANGED <<file, saving, env, cli, runs, chosen, disturbed>>

OpenSave(next) ==
    /\ saving' = next
    /\ file' = Torn
    /\ disturbed' = TRUE
    /\ UNCHANGED <<cli, runs, chosen>>

\* A switch of the settings sheet saves everything.
Save == AppIdle /\ OpenSave("save") /\ UNCHANGED <<settings, env, fresh, last>>

\* Empty secrets are generated, then everything is saved ...
EnsureSecretsAndSave(next) ==
    /\ AppIdle /\ (settings.jwt = Empty => fresh < MaxSecrets)
    /\ OpenSave(next)
    /\ fresh' = IF settings.jwt = Empty THEN fresh + 1 ELSE fresh
    /\ settings' = [settings EXCEPT !.jwt = IF @ = Empty THEN fresh + 1 ELSE @]
    /\ UNCHANGED last

\* ... by startService, and by the reset of the password before its normal
\* start.  The reset does not ask whether a service is starting.
StartService == EnsureSecretsAndSave("start") /\ UNCHANGED env

\* The start in reset mode takes its environment before the secrets are there.
StartForReset == EnsureSecretsAndSave("reset") /\ env' = settings.jwt

WriteSettings(next) ==
    /\ saving = next
    /\ saving' = "no"
    /\ env' = Empty
    /\ Fill([kind |-> "full", port |-> settings.port, jwt |-> settings.jwt, ws |-> Empty])

Saved ==
    /\ WriteSettings("save")
    /\ UNCHANGED <<settings, cli, fresh, runs, last, chosen, disturbed>>

\* ... and the service started, unless one holds the document root.
SavedAndStarted(next, secret) ==
    /\ WriteSettings(next)
    /\ IF cli.stage = "none" /\ runs < MaxRuns
       THEN Launch("app", settings.port, secret, settings.jwt)
       ELSE UNCHANGED <<cli, runs>>
    /\ UNCHANGED <<settings, fresh, last, chosen, disturbed>>

Started == SavedAndStarted("start", settings.jwt)

StartedForReset == SavedAndStarted("reset", env)

\* The app quits, or is killed in the middle of a save.
AppDies ==
    /\ saving # "closed"
    /\ saving' = "closed"
    /\ settings' = Defaults
    /\ env' = Empty
    /\ UNCHANGED <<file, cli, fresh, runs, last, chosen, disturbed>>

-------------------------------------------------------------------------------
Next ==
    \/ \E arg \in Ports \cup {NoPort} : StartByHand(arg)
    \/ Merge \/ OpenConfig \/ WriteConfig \/ Exit
    \/ Load \/ (\E port \in Ports : EditPort(port))
    \/ EditSecret \/ Save \/ StartService \/ StartForReset
    \/ Saved \/ Started \/ StartedForReset \/ AppDies

Spec == Init /\ [][Next]_vars

-------------------------------------------------------------------------------
(* Properties. *)

\* main.swift 224-226: a service the app starts runs with the port and the
\* secrets of the app, whatever has become of the file meanwhile; not with the
\* secrets if the app had none when it took the environment, as a reset may
\* (ContentView.swift 612), which generates them only afterwards.
ServiceAsSet ==
    cli.by = "app" /\ cli.stage \in {"merged", "writing", "serving"} =>
        cli.port = cli.arg /\ (cli.env # Empty => cli.jwt = cli.set)

\* main.swift 248-258: while the file is not disturbed by the app or by a
\* crash, it holds the secrets of the service that runs or ran last.
FileHoldsSecrets ==
    ~disturbed /\ cli.stage # "writing" /\ last.jwt # Empty =>
        file.jwt = last.jwt /\ file.ws = last.ws

KeepsSecrets ==
    cli.stage = "locked" /\ cli'.stage = "merged" =>
        last.jwt \in {Empty, cli'.jwt} /\ last.ws \in {Empty, cli'.ws}

\* main.swift 248: secrets are persisted so that later launches are stable;
\* for a document root that only luan uses and where no write is cut short.
StableWithoutApp == [][~disturbed => KeepsSecrets]_vars

\* main.swift 248: "Persist generated or inherited secrets so subsequent
\* launches remain stable", also when the app is used, and even when every
\* write is complete.
SecretsStable == [][file.kind # "torn" => KeepsSecrets]_vars

\* main.swift 224, 262: only arguments override a saved port, so a start
\* without one uses the port that was given last.
PortKept ==
    [][cli.stage = "locked" /\ cli'.stage = "merged" /\ cli.arg = NoPort /\ ~disturbed =>
         cli'.port = chosen]_vars
==============================================================================
