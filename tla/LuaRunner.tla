------------------------------ MODULE LuaRunner ------------------------------
(***************************************************************************)
(* The app's supervisor of the luan child, LuanMac/LuaRunner.swift, with   *)
(* the processes of LuanCLI.                                               *)
(*                                                                         *)
(* LuaRunner runs on the main actor: each handler is one step, except that *)
(* start() holds the document-root lock for a moment and lets go of it     *)
(* before it spawns, and that quitting waits between SIGTERM and SIGKILL.  Its background tasks  *)
(* get their answers off the actor and come back to it later, when the     *)
(* session they belong to may be over.                                     *)
(***************************************************************************)
EXTENDS LuanCLI

CONSTANTS
    Port,      \* the configured port; no health check without one
    HasToken   \* STATUS_TOKEN is set; no metrics without it

ASSUME SettingsAssumption == Port \in Int /\ HasToken \in BOOLEAN

VARIABLES
    app,          \* the app process: up, in start(), exiting, gone
    state,        \* ServiceState
    process,      \* the child, or NoProc
    parentPipe,   \* the child whose keepalive pipe is held open, or NoProc
    watched,      \* children whose terminationHandler has not been run
    stopTimer,    \* the child stopTimeoutTask is going to kill, or NoProc
    hcTask,       \* the session healthcheckTask is pinging for, or NoProc
    hcAlive,      \* health checks with an answer, on their way to the actor
    metricsTask,  \* the session metricsTask samples, or NoProc
    answers,      \* samples on their way to the actor
    cpuNow,       \* a sample is shown
    env           \* the environment start() was called with

taskVars == <<hcTask, hcAlive, metricsTask, answers, cpuNow>>
childVars == <<process, parentPipe, watched, stopTimer>>
guiVars == <<app, state, childVars, taskVars, env>>
vars == <<cliVars, guiVars>>

TypeOK ==
    /\ CLITypeOK
    /\ app \in {"up", "probing", "spawning", "exiting", "gone"}
    /\ state \in {"idle", "starting", "running", "stopping", "failed"}
    /\ {process, parentPipe, stopTimer, hcTask, metricsTask} \subseteq Procs \cup {NoProc}
    /\ watched \subseteq Procs /\ hcAlive \subseteq Procs /\ answers \subseteq Procs
    /\ cpuNow \in BOOLEAN
    /\ env \in {"normal", "reset"}

GuiInit ==
    /\ state = "idle"
    /\ process = NoProc
    /\ parentPipe = NoProc
    /\ watched = {}
    /\ stopTimer = NoProc
    /\ hcTask = NoProc
    /\ hcAlive = {}
    /\ metricsTask = NoProc
    /\ answers = {}
    /\ cpuNow = FALSE
    /\ env = "normal"

Init == CLIInit /\ app = "up" /\ GuiInit

-------------------------------------------------------------------------------
(* Pieces of the handlers. *)

CanStart == state \in {"idle", "failed"}
CanStop == state = "running"

\* The write end of the pipe of every child the app holds one for is closed.
CloseParentPipe ==
    /\ parentPipe' = NoProc
    /\ pipe' = IF parentPipe = NoProc THEN pipe ELSE [pipe EXCEPT ![parentPipe] = "closed"]

\* A cancelled ping ends; one that already has its answer does not.
StopHealthcheck == hcTask' = NoProc /\ UNCHANGED hcAlive

StopMetricsSampling == metricsTask' = NoProc /\ cpuNow' = FALSE /\ UNCHANGED answers

-------------------------------------------------------------------------------
(* start(): the lock on the root is tried and released before the spawn. *)

Start(e) ==
    /\ app = "up"
    /\ CanStart /\ process = NoProc
    /\ env' = e
    /\ cpuNow' = FALSE
    /\ UNCHANGED <<phase, status, brk, pipe, mode, port, childVars,
                   hcTask, hcAlive, metricsTask, answers>>
    /\ \/ /\ lockOwner = NoProc
          /\ lockOwner' = App
          /\ state' = "starting"
          /\ app' = "probing"
       \/ /\ state' = "failed"   \* held by another process, or not to be opened
          /\ UNCHANGED <<lockOwner, app>>

\* The lock was only tried; anybody may take it before the child does.
ReleaseProbe ==
    /\ app = "probing"
    /\ app' = "spawning"
    /\ lockOwner' = NoProc
    /\ UNCHANGED <<phase, status, brk, pipe, mode, port, state, childVars, taskVars, env>>

Spawn(p) ==
    /\ app = "spawning"
    /\ app' = "up"
    /\ UNCHANGED lockOwner
    /\ Launch(p, "open", env)
    /\ process' = p
    /\ parentPipe' = p
    /\ watched' = watched \cup {p}
    /\ hcTask' = IF Port > 0 THEN p ELSE NoProc
    /\ metricsTask' = IF Port > 0 /\ HasToken THEN p ELSE NoProc
    /\ cpuNow' = FALSE
    /\ UNCHANGED <<state, stopTimer, hcAlive, answers, env>>

\* No executable in the bundle, or Process.run throws.
SpawnFails ==
    /\ app = "spawning"
    /\ app' = "up"
    /\ state' = "failed"
    /\ UNCHANGED <<cliVars, childVars, taskVars, env>>

-------------------------------------------------------------------------------
(* stop() and the end of the child. *)

Stop ==
    /\ app = "up"
    /\ CanStop /\ process # NoProc
    /\ state' = "stopping"
    /\ StopHealthcheck
    /\ CloseParentPipe
    /\ SigTerm(process)
    /\ stopTimer' = process
    /\ UNCHANGED <<mode, app, process, watched, metricsTask, answers, cpuNow, env>>

\* Mutant: the timeout sends nothing.
StopTimeoutGivesUp ==
    /\ app = "up"
    /\ stopTimer # NoProc
    /\ stopTimer' = NoProc
    /\ UNCHANGED <<cliVars, app, state, process, parentPipe, watched, taskVars, env>>

\* Five seconds later.
StopTimeout ==
    /\ app = "up"
    /\ stopTimer # NoProc
    /\ stopTimer' = NoProc
    /\ SigKill(stopTimer)
    /\ UNCHANGED <<app, state, process, parentPipe, watched, taskVars, env>>

Terminated(p, next) ==
    /\ app = "up"
    /\ p \in watched /\ phase[p] = "dead"
    /\ watched' = watched \ {p}
    /\ CloseParentPipe
    /\ process' = NoProc
    /\ StopHealthcheck
    /\ StopMetricsSampling
    /\ state' = next
    /\ UNCHANGED <<phase, status, brk, mode, lockOwner, port, app, env>>

\* Mutants of ChildDidTerminate: the stop timer is left running; a child that
\* dies while starting is not noticed; the exit status is taken for the state.
TerminatedKeepsTimer(p) ==
    Terminated(p, IF state = "stopping" THEN "idle" ELSE "failed") /\ UNCHANGED stopTimer

TerminatedWhileStarting(p) ==
    Terminated(p, IF state = "stopping" THEN "idle" ELSE state) /\ stopTimer' = NoProc

TerminatedAsStatus(p) == Terminated(p, status[p]) /\ stopTimer' = NoProc

\* Whatever child it was that terminated.
ChildDidTerminate(p) ==
    /\ Terminated(p, CASE state = "stopping" -> "idle"
                        [] state = "starting" -> "failed"
                        [] state = "running" -> IF status[p] = "ok" THEN "idle" ELSE "failed"
                        [] OTHER -> state)
    /\ stopTimer' = NoProc

-------------------------------------------------------------------------------
(* Background tasks. *)

\* Any HTTP response on the port will do.
Answering == port = Foreign \/ (port \in Procs /\ phase[port] = "serving")

HealthcheckAnswered(p) ==
    /\ app = "up"
    /\ hcTask = p
    /\ Answering
    /\ hcTask' = NoProc
    /\ hcAlive' = hcAlive \cup {p}
    /\ UNCHANGED <<cliVars, app, state, childVars, metricsTask, answers, cpuNow, env>>

\* The task asks whether the runner is starting, not for whom.
HealthcheckApplied(p) ==
    /\ app = "up"
    /\ p \in hcAlive
    /\ hcAlive' = hcAlive \ {p}
    /\ state' = IF state = "starting" THEN "running" ELSE state
    /\ UNCHANGED <<cliVars, app, childVars, hcTask, metricsTask, answers, cpuNow, env>>

\* Only the child knows the token that gives a sample.
MetricsAnswered(p) ==
    /\ app = "up"
    /\ metricsTask = p
    /\ port = p /\ phase[p] = "serving"
    /\ answers' = answers \cup {p}
    /\ UNCHANGED <<cliVars, app, state, childVars, hcTask, hcAlive, metricsTask, cpuNow, env>>

MetricsParsed(p) ==
    /\ app = "up"
    /\ p \in answers
    /\ answers' = answers \ {p}
    /\ cpuNow' = TRUE
    /\ UNCHANGED <<cliVars, app, state, childVars, hcTask, hcAlive, metricsTask, env>>

-------------------------------------------------------------------------------
(* The end of the app, and its next launch. *)

AppGone ==
    /\ app' = "gone"
    /\ state' = "idle" /\ process' = NoProc /\ watched' = {} /\ stopTimer' = NoProc
    /\ hcTask' = NoProc /\ hcAlive' = {} /\ metricsTask' = NoProc /\ answers' = {}
    /\ cpuNow' = FALSE /\ env' = "normal"
    /\ CloseParentPipe

TerminateForAppExit ==
    /\ app = "up"
    /\ process # NoProc /\ Alive(process)
    /\ app' = "exiting"
    /\ state' = "stopping"
    /\ StopHealthcheck
    /\ StopMetricsSampling
    /\ CloseParentPipe
    /\ SigTerm(process)
    /\ UNCHANGED <<mode, process, watched, stopTimer, env>>

\* After a quarter of a second, or at once if there was no child.
AppExits ==
    \/ /\ app = "exiting"
       /\ AppGone
       /\ IF Alive(process) THEN Dies(process, "signal")
                            ELSE UNCHANGED <<phase, status, lockOwner, port>>
       /\ UNCHANGED <<brk, mode>>
    \/ /\ app = "up"
       /\ process # NoProc => ~Alive(process)
       /\ AppGone
       /\ UNCHANGED <<phase, status, brk, mode, lockOwner, port>>

\* A crash or SIGKILL: the operating system closes the pipe and the lock.
AppCrash ==
    /\ app # "gone"
    /\ AppGone
    /\ lockOwner' = IF lockOwner = App THEN NoProc ELSE lockOwner
    /\ UNCHANGED <<phase, status, brk, mode, port>>

Relaunch ==
    /\ app = "gone"
    /\ app' = "up"
    /\ UNCHANGED <<cliVars, state, childVars, taskVars, env>>

-------------------------------------------------------------------------------
Internal ==
    \/ \E p \in Procs : Spawn(p) \/ ChildDidTerminate(p)
    \/ ReleaseProbe \/ SpawnFails \/ StopTimeout
    \/ \E p \in Procs : HealthcheckAnswered(p) \/ HealthcheckApplied(p)
    \/ \E p \in Procs : MetricsAnswered(p) \/ MetricsParsed(p)
    \/ TerminateForAppExit \/ AppExits \/ AppCrash \/ Relaunch
    \/ \E p \in Procs : (ProcessStep(p) \/ Misbehave(p) \/ AtTerminal(p)) /\ UNCHANGED guiVars

User == Start("normal") \/ Stop

Next == Internal \/ User

\* The operating system runs the processes, delivers terminations and time
\* passes; nobody has to press a button or get stuck.
Fairness ==
    /\ \A p \in Procs :
        /\ WF_vars(AcquireLock(p) /\ UNCHANGED guiVars)
        /\ WF_vars((InstallHandlers(p) \/ NoRuntime(p)) /\ UNCHANGED guiVars)
        /\ WF_vars((EnterLoop(p) \/ LoadFails(p)) /\ UNCHANGED guiVars)
        /\ WF_vars(LeaveLoop(p) /\ UNCHANGED guiVars)
        /\ WF_vars(Finish(p) /\ UNCHANGED guiVars)
        /\ WF_vars(PipeEOF(p) /\ UNCHANGED guiVars)
        /\ WF_vars(ChildDidTerminate(p))
        /\ WF_vars(HealthcheckAnswered(p))
        /\ WF_vars(HealthcheckApplied(p))
    /\ WF_vars(ReleaseProbe)
    /\ WF_vars(\E p \in Procs : Spawn(p) \/ SpawnFails)
    /\ WF_vars(StopTimeout)
    /\ WF_vars(app = "exiting" /\ AppExits)

Spec == Init /\ [][Next]_vars

FairSpec == Spec /\ Fairness

-------------------------------------------------------------------------------
(* Properties. *)

\* LuaRunner.swift 185-364: the service state, the child and the keepalive
\* pipe agree.  There is a child exactly while a session is starting, running
\* or stopping, the termination the actor waits for is that child's, and the
\* pipe is open exactly while the session is wanted.
SessionHasChild ==
    app = "up" =>
        /\ process # NoProc <=> state \in {"starting", "running", "stopping"}
        /\ watched = IF process = NoProc THEN {} ELSE {process}
        /\ parentPipe = IF state \in {"starting", "running"} THEN process ELSE NoProc
        /\ stopTimer # NoProc => stopTimer = process /\ state = "stopping"

\* LuaRunner.swift 277-291: stop() always ends, by SIGKILL if need be.
StopEnds == state = "stopping" ~> state # "stopping"

\* LuaRunner.swift 338-416: a start ends in running or failed, unless the
\* child neither serves nor exits.
StartEnds ==
    state = "starting" ~>
        \/ state # "starting"
        \/ \E p \in Procs : process = p /\ phase[p] = "stuck"

\* main.swift 363-375: a child whose parent has gone leaves the event loop
\* and exits, so the document root does not stay locked by an orphan.
OrphanExits ==
    \A p \in Procs : pipe[p] = "closed" ~> phase[p] \in {"dead", "stuck"}

\* LuaRunner.swift 35: running means that core.lua has bound httpd.
RunningMeansBound ==
    [][state = "starting" /\ state' = "running" =>
         phase[process] \notin {"booting", "merging", "loading"}]_vars
==============================================================================
