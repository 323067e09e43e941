--------------------------- MODULE LuaRunnerProofs ---------------------------
(***************************************************************************)
(* Proofs about LuaRunner, and the reset of the root password that drives  *)
(* it, for any set of processes and any settings.                          *)
(*                                                                         *)
(* That one luan serves is not inductive: the probe frees the document-root *)
(* lock without asking who holds it, which is right because the app holds  *)
(* it for as long as it probes.  Nor is the agreement of the session with  *)
(* its child, which says nothing of an app that is in start(), exiting or  *)
(* gone.  RunnerInv adds these.                                            *)
(***************************************************************************)
EXTENDS ResetPassword, TLAPS

\* While the app probes, it holds the lock.
ProbeHoldsLock == app = "probing" => lockOwner = App

\* An app in start() has no child yet, one that has gone has none any more.
NoSession ==
    app \in {"probing", "spawning", "gone"} =>
        /\ state = IF app = "gone" THEN "idle" ELSE "starting"
        /\ {process, parentPipe, stopTimer} = {NoProc}
        /\ watched = {}

\* An app that is exiting waits for a child.
ExitWaits == app = "exiting" => process # NoProc

RunnerInv ==
    TypeOK /\ OneServer /\ ProbeHoldsLock /\ SessionHasChild /\ NoSession /\ ExitWaits

-------------------------------------------------------------------------------
(* Processes. *)

\* What every step does to the processes: the types and OneServer hold after
\* it, and it does not take the lock away from the app.
CLIKept == CLITypeOK' /\ OneServer' /\ (lockOwner = App => lockOwner' = App)

\* The same without the pipes and the modes, which some steps leave to others.
BodyKept ==
    /\ phase' \in [Procs -> Phases]
    /\ status' \in [Procs -> Exits]
    /\ lockOwner' \in Procs \cup {NoProc, App}
    /\ port' \in Procs \cup {NoProc, Foreign}
    /\ OneServer'
    /\ lockOwner = App => lockOwner' = App

\* A process that dies gives up its own lock and its own port.
LEMMA DiesKeeps ==
    ASSUME CLITypeOK, OneServer, NEW p \in Procs, NEW why \in Exits, Dies(p, why)
    PROVE  BodyKept
  <1>1. /\ phase' \in [Procs -> Phases] /\ status' \in [Procs -> Exits]
        /\ phase'[p] = "dead"
        /\ \A q \in Procs \ {p} : phase'[q] = phase[q]
    BY DEF Dies, CLITypeOK, Phases
  <1>2. /\ lockOwner' \in Procs \cup {NoProc, App}
        /\ port' \in Procs \cup {NoProc, Foreign}
        /\ lockOwner = App => lockOwner' = App
    BY ProcAssumption DEF Dies, CLITypeOK
  <1>3. \A q \in Procs : phase'[q] \in Locked => q # p /\ lockOwner' = q
    BY <1>1 DEF Dies, OneServer, Locked
  <1>4. \A q \in Procs : phase'[q] = "serving" => port' = q
    BY <1>1 DEF Dies, OneServer
  <1>5. OneServer'
    BY <1>3, <1>4 DEF OneServer
  <1>. QED  BY <1>1, <1>2, <1>5 DEF BodyKept

\* A process that goes from one phase to another, the lock and the port
\* staying where they are, keeps OneServer if the new phase needs no more.
LEMMA MoveKeeps ==
    ASSUME CLITypeOK, OneServer, NEW p \in Procs, NEW from, NEW to \in Phases,
           Move(p, from, to),
           to \in Locked => from \in Locked,
           to # "serving",
           UNCHANGED <<status, brk, pipe, mode, lockOwner, port>>
    PROVE  CLIKept
  <1>1. /\ phase' \in [Procs -> Phases] /\ phase[p] = from /\ phase'[p] = to
        /\ \A q \in Procs \ {p} : phase'[q] = phase[q]
    BY DEF Move, CLITypeOK
  <1>2. CLITypeOK'
    BY <1>1 DEF CLITypeOK
  <1>3. \A q \in Procs : phase'[q] \in Locked => lockOwner' = q
    BY <1>1 DEF OneServer
  <1>4. \A q \in Procs : phase'[q] = "serving" => port' = q
    BY <1>1 DEF OneServer
  <1>5. OneServer'
    BY <1>3, <1>4 DEF OneServer
  <1>. QED  BY <1>2, <1>5 DEF CLIKept

\* A new process holds nothing.
LEMMA LaunchKeeps ==
    ASSUME CLITypeOK, OneServer, NEW p \in Procs,
           NEW input \in {"none", "open"}, NEW m \in {"normal", "reset"},
           Launch(p, input, m), UNCHANGED lockOwner
    PROVE  CLITypeOK' /\ OneServer'
  <1>1. /\ phase' \in [Procs -> Phases] /\ phase'[p] = "booting"
        /\ \A q \in Procs \ {p} : phase'[q] = phase[q]
    BY DEF Launch, CLITypeOK, Phases
  <1>2. CLITypeOK'
    BY <1>1 DEF Launch, CLITypeOK
  <1>3. \A q \in Procs : phase'[q] \in Locked => lockOwner' = q
    BY <1>1, ProcAssumption DEF OneServer, Locked
  <1>4. \A q \in Procs : phase'[q] = "serving" => port' = q
    BY <1>1 DEF OneServer, Launch
  <1>5. OneServer'
    BY <1>3, <1>4 DEF OneServer
  <1>. QED  BY <1>2, <1>5

\* SIGTERM kills a process or asks it to leave its loop.
LEMMA SigTermKeeps ==
    ASSUME CLITypeOK, OneServer, NEW p \in Procs, SigTerm(p)
    PROVE  BodyKept /\ brk' \in [Procs -> BOOLEAN]
  <1>1. CASE Dies(p, "signal") /\ UNCHANGED brk
    <2>1. BodyKept
      BY <1>1, DiesKeeps DEF Exits
    <2>. QED  BY <1>1, <2>1 DEF CLITypeOK
  <1>2. CASE BridgeStop(p) \/ UNCHANGED <<phase, status, brk, lockOwner, port>>
    BY <1>2 DEF BridgeStop, BodyKept, CLITypeOK, OneServer
  <1>. QED  BY <1>1, <1>2 DEF SigTerm

\* A process that exits, for whatever reason.
LEMMA ExitKeeps ==
    ASSUME CLITypeOK, OneServer, NEW p \in Procs, NEW why \in Exits, Exit(p, why)
    PROVE  CLIKept
  <1>1. BodyKept /\ UNCHANGED <<brk, pipe, mode>>
    BY DiesKeeps DEF Exit
  <1>. QED  BY <1>1 DEF BodyKept, CLIKept, CLITypeOK

LEMMA SigKillKeeps ==
    ASSUME CLITypeOK, OneServer, NEW p \in Procs, SigKill(p)
    PROVE  CLIKept
  <1>1. CASE Exit(p, "signal")
    BY <1>1, ExitKeeps DEF Exits
  <1>2. CASE UNCHANGED cliVars
    BY <1>2 DEF cliVars, CLIKept, CLITypeOK, OneServer
  <1>. QED  BY <1>1, <1>2 DEF SigKill

-------------------------------------------------------------------------------
(* The steps of a process. *)

\* The lock is taken only when nobody has it.
LEMMA AcquireLockKeeps ==
    ASSUME CLITypeOK, OneServer, NEW p \in Procs, AcquireLock(p)
    PROVE  CLIKept
  <1>1. CASE Exit(p, "locked")
    BY <1>1, ExitKeeps DEF Exits
  <1>2. CASE /\ lockOwner = NoProc
             /\ Move(p, "booting", "merging")
             /\ lockOwner' = p
             /\ UNCHANGED <<status, brk, pipe, mode, port>>
    <2>1. /\ phase' \in [Procs -> Phases] /\ phase'[p] = "merging"
          /\ \A q \in Procs \ {p} : phase'[q] = phase[q]
      BY <1>2 DEF Move, CLITypeOK, Phases
    <2>2. CLITypeOK'
      BY <1>2, <2>1 DEF CLITypeOK
    <2>3. \A q \in Procs : phase[q] \notin Locked
      BY <1>2, ProcAssumption DEF OneServer
    <2>4. \A q \in Procs : phase'[q] \in Locked => q = p
      BY <2>1, <2>3
    <2>5. \A q \in Procs : phase'[q] = "serving" => FALSE
      BY <2>1, <2>3 DEF Locked
    <2>6. OneServer'
      BY <1>2, <2>4, <2>5 DEF OneServer
    <2>. QED  BY <1>2, <2>2, <2>6, ProcAssumption DEF CLIKept, CLITypeOK
  <1>. QED  BY <1>1, <1>2 DEF AcquireLock

\* The port is bound only when nobody has it.
LEMMA EnterLoopKeeps ==
    ASSUME CLITypeOK, OneServer, NEW p \in Procs, EnterLoop(p)
    PROVE  CLIKept
  <1>1. /\ phase' \in [Procs -> Phases] /\ phase[p] = "loading" /\ phase'[p] = "serving"
        /\ \A q \in Procs \ {p} : phase'[q] = phase[q]
    BY DEF EnterLoop, Move, CLITypeOK, Phases
  <1>2. brk' \in [Procs -> BOOLEAN]
    BY ProcAssumption DEF EnterLoop, CLITypeOK
  <1>3. CLITypeOK'
    BY <1>1, <1>2 DEF EnterLoop, CLITypeOK
  <1>4. \A q \in Procs : phase'[q] \in Locked => lockOwner' = q
    BY <1>1 DEF EnterLoop, OneServer, Locked
  <1>5. \A q \in Procs : phase'[q] = "serving" => port' = q
    BY <1>1, ProcAssumption DEF EnterLoop, OneServer
  <1>6. OneServer'
    BY <1>4, <1>5 DEF OneServer
  <1>. QED  BY <1>3, <1>6 DEF EnterLoop, CLIKept

LEMMA PipeEOFKeeps ==
    ASSUME CLITypeOK, OneServer, NEW p \in Procs, PipeEOF(p)
    PROVE  CLIKept
  BY DEF PipeEOF, BridgeStop, CLIKept, CLITypeOK, OneServer

\* Whatever a process does, its program does to it, or a terminal does.
LEMMA ProcKeeps ==
    ASSUME CLITypeOK, OneServer, NEW p \in Procs,
           ProcessStep(p) \/ Misbehave(p) \/ AtTerminal(p)
    PROVE  CLIKept
  <1>1. CASE AcquireLock(p)
    BY <1>1, AcquireLockKeeps
  <1>2. CASE InstallHandlers(p) \/ LoadFails(p) \/ LeaveLoop(p) \/ GetStuck(p)
    <2>1. PICK from \in Locked, to \in {"loading", "closing", "stuck"} :
              Move(p, from, to) /\ UNCHANGED <<status, brk, pipe, mode, lockOwner, port>>
      BY <1>2 DEF InstallHandlers, LoadFails, LeaveLoop, GetStuck, Locked
    <2>2. to \in Phases /\ to # "serving"
      BY DEF Phases
    <2>. QED  BY <2>1, <2>2, MoveKeeps
  <1>3. CASE NoRuntime(p) \/ Finish(p) \/ Crash(p)
    BY <1>3, ExitKeeps DEF NoRuntime, Finish, Crash, Exits
  <1>4. CASE EnterLoop(p)
    BY <1>4, EnterLoopKeeps
  <1>5. CASE PipeEOF(p)
    BY <1>5, PipeEOFKeeps
  <1>6. CASE Launch(p, "none", "normal") /\ UNCHANGED lockOwner
    BY <1>6, LaunchKeeps DEF CLIKept
  <1>7. CASE SigTerm(p) /\ UNCHANGED <<pipe, mode>>
    BY <1>7, SigTermKeeps DEF BodyKept, CLIKept, CLITypeOK
  <1>. QED
    BY <1>1, <1>2, <1>3, <1>4, <1>5, <1>6, <1>7 DEF ProcessStep, Misbehave, AtTerminal

-------------------------------------------------------------------------------
(* The app. *)

\* Closing the pipe changes no more than that.
LEMMA ClosePipeType ==
    ASSUME CLITypeOK, CloseParentPipe
    PROVE  pipe' \in [Procs -> {"none", "open", "closed", "eof"}]
  BY DEF CloseParentPipe, CLITypeOK

LEMMA InitInv == Init => RunnerInv
  <1>. SUFFICES ASSUME Init PROVE RunnerInv
    OBVIOUS
  <1>1. CLITypeOK /\ OneServer
    BY DEF Init, CLIInit, CLITypeOK, OneServer, Phases, Exits, Locked
  <1>2. TypeOK
    BY <1>1 DEF Init, GuiInit, TypeOK
  <1>3. ProbeHoldsLock /\ SessionHasChild /\ NoSession /\ ExitWaits
    BY DEF Init, GuiInit, ProbeHoldsLock, SessionHasChild, NoSession, ExitWaits
  <1>. QED  BY <1>1, <1>2, <1>3 DEF RunnerInv

\* A step of the processes leaves the session alone.
LEMMA ProcStepInv ==
    ASSUME RunnerInv, NEW p \in Procs,
           ProcessStep(p) \/ Misbehave(p) \/ AtTerminal(p), UNCHANGED guiVars
    PROVE  RunnerInv'
  <1>1. CLIKept
    BY ProcKeeps DEF RunnerInv, TypeOK
  <1>2. UNCHANGED <<app, state, process, parentPipe, watched, stopTimer, hcTask,
                    hcAlive, metricsTask, answers, cpuNow, env>>
    BY DEF guiVars, childVars, taskVars
  <1>3. TypeOK'
    BY <1>1, <1>2 DEF RunnerInv, CLIKept, TypeOK
  <1>4. ProbeHoldsLock'
    BY <1>1, <1>2 DEF RunnerInv, CLIKept, ProbeHoldsLock
  <1>5. SessionHasChild' /\ NoSession' /\ ExitWaits'
    BY <1>2 DEF RunnerInv, SessionHasChild, NoSession, ExitWaits
  <1>. QED  BY <1>1, <1>3, <1>4, <1>5 DEF CLIKept, RunnerInv

LEMMA StartInv ==
    ASSUME RunnerInv, NEW e \in {"normal", "reset"}, Start(e)
    PROVE  RunnerInv'
  <1>1. /\ app = "up" /\ process = NoProc /\ CanStart
        /\ UNCHANGED <<phase, status, brk, pipe, mode, port, process, parentPipe,
                       watched, stopTimer, hcTask, hcAlive, metricsTask, answers>>
        /\ env' = e /\ cpuNow' = FALSE
    BY DEF Start, childVars
  <1>2. \/ lockOwner = NoProc /\ lockOwner' = App /\ state' = "starting" /\ app' = "probing"
        \/ state' = "failed" /\ lockOwner' = lockOwner /\ app' = app
    BY DEF Start
  <1>3. CLITypeOK'
    BY <1>1, <1>2 DEF RunnerInv, TypeOK, CLITypeOK
  <1>4. TypeOK'
    BY <1>1, <1>2, <1>3 DEF RunnerInv, TypeOK
  <1>5. \A q \in Procs : phase'[q] \in Locked => lockOwner' = q
    BY <1>1, <1>2, ProcAssumption DEF RunnerInv, OneServer
  <1>6. OneServer'
    BY <1>1, <1>5 DEF RunnerInv, OneServer
  <1>7. ProbeHoldsLock'
    BY <1>1, <1>2 DEF ProbeHoldsLock
  <1>8. SessionHasChild' /\ NoSession' /\ ExitWaits'
    BY <1>1, <1>2 DEF RunnerInv, SessionHasChild, NoSession, ExitWaits, CanStart
  <1>. QED  BY <1>4, <1>6, <1>7, <1>8 DEF RunnerInv

\* The app frees the lock it holds, and only that one.
LEMMA ReleaseProbeInv ==
    ASSUME RunnerInv, ReleaseProbe
    PROVE  RunnerInv'
  <1>1. /\ app = "probing" /\ app' = "spawning" /\ lockOwner = App /\ lockOwner' = NoProc
        /\ UNCHANGED <<phase, status, brk, pipe, mode, port, state, process, parentPipe,
                       watched, stopTimer, hcTask, hcAlive, metricsTask, answers, cpuNow,
                       env>>
    BY DEF RunnerInv, ProbeHoldsLock, ReleaseProbe, childVars, taskVars
  <1>2. TypeOK'
    BY <1>1 DEF RunnerInv, TypeOK, CLITypeOK
  <1>3. \A q \in Procs : phase[q] \notin Locked
    BY <1>1, ProcAssumption DEF RunnerInv, OneServer
  <1>4. OneServer'
    BY <1>1, <1>3 DEF RunnerInv, OneServer
  <1>5. NoSession'
    BY <1>1 DEF RunnerInv, NoSession
  <1>. QED
    BY <1>1, <1>2, <1>4, <1>5 DEF RunnerInv, ProbeHoldsLock, SessionHasChild, ExitWaits

LEMMA SpawnInv ==
    ASSUME RunnerInv, NEW p \in Procs, Spawn(p)
    PROVE  RunnerInv'
  <1>1. /\ app = "spawning" /\ app' = "up" /\ UNCHANGED lockOwner
        /\ Launch(p, "open", env)
        /\ env \in {"normal", "reset"}
    BY DEF RunnerInv, Spawn, TypeOK
  <1>2. /\ process' = p /\ parentPipe' = p /\ watched' = watched \cup {p}
        /\ hcTask' \in {p, NoProc} /\ metricsTask' \in {p, NoProc}
        /\ cpuNow' = FALSE
        /\ UNCHANGED <<state, stopTimer, hcAlive, answers, env>>
    BY DEF Spawn
  <1>3. CLITypeOK' /\ OneServer'
    BY <1>1, LaunchKeeps DEF RunnerInv, TypeOK
  <1>4. TypeOK'
    BY <1>1, <1>2, <1>3 DEF RunnerInv, TypeOK
  <1>5. /\ state = "starting" /\ watched = {} /\ stopTimer = NoProc
    BY <1>1 DEF RunnerInv, NoSession
  <1>6. SessionHasChild'
    BY <1>1, <1>2, <1>5, ProcAssumption DEF SessionHasChild
  <1>. QED  BY <1>1, <1>3, <1>4, <1>6 DEF RunnerInv, ProbeHoldsLock, NoSession, ExitWaits

LEMMA SpawnFailsInv ==
    ASSUME RunnerInv, SpawnFails
    PROVE  RunnerInv'
  <1>1. /\ app = "spawning" /\ app' = "up" /\ state' = "failed"
        /\ UNCHANGED <<phase, status, brk, pipe, mode, lockOwner, port, process, parentPipe,
                       watched, stopTimer, hcTask, hcAlive, metricsTask, answers, cpuNow,
                       env>>
    BY DEF SpawnFails, cliVars, childVars, taskVars
  <1>2. TypeOK' /\ OneServer'
    BY <1>1 DEF RunnerInv, TypeOK, CLITypeOK, OneServer
  <1>3. SessionHasChild'
    BY <1>1 DEF RunnerInv, NoSession, SessionHasChild
  <1>. QED  BY <1>1, <1>2, <1>3 DEF RunnerInv, ProbeHoldsLock, NoSession, ExitWaits

\* An app that comes to be neither in start() nor gone has no more than this to keep.
LEMMA NotProbing ==
    ASSUME app' = "up" \/ (app' = "exiting" /\ process' # NoProc),
           TypeOK', OneServer', SessionHasChild'
    PROVE  RunnerInv'
  BY DEF RunnerInv, ProbeHoldsLock, NoSession, ExitWaits

LEMMA StopInv ==
    ASSUME RunnerInv, Stop
    PROVE  RunnerInv'
  <1>1. /\ app = "up" /\ app' = "up" /\ state = "running" /\ process # NoProc
        /\ state' = "stopping" /\ hcTask' = NoProc /\ parentPipe' = NoProc
        /\ stopTimer' = process
        /\ UNCHANGED <<mode, process, watched, hcAlive, metricsTask, answers, cpuNow, env>>
    BY DEF Stop, CanStop, StopHealthcheck, CloseParentPipe
  <1>2. process \in Procs
    BY <1>1 DEF RunnerInv, TypeOK
  <1>3. BodyKept /\ brk' \in [Procs -> BOOLEAN]
    BY <1>2, SigTermKeeps DEF RunnerInv, TypeOK, Stop
  <1>4. CLITypeOK'
    BY <1>1, <1>3, ClosePipeType DEF RunnerInv, TypeOK, CLITypeOK, BodyKept, Stop
  <1>5. TypeOK'
    BY <1>1, <1>4 DEF RunnerInv, TypeOK
  <1>6. SessionHasChild'
    BY <1>1 DEF RunnerInv, SessionHasChild
  <1>. QED  BY <1>1, <1>3, <1>5, <1>6, NotProbing DEF BodyKept

LEMMA StopTimeoutInv ==
    ASSUME RunnerInv, StopTimeout
    PROVE  RunnerInv'
  <1>1. /\ app = "up" /\ stopTimer # NoProc /\ stopTimer' = NoProc
        /\ UNCHANGED <<app, state, process, parentPipe, watched, hcTask, hcAlive,
                       metricsTask, answers, cpuNow, env>>
    BY DEF StopTimeout, taskVars
  <1>2. CLIKept
    BY <1>1, SigKillKeeps DEF RunnerInv, TypeOK, StopTimeout
  <1>3. TypeOK'
    BY <1>1, <1>2 DEF CLIKept, RunnerInv, TypeOK
  <1>4. SessionHasChild'
    BY <1>1 DEF RunnerInv, SessionHasChild
  <1>. QED  BY <1>1, <1>2, <1>3, <1>4, NotProbing DEF CLIKept

\* The child that terminated is the session's, as no other is watched.
LEMMA ChildDidTerminateInv ==
    ASSUME RunnerInv, NEW p \in Procs, ChildDidTerminate(p)
    PROVE  RunnerInv'
  <1>1. /\ app = "up" /\ p \in watched /\ watched' = watched \ {p}
        /\ process' = NoProc /\ parentPipe' = NoProc /\ stopTimer' = NoProc
        /\ hcTask' = NoProc /\ metricsTask' = NoProc /\ cpuNow' = FALSE
        /\ UNCHANGED <<phase, status, brk, mode, lockOwner, port, app, env, hcAlive, answers>>
    BY DEF ChildDidTerminate, Terminated, CloseParentPipe, StopHealthcheck,
           StopMetricsSampling
  <1>2. process = p /\ watched = {process}
    BY <1>1 DEF RunnerInv, SessionHasChild
  <1>3. state \in {"starting", "running", "stopping"}
    BY <1>1, <1>2, ProcAssumption DEF RunnerInv, SessionHasChild
  <1>4. state' \in {"idle", "failed"}
    BY <1>3 DEF ChildDidTerminate, Terminated
  <1>5. CLITypeOK'
    BY <1>1, ClosePipeType DEF RunnerInv, TypeOK, CLITypeOK, ChildDidTerminate, Terminated
  <1>6. TypeOK'
    BY <1>1, <1>4, <1>5 DEF RunnerInv, TypeOK
  <1>7. OneServer'
    BY <1>1 DEF RunnerInv, OneServer
  <1>8. SessionHasChild'
    BY <1>1, <1>2, <1>4 DEF SessionHasChild
  <1>. QED  BY <1>1, <1>6, <1>7, <1>8, NotProbing

\* The answers of the background tasks come with the processes as they are.
LEMMA TaskInv ==
    ASSUME RunnerInv, NEW p \in Procs,
           \/ HealthcheckAnswered(p) \/ HealthcheckApplied(p)
           \/ MetricsAnswered(p) \/ MetricsParsed(p)
    PROVE  RunnerInv'
  <1>1. /\ app = "up"
        /\ UNCHANGED <<phase, status, brk, pipe, mode, lockOwner, port, app,
                       process, parentPipe, watched, stopTimer, metricsTask, env>>
    BY DEF HealthcheckAnswered, HealthcheckApplied, MetricsAnswered, MetricsParsed,
           cliVars, childVars
  <1>2. /\ hcTask' \in {hcTask, NoProc}
        /\ hcAlive' \in {hcAlive, hcAlive \cup {p}, hcAlive \ {p}}
        /\ answers' \in {answers, answers \cup {p}, answers \ {p}}
        /\ cpuNow' \in {cpuNow, TRUE}
        /\ state' \in {state, IF state = "starting" THEN "running" ELSE state}
    BY DEF HealthcheckAnswered, HealthcheckApplied, MetricsAnswered, MetricsParsed
  <1>3. CLITypeOK' /\ OneServer'
    BY <1>1 DEF RunnerInv, TypeOK, CLITypeOK, OneServer
  <1>4. TypeOK'
    BY <1>1, <1>2, <1>3 DEF RunnerInv, TypeOK
  <1>5. SessionHasChild'
    BY <1>1, <1>2 DEF RunnerInv, SessionHasChild
  <1>. QED  BY <1>1, <1>3, <1>4, <1>5, NotProbing

-------------------------------------------------------------------------------
(* The end of the app. *)

LEMMA TerminateForAppExitInv ==
    ASSUME RunnerInv, TerminateForAppExit
    PROVE  RunnerInv'
  <1>1. /\ app = "up" /\ app' = "exiting" /\ process # NoProc
        /\ state' = "stopping" /\ hcTask' = NoProc /\ metricsTask' = NoProc
        /\ parentPipe' = NoProc /\ cpuNow' = FALSE
        /\ UNCHANGED <<mode, process, watched, stopTimer, hcAlive, answers, env>>
    BY DEF TerminateForAppExit, StopHealthcheck, StopMetricsSampling, CloseParentPipe
  <1>2. process \in Procs
    BY <1>1 DEF RunnerInv, TypeOK
  <1>3. BodyKept /\ brk' \in [Procs -> BOOLEAN]
    BY <1>2, SigTermKeeps DEF RunnerInv, TypeOK, TerminateForAppExit
  <1>4. CLITypeOK'
    BY <1>1, <1>3, ClosePipeType
    DEF RunnerInv, TypeOK, CLITypeOK, BodyKept, TerminateForAppExit
  <1>5. TypeOK'
    BY <1>1, <1>4 DEF RunnerInv, TypeOK
  <1>6. SessionHasChild'
    BY <1>1 DEF SessionHasChild
  <1>. QED  BY <1>1, <1>3, <1>5, <1>6, NotProbing DEF BodyKept

\* Nothing of the session is left when the app has gone, whatever the way.
LEMMA AppGoneInv ==
    ASSUME RunnerInv, AppGone, CLITypeOK', OneServer'
    PROVE  RunnerInv'
  <1>1. /\ app' = "gone" /\ state' = "idle" /\ watched' = {}
        /\ process' = NoProc /\ parentPipe' = NoProc /\ stopTimer' = NoProc
        /\ hcTask' = NoProc /\ hcAlive' = {} /\ metricsTask' = NoProc /\ answers' = {}
        /\ cpuNow' = FALSE /\ env' = "normal"
    BY DEF AppGone, CloseParentPipe
  <1>2. TypeOK'
    BY <1>1 DEF TypeOK
  <1>3. ProbeHoldsLock' /\ SessionHasChild' /\ NoSession' /\ ExitWaits'
    BY <1>1 DEF ProbeHoldsLock, SessionHasChild, NoSession, ExitWaits
  <1>. QED  BY <1>2, <1>3 DEF RunnerInv

LEMMA AppExitsInv ==
    ASSUME RunnerInv, AppExits
    PROVE  RunnerInv'
  <1>1. AppGone /\ UNCHANGED <<brk, mode>>
    BY DEF AppExits
  <1>2. pipe' \in [Procs -> {"none", "open", "closed", "eof"}]
    BY <1>1, ClosePipeType DEF RunnerInv, TypeOK, AppGone
  <1>3. CASE app = "exiting" /\ Dies(process, "signal")
    <2>1. process \in Procs
      BY <1>3 DEF RunnerInv, TypeOK, ExitWaits
    <2>2. BodyKept
      BY <1>3, <2>1, DiesKeeps DEF RunnerInv, TypeOK, Exits
    <2>. QED  BY <1>1, <1>2, <2>2, AppGoneInv DEF BodyKept, RunnerInv, TypeOK, CLITypeOK
  <1>4. CASE UNCHANGED <<phase, status, lockOwner, port>>
    <2>1. CLITypeOK' /\ OneServer'
      BY <1>1, <1>2, <1>4 DEF RunnerInv, TypeOK, CLITypeOK, OneServer
    <2>. QED  BY <1>1, <2>1, AppGoneInv
  <1>. QED  BY <1>3, <1>4 DEF AppExits

LEMMA AppCrashInv ==
    ASSUME RunnerInv, AppCrash
    PROVE  RunnerInv'
  <1>1. /\ AppGone
        /\ lockOwner' = IF lockOwner = App THEN NoProc ELSE lockOwner
        /\ UNCHANGED <<phase, status, brk, mode, port>>
    BY DEF AppCrash
  <1>2. CLITypeOK'
    BY <1>1, ClosePipeType DEF RunnerInv, TypeOK, CLITypeOK, AppGone
  <1>3. \A q \in Procs : phase'[q] \in Locked => lockOwner' = q
    BY <1>1, ProcAssumption DEF RunnerInv, OneServer
  <1>4. OneServer'
    BY <1>1, <1>3 DEF RunnerInv, OneServer
  <1>. QED  BY <1>1, <1>2, <1>4, AppGoneInv

LEMMA RelaunchInv ==
    ASSUME RunnerInv, Relaunch
    PROVE  RunnerInv'
  <1>1. /\ app = "gone" /\ app' = "up"
        /\ UNCHANGED <<phase, status, brk, pipe, mode, lockOwner, port, state,
                       process, parentPipe, watched, stopTimer, hcTask, hcAlive,
                       metricsTask, answers, cpuNow, env>>
    BY DEF Relaunch, cliVars, childVars, taskVars
  <1>2. TypeOK' /\ OneServer'
    BY <1>1 DEF RunnerInv, TypeOK, CLITypeOK, OneServer
  <1>3. SessionHasChild'
    BY <1>1 DEF RunnerInv, NoSession, SessionHasChild
  <1>. QED  BY <1>1, <1>2, <1>3, NotProbing

-------------------------------------------------------------------------------
(* The theorems. *)

LEMMA NextInv == RunnerInv /\ [Next]_vars => RunnerInv'
  <1>. SUFFICES ASSUME RunnerInv, [Next]_vars PROVE RunnerInv'
    OBVIOUS
  <1>1. CASE \E p \in Procs : Spawn(p) \/ ChildDidTerminate(p)
    BY <1>1, SpawnInv, ChildDidTerminateInv
  <1>2. CASE ReleaseProbe \/ SpawnFails \/ StopTimeout
    BY <1>2, ReleaseProbeInv, SpawnFailsInv, StopTimeoutInv
  <1>3. CASE \E p \in Procs : \/ HealthcheckAnswered(p) \/ HealthcheckApplied(p)
                              \/ MetricsAnswered(p) \/ MetricsParsed(p)
    BY <1>3, TaskInv
  <1>4. CASE TerminateForAppExit \/ AppExits \/ AppCrash \/ Relaunch
    BY <1>4, TerminateForAppExitInv, AppExitsInv, AppCrashInv, RelaunchInv
  <1>5. CASE \E p \in Procs :
                (ProcessStep(p) \/ Misbehave(p) \/ AtTerminal(p)) /\ UNCHANGED guiVars
    BY <1>5, ProcStepInv
  <1>6. CASE Start("normal") \/ Stop
    BY <1>6, StartInv, StopInv
  <1>7. CASE UNCHANGED vars
    BY <1>7 DEF vars, cliVars, guiVars, childVars, taskVars, RunnerInv, TypeOK, CLITypeOK,
                OneServer, ProbeHoldsLock, SessionHasChild, NoSession, ExitWaits
  <1>. QED
    BY <1>1, <1>2, <1>3, <1>4, <1>5, <1>6, <1>7 DEF Next, Internal, User

LEMMA Invariance == Spec => []RunnerInv
  BY InitInv, NextInv, PTL DEF Spec

\* Every variable of the processes and of the runner keeps its type.
THEOREM TypeCorrect == Spec => []TypeOK
  BY Invariance, PTL DEF RunnerInv

\* main.swift 213-222: however many luan processes the app and people at
\* terminals start, one at most is past the lock, and it owns its port.
THEOREM OneServerCorrect == Spec => []OneServer
  BY Invariance, PTL DEF RunnerInv

\* LuaRunner.swift 185-364: the service state, the child, the keepalive pipe,
\* the awaited termination and the stop timer belong to the same session.
THEOREM SessionCorrect == Spec => []SessionHasChild
  BY Invariance, PTL DEF RunnerInv

-------------------------------------------------------------------------------
(* ResetPassword: the tasks that drive the runner.  RunnerInv is kept by   *)
(* their calls too, in either mode.  That a service in reset mode is held  *)
(* by a reset needs more: a pipe is open only as long as the app holds it  *)
(* (PipeIsHeld, ExitingCloses), and the reset that asked for the mode is   *)
(* still there when the child is spawned (StartIsHeld).  A reset that waits *)
(* for its answer is of use only while its stop would be one, that is      *)
(* while the service runs (SessionIsHeld).                                 *)

\* The app knows every pipe that is open, and closes it before it exits.
PipeIsHeld == \A p \in Procs : pipe[p] = "open" => parentPipe = p
ExitingCloses == app = "exiting" => parentPipe = NoProc

StartIsHeld ==
    app \in {"probing", "spawning"} /\ env = "reset" =>
        \E r \in Resets : flow[r] = "started"

SessionIsHeld ==
    app = "up" /\ parentPipe # NoProc /\ mode[parentPipe] = "reset" =>
        \E r \in Resets :
            \/ flow[r] \in {"stopped", "started", "gaveUp"}
            \/ flow[r] = "asking" /\ state = "running"

FlowInv ==
    RunnerInv /\ FlowTypeOK /\ PipeIsHeld /\ ExitingCloses /\ StartIsHeld /\ SessionIsHeld

-------------------------------------------------------------------------------
(* The pipes. *)

\* A step that opens no pipe, while the app keeps hold of the one it has.
LEMMA HeldStays ==
    ASSUME PipeIsHeld, UNCHANGED parentPipe,
           \A p \in Procs : pipe'[p] = "open" => pipe[p] = "open"
    PROVE  PipeIsHeld'
  BY DEF PipeIsHeld

\* The app lets go of a pipe by closing it.
LEMMA HeldCloses ==
    ASSUME TypeOK, PipeIsHeld, CloseParentPipe
    PROVE  PipeIsHeld'
  BY ProcAssumption DEF TypeOK, CLITypeOK, PipeIsHeld, CloseParentPipe

\* The pipe of a new child is the only open one.
LEMMA HeldSpawn ==
    ASSUME RunnerInv, PipeIsHeld, NEW p \in Procs, Spawn(p)
    PROVE  PipeIsHeld'
  <1>1. parentPipe = NoProc /\ parentPipe' = p /\ pipe' = [pipe EXCEPT ![p] = "open"]
    BY DEF RunnerInv, NoSession, Spawn, Launch
  <1>2. \A q \in Procs : pipe[q] # "open"
    BY <1>1, ProcAssumption DEF PipeIsHeld
  <1>. QED  BY <1>1, <1>2 DEF RunnerInv, TypeOK, CLITypeOK, PipeIsHeld

\* No process, and nobody but the app, opens a pipe.
LEMMA ProcOpensNone ==
    ASSUME CLITypeOK, NEW p \in Procs, ProcessStep(p) \/ Misbehave(p) \/ AtTerminal(p)
    PROVE  \A q \in Procs : pipe'[q] = "open" => pipe[q] = "open"
  <1>1. \/ UNCHANGED pipe
        \/ pipe' = [pipe EXCEPT ![p] = "none"]
        \/ pipe' = [pipe EXCEPT ![p] = "eof"]
    BY DEF ProcessStep, AcquireLock, InstallHandlers, NoRuntime, EnterLoop, LoadFails,
           LeaveLoop, Finish, PipeEOF, Misbehave, GetStuck, Crash, AtTerminal, Exit, Launch
  <1>. QED  BY <1>1 DEF CLITypeOK

\* Whatever happens to the runner, it knows every open pipe.
LEMMA InternalHeld ==
    ASSUME RunnerInv, PipeIsHeld, Internal
    PROVE  PipeIsHeld'
  <1>. USE DEF RunnerInv, TypeOK
  <1>1. CASE \E p \in Procs : Spawn(p)
    BY <1>1, HeldSpawn
  <1>2. CASE (\E p \in Procs : ChildDidTerminate(p)) \/ TerminateForAppExit
             \/ AppExits \/ AppCrash
    <2>1. CloseParentPipe
      BY <1>2 DEF ChildDidTerminate, Terminated, TerminateForAppExit, AppExits, AppCrash,
                  AppGone
    <2>. QED  BY <2>1, HeldCloses
  <1>3. CASE ReleaseProbe \/ SpawnFails \/ Relaunch
             \/ \E p \in Procs : \/ HealthcheckAnswered(p) \/ HealthcheckApplied(p)
                                \/ MetricsAnswered(p) \/ MetricsParsed(p)
    <2>1. UNCHANGED <<pipe, parentPipe>>
      BY <1>3 DEF ReleaseProbe, SpawnFails, Relaunch, HealthcheckAnswered, HealthcheckApplied,
                  MetricsAnswered, MetricsParsed, cliVars, childVars
    <2>. QED  BY <2>1, HeldStays
  <1>4. CASE StopTimeout
    <2>1. UNCHANGED <<pipe, parentPipe>>
      BY <1>4 DEF StopTimeout, SigKill, Exit, cliVars
    <2>. QED  BY <2>1, HeldStays
  <1>5. CASE \E p \in Procs :
                (ProcessStep(p) \/ Misbehave(p) \/ AtTerminal(p)) /\ UNCHANGED guiVars
    <2>1. UNCHANGED parentPipe
      BY <1>5 DEF guiVars, childVars
    <2>. QED  BY <1>5, <2>1, ProcOpensNone, HeldStays
  <1>. QED  BY <1>1, <1>2, <1>3, <1>4, <1>5 DEF Internal

\* The two calls of the runner.
LEMMA CallsHeld ==
    ASSUME RunnerInv, PipeIsHeld, Stop \/ (\E e \in {"normal", "reset"} : Start(e))
    PROVE  PipeIsHeld'
  <1>1. CASE Stop
    BY <1>1, HeldCloses DEF Stop, RunnerInv
  <1>2. CASE \E e \in {"normal", "reset"} : Start(e)
    <2>1. UNCHANGED <<pipe, parentPipe>>
      BY <1>2 DEF Start, childVars
    <2>. QED  BY <2>1, HeldStays
  <1>. QED  BY <1>1, <1>2

-------------------------------------------------------------------------------
(* The app and the state of the service. *)

\* What can become of the app and of the service behind the resets' back.
LEMMA InternalSession ==
    ASSUME RunnerInv, ExitingCloses, Internal
    PROVE  /\ ExitingCloses'
           /\ app' \in {"probing", "spawning"} =>
                 app \in {"probing", "spawning"} /\ UNCHANGED env
           /\ app = "up" /\ app' = "up" =>
                 state' \in {state, "idle", "failed"}
                          \cup (IF state = "starting" THEN {"running"} ELSE {})
  <1>1. CASE ReleaseProbe \/ (\E p \in Procs : Spawn(p)) \/ SpawnFails
    BY <1>1 DEF ReleaseProbe, Spawn, SpawnFails, ExitingCloses
  <1>2. CASE \E p \in Procs : ChildDidTerminate(p)
    BY <1>2 DEF ChildDidTerminate, Terminated, ExitingCloses
  <1>3. CASE StopTimeout \/ \E p \in Procs : \/ HealthcheckAnswered(p) \/ HealthcheckApplied(p)
                                            \/ MetricsAnswered(p) \/ MetricsParsed(p)
    BY <1>3 DEF StopTimeout, HealthcheckAnswered, HealthcheckApplied, MetricsAnswered,
                MetricsParsed, childVars, ExitingCloses
  <1>4. CASE TerminateForAppExit \/ AppExits \/ AppCrash \/ Relaunch
    BY <1>4 DEF TerminateForAppExit, AppExits, AppCrash, Relaunch, AppGone, CloseParentPipe,
                ExitingCloses
  <1>5. CASE UNCHANGED guiVars
    BY <1>5 DEF guiVars, childVars, ExitingCloses
  <1>. QED  BY <1>1, <1>2, <1>3, <1>4, <1>5 DEF Internal

\* Only a spawn gives the app a pipe, or a process the reset mode.
LEMMA InternalModes ==
    ASSUME RunnerInv, Internal
    PROVE  \/ /\ parentPipe' \in {parentPipe, NoProc}
              /\ \A q \in Procs : mode'[q] = "reset" => mode[q] = "reset"
           \/ /\ app = "spawning" /\ app' = "up"
              /\ parentPipe' \in Procs /\ mode'[parentPipe'] = env
  <1>. USE DEF RunnerInv, TypeOK, CLITypeOK
  <1>1. CASE \E p \in Procs : Spawn(p)
    BY <1>1 DEF Spawn, Launch
  <1>2. CASE (\E p \in Procs : ChildDidTerminate(p)) \/ TerminateForAppExit
             \/ AppExits \/ AppCrash
    <2>1. parentPipe' = NoProc /\ UNCHANGED mode
      BY <1>2 DEF ChildDidTerminate, Terminated, TerminateForAppExit, AppExits, AppCrash,
                  AppGone, CloseParentPipe
    <2>. QED  BY <2>1
  <1>3. CASE ReleaseProbe \/ SpawnFails \/ StopTimeout \/ Relaunch
             \/ \E p \in Procs : \/ HealthcheckAnswered(p) \/ HealthcheckApplied(p)
                                \/ MetricsAnswered(p) \/ MetricsParsed(p)
    <2>1. UNCHANGED <<mode, parentPipe>>
      BY <1>3 DEF ReleaseProbe, SpawnFails, StopTimeout, SigKill, Exit, Relaunch,
                  HealthcheckAnswered, HealthcheckApplied, MetricsAnswered, MetricsParsed,
                  cliVars, childVars
    <2>. QED  BY <2>1
  <1>4. CASE \E p \in Procs :
                (ProcessStep(p) \/ Misbehave(p) \/ AtTerminal(p)) /\ UNCHANGED guiVars
    <2>. PICK p \in Procs :
                (ProcessStep(p) \/ Misbehave(p) \/ AtTerminal(p)) /\ UNCHANGED guiVars
      BY <1>4
    <2>1. UNCHANGED parentPipe
      BY DEF guiVars, childVars
    <2>2. UNCHANGED mode \/ mode' = [mode EXCEPT ![p] = "normal"]
      BY DEF ProcessStep, AcquireLock, InstallHandlers, NoRuntime, EnterLoop, LoadFails,
             LeaveLoop, Finish, PipeEOF, Misbehave, GetStuck, Crash, AtTerminal, Exit, Launch
    <2>. QED  BY <2>1, <2>2
  <1>. QED  BY <1>1, <1>2, <1>3, <1>4 DEF Internal

\* A call of start or stop is made while the app is up, and does not quit it.
LEMMA CallsExit ==
    ASSUME Stop \/ (\E e \in {"normal", "reset"} : Start(e))
    PROVE  ExitingCloses'
  BY DEF Stop, Start, ExitingCloses

-------------------------------------------------------------------------------
(* The resets. *)

LEMMA FlowInitInv == FlowInit => FlowInv
  <1>. SUFFICES ASSUME FlowInit PROVE FlowInv
    OBVIOUS
  <1>1. RunnerInv /\ FlowTypeOK
    BY InitInv DEF FlowInit, FlowTypeOK, RunnerInv, NoFlow, Stages, Over
  <1>2. PipeIsHeld /\ ExitingCloses /\ StartIsHeld /\ SessionIsHeld
    BY DEF FlowInit, Init, CLIInit, GuiInit, PipeIsHeld, ExitingCloses, StartIsHeld,
           SessionIsHeld
  <1>. QED  BY <1>1, <1>2 DEF FlowInv

\* While the app runs, a pipe it holds belongs to a session that is wanted.
LEMMA PipeHasSession ==
    ASSUME RunnerInv, ExitingCloses, parentPipe # NoProc
    PROVE  /\ app = "up" /\ state \in {"starting", "running"}
           /\ process = parentPipe /\ parentPipe \in Procs
  <1>1. app = "up"
    BY DEF RunnerInv, TypeOK, NoSession, ExitingCloses
  <1>. QED  BY <1>1 DEF RunnerInv, TypeOK, SessionHasChild

\* Neither the runner nor the processes take a service away from its reset.
LEMMA InternalFlowInv ==
    ASSUME FlowInv, Internal, flow' = IF app' = "gone" THEN NoFlow ELSE flow
    PROVE  FlowInv'
  <1>1. RunnerInv'
    BY NextInv DEF FlowInv, Next
  <1>2. FlowTypeOK'
    BY <1>1 DEF FlowInv, FlowTypeOK, RunnerInv, NoFlow, Stages, Over
  <1>3. PipeIsHeld' /\ ExitingCloses'
    BY InternalHeld, InternalSession DEF FlowInv
  <1>4. StartIsHeld'
    BY InternalSession DEF FlowInv, StartIsHeld
  <1>5. ASSUME app' = "up", parentPipe' # NoProc, mode'[parentPipe'] = "reset"
        PROVE  \E r \in Resets : \/ flow'[r] \in {"stopped", "started", "gaveUp"}
                                 \/ flow'[r] = "asking" /\ state' = "running"
    <2>1. flow' = flow
      BY <1>5
    <2>2. CASE parentPipe' = parentPipe /\ \A q \in Procs : mode'[q] = "reset" => mode[q] = "reset"
      <3>1. app = "up" /\ state \in {"starting", "running"} /\ parentPipe \in Procs
        BY <1>5, <2>2, PipeHasSession DEF FlowInv
      <3>2. mode[parentPipe] = "reset"
        BY <1>5, <2>2, <3>1
      <3>3. PICK r \in Resets : \/ flow[r] \in {"stopped", "started", "gaveUp"}
                                \/ flow[r] = "asking" /\ state = "running"
        BY <1>5, <2>2, <3>1, <3>2 DEF FlowInv, SessionIsHeld
      <3>4. state' \in {"starting", "running"}
        BY <1>1, <1>5 DEF RunnerInv, SessionHasChild
      <3>5. state = "running" => state' = "running"
        BY <1>5, <3>1, <3>4, InternalSession DEF FlowInv
      <3>. QED  BY <2>1, <3>3, <3>5
    <2>3. CASE app = "spawning" /\ parentPipe' \in Procs /\ mode'[parentPipe'] = env
      BY <1>5, <2>1, <2>3 DEF FlowInv, StartIsHeld
    <2>. QED  BY <1>5, <2>2, <2>3, InternalModes DEF FlowInv
  <1>6. SessionIsHeld'
    BY <1>5 DEF SessionIsHeld
  <1>. QED  BY <1>1, <1>2, <1>3, <1>4, <1>6 DEF FlowInv

\* Whoever makes a call: it is made by an app that is up, the pipes stay held,
\* and there is no session afterwards that was not there before.
LEMMA CallInv ==
    ASSUME FlowInv, Stop \/ (\E e \in {"normal", "reset"} : Start(e)) \/ UNCHANGED vars
    PROVE  RunnerInv' /\ PipeIsHeld' /\ ExitingCloses'
  <1>1. CASE Stop \/ (\E e \in {"normal", "reset"} : Start(e))
    BY <1>1, StopInv, StartInv, CallsHeld, CallsExit DEF FlowInv
  <1>2. CASE UNCHANGED vars
    <2>1. RunnerInv'
      BY <1>2, NextInv DEF FlowInv
    <2>2. UNCHANGED <<pipe, parentPipe, app>>
      BY <1>2 DEF vars, cliVars, guiVars, childVars
    <2>. QED  BY <2>1, <2>2 DEF FlowInv, PipeIsHeld, ExitingCloses
  <1>. QED  BY <1>1, <1>2

\* A stop or a start ends in no session, and a start that goes on to spawn has
\* the mode it was called with.
LEMMA CallEndsSession ==
    ASSUME FlowInv, Stop \/ (\E e \in {"normal", "reset"} : Start(e))
    PROVE  /\ parentPipe' = NoProc
           /\ app' \in {"probing", "spawning"} =>
                 \E e \in {"normal", "reset"} : Start(e) /\ env' = e
  <1>1. CASE Stop
    BY <1>1 DEF Stop, CloseParentPipe
  <1>2. CASE \E e \in {"normal", "reset"} : Start(e)
    <2>1. app = "up" /\ state \in {"idle", "failed"} /\ UNCHANGED parentPipe
      BY <1>2 DEF Start, CanStart, childVars
    <2>2. parentPipe = NoProc
      BY <2>1 DEF FlowInv, RunnerInv, SessionHasChild
    <2>. QED  BY <1>2, <2>1, <2>2 DEF Start
  <1>. QED  BY <1>1, <1>2

LEMMA UserFlowInv ==
    ASSUME FlowInv, User, UNCHANGED flow
    PROVE  FlowInv'
  <1>1. RunnerInv' /\ PipeIsHeld' /\ ExitingCloses'
    BY CallInv DEF User
  <1>2. FlowTypeOK'
    BY <1>1 DEF FlowInv, FlowTypeOK, RunnerInv
  <1>3. parentPipe' = NoProc
    BY CallEndsSession DEF User
  <1>4. app' \in {"probing", "spawning"} => env' = "normal"
    BY DEF User, Start, Stop
  <1>. QED  BY <1>1, <1>2, <1>3, <1>4 DEF FlowInv, StartIsHeld, SessionIsHeld

\* A step that leaves the runner alone keeps the service held if it leaves the
\* resets that hold it where they hold it.
LEMMA HeldOn ==
    ASSUME FlowInv, app = "up", UNCHANGED vars,
           parentPipe # NoProc =>
              \A r \in Resets :
                 /\ flow[r] \in {"stopped", "started", "gaveUp"} =>
                       \/ flow'[r] \in {"stopped", "started", "gaveUp"}
                       \/ flow'[r] = "asking" /\ state = "running"
                 /\ flow[r] = "asking" /\ state = "running" => flow'[r] = "asking"
    PROVE  StartIsHeld' /\ SessionIsHeld'
  <1>1. UNCHANGED <<app, parentPipe, mode, state>>
    BY DEF vars, cliVars, guiVars, childVars
  <1>2. StartIsHeld'
    BY <1>1 DEF StartIsHeld
  <1>. QED  BY <1>1, <1>2 DEF FlowInv, SessionIsHeld

\* A task takes one step, between two calls of others.
LEMMA FlowStepInv ==
    ASSUME FlowInv, Flow
    PROVE  FlowInv'
  <1>. PICK r \in Resets :
            \/ StopCurrent(r) \/ StartInResetMode(r)
            \/ ServiceUp(r) \/ InvalidURL(r) \/ ServiceNotUp(r)
            \/ LeaveResetMode(r) \/ RestartNormally(r)
    BY DEF Flow
  <1>. USE DEF Over
  <1>f. PICK here \in Stages, there \in Stages :
            /\ app = "up" /\ flow[r] = here /\ flow' = [flow EXCEPT ![r] = there]
    BY DEF StopCurrent, StartInResetMode, ServiceUp, InvalidURL, ServiceNotUp,
           LeaveResetMode, RestartNormally, At, Stages
  <1>t. flow' \in [Resets -> Stages] /\ flow \in [Resets -> Stages]
    BY <1>f DEF FlowInv, FlowTypeOK
  <1>o. flow'[r] = there /\ \A q \in Resets \ {r} : flow'[q] = flow[q]
    BY <1>f, <1>t
  <1>1. Stop \/ (\E e \in {"normal", "reset"} : Start(e)) \/ UNCHANGED vars
    BY DEF StopCurrent, StartInResetMode, ServiceUp, InvalidURL, ServiceNotUp,
           LeaveResetMode, RestartNormally, CallStop, CallStart
  <1>2. RunnerInv' /\ PipeIsHeld' /\ ExitingCloses'
    BY <1>1, CallInv
  <1>3. FlowTypeOK'
    BY <1>2, <1>t DEF FlowTypeOK, RunnerInv
  <1>4. StartIsHeld' /\ SessionIsHeld'
    <2>1. CASE Stop \/ (\E e \in {"normal", "reset"} : Start(e))
      <3>1. parentPipe' = NoProc
        BY <2>1, CallEndsSession
      <3>2. app' \in {"probing", "spawning"} /\ env' = "reset" => flow'[r] = "started"
        <4>1. CASE StartInResetMode(r)
          BY <1>t, <4>1 DEF StartInResetMode, At
        <4>2. CASE Stop
          BY <1>f, <4>2 DEF Stop
        <4>3. CASE RestartNormally(r) /\ Start("normal")
          BY <4>3 DEF Start
        <4>4. CASE UNCHANGED vars
          BY <1>f, <4>4 DEF vars, guiVars
        <4>. QED
          BY <4>1, <4>2, <4>3, <4>4
          DEF StopCurrent, ServiceUp, InvalidURL, ServiceNotUp, LeaveResetMode,
              RestartNormally, CallStop, CallStart
      <3>. QED  BY <3>1, <3>2 DEF StartIsHeld, SessionIsHeld
    <2>2. CASE UNCHANGED vars
      <3>1. CASE LeaveResetMode(r)
        <4>1. parentPipe # NoProc => state # "running"
          BY <2>2, <3>1, PipeHasSession
          DEF LeaveResetMode, CallStop, CanStop, Stop, FlowInv, vars, guiVars
        <4>2. flow[r] = "asking"
          BY <3>1 DEF LeaveResetMode, At
        <4>. QED  BY <1>f, <1>o, <2>2, <4>1, <4>2, HeldOn
      <3>2. CASE \/ StopCurrent(r) \/ StartInResetMode(r) \/ ServiceUp(r)
                 \/ InvalidURL(r) \/ ServiceNotUp(r)
        <4>1. /\ flow[r] # "asking"
              /\ \/ flow'[r] \in {"stopped", "started", "gaveUp"}
                 \/ flow'[r] = "asking" /\ state = "running"
          BY <1>t, <3>2 DEF StopCurrent, StartInResetMode, ServiceUp, InvalidURL,
                     ServiceNotUp, At
        <4>. QED  BY <1>f, <1>o, <2>2, <4>1, HeldOn
      <3>3. CASE RestartNormally(r)
        <4>1. flow[r] = "leaving"
          BY <3>3 DEF RestartNormally, At
        <4>. QED  BY <1>f, <1>o, <2>2, <4>1, HeldOn
      <3>. QED  BY <3>1, <3>2, <3>3
    <2>. QED  BY <1>1, <2>1, <2>2
  <1>. QED  BY <1>2, <1>3, <1>4 DEF FlowInv

-------------------------------------------------------------------------------
(* The theorems. *)

LEMMA FlowNextInv == FlowInv /\ [FlowNext]_flowVars => FlowInv'
  <1>. SUFFICES ASSUME FlowInv, [FlowNext]_flowVars PROVE FlowInv'
    OBVIOUS
  <1>1. CASE FlowNext
    BY <1>1, InternalFlowInv, UserFlowInv, FlowStepInv DEF FlowNext
  <1>2. CASE UNCHANGED flowVars
    <2>1. UNCHANGED vars /\ UNCHANGED flow
      BY <1>2 DEF flowVars
    <2>2. RunnerInv' /\ PipeIsHeld' /\ ExitingCloses'
      BY <2>1, CallInv
    <2>3. UNCHANGED <<app, state, env, parentPipe, mode>>
      BY <2>1 DEF vars, cliVars, guiVars, childVars
    <2>. QED
      BY <2>1, <2>2, <2>3 DEF FlowInv, FlowTypeOK, RunnerInv, StartIsHeld, SessionIsHeld
  <1>. QED  BY <1>1, <1>2

LEMMA FlowInvariance == FlowSpec => []FlowInv
  BY FlowInitInv, FlowNextInv, PTL DEF FlowSpec

\* The runner keeps its types, and so does the reset.
THEOREM FlowTypeCorrect == FlowSpec => []FlowTypeOK
  BY FlowInvariance, PTL DEF FlowInv

\* LuaRunner.swift 185-364, ContentView.swift 597-680: the calls of the reset
\* break nothing that holds of the runner when only users call it.
THEOREM FlowSessionCorrect == FlowSpec => [](OneServer /\ SessionHasChild)
  BY FlowInvariance, PTL DEF FlowInv, RunnerInv

\* ContentView.swift 605-669: while the app holds the pipe of a service in
\* reset mode, some reset is on its way to the stop that ends it or gave up
\* before, however many resets overlap, whatever the user starts and stops
\* meanwhile, and whatever happens to the services, the app and other processes.
THEOREM ResetModeIsHeldCorrect == FlowSpec => []ResetModeIsHeld
  <1>1. FlowInv => ResetModeIsHeld
    <2>. SUFFICES ASSUME FlowInv, NEW p \in Procs, mode[p] = "reset", pipe[p] = "open"
                  PROVE  \E r \in Resets : flow[r] \in {"stopped", "started", "asking", "gaveUp"}
      BY DEF ResetModeIsHeld
    <2>1. parentPipe = p /\ parentPipe # NoProc
      BY ProcAssumption DEF FlowInv, PipeIsHeld
    <2>2. app = "up"
      BY <2>1, PipeHasSession DEF FlowInv
    <2>. QED  BY <2>1, <2>2 DEF FlowInv, SessionIsHeld
  <1>. QED  BY <1>1, FlowInvariance, PTL
================================================================================
