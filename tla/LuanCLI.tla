------------------------------- MODULE LuanCLI -------------------------------
(***************************************************************************)
(* luan processes, LuanCLI/main.swift, on one document root: the lock on   *)
(* the root, the keepalive pipe from a parent, signals, and the Lua event  *)
(* loop the process spends its life in.                                    *)
(*                                                                         *)
(* The module has no behaviour of its own: LuaRunner starts the processes  *)
(* and takes their steps.                                                  *)
(***************************************************************************)
EXTENDS Integers, FiniteSets

CONSTANTS
    Procs,          \* process identifiers, used in increasing order
    NoProc,         \* no process
    Foreign,        \* some other program that owns the service port
    App,            \* the app, as the owner of the document-root lock
    BreakIsSticky   \* fan_loop_break before the loop starts is remembered

ASSUME ProcAssumption ==
    /\ Procs \subseteq Nat
    /\ {NoProc, Foreign, App} \cap Procs = {} /\ App # NoProc
    /\ BreakIsSticky \in BOOLEAN

VARIABLES
    phase,      \* how far each process has come
    status,     \* how it exited
    brk,        \* a request to leave the event loop is pending
    pipe,       \* the write end of its parent pipe
    mode,       \* started with ALLOW_RESET_ROOT or not
    lockOwner,  \* who holds the flock on documentRoot/.luan.lock
    port        \* who is bound to the service port

cliVars == <<phase, status, brk, pipe, mode, lockOwner, port>>

\* booting: before the lock; merging: lock held, default signal handling;
\* loading: handlers installed, core.lua runs; serving: in the event loop;
\* stuck: Lua code that never returns to the loop; closing: after the loop.
Phases == {"unborn", "booting", "merging", "loading", "serving", "stuck", "closing", "dead"}
Locked == {"merging", "loading", "serving", "stuck", "closing"}
Handling == {"loading", "serving", "stuck", "closing"}
Exits == {"none", "ok", "locked", "error", "signal"}

CLITypeOK ==
    /\ phase \in [Procs -> Phases]
    /\ status \in [Procs -> Exits]
    /\ brk \in [Procs -> BOOLEAN]
    /\ pipe \in [Procs -> {"none", "open", "closed", "eof"}]
    /\ mode \in [Procs -> {"normal", "reset"}]
    /\ lockOwner \in Procs \cup {NoProc, App}
    /\ port \in Procs \cup {NoProc, Foreign}

CLIInit ==
    /\ phase = [p \in Procs |-> "unborn"]
    /\ status = [p \in Procs |-> "none"]
    /\ brk = [p \in Procs |-> FALSE]
    /\ pipe = [p \in Procs |-> "none"]
    /\ mode = [p \in Procs |-> "normal"]
    /\ lockOwner = NoProc
    /\ port \in {NoProc, Foreign}

Alive(p) == phase[p] \notin {"unborn", "dead"}

IsNext(p) == phase[p] = "unborn" /\ \A q \in Procs : q < p => phase[q] # "unborn"

\* The process starts, with standard input a pipe from the app or not.
Launch(p, input, m) ==
    /\ IsNext(p)
    /\ phase' = [phase EXCEPT ![p] = "booting"]
    /\ pipe' = [pipe EXCEPT ![p] = input]
    /\ mode' = [mode EXCEPT ![p] = m]
    /\ UNCHANGED <<status, brk, port>>

\* The operating system closes the lock file and the sockets of a process.
Dies(p, why) ==
    /\ phase' = [phase EXCEPT ![p] = "dead"]
    /\ status' = [status EXCEPT ![p] = why]
    /\ lockOwner' = IF lockOwner = p THEN NoProc ELSE lockOwner
    /\ port' = IF port = p THEN NoProc ELSE port

Exit(p, why) == Dies(p, why) /\ UNCHANGED <<brk, pipe, mode>>

Move(p, from, to) == phase[p] = from /\ phase' = [phase EXCEPT ![p] = to]

\* bridge.stop(), from a signal handler or from the pipe.
BridgeStop(p) == brk' = [brk EXCEPT ![p] = TRUE] /\ UNCHANGED <<phase, status, lockOwner, port>>

-------------------------------------------------------------------------------
(* Steps of a process. *)

\* Mutant: the result of flock is ignored.
AcquireLockIgnored(p) ==
    /\ Move(p, "booting", "merging")
    /\ lockOwner' = p
    /\ UNCHANGED <<status, brk, pipe, mode, port>>

AcquireLock(p) ==
    \/ /\ lockOwner = NoProc
       /\ Move(p, "booting", "merging")
       /\ lockOwner' = p
       /\ UNCHANGED <<status, brk, pipe, mode, port>>
    \/ /\ lockOwner # NoProc
       /\ phase[p] = "booting"
       /\ Exit(p, "locked")

\* Merging the configuration, then finding the runtime directory or not.
InstallHandlers(p) ==
    /\ Move(p, "merging", "loading")
    /\ UNCHANGED <<status, brk, pipe, mode, lockOwner, port>>

NoRuntime(p) == phase[p] = "merging" /\ Exit(p, "error")

\* core.lua binds the port and enters the event loop ...
EnterLoop(p) ==
    /\ port = NoProc
    /\ Move(p, "loading", "serving")
    /\ port' = p
    /\ brk' = [brk EXCEPT ![p] = @ /\ BreakIsSticky]
    /\ UNCHANGED <<status, pipe, mode, lockOwner>>

\* ... or fails, the port being taken or not, and run(withDocumentRoot:)
\* returns.
LoadFails(p) ==
    /\ Move(p, "loading", "closing")
    /\ UNCHANGED <<status, brk, pipe, mode, lockOwner, port>>

LeaveLoop(p) ==
    /\ brk[p]
    /\ Move(p, "serving", "closing")
    /\ UNCHANGED <<status, brk, pipe, mode, lockOwner, port>>

\* Cleanup of the bridge, then the lock is closed and main returns.
Finish(p) == phase[p] = "closing" /\ Exit(p, "ok")

\* Mutant: the end of file is read and nothing is stopped.
PipeEOFIgnored(p) ==
    /\ pipe[p] = "closed"
    /\ phase[p] \in Handling
    /\ pipe' = [pipe EXCEPT ![p] = "eof"]
    /\ UNCHANGED <<phase, status, brk, mode, lockOwner, port>>

\* Standard input reports end of file once.
PipeEOF(p) ==
    /\ pipe[p] = "closed"
    /\ phase[p] \in Handling
    /\ BridgeStop(p)
    /\ pipe' = [pipe EXCEPT ![p] = "eof"]
    /\ UNCHANGED mode

\* Lua code that does not come back to the event loop.
GetStuck(p) ==
    /\ \/ Move(p, "loading", "stuck")
       \/ Move(p, "serving", "stuck")
    /\ UNCHANGED <<status, brk, pipe, mode, lockOwner, port>>

Crash(p) == Alive(p) /\ Exit(p, "error")

-------------------------------------------------------------------------------
(* Signals, as the effect of the sender's step on the process; the sender *)
(* says what becomes of the pipe.                                         *)

\* SIGTERM or SIGINT: until the handlers are installed it kills.
SigTerm(p) ==
    \/ /\ phase[p] \in {"booting", "merging"}
       /\ Dies(p, "signal")
       /\ UNCHANGED brk
    \/ /\ phase[p] \in Handling
       /\ BridgeStop(p)
    \/ /\ ~Alive(p)
       /\ UNCHANGED <<phase, status, brk, lockOwner, port>>

SigKill(p) == IF Alive(p) THEN Exit(p, "signal") ELSE UNCHANGED cliVars

-------------------------------------------------------------------------------
(* What a process does by itself, what its program may do to it, and what *)
(* somebody at a terminal does: run luan by hand, interrupt it.           *)

ProcessStep(p) ==
    \/ AcquireLock(p) \/ InstallHandlers(p) \/ NoRuntime(p) \/ EnterLoop(p) \/ LoadFails(p)
    \/ LeaveLoop(p) \/ Finish(p) \/ PipeEOF(p)

Misbehave(p) == GetStuck(p) \/ Crash(p)

AtTerminal(p) ==
    \/ Launch(p, "none", "normal") /\ UNCHANGED lockOwner
    \/ Alive(p) /\ pipe[p] = "none" /\ SigTerm(p) /\ UNCHANGED <<pipe, mode>>

-------------------------------------------------------------------------------
(* Properties. *)

\* main.swift 213-222 and LuaRunner.swift 11-29: two luan processes never
\* serve one document root together, whatever the app's own probing of the
\* lock does; the one that serves holds the lock and owns the port it bound.
OneServer ==
    /\ \A p, q \in Procs : phase[p] \in Locked /\ phase[q] \in Locked => p = q
    /\ \A p \in Procs : phase[p] \in Locked => lockOwner = p
    /\ \A p \in Procs : phase[p] = "serving" => port = p
==============================================================================
