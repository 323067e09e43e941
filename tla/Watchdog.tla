------------------------------- MODULE Watchdog -------------------------------
(***************************************************************************)
(* LuaLockWatchdogStart of lua-apple/luauser.c: a timer that ends the      *)
(* process when the Lua lock could not be taken for ten seconds in which   *)
(* nothing was written to the TUN device.  It shares the lock with the     *)
(* threads of LuaStateRef.  Nothing in the repository starts it; the       *)
(* writes are those of the tunnel builds.                                  *)
(***************************************************************************)
EXTENDS LuaStateRef

CONSTANTS
    Dog,           \* the watchdog as the owner of the lock
    MaxAttempts    \* LUA_LOCK_TRYLOCK_MAX_ATTEMPTS, 20 in the code

ASSUME DogAssumption == Dog \notin Users \cup {Nobody} /\ MaxAttempts \in Nat \ {0}

VARIABLES
    timer,      \* off, on, or cancelled
    handler,    \* where its handler is
    attempts,
    moved,      \* pal_tun_write_count differs from watchdog_last_write_count
    exited,     \* exit(1) was called
    wrote       \* history: a packet was written during the polls

dogVars == <<timer, handler, attempts, moved, exited, wrote>>
hostVars == <<mutex, refVars, dogVars>>

HostTypeOK ==
    /\ RefTypeOK
    /\ mutex \in Users \cup {Nobody, Dog}
    /\ timer \in {"off", "on", "cancelled"}
    /\ handler \in {"idle", "throttle", "look", "poll", "sleep", "exit"}
    /\ attempts \in 0..MaxAttempts
    /\ {moved, exited, wrote} \subseteq BOOLEAN

HostInit ==
    /\ RefInit
    /\ timer = "off" /\ handler = "idle" /\ attempts = 0
    /\ moved = FALSE /\ exited = FALSE /\ wrote = FALSE

Running == ~exited

\* Started and cancelled once at most.
LuaLockWatchdogStart ==
    /\ Running
    /\ timer = "off"
    /\ timer' = "on" /\ moved' = FALSE
    /\ UNCHANGED <<mutex, refVars, handler, attempts, exited, wrote>>

\* A handler that runs is not interrupted.
LuaLockWatchdogStop ==
    /\ Running
    /\ timer = "on"
    /\ timer' = "cancelled"
    /\ UNCHANGED <<mutex, refVars, handler, attempts, moved, exited, wrote>>

Goto(from, to) == Running /\ handler = from /\ handler' = to

\* Not before the mutex is initialised.
Fire ==
    /\ timer = "on" /\ luaState # "none"
    /\ Goto("idle", "look")
    /\ UNCHANGED <<mutex, refVars, timer, attempts, moved, exited, wrote>>

\* Under memory pressure the watchdog holds a free lock for a while first.
FireUnderPressure ==
    /\ timer = "on" /\ luaState # "none"
    /\ mutex = Nobody
    /\ Goto("idle", "throttle")
    /\ mutex' = Dog
    /\ UNCHANGED <<refVars, timer, attempts, moved, exited, wrote>>

\* Mutant: the lock is not given back.
ThrottleForEver ==
    /\ Goto("throttle", "look")
    /\ UNCHANGED <<mutex, refVars, timer, attempts, moved, exited, wrote>>

EndThrottle ==
    /\ Goto("throttle", "look")
    /\ mutex' = Nobody
    /\ UNCHANGED <<refVars, timer, attempts, moved, exited, wrote>>

LookProgress ==
    /\ moved
    /\ Goto("look", "idle")
    /\ moved' = FALSE
    /\ UNCHANGED <<mutex, refVars, timer, attempts, exited, wrote>>

LookNoProgress ==
    /\ ~moved
    /\ Goto("look", "poll")
    /\ attempts' = 0 /\ wrote' = FALSE
    /\ UNCHANGED <<mutex, refVars, timer, moved, exited>>

\* It is given back at once.
TryLock ==
    /\ Goto("poll", IF mutex = Nobody THEN "idle" ELSE "sleep")
    /\ UNCHANGED <<mutex, refVars, timer, attempts, moved, exited, wrote>>

\* Mutant: the packets are not looked at again.
WakeBlindly ==
    /\ Goto("sleep", IF attempts + 1 = MaxAttempts THEN "exit" ELSE "poll")
    /\ attempts' = attempts + 1
    /\ UNCHANGED <<mutex, refVars, timer, moved, exited, wrote>>

WakeUp ==
    /\ Goto("sleep", IF moved THEN "idle" ELSE IF attempts + 1 = MaxAttempts THEN "exit" ELSE "poll")
    /\ attempts' = attempts + 1
    /\ moved' = FALSE
    /\ UNCHANGED <<mutex, refVars, timer, exited, wrote>>

ForceExit ==
    /\ Goto("exit", "idle")
    /\ exited' = TRUE
    /\ UNCHANGED <<mutex, refVars, timer, attempts, moved, wrote>>

\* A packet written to the TUN device.
WritePacket ==
    /\ Running
    /\ moved' = TRUE
    /\ wrote' = (wrote \/ handler \in {"poll", "sleep"})
    /\ UNCHANGED <<mutex, refVars, timer, handler, attempts, exited>>

HandlerStep ==
    EndThrottle \/ LookProgress \/ LookNoProgress \/ TryLock \/ WakeUp \/ ForceExit

UserStep(t) == Running /\ RefStep(t) /\ UNCHANGED dogVars

HostNext ==
    \/ Running /\ RefNext /\ UNCHANGED dogVars
    \/ LuaLockWatchdogStart \/ LuaLockWatchdogStop
    \/ Fire \/ FireUnderPressure \/ HandlerStep \/ WritePacket

\* A thread that waits for a lock given back again and again gets it at last,
\* the timer fires and its handler runs.  Nothing says that Lua code ever
\* gives the lock back.
HostFairness ==
    /\ \A t \in Users : SF_hostVars(UserStep(t))
    /\ WF_hostVars(Fire)
    /\ WF_hostVars(HandlerStep)

HostSpec == HostInit /\ [][HostNext]_hostVars /\ HostFairness

-------------------------------------------------------------------------------
(* Properties. *)

\* luauser.c 374-380: a packet written between two polls, and seen by the look
\* that follows the last of them, keeps the process alive.
ProgressSurvives == [][exited' # exited => ~wrote]_hostVars

\* luauser.c 349-391: when a thread keeps the lock for ever and no
\* packet is written, an armed watchdog ends the process.
DeadlockExits ==
    <>[](timer = "on" /\ mutex \in Users /\ ~moved) => <>exited

\* LuaBridge.m 404-417, luauser.c 259-272: the state is closed after the run if
\* no resume outlives it and no Lua code keeps the lock, with the watchdog
\* taking it as well.
StateIsClosed ==
    []<>(mutex \notin Users) => (at[Bridge] = "decr" ~> closes > 0 \/ outlived \/ exited)

\* luauser.c 237-391: with the watchdog and the threads competing for the lock,
\* the process either ends its state or is ended.
HostEnds == DeadlockExits /\ StateIsClosed
==============================================================================
