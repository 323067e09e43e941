------------------------------- MODULE LuaLock -------------------------------
(***************************************************************************)
(* The reentrant global Lua lock of lua-apple/luauser.c.                   *)
(*                                                                         *)
(* One recursive pthread mutex protects the lua_State.  Every thread keeps *)
(* a thread-local copy of its recursion depth, so that a longjmp or a      *)
(* blocking event loop can give back, and take again, all of its levels.   *)
(* Locking is switched on by a one-way latch before the first worker is    *)
(* spawned; until then lock and unlock do nothing.                         *)
(*                                                                         *)
(* The callers are part of the model: `open` counts the sections a thread  *)
(* has entered with lua_lock, whether or not the latch was on, and         *)
(* `frames` holds the depths it has saved, for the event loop              *)
(* (LuaLockSuspendForLoop) or for a protected call (LuaLockDepthGet).      *)
(***************************************************************************)
EXTENDS Integers, Sequences

CONSTANTS
    Threads,     \* the threads of one luan process
    Main,        \* the thread that runs the Lua event queue
    NoThread,    \* the owner of a free mutex
    MaxDepth,    \* bound: nested sections of a thread
    MaxFrames    \* bound: nested saved depths of a thread

ASSUME ThreadAssumption == Main \in Threads /\ NoThread \notin Threads
ASSUME BoundAssumption == MaxDepth \in Nat /\ MaxFrames \in Nat

VARIABLES
    lockInited,  \* the mutex has been initialised
    enabled,     \* g_lua_locking_enabled, the one-way latch
    owner,       \* the thread that owns the mutex, or NoThread
    held,        \* how many times the owner has locked it
    depth,       \* lua_lock_depth of each thread
    stateOpen,   \* a lua_State exists
    started,     \* the threads that run
    open,        \* sections each thread is inside of
    frames       \* saved depths of each thread, innermost last

mutexVars == <<owner, held, depth>>
callVars == <<open, frames>>
vars == <<lockInited, enabled, owner, held, depth, stateOpen, started, open, frames>>

Frame == [kind : {"loop", "call"}, depth : Nat, open : Nat]

Init ==
    /\ lockInited = FALSE
    /\ enabled = FALSE
    /\ owner = NoThread
    /\ held = 0
    /\ depth = [t \in Threads |-> 0]
    /\ stateOpen = FALSE
    /\ started = {Main}
    /\ open = [t \in Threads |-> 0]
    /\ frames = [t \in Threads |-> <<>>]

-------------------------------------------------------------------------------
(* The mutex.  pthread_mutex_lock waits while another thread owns it; each *)
(* loop of luauser.c moves lua_lock_depth by one real lock or unlock.      *)

Locking == lockInited /\ enabled

Free(t) == owner \in {NoThread, t}

\* Thread t locks or unlocks until its depth is n.
SetDepth(t, n) ==
    /\ n > depth[t] => Free(t)
    /\ depth' = [depth EXCEPT ![t] = n]
    /\ held' = IF n = depth[t] THEN held ELSE held + n - depth[t]
    /\ owner' = IF n = depth[t] THEN owner
                ELSE IF held' = 0 THEN NoThread ELSE t

Lock(t) == IF Locking THEN SetDepth(t, depth[t] + 1) ELSE UNCHANGED mutexVars

\* Mutant: the guard against an unlock at depth 0 is missing.
UnlockUnguarded(t) == IF Locking THEN SetDepth(t, depth[t] - 1) ELSE UNCHANGED mutexVars

\* An unlock at depth 0 does not touch the mutex.
Unlock(t) ==
    IF Locking /\ depth[t] > 0 THEN SetDepth(t, depth[t] - 1) ELSE UNCHANGED mutexVars

-------------------------------------------------------------------------------
(* Life of the state, the latch and the workers. *)

\* Mutant: every new lua_State initialises the mutex again.
InitialiseAgain(t) ==
    /\ ~stateOpen
    /\ t = Main
    /\ stateOpen' = TRUE
    /\ lockInited' = TRUE
    /\ owner' = NoThread
    /\ held' = 0
    /\ UNCHANGED <<enabled, depth, started, open, frames>>

\* A new lua_State initialises the mutex the first time only.
LuaLockInitial(t) ==
    /\ ~stateOpen
    /\ t = Main
    /\ stateOpen' = TRUE
    /\ lockInited' = TRUE
    /\ owner' = IF lockInited THEN owner ELSE NoThread
    /\ held' = IF lockInited THEN held ELSE 0
    /\ UNCHANGED <<enabled, depth, started, open, frames>>

\* Mutant: lua_close without taking the lock.
CloseUnlocked(t) ==
    /\ stateOpen
    /\ frames[t] = <<>>
    /\ IF Locking THEN SetDepth(t, 0) ELSE UNCHANGED mutexVars
    /\ stateOpen' = FALSE
    /\ open' = [open EXCEPT ![t] = 0]
    /\ UNCHANGED <<lockInited, enabled, started, frames>>

\* lua_close: it takes the lock itself, then gives back every level.
LuaLockFinalState(t) ==
    /\ stateOpen
    /\ frames[t] = <<>>
    /\ Locking => Free(t)
    /\ IF Locking THEN SetDepth(t, 0) ELSE UNCHANGED mutexVars
    /\ stateOpen' = FALSE
    /\ open' = [open EXCEPT ![t] = 0]
    /\ UNCHANGED <<lockInited, enabled, started, frames>>

\* The worker bootstrap runs as a C function of the main thread, which has
\* left the sections it entered with the latch off.
LuaLockEnable(t) ==
    /\ t = Main
    /\ stateOpen
    /\ open[t] = 0
    /\ \A i \in DOMAIN frames[t] : frames[t][i].open = 0
    /\ enabled' = TRUE
    /\ UNCHANGED <<lockInited, mutexVars, stateOpen, started, callVars>>

\* Mutant: a worker is spawned before the latch is on.
SpawnEarly(t) ==
    /\ t \notin started
    /\ started' = started \cup {t}
    /\ UNCHANGED <<lockInited, enabled, mutexVars, stateOpen, callVars>>

\* A worker is spawned only after LuaLockEnable.
SpawnWorker(t) ==
    /\ enabled
    /\ t \notin started
    /\ started' = started \cup {t}
    /\ UNCHANGED <<lockInited, enabled, mutexVars, stateOpen, callVars>>

-------------------------------------------------------------------------------
(* Sections. *)

EnterSection(t) ==
    /\ open[t] < MaxDepth
    /\ Lock(t)
    /\ open' = [open EXCEPT ![t] = @ + 1]
    /\ UNCHANGED <<lockInited, enabled, stateOpen, started, frames>>

LockMainState(t) == stateOpen /\ EnterSection(t)

\* The same lock for code that has no lua_State at hand.
LuaGlobalLock(t) == EnterSection(t)

\* An unlock of a caller whose levels were already given back is ignored.
UnLockMainState(t) ==
    /\ Unlock(t)
    /\ open' = [open EXCEPT ![t] = IF @ > 0 THEN @ - 1 ELSE 0]
    /\ UNCHANGED <<lockInited, enabled, stateOpen, started, frames>>

-------------------------------------------------------------------------------
(* Saved depths. *)

Top(t) == frames[t][Len(frames[t])]

InFrame(t, kind) == frames[t] # <<>> /\ Top(t).kind = kind

Push(t, kind) ==
    /\ Len(frames[t]) < MaxFrames
    /\ frames' = [frames EXCEPT
                   ![t] = Append(@, [kind |-> kind, depth |-> depth[t], open |-> open[t]])]

Pop(t) == frames' = [frames EXCEPT ![t] = SubSeq(@, 1, Len(@) - 1)]

\* Mutant: only one level is given back.
SuspendOneLevel(t) ==
    /\ Push(t, "loop")
    /\ Unlock(t)
    /\ open' = [open EXCEPT ![t] = 0]
    /\ UNCHANGED <<lockInited, enabled, stateOpen, started>>

\* Before the blocking event loop: give back every level, remember how many.
LuaLockSuspendForLoop(t) ==
    /\ Push(t, "loop")
    /\ IF Locking THEN SetDepth(t, 0) ELSE UNCHANGED mutexVars
    /\ open' = [open EXCEPT ![t] = 0]
    /\ UNCHANGED <<lockInited, enabled, stateOpen, started>>

\* Mutant: the levels are not taken back.
ResumeUnlocked(t) ==
    /\ InFrame(t, "loop")
    /\ open[t] = 0
    /\ open' = [open EXCEPT ![t] = Top(t).open]
    /\ Pop(t)
    /\ UNCHANGED <<lockInited, enabled, mutexVars, stateOpen, started>>

\* After the loop, whose callbacks have left their sections.
LuaLockResumeAfterLoop(t) ==
    /\ InFrame(t, "loop")
    /\ open[t] = 0
    /\ IF Locking /\ depth[t] < Top(t).depth THEN SetDepth(t, Top(t).depth)
                                             ELSE UNCHANGED mutexVars
    /\ open' = [open EXCEPT ![t] = Top(t).open]
    /\ Pop(t)
    /\ UNCHANGED <<lockInited, enabled, stateOpen, started>>

\* A protected call notes the depth to restore ...
LuaLockDepthGet(t) ==
    /\ Push(t, "call")
    /\ UNCHANGED <<lockInited, enabled, mutexVars, stateOpen, started, open>>

\* ... forgets it when the call returns with its sections balanced ...
ReturnFromCall(t) ==
    /\ InFrame(t, "call")
    /\ open[t] = Top(t).open
    /\ Pop(t)
    /\ UNCHANGED <<lockInited, enabled, mutexVars, stateOpen, started, open>>

\* Mutant: a longjmp gives back every level, those of its caller too.
DepthSetToZero(t) ==
    /\ InFrame(t, "call")
    /\ IF Locking THEN SetDepth(t, 0) ELSE depth' = [depth EXCEPT ![t] = 0] /\ UNCHANGED <<owner, held>>
    /\ open' = [open EXCEPT ![t] = Top(t).open]
    /\ Pop(t)
    /\ UNCHANGED <<lockInited, enabled, stateOpen, started>>

\* ... and restores it when a longjmp abandons them.
LuaLockDepthSet(t) ==
    /\ InFrame(t, "call")
    /\ IF Locking THEN SetDepth(t, Top(t).depth)
       ELSE depth' = [depth EXCEPT ![t] = 0] /\ UNCHANGED <<owner, held>>
    /\ open' = [open EXCEPT ![t] = Top(t).open]
    /\ Pop(t)
    /\ UNCHANGED <<lockInited, enabled, stateOpen, started>>

-------------------------------------------------------------------------------
ThreadNext(t) ==
    \/ LuaLockInitial(t) \/ LuaLockFinalState(t) \/ LuaLockEnable(t)
    \/ LockMainState(t) \/ LuaGlobalLock(t) \/ UnLockMainState(t)
    \/ LuaLockSuspendForLoop(t) \/ LuaLockResumeAfterLoop(t)
    \/ LuaLockDepthGet(t) \/ ReturnFromCall(t) \/ LuaLockDepthSet(t)

Next ==
    \/ \E t \in started : ThreadNext(t)
    \/ \E t \in Threads : SpawnWorker(t)

Spec == Init /\ [][Next]_vars

-------------------------------------------------------------------------------
(* Properties. *)

\* The variables keep their types (luauser.c 39-59).
TypeOK ==
    /\ lockInited \in BOOLEAN
    /\ enabled \in BOOLEAN
    /\ owner \in Threads \cup {NoThread}
    /\ held \in Nat
    /\ depth \in [Threads -> Nat]
    /\ stateOpen \in BOOLEAN
    /\ started \in SUBSET Threads
    /\ open \in [Threads -> Nat]
    /\ frames \in [Threads -> Seq(Frame)]

\* luauser.c 44: the thread-local depth mirrors the recursive mutex's
\* ownership count, through longjmp recovery, the event loop and lua_close.
DepthMirrorsMutex ==
    /\ \A t \in Threads : depth[t] = IF owner = t THEN held ELSE 0
    /\ owner = NoThread <=> held = 0

\* luauser.c 113-159: once the latch is on, the depth of a thread and every
\* depth it has saved count exactly the sections its callers are inside of;
\* while the latch is off nothing is saved that could later be taken.
DepthCountsSections ==
    \A t \in Threads :
        /\ depth[t] = IF enabled THEN open[t] ELSE 0
        /\ \A i \in 1..Len(frames[t]) :
              frames[t][i].depth = IF enabled THEN frames[t][i].open ELSE 0

\* luauser.c 55-58: two threads are never inside lua_lock sections at once,
\* whether a section was entered before or after the latch was switched on.
MutualExclusion ==
    \A t, u \in Threads : open[t] > 0 /\ open[u] > 0 => t = u

\* luauser.c 113: a thread that waits in its event loop holds no level of the
\* mutex, so the other threads can run Lua meanwhile.
LoopHoldsNothing ==
    \A t \in Threads : InFrame(t, "loop") /\ open[t] = 0 => owner # t

\* luauser.c 195-202: lua_close never takes the state away from a thread that
\* is inside a section.
CloseWaitsForSections ==
    [][stateOpen /\ ~stateOpen' => \A t \in Threads : open'[t] = 0]_vars

\* luauser.c 79-133: the lock implements the abstract section.
Section == INSTANCE LuaSection WITH inside <- {t \in Threads : open[t] > 0}

SectionSpec == Section!Spec
==============================================================================
