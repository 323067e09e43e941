----------------------------- MODULE LuaStateRef -----------------------------
(***************************************************************************)
(* The reference count that keeps a lua_State open: incrRef and decrRef of *)
(* lua-apple/luauser.c, used by LuanMac/LuaBridge.m around the run of the  *)
(* service and by caplua_resume of utlua/caplua.c around each resume.      *)
(*                                                                         *)
(* The count is changed under the Lua lock, but decrRef reads it again     *)
(* after it has given the lock back, and closes the state on what it reads. *)
(* The lock is that of module LuaLock with the latch on, seen from outside. *)
(***************************************************************************)
EXTENDS Integers, FiniteSets

CONSTANTS
    Bridge,     \* the thread that runs LuaBridge
    Resumers,   \* the threads that call caplua_resume
    Nobody      \* the owner of a free lock

ASSUME RefThreadAssumption ==
    /\ IsFiniteSet(Resumers)
    /\ Bridge \notin Resumers /\ Nobody \notin Resumers \cup {Bridge}

Users == Resumers \cup {Bridge}

VARIABLES
    mutex,      \* the owner of the Lua lock
    luaState,   \* none, open or closed (and its StateData freed)
    refs,       \* StateData.count
    at,         \* where each thread is
    closes,     \* how often lua_close was called
    outlived    \* history: a resume lasted beyond the reference of the bridge

refVars == <<luaState, refs, at, closes, outlived>>

RefTypeOK ==
    /\ luaState \in {"none", "open", "closed"}
    /\ refs \in 0..Cardinality(Users)
    /\ at \in [Users -> {"out", "incr", "in", "decr", "check", "close"}]
    /\ closes \in 0..Cardinality(Users)
    /\ outlived \in BOOLEAN

RefInit ==
    /\ mutex = Nobody
    /\ luaState = "none"
    /\ refs = 0
    /\ at = [t \in Users |-> "out"]
    /\ closes = 0
    /\ outlived = FALSE

Move(t, from, to) == at[t] = from /\ at' = [at EXCEPT ![t] = to]

Lock == mutex = Nobody /\ UNCHANGED mutex

\* The bridge opens the only state of the process and takes its reference.
OpenState ==
    /\ luaState = "none"
    /\ luaState' = "open"
    /\ Move(Bridge, "out", "incr")
    /\ UNCHANGED <<mutex, refs, closes, outlived>>

\* Of a coroutine that is suspended or new; any other is left alone.
Resume(t) ==
    /\ luaState = "open" /\ at[Bridge] # "incr"
    /\ t # Bridge
    /\ Move(t, "out", "incr")
    /\ outlived' = (outlived \/ at[Bridge] \notin {"in", "decr"})
    /\ UNCHANGED <<mutex, luaState, refs, closes>>

\* What is written to a freed StateData is lost.
IncrRef(t) ==
    /\ Lock
    /\ Move(t, "incr", "in")
    /\ refs' = IF luaState = "open" THEN refs + 1 ELSE refs
    /\ UNCHANGED <<luaState, closes, outlived>>

\* Lua code runs with the lock, and gives it back around whatever blocks.
RunLua(t) ==
    /\ at[t] = "in" /\ mutex = Nobody
    /\ mutex' = t
    /\ UNCHANGED refVars

LeaveLua(t) ==
    /\ mutex = t
    /\ mutex' = Nobody
    /\ UNCHANGED refVars

\* The coroutine yields, ends or fails; the loop ends or the entry is missing.
Finish(t) ==
    /\ mutex # t
    /\ Move(t, "in", "decr")
    /\ UNCHANGED <<mutex, luaState, refs, closes, outlived>>

DecrRef(t) ==
    /\ Lock
    /\ Move(t, "decr", "check")
    /\ refs' = IF luaState = "open" THEN refs - 1 ELSE refs
    /\ outlived' = (outlived \/ (t = Bridge /\ \E u \in Resumers : at[u] # "out"))
    /\ UNCHANGED <<luaState, closes>>

\* Mutant: the state is closed by the last but one that leaves.
CheckNotLast(t) ==
    /\ at[t] = "check"
    /\ Move(t, "check", IF refs <= 1 THEN "close" ELSE "out")
    /\ UNCHANGED <<mutex, luaState, refs, closes, outlived>>

\* The count is read without the lock, and from freed memory if the state
\* was closed meanwhile.
CheckCount(t) ==
    /\ at[t] = "check"
    /\ \E zero \in (IF luaState = "open" THEN {refs <= 0} ELSE BOOLEAN) :
          Move(t, "check", IF zero THEN "close" ELSE "out")
    /\ UNCHANGED <<mutex, luaState, refs, closes, outlived>>

Close(t) ==
    /\ Lock
    /\ Move(t, "close", "out")
    /\ luaState' = "closed"
    /\ closes' = closes + 1
    /\ UNCHANGED <<refs, outlived>>

RefStep(t) == IncrRef(t) \/ Finish(t) \/ DecrRef(t) \/ CheckCount(t) \/ Close(t)

RefNext == OpenState \/ \E t \in Users : Resume(t) \/ RunLua(t) \/ LeaveLua(t) \/ RefStep(t)

-------------------------------------------------------------------------------
(* Properties. *)

\* luauser.c 233, 251: while the state is open its count is the number of
\* threads that have taken a reference and not given it back.
CountIsHolders ==
    luaState = "open" => refs = Cardinality({t \in Users : at[t] \in {"in", "decr"}})

\* luauser.c 237-272, LuaBridge.m 271, 415, caplua.c 461-482: if every resume
\* begins and ends within the reference of the bridge, the state is closed at
\* most once, and never while a thread still uses it.
ClosedWhenUnused ==
    ~outlived =>
        /\ closes <= 1
        /\ luaState = "closed" => \A t \in Users : at[t] = "out"

\* luauser.c 219-272: the two together.
StateKeptWhileUsed == CountIsHolders /\ ClosedWhenUnused
==============================================================================
