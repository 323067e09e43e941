--------------------------- MODULE NativeHostProofs ---------------------------
(***************************************************************************)
(* Proofs about the parts around the Lua runtime, for any builds, threads, *)
(* pings, requests and tabs.  Each part has an invariant of its own; the   *)
(* step of one part leaves the variables of the others alone.  What the    *)
(* functions compute is proved in WildcardProofs and LuaStringsProofs.     *)
(*                                                                         *)
(* That the lua_State is closed only when it is not used is not inductive: *)
(* it needs that a resume within the run keeps the count above zero, so    *)
(* that nobody but the bridge finds it at zero (WithinTheRun).  That a     *)
(* packet keeps the process alive needs that it is still to be seen by the *)
(* look after the poll (WritesAreSeen).                                    *)
(***************************************************************************)
EXTENDS NativeHost, WildcardProofs

-------------------------------------------------------------------------------
(* LuaStateRef and Watchdog: the reference count of the lua_State and the  *)
(* lock watchdog, for any finite set of threads and any number of attempts. *)

Places == {"out", "incr", "in", "decr", "check", "close"}

Holders == {t \in Users : at[t] \in {"in", "decr"}}

Outsiders == {t \in Users : at[t] = "out"}

\* Before the state is opened nobody uses it.
NoStateBefore == luaState = "none" => refs = 0 /\ \A t \in Users : at[t] = "out"

\* Whoever has closed the state has left for good.
ClosersAreOut ==
    /\ luaState # "closed" => closes = 0
    /\ luaState = "closed" => closes <= Cardinality(Outsiders)

\* While no resume outlives it, the reference of the bridge covers all others,
\* and only the bridge is ever the last.
WithinTheRun ==
    ~outlived =>
        /\ \A u \in Resumers : at[u] # "out" => at[Bridge] \in {"in", "decr"}
        /\ at[Bridge] # "out" => luaState = "open"
        /\ \A u \in Resumers : at[u] # "close"

RefInv ==
    /\ RefTypeOK
    /\ CountIsHolders /\ ClosedWhenUnused
    /\ NoStateBefore /\ ClosersAreOut /\ WithinTheRun

PollsLeft == handler \in {"poll", "sleep"} => attempts < MaxAttempts

\* No handler runs before the timer is started.
OffIsIdle == timer = "off" => handler = "idle"

\* A packet written during the polls is still to be seen, and not missed.
WritesAreSeen == wrote => (handler \in {"poll", "sleep"} => moved) /\ handler # "exit"

HostInv == HostTypeOK /\ RefInv /\ PollsLeft /\ OffIsIdle /\ WritesAreSeen

-------------------------------------------------------------------------------
(* The reference count. *)

LEMMA UsersFinite ==
    /\ IsFiniteSet(Users) /\ Cardinality(Users) \in Nat
    /\ IsFiniteSet(Holders) /\ Cardinality(Holders) \in 0..Cardinality(Users)
    /\ IsFiniteSet(Outsiders) /\ Cardinality(Outsiders) \in 0..Cardinality(Users)
  <1>1. IsFiniteSet(Users)
    BY RefThreadAssumption, FS_AddElement DEF Users
  <1>2. Holders \in SUBSET Users /\ Outsiders \in SUBSET Users
    BY DEF Holders, Outsiders
  <1>3. /\ IsFiniteSet(Holders) /\ Cardinality(Holders) <= Cardinality(Users)
        /\ IsFiniteSet(Outsiders) /\ Cardinality(Outsiders) <= Cardinality(Users)
    BY <1>1, <1>2, FS_Subset
  <1>4. Cardinality(Users) \in Nat /\ Cardinality(Holders) \in Nat /\ Cardinality(Outsiders) \in Nat
    BY <1>1, <1>3, FS_CardinalityType
  <1>. QED  BY <1>1, <1>3, <1>4

\* A thread moves and the others stay where they are.
LEMMA MoveFacts ==
    ASSUME RefTypeOK, NEW t \in Users, NEW from, NEW to \in Places, Move(t, from, to)
    PROVE  /\ at[t] = from /\ at'[t] = to
           /\ \A u \in Users \ {t} : at'[u] = at[u]
           /\ at' \in [Users -> Places]
  BY DEF Move, RefTypeOK, Places

\* A thread that takes or gives back a reference, or keeps what it has.
LEMMA HolderFacts ==
    ASSUME RefTypeOK, NEW t \in Users, NEW from, NEW to \in Places, Move(t, from, to)
    PROVE  /\ from \notin {"in", "decr"} /\ to \in {"in", "decr"}
                => Cardinality(Holders') = Cardinality(Holders) + 1
                    /\ Cardinality(Holders) < Cardinality(Users)
           /\ from \in {"in", "decr"} /\ to \notin {"in", "decr"}
                => Cardinality(Holders') = Cardinality(Holders) - 1
                    /\ Cardinality(Holders) > 0
           /\ (from \in {"in", "decr"} <=> to \in {"in", "decr"}) => Holders' = Holders
  <1>1. /\ at[t] = from /\ at'[t] = to /\ \A u \in Users \ {t} : at'[u] = at[u]
    BY MoveFacts
  <1>2. /\ IsFiniteSet(Users) /\ IsFiniteSet(Holders)
        /\ Cardinality(Users) \in Nat /\ Cardinality(Holders) \in Nat
    BY UsersFinite
  <1>3. CASE from \notin {"in", "decr"} /\ to \in {"in", "decr"}
    <2>1. Holders' = Holders \cup {t} /\ t \notin Holders
      BY <1>1, <1>3 DEF Holders
    <2>2. Cardinality(Holders') = Cardinality(Holders) + 1
      BY <1>2, <2>1, FS_AddElement
    <2>3. Holders' \in SUBSET Users
      BY DEF Holders
    <2>4. Cardinality(Holders') <= Cardinality(Users)
      BY <1>2, <2>3, FS_Subset
    <2>. QED  BY <1>2, <1>3, <2>2, <2>4
  <1>4. CASE from \in {"in", "decr"} /\ to \notin {"in", "decr"}
    <2>1. Holders' = Holders \ {t} /\ t \in Holders
      BY <1>1, <1>4 DEF Holders
    <2>2. Cardinality(Holders') = Cardinality(Holders) - 1
      BY <1>2, <2>1, FS_RemoveElement
    <2>3. Cardinality(Holders) # 0
      BY <1>2, <2>1, FS_EmptySet
    <2>. QED  BY <1>2, <1>4, <2>2, <2>3
  <1>5. CASE from \in {"in", "decr"} <=> to \in {"in", "decr"}
    <2>1. Holders' = Holders
      BY <1>1, <1>5 DEF Holders
    <2>. QED  BY <1>5, <2>1
  <1>. QED  BY <1>3, <1>4, <1>5

\* A thread that leaves is one more outside.
LEMMA OutsiderFacts ==
    ASSUME RefTypeOK, NEW t \in Users, NEW from, NEW to \in Places, Move(t, from, to),
           from # "out"
    PROVE  Cardinality(Outsiders') =
              IF to = "out" THEN Cardinality(Outsiders) + 1 ELSE Cardinality(Outsiders)
  <1>1. /\ at[t] = from /\ at'[t] = to /\ \A u \in Users \ {t} : at'[u] = at[u]
    BY MoveFacts
  <1>2. CASE to = "out"
    <2>1. Outsiders' = Outsiders \cup {t} /\ t \notin Outsiders
      BY <1>1, <1>2 DEF Outsiders
    <2>. QED  BY <1>2, <2>1, UsersFinite, FS_AddElement
  <1>3. CASE to # "out"
    <2>1. Outsiders' = Outsiders
      BY <1>1, <1>3 DEF Outsiders
    <2>. QED  BY <1>3, <2>1
  <1>. QED  BY <1>2, <1>3

\* The bridge begins the run.
LEMMA OpenStateInv ==
    ASSUME RefInv, OpenState
    PROVE  RefInv'
  <1>1. /\ RefTypeOK /\ luaState = "none" /\ luaState' = "open"
        /\ Move(Bridge, "out", "incr") /\ UNCHANGED <<refs, closes, outlived>>
    BY DEF RefInv, OpenState
  <1>2. Bridge \in Users /\ "incr" \in Places
    BY DEF Users, Places
  <1>3. /\ at'[Bridge] = "incr" /\ \A u \in Users \ {Bridge} : at'[u] = at[u]
        /\ at' \in [Users -> Places]
    BY <1>1, <1>2, MoveFacts
  <1>4. refs = 0 /\ closes = 0 /\ \A u \in Users : at[u] = "out"
    BY <1>1 DEF RefInv, NoStateBefore, ClosersAreOut
  <1>5. RefTypeOK'
    BY <1>1, <1>3 DEF RefTypeOK, Places
  <1>6. CountIsHolders'
    <2>1. Holders = {}
      BY <1>4 DEF Holders
    <2>2. Holders' = Holders
      BY <1>1, <1>2, HolderFacts
    <2>. QED  BY <1>1, <1>4, <2>1, <2>2, FS_EmptySet DEF CountIsHolders, Holders
  <1>7. \A u \in Resumers : u \in Users /\ u # Bridge
    BY RefThreadAssumption DEF Users
  <1>8. ClosedWhenUnused' /\ NoStateBefore' /\ ClosersAreOut' /\ WithinTheRun'
    BY <1>1, <1>3, <1>4, <1>7
    DEF ClosedWhenUnused, NoStateBefore, ClosersAreOut, WithinTheRun
  <1>. QED  BY <1>5, <1>6, <1>8 DEF RefInv

\* A resume outlives the run unless it begins within it.
LEMMA ResumeInv ==
    ASSUME RefInv, NEW t \in Users, Resume(t)
    PROVE  RefInv'
  <1>1. /\ RefTypeOK /\ luaState = "open" /\ t # Bridge
        /\ Move(t, "out", "incr") /\ UNCHANGED <<refs, closes, luaState>>
        /\ outlived' = (outlived \/ at[Bridge] \notin {"in", "decr"})
    BY DEF RefInv, Resume
  <1>2. "incr" \in Places /\ Bridge \in Users
    BY DEF Users, Places
  <1>3. /\ at'[t] = "incr" /\ \A u \in Users \ {t} : at'[u] = at[u]
        /\ at' \in [Users -> Places]
    BY <1>1, <1>2, MoveFacts
  <1>4. RefTypeOK'
    BY <1>1, <1>3 DEF RefTypeOK, Places
  <1>5. CountIsHolders'
    <2>1. Holders' = Holders
      BY <1>1, <1>2, HolderFacts
    <2>. QED  BY <1>1, <2>1 DEF RefInv, CountIsHolders, Holders
  <1>6. \A u \in Resumers : u \in Users /\ u # Bridge
    BY RefThreadAssumption DEF Users
  <1>7. WithinTheRun'
    BY <1>1, <1>2, <1>3, <1>6 DEF RefInv, WithinTheRun
  <1>8. ClosedWhenUnused' /\ NoStateBefore' /\ ClosersAreOut'
    BY <1>1 DEF RefInv, ClosedWhenUnused, NoStateBefore, ClosersAreOut
  <1>. QED  BY <1>4, <1>5, <1>7, <1>8 DEF RefInv

LEMMA IncrRefInv ==
    ASSUME RefInv, NEW t \in Users, IncrRef(t)
    PROVE  RefInv'
  <1>1. /\ RefTypeOK /\ Move(t, "incr", "in") /\ UNCHANGED <<luaState, closes, outlived>>
        /\ refs' = IF luaState = "open" THEN refs + 1 ELSE refs
    BY DEF RefInv, IncrRef
  <1>2. "in" \in Places /\ Bridge \in Users
    BY DEF Users, Places
  <1>3. /\ at[t] = "incr" /\ at'[t] = "in" /\ \A u \in Users \ {t} : at'[u] = at[u]
        /\ at' \in [Users -> Places]
    BY <1>1, <1>2, MoveFacts
  <1>4. /\ Cardinality(Holders') = Cardinality(Holders) + 1
        /\ Cardinality(Holders) < Cardinality(Users)
    BY <1>1, <1>2, HolderFacts
  <1>5. luaState = "open" => refs = Cardinality(Holders)
    BY DEF RefInv, CountIsHolders, Holders
  <1>6. CountIsHolders'
    BY <1>1, <1>4, <1>5 DEF CountIsHolders, Holders
  <1>7. RefTypeOK'
    BY <1>1, <1>3, <1>4, <1>5, UsersFinite DEF RefTypeOK, Places
  <1>8. \A u \in Resumers : u \in Users /\ u # Bridge
    BY RefThreadAssumption DEF Users
  <1>9. ClosedWhenUnused' /\ NoStateBefore' /\ WithinTheRun'
    BY <1>1, <1>2, <1>3, <1>8 DEF RefInv, ClosedWhenUnused, NoStateBefore, WithinTheRun
  <1>10. ClosersAreOut'
    <2>1. Cardinality(Outsiders') = Cardinality(Outsiders)
      BY <1>1, <1>2, OutsiderFacts
    <2>. QED  BY <1>1, <2>1 DEF RefInv, ClosersAreOut
  <1>. QED  BY <1>6, <1>7, <1>9, <1>10 DEF RefInv

LEMMA FinishInv ==
    ASSUME RefInv, NEW t \in Users, Finish(t)
    PROVE  RefInv'
  <1>1. RefTypeOK /\ Move(t, "in", "decr") /\ UNCHANGED <<luaState, refs, closes, outlived>>
    BY DEF RefInv, Finish
  <1>2. "decr" \in Places /\ Bridge \in Users
    BY DEF Users, Places
  <1>3. /\ at[t] = "in" /\ at'[t] = "decr" /\ \A u \in Users \ {t} : at'[u] = at[u]
        /\ at' \in [Users -> Places]
    BY <1>1, <1>2, MoveFacts
  <1>4. Holders' = Holders /\ Cardinality(Outsiders') = Cardinality(Outsiders)
    BY <1>1, <1>2, HolderFacts, OutsiderFacts
  <1>5. RefTypeOK' /\ CountIsHolders' /\ ClosersAreOut'
    BY <1>1, <1>3, <1>4 DEF RefInv, RefTypeOK, Places, CountIsHolders, Holders, ClosersAreOut
  <1>6. \A u \in Resumers : u \in Users /\ u # Bridge
    BY RefThreadAssumption DEF Users
  <1>7. ClosedWhenUnused' /\ NoStateBefore' /\ WithinTheRun'
    BY <1>1, <1>2, <1>3, <1>6 DEF RefInv, ClosedWhenUnused, NoStateBefore, WithinTheRun
  <1>. QED  BY <1>5, <1>7 DEF RefInv

\* The bridge outlives nobody, or the run is outlived.
LEMMA DecrRefInv ==
    ASSUME RefInv, NEW t \in Users, DecrRef(t)
    PROVE  RefInv'
  <1>1. /\ RefTypeOK /\ Move(t, "decr", "check") /\ UNCHANGED <<luaState, closes>>
        /\ refs' = IF luaState = "open" THEN refs - 1 ELSE refs
        /\ outlived' = (outlived \/ (t = Bridge /\ \E u \in Resumers : at[u] # "out"))
    BY DEF RefInv, DecrRef
  <1>2. "check" \in Places /\ Bridge \in Users
    BY DEF Users, Places
  <1>3. /\ at[t] = "decr" /\ at'[t] = "check" /\ \A u \in Users \ {t} : at'[u] = at[u]
        /\ at' \in [Users -> Places]
    BY <1>1, <1>2, MoveFacts
  <1>4. /\ Cardinality(Holders') = Cardinality(Holders) - 1 /\ Cardinality(Holders) > 0
    BY <1>1, <1>2, HolderFacts
  <1>5. luaState = "open" => refs = Cardinality(Holders)
    BY DEF RefInv, CountIsHolders, Holders
  <1>6. CountIsHolders'
    BY <1>1, <1>4, <1>5 DEF CountIsHolders, Holders
  <1>7. RefTypeOK'
    <2>1. outlived' \in BOOLEAN
      BY <1>1 DEF RefTypeOK
    <2>2. refs' \in 0..Cardinality(Users)
      BY <1>1, <1>4, <1>5, UsersFinite DEF RefTypeOK
    <2>. QED  BY <1>1, <1>3, <2>1, <2>2 DEF RefTypeOK, Places
  <1>8. \A u \in Resumers : u \in Users /\ u # Bridge
    BY RefThreadAssumption DEF Users
  <1>9. ClosedWhenUnused' /\ NoStateBefore' /\ WithinTheRun'
    BY <1>1, <1>2, <1>3, <1>8 DEF RefInv, ClosedWhenUnused, NoStateBefore, WithinTheRun
  <1>10. ClosersAreOut'
    <2>1. Cardinality(Outsiders') = Cardinality(Outsiders)
      BY <1>1, <1>2, OutsiderFacts
    <2>. QED  BY <1>1, <2>1 DEF RefInv, ClosersAreOut
  <1>. QED  BY <1>6, <1>7, <1>9, <1>10 DEF RefInv

\* Within the run a resumer never finds the count at zero.
LEMMA CheckCountInv ==
    ASSUME RefInv, NEW t \in Users, CheckCount(t)
    PROVE  RefInv'
  <1>1. PICK to \in {"close", "out"} :
            /\ Move(t, "check", to)
            /\ luaState = "open" => (to = "close" <=> refs <= 0)
    BY DEF CheckCount
  <1>2. RefTypeOK /\ UNCHANGED <<luaState, refs, closes, outlived>>
    BY DEF RefInv, CheckCount
  <1>3. to \in Places /\ Bridge \in Users
    BY DEF Users, Places
  <1>4. /\ at[t] = "check" /\ at'[t] = to /\ \A u \in Users \ {t} : at'[u] = at[u]
        /\ at' \in [Users -> Places]
    BY <1>1, <1>2, <1>3, MoveFacts
  <1>5. Holders' = Holders
    BY <1>1, <1>2, <1>3, HolderFacts
  <1>6. RefTypeOK' /\ CountIsHolders'
    BY <1>2, <1>4, <1>5 DEF RefInv, RefTypeOK, Places, CountIsHolders, Holders
  <1>7. ClosersAreOut'
    <2>1. Cardinality(Outsiders') \in {Cardinality(Outsiders), Cardinality(Outsiders) + 1}
      BY <1>1, <1>2, <1>3, OutsiderFacts
    <2>. QED  BY <1>2, <2>1, UsersFinite DEF RefInv, RefTypeOK, ClosersAreOut
  <1>8. \A u \in Resumers : u \in Users /\ u # Bridge
    BY RefThreadAssumption DEF Users
  <1>9. ~outlived /\ t \in Resumers => to # "close"
    <2>. SUFFICES ASSUME ~outlived, t \in Resumers PROVE to # "close"
      OBVIOUS
    <2>1. at[Bridge] \in {"in", "decr"} /\ luaState = "open"
      BY <1>4 DEF RefInv, WithinTheRun
    <2>2. Bridge \in Holders
      BY <1>3, <2>1 DEF Holders
    <2>3. refs = Cardinality(Holders) /\ Cardinality(Holders) # 0
      BY <2>1, <2>2, UsersFinite, FS_EmptySet DEF RefInv, CountIsHolders, Holders
    <2>. QED  BY <1>1, <2>1, <2>3, UsersFinite
  <1>10. WithinTheRun'
    BY <1>2, <1>3, <1>4, <1>8, <1>9 DEF RefInv, WithinTheRun
  <1>11. ClosedWhenUnused' /\ NoStateBefore'
    BY <1>2, <1>4 DEF RefInv, ClosedWhenUnused, NoStateBefore
  <1>. QED  BY <1>6, <1>7, <1>10, <1>11 DEF RefInv

\* Within the run it is the bridge that closes, and it is alone.
LEMMA CloseInv ==
    ASSUME RefInv, NEW t \in Users, Close(t)
    PROVE  RefInv'
  <1>1. /\ RefTypeOK /\ Move(t, "close", "out") /\ UNCHANGED <<refs, outlived>>
        /\ luaState' = "closed" /\ closes' = closes + 1
    BY DEF RefInv, Close
  <1>2. "out" \in Places /\ Bridge \in Users
    BY DEF Users, Places
  <1>3. /\ at[t] = "close" /\ at'[t] = "out" /\ \A u \in Users \ {t} : at'[u] = at[u]
        /\ at' \in [Users -> Places]
    BY <1>1, <1>2, MoveFacts
  <1>4. Cardinality(Outsiders') = Cardinality(Outsiders) + 1
    BY <1>1, <1>2, OutsiderFacts
  <1>5. closes <= Cardinality(Outsiders)
    BY UsersFinite DEF RefInv, ClosersAreOut
  <1>6. ClosersAreOut'
    BY <1>1, <1>4, <1>5, UsersFinite DEF ClosersAreOut, RefTypeOK
  <1>7. closes' \in 0..Cardinality(Users)
    <2>1. Outsiders' \in SUBSET Users
      BY DEF Outsiders
    <2>2. Cardinality(Outsiders') <= Cardinality(Users)
      BY <2>1, UsersFinite, FS_Subset
    <2>. QED  BY <1>1, <1>4, <1>5, <2>2, UsersFinite DEF RefTypeOK
  <1>8. RefTypeOK' /\ CountIsHolders' /\ NoStateBefore'
    BY <1>1, <1>3, <1>7 DEF RefTypeOK, Places, CountIsHolders, NoStateBefore
  <1>9. \A u \in Resumers : u \in Users /\ u # Bridge
    BY RefThreadAssumption DEF Users
  <1>10. ~outlived => /\ t = Bridge /\ luaState = "open" /\ closes = 0
                      /\ \A u \in Resumers : at[u] = "out"
    BY <1>3 DEF RefInv, WithinTheRun, ClosersAreOut, Users
  <1>11. ~outlived => \A u \in Users : at'[u] = "out"
    BY <1>3, <1>9, <1>10 DEF Users
  <1>12. ClosedWhenUnused' /\ WithinTheRun'
    BY <1>1, <1>2, <1>9, <1>10, <1>11 DEF ClosedWhenUnused, WithinTheRun
  <1>. QED  BY <1>6, <1>8, <1>12 DEF RefInv

LEMMA RefSame ==
    ASSUME RefInv, UNCHANGED refVars
    PROVE  RefInv'
  BY DEF refVars, RefInv, RefTypeOK, CountIsHolders, ClosedWhenUnused, NoStateBefore,
         ClosersAreOut, Outsiders, WithinTheRun

LEMMA RefNextInv ==
    ASSUME RefInv, RefNext
    PROVE  RefInv'
  <1>1. CASE OpenState
    BY <1>1, OpenStateInv
  <1>2. ASSUME NEW t \in Users, Resume(t) \/ RefStep(t) PROVE RefInv'
    BY <1>2, ResumeInv, IncrRefInv, FinishInv, DecrRefInv, CheckCountInv, CloseInv DEF RefStep
  <1>3. ASSUME NEW t \in Users, RunLua(t) \/ LeaveLua(t) PROVE RefInv'
    BY <1>3, RefSame DEF RunLua, LeaveLua
  <1>. QED  BY <1>1, <1>2, <1>3 DEF RefNext

-------------------------------------------------------------------------------
(* The watchdog. *)

\* The types of what the watchdog keeps, and of the lock.
DogType ==
    /\ mutex \in Users \cup {Nobody, Dog}
    /\ timer \in {"off", "on", "cancelled"}
    /\ handler \in {"idle", "throttle", "look", "poll", "sleep", "exit"}
    /\ attempts \in 0..MaxAttempts

FlagType == moved \in BOOLEAN /\ exited \in BOOLEAN /\ wrote \in BOOLEAN

LEMMA HostParts == HostInv <=> DogType /\ FlagType /\ RefInv /\ PollsLeft /\ OffIsIdle /\ WritesAreSeen
  BY DEF HostInv, HostTypeOK, DogType, FlagType, RefInv

LEMMA HostPartsAfter ==
    ASSUME DogType', FlagType', RefInv', PollsLeft', OffIsIdle', WritesAreSeen'
    PROVE  HostInv'
  BY DEF HostInv, HostTypeOK, DogType, FlagType, RefInv

LEMMA HostInitInv == HostInit => HostInv
  <1>. SUFFICES ASSUME HostInit PROVE HostInv
    OBVIOUS
  <1>1. RefTypeOK /\ NoStateBefore /\ WithinTheRun
    <2>1. /\ luaState = "none" /\ refs = 0 /\ closes = 0 /\ outlived = FALSE
          /\ at = [t \in Users |-> "out"]
      BY DEF HostInit, RefInit
    <2>2. refs \in 0..Cardinality(Users) /\ closes \in 0..Cardinality(Users)
      BY <2>1, UsersFinite
    <2>3. RefTypeOK
      BY <2>1, <2>2 DEF RefTypeOK
    <2>. QED  BY <2>1, <2>3 DEF NoStateBefore, WithinTheRun, Users
  <1>2. CountIsHolders /\ ClosedWhenUnused /\ ClosersAreOut
    BY DEF HostInit, RefInit, CountIsHolders, ClosedWhenUnused, ClosersAreOut
  <1>3. FlagType
    BY DEF HostInit, FlagType
  <1>4. DogType
    BY DogAssumption DEF HostInit, RefInit, DogType
  <1>5. PollsLeft /\ OffIsIdle /\ WritesAreSeen
    BY DEF HostInit, PollsLeft, OffIsIdle, WritesAreSeen
  <1>. QED  BY <1>1, <1>2, <1>3, <1>4, <1>5, HostParts DEF RefInv

\* The threads leave the watchdog alone, but for the lock.
LEMMA UsersStepInv ==
    ASSUME HostInv, RefNext, UNCHANGED dogVars
    PROVE  HostInv'
  <1>1. RefInv'
    BY RefNextInv DEF HostInv
  <1>2. mutex' \in Users \cup {Nobody, Dog}
    BY DEF HostInv, HostTypeOK, RefNext, RefStep, OpenState, Resume, RunLua, LeaveLua, IncrRef,
           Finish, DecrRef, CheckCount, Close, Lock
  <1>3. DogType' /\ PollsLeft' /\ OffIsIdle' /\ WritesAreSeen'
    BY <1>2, HostParts DEF dogVars, DogType, PollsLeft, OffIsIdle, WritesAreSeen
  <1>4. FlagType'
    BY HostParts DEF dogVars, FlagType
  <1>. QED  BY <1>1, <1>3, <1>4, HostPartsAfter

\* The watchdog leaves the state and its count alone.
LEMMA DogKeepsState ==
    ASSUME \/ LuaLockWatchdogStart \/ LuaLockWatchdogStop
           \/ Fire \/ FireUnderPressure \/ HandlerStep \/ WritePacket
    PROVE  UNCHANGED refVars
  BY DEF LuaLockWatchdogStart, LuaLockWatchdogStop, Fire, FireUnderPressure, HandlerStep,
         EndThrottle, LookProgress, LookNoProgress, TryLock, WakeUp, ForceExit, WritePacket

\* The steps that count no attempt.
LEMMA TimerStepInv ==
    ASSUME HostInv,
           \/ LuaLockWatchdogStart \/ LuaLockWatchdogStop \/ Fire \/ FireUnderPressure
           \/ EndThrottle \/ LookProgress \/ TryLock \/ ForceExit
    PROVE  DogType' /\ FlagType' /\ PollsLeft' /\ OffIsIdle' /\ WritesAreSeen'
  <1>1. DogType /\ FlagType /\ PollsLeft /\ OffIsIdle /\ WritesAreSeen
    BY HostParts
  <1>2. CASE LuaLockWatchdogStart
    <2>1. moved' = FALSE /\ timer' = "on" /\ UNCHANGED <<mutex, handler, attempts, exited, wrote>>
      BY <1>2 DEF LuaLockWatchdogStart
    <2>2. handler = "idle"
      BY <1>1, <1>2 DEF LuaLockWatchdogStart, OffIsIdle
    <2>3. FlagType'
      BY <1>1, <2>1 DEF FlagType
    <2>. QED  BY <1>1, <2>1, <2>2, <2>3 DEF DogType, PollsLeft, OffIsIdle, WritesAreSeen
  <1>3. CASE LuaLockWatchdogStop \/ Fire \/ FireUnderPressure \/ EndThrottle \/ TryLock
    BY <1>1, <1>3
    DEF LuaLockWatchdogStop, Fire, FireUnderPressure, EndThrottle, TryLock, Goto, DogType,
        FlagType, PollsLeft, OffIsIdle, WritesAreSeen
  <1>4. CASE LookProgress \/ ForceExit
    BY <1>1, <1>4
    DEF LookProgress, ForceExit, Goto, DogType, FlagType, PollsLeft, OffIsIdle, WritesAreSeen
  <1>. QED  BY <1>2, <1>3, <1>4

\* Only a packet that is still to be seen has been written during the polls.
LEMMA PollStepInv ==
    ASSUME HostInv, LookNoProgress \/ WakeUp \/ WritePacket
    PROVE  DogType' /\ FlagType' /\ PollsLeft' /\ OffIsIdle' /\ WritesAreSeen'
  <1>1. DogType /\ FlagType /\ PollsLeft /\ OffIsIdle /\ WritesAreSeen
    BY HostParts
  <1>2. CASE LookNoProgress
    <2>1. /\ handler = "look" /\ handler' = "poll" /\ attempts' = 0 /\ wrote' = FALSE
          /\ UNCHANGED <<mutex, timer, moved, exited>>
      BY <1>2 DEF LookNoProgress, Goto
    <2>2. FlagType'
      BY <1>1, <2>1 DEF FlagType
    <2>3. DogType' /\ PollsLeft'
      BY <1>1, <2>1, DogAssumption DEF DogType, PollsLeft
    <2>. QED  BY <1>1, <2>1, <2>2, <2>3 DEF OffIsIdle, WritesAreSeen
  <1>3. CASE WakeUp
    <2>1. /\ handler = "sleep" /\ attempts' = attempts + 1 /\ moved' = FALSE
          /\ handler' = IF moved THEN "idle" ELSE IF attempts + 1 = MaxAttempts THEN "exit" ELSE "poll"
          /\ UNCHANGED <<mutex, timer, exited, wrote>>
      BY <1>3 DEF WakeUp, Goto
    <2>2. attempts + 1 \in 0..MaxAttempts
      BY <1>1, <2>1, DogAssumption DEF DogType, PollsLeft
    <2>3. FlagType'
      BY <1>1, <2>1 DEF FlagType
    <2>4. DogType'
      BY <1>1, <2>1, <2>2 DEF DogType
    <2>5. PollsLeft'
      BY <1>1, <2>1, <2>2, DogAssumption DEF DogType, PollsLeft
    <2>6. wrote => moved
      BY <1>1, <2>1 DEF WritesAreSeen
    <2>. QED  BY <1>1, <2>1, <2>3, <2>4, <2>5, <2>6 DEF OffIsIdle, WritesAreSeen
  <1>4. CASE WritePacket
    BY <1>1, <1>4 DEF WritePacket, DogType, FlagType, PollsLeft, OffIsIdle, WritesAreSeen
  <1>. QED  BY <1>2, <1>3, <1>4

LEMMA HostNextInv == HostInv /\ [HostNext]_hostVars => HostInv'
  <1>. SUFFICES ASSUME HostInv, [HostNext]_hostVars PROVE HostInv'
    OBVIOUS
  <1>1. CASE RefNext /\ UNCHANGED dogVars
    BY <1>1, UsersStepInv
  <1>2. CASE \/ LuaLockWatchdogStart \/ LuaLockWatchdogStop
             \/ Fire \/ FireUnderPressure \/ HandlerStep \/ WritePacket
    <2>1. RefInv'
      BY <1>2, DogKeepsState, RefSame DEF HostInv
    <2>2. DogType' /\ FlagType' /\ PollsLeft' /\ OffIsIdle' /\ WritesAreSeen'
      BY <1>2, TimerStepInv, PollStepInv DEF HandlerStep
    <2>. QED  BY <2>1, <2>2, HostPartsAfter
  <1>3. CASE UNCHANGED hostVars
    <2>1. RefInv'
      BY <1>3, RefSame DEF hostVars, HostInv
    <2>2. DogType' /\ PollsLeft' /\ OffIsIdle' /\ WritesAreSeen'
      BY <1>3, HostParts DEF hostVars, dogVars, DogType, PollsLeft, OffIsIdle, WritesAreSeen
    <2>3. FlagType'
      BY <1>3, HostParts DEF hostVars, dogVars, FlagType
    <2>. QED  BY <2>1, <2>2, <2>3, HostPartsAfter
  <1>. QED  BY <1>1, <1>2, <1>3 DEF HostNext

\* The process is ended only by a handler that has seen no packet.
LEMMA ExitUnwritten == HostInv /\ [HostNext]_hostVars => (exited' # exited => ~wrote)
  <1>. SUFFICES ASSUME HostInv, [HostNext]_hostVars, exited' # exited PROVE ~wrote
    OBVIOUS
  <1>1. ForceExit
    BY DEF HostNext, hostVars, dogVars, LuaLockWatchdogStart, LuaLockWatchdogStop, Fire,
           FireUnderPressure, HandlerStep, EndThrottle, LookProgress, LookNoProgress, TryLock,
           WakeUp, WritePacket
  <1>. QED  BY <1>1 DEF HostInv, WritesAreSeen, ForceExit, Goto

-------------------------------------------------------------------------------
(* The theorems about the component by itself. *)

\* luauser.c 219-391: types, count, and the two promises, with any number of
\* threads and of attempts.
THEOREM HostInvariance == HostSpec => []HostInv
  BY HostInitInv, HostNextInv, PTL DEF HostSpec

-------------------------------------------------------------------------------
(* RuntimeDir: the search for the modules, step by step. *)

\* A link that is being made anew is gone, and there is a tree for it.
LinkIsGone ==
    /\ step \in {"sourceLink", "checkLink"} => runtime = "absent" /\ build \in hasSource
    /\ step = "bundleLink" => runtime = "absent" /\ LinkTarget # "none"

\* A build with a tree of its own comes nearer to it with every step.
OwnIsNear ==
    build \in hasSource =>
        /\ step = "check" => runtime \in {build, "deployed", "absent", "broken"}
        /\ step = "bundle" => runtime \in {build, "deployed"}
        /\ step = "choose" => \/ runtime \in {build, "deployed"}
                              \/ runtime = "legacy" /\ hasLegacy /\ build \notin hasBundle

DirInv == DirTypeOK /\ RuntimeIsFound /\ LinkIsGone /\ OwnIsNear

LEMMA DirInitInv == DirInit => DirInv
  BY DEF DirInit, DirInv, DirTypeOK, RuntimeIsFound, BuildFindsRuntime, RunsOwnRuntime,
         LinkIsGone, OwnIsNear, Steps, Links

\* The first half of the set-up, in main.swift.
LEMMA SourceStepInv ==
    ASSUME DirInv, RefreshSource \/ LinkSource \/ CheckSource \/ LinkChecked
    PROVE  DirInv'
  <1>1. CASE RefreshSource
    BY <1>1, BuildAssumption
    DEF RefreshSource, Step, Keep, IsLink, DirInv, DirTypeOK, RuntimeIsFound, BuildFindsRuntime,
        RunsOwnRuntime, LinkIsGone, OwnIsNear, Steps, Links
  <1>2. CASE LinkSource
    BY <1>2, BuildAssumption
    DEF LinkSource, CreateLink, Step, Keep, DirInv, DirTypeOK, RuntimeIsFound, BuildFindsRuntime,
        RunsOwnRuntime, LinkIsGone, OwnIsNear, Steps, Links
  <1>3. CASE CheckSource
    BY <1>3, BuildAssumption
    DEF CheckSource, HasCore, FileExists, Step, Keep, DirInv, DirTypeOK, RuntimeIsFound,
        BuildFindsRuntime, RunsOwnRuntime, LinkIsGone, OwnIsNear, Steps, Links
  <1>4. CASE LinkChecked
    BY <1>4, BuildAssumption
    DEF LinkChecked, CreateLink, Step, Keep, DirInv, DirTypeOK, RuntimeIsFound, BuildFindsRuntime,
        RunsOwnRuntime, LinkIsGone, OwnIsNear, Steps, Links
  <1>. QED  BY <1>1, <1>2, <1>3, <1>4

\* The second half, in LuaBridge.m.
LEMMA BundleStepInv ==
    ASSUME DirInv, RefreshBundle \/ LinkBundle \/ Choose
    PROVE  DirInv'
  <1>1. CASE RefreshBundle
    BY <1>1, BuildAssumption
    DEF RefreshBundle, LinkTarget, HasCore, FileExists, IsLink, Step, Keep, DirInv, DirTypeOK,
        RuntimeIsFound, BuildFindsRuntime, RunsOwnRuntime, LinkIsGone, OwnIsNear, Steps, Links
  <1>2. CASE LinkBundle
    BY <1>2, BuildAssumption
    DEF LinkBundle, LinkTarget, CreateLink, Step, Keep, DirInv, DirTypeOK, RuntimeIsFound,
        BuildFindsRuntime, RunsOwnRuntime, LinkIsGone, OwnIsNear, Steps, Links
  <1>3. CASE Choose
    BY <1>3, BuildAssumption
    DEF Choose, LinkTarget, HasCore, Step, Keep, DirInv, DirTypeOK, RuntimeIsFound,
        BuildFindsRuntime, RunsOwnRuntime, LinkIsGone, OwnIsNear, Steps, Links
  <1>. QED  BY <1>1, <1>2, <1>3

\* Between two processes, where a build may come or go.
LEMMA OutsideStepInv ==
    ASSUME DirInv,
           \/ \E b \in Builds : StartProcess(b) \/ Install(b) \/ Remove(b)
           \/ EndProcess \/ Deploy
    PROVE  DirInv'
  <1>1. ASSUME NEW b \in Builds, StartProcess(b) PROVE DirInv'
    BY <1>1 DEF StartProcess, DirInv, DirTypeOK, RuntimeIsFound, BuildFindsRuntime,
                RunsOwnRuntime, LinkIsGone, OwnIsNear, Steps, Links
  <1>2. ASSUME NEW b \in Builds, Install(b) \/ Remove(b) PROVE DirInv'
    BY <1>2 DEF Install, Remove, DirInv, DirTypeOK, RuntimeIsFound, BuildFindsRuntime,
                RunsOwnRuntime, LinkIsGone, OwnIsNear, Steps, Links
  <1>3. CASE EndProcess \/ Deploy
    BY <1>3 DEF EndProcess, Deploy, Keep, DirInv, DirTypeOK, RuntimeIsFound, BuildFindsRuntime,
                RunsOwnRuntime, LinkIsGone, OwnIsNear, Steps, Links
  <1>. QED  BY <1>1, <1>2, <1>3

LEMMA DirNextInv == DirInv /\ [DirNext]_dirVars => DirInv'
  <1>. SUFFICES ASSUME DirInv, [DirNext]_dirVars PROVE DirInv'
    OBVIOUS
  <1>1. CASE DirNext
    BY <1>1, SourceStepInv, BundleStepInv, OutsideStepInv DEF DirNext, SetUp
  <1>2. CASE UNCHANGED dirVars
    BY <1>2 DEF dirVars, DirInv, DirTypeOK, RuntimeIsFound, BuildFindsRuntime, RunsOwnRuntime,
                LinkIsGone, LinkTarget, OwnIsNear
  <1>. QED  BY <1>1, <1>2

-------------------------------------------------------------------------------
(* BrowserTabs: calls of open() one after the other. *)

\* Calls that do not overlap are one.
OneAtATime == ~entwined => \A o, q \in Openers : opening[o] # "no" /\ opening[q] # "no" => o = q

\* What such a call decides on is still true.
ListIsFresh == ~entwined /\ ~browsed => \A o \in Openers : opening[o] = "deciding" => listed[o] = tab

TabInv == TabTypeOK /\ OpensOneTab /\ OneAtATime /\ ListIsFresh

\* The types of what the calls know, and of the history.
OpenType ==
    /\ tab \in [Tabs -> Contents]
    /\ opening \in [Openers -> {"no", "listing", "deciding"}]
    /\ wanted \in [Openers -> Pages]
    /\ listed \in [Openers -> [Tabs -> Contents]]

TabFlags ==
    /\ opened \in [Openers -> BOOLEAN]
    /\ entwined \in BOOLEAN /\ browsed \in BOOLEAN /\ replaced \in BOOLEAN

LEMMA TabParts == TabTypeOK <=> OpenType /\ TabFlags
  BY DEF TabTypeOK, OpenType, TabFlags

LEMMA TabPartsAfter ==
    ASSUME OpenType', TabFlags', OpensOneTab', OneAtATime', ListIsFresh'
    PROVE  TabInv'
  BY DEF TabInv, TabTypeOK, OpenType, TabFlags

LEMMA NoTabsType == NoTabs \in [Tabs -> Contents]
  BY DEF NoTabs, Contents

LEMMA TabInitInv == TabInit => TabInv
  <1>. SUFFICES ASSUME TabInit PROVE TabInv
    OBVIOUS
  <1>1. OpenType
    BY NoTabsType, TabAssumption DEF TabInit, OpenType
  <1>2. TabFlags
    BY DEF TabInit, TabFlags
  <1>3. OpensOneTab /\ OneAtATime /\ ListIsFresh
    BY DEF TabInit, OpensOneTab, OneAtATime, ListIsFresh
  <1>. QED  BY <1>1, <1>2, <1>3, TabParts DEF TabInv

LEMMA BeginOpenInv ==
    ASSUME TabInv, NEW o \in Openers, NEW p \in Pages, BeginOpen(o, p)
    PROVE  TabInv'
  <1>1. OpenType /\ TabFlags
    BY TabParts DEF TabInv
  <1>2. OpenType'
    BY <1>1 DEF BeginOpen, OpenType
  <1>3. TabFlags'
    BY <1>1 DEF BeginOpen, TabFlags
  <1>4. OpensOneTab'
    BY <1>1 DEF TabInv, BeginOpen, OpensOneTab, OpenType, TabFlags, Distinct, Shows
  <1>5. OneAtATime' /\ ListIsFresh'
    BY <1>1 DEF TabInv, BeginOpen, OpenType, OneAtATime, ListIsFresh
  <1>. QED  BY <1>2, <1>3, <1>4, <1>5, TabPartsAfter

LEMMA FetchPagesInv ==
    ASSUME TabInv, NEW o \in Openers, FetchPages(o)
    PROVE  TabInv'
  <1>1. OpenType /\ TabFlags
    BY TabParts DEF TabInv
  <1>2. OpenType' /\ OneAtATime' /\ ListIsFresh'
    BY <1>1 DEF TabInv, FetchPages, OpenType, OneAtATime, ListIsFresh
  <1>3. TabFlags'
    BY <1>1 DEF FetchPages, TabFlags
  <1>4. OpensOneTab'
    BY DEF TabInv, FetchPages, OpensOneTab, Distinct, Shows
  <1>. QED  BY <1>2, <1>3, <1>4, TabPartsAfter

\* A call that ends; what the tabs show changes for nobody, or for this call.
LEMMA LeaveInv ==
    ASSUME TabInv, NEW o \in Openers, opening[o] # "no", NEW result \in BOOLEAN, Leave(o, result),
           tab' \in [Tabs -> Contents], replaced' \in BOOLEAN,
           ~entwined /\ ~browsed =>
                /\ Distinct(tab') /\ ~replaced'
                /\ \A t \in Tabs : tab[t] \in Pages => tab'[t] = tab[t]
                /\ result => \E t \in Tabs : tab'[t] \in Pages /\ Origin[tab'[t]] = Origin[wanted[o]]
    PROVE  TabInv'
  <1>1. OpenType /\ TabFlags
    BY TabParts DEF TabInv
  <1>2. /\ opening' = [opening EXCEPT ![o] = "no"] /\ opened' = [opened EXCEPT ![o] = result]
        /\ listed' = [listed EXCEPT ![o] = NoTabs] /\ UNCHANGED <<wanted, entwined, browsed>>
    BY DEF Leave
  <1>3. OpenType'
    BY <1>1, <1>2, NoTabsType DEF OpenType
  <1>4. TabFlags'
    BY <1>1, <1>2 DEF TabFlags
  <1>5. OneAtATime'
    BY <1>1, <1>2 DEF TabInv, OneAtATime, OpenType
  <1>6. ListIsFresh'
    BY <1>1, <1>2 DEF TabInv, OneAtATime, ListIsFresh, OpenType
  <1>7. OpensOneTab'
    <2>. SUFFICES ASSUME ~entwined, ~browsed
                  PROVE  \A q \in Openers : opened'[q] => Shows(tab, q)' # {}
      BY <1>2 DEF OpensOneTab, Distinct
    <2>1. opened'[o] => Shows(tab, o)' # {}
      BY <1>1, <1>2 DEF Shows, TabFlags
    <2>2. ASSUME NEW q \in Openers \ {o}, opened'[q] PROVE Shows(tab, q)' # {}
      <3>1. opened[q]
        BY <1>1, <1>2, <2>2 DEF TabFlags
      <3>2. PICK t \in Tabs : tab[t] \in Pages /\ Origin[tab[t]] = Origin[wanted[q]]
        BY <3>1 DEF TabInv, OpensOneTab, Shows
      <3>. QED  BY <1>2, <3>2 DEF Shows
    <2>. QED  BY <2>1, <2>2
  <1>. QED  BY <1>3, <1>4, <1>5, <1>6, <1>7, TabPartsAfter

\* A call that leaves the tabs alone.
LEMMA LeaveTabsInv ==
    ASSUME TabInv, NEW o \in Openers, Activate(o) \/ OpenFails(o)
    PROVE  TabInv'
  <1>1. OpenType /\ TabFlags
    BY TabParts DEF TabInv
  <1>2. /\ opening[o] # "no" /\ UNCHANGED <<tab, replaced>>
        /\ \/ Leave(o, FALSE)
           \/ /\ Leave(o, TRUE) /\ opening[o] = "deciding"
              /\ \E t \in Shows(listed[o], o) : tab[t] # Closed
    BY DEF Activate, OpenFails, Refused
  <1>3. ~entwined /\ ~browsed => Distinct(tab') /\ ~replaced'
    BY <1>2 DEF TabInv, OpensOneTab
  <1>4. CASE Leave(o, FALSE)
    BY <1>1, <1>2, <1>3, <1>4, LeaveInv DEF OpenType, TabFlags
  <1>5. CASE Leave(o, TRUE) /\ opening[o] = "deciding" /\ Shows(listed[o], o) # {}
    <2>1. ~entwined /\ ~browsed => Shows(tab, o) # {}
      BY <1>5 DEF TabInv, ListIsFresh
    <2>. QED  BY <1>1, <1>2, <1>3, <1>5, <2>1, LeaveInv DEF OpenType, TabFlags, Shows
  <1>. QED  BY <1>2, <1>4, <1>5

\* A call that shows its page in a tab that has none.
LEMMA ShowPageInv ==
    ASSUME TabInv, NEW o \in Openers, NavigateBlank(o) \/ CreatePage(o)
    PROVE  TabInv'
  <1>1. OpenType /\ TabFlags
    BY TabParts DEF TabInv
  <1>2. opening[o] = "deciding" /\ Shows(listed[o], o) = {}
    BY DEF NavigateBlank, CreatePage
  <1>3. CASE Refused(o)
    BY <1>2, <1>3, LeaveTabsInv DEF OpenFails
  <1>4. ASSUME NEW t \in Tabs, tab' = [tab EXCEPT ![t] = wanted[o]], Answered(o),
               \/ listed[o][t] = Blank /\ replaced' = (replaced \/ tab[t] # Blank)
               \/ tab[t] = Closed /\ UNCHANGED replaced
        PROVE  TabInv'
    <2>1. PICK result \in BOOLEAN : Leave(o, result)
      BY <1>4 DEF Answered
    <2>2. /\ tab' \in [Tabs -> Contents] /\ replaced' \in BOOLEAN
          /\ tab'[t] = wanted[o] /\ wanted[o] \in Pages
          /\ \A u \in Tabs \ {t} : tab'[u] = tab[u]
      <3>1. replaced' \in BOOLEAN
        BY <1>1, <1>4 DEF TabFlags
      <3>. QED  BY <1>1, <1>4, <3>1 DEF OpenType, Contents
    <2>3. ASSUME ~entwined, ~browsed
          PROVE  /\ Distinct(tab') /\ ~replaced'
                 /\ \A u \in Tabs : tab[u] \in Pages => tab'[u] = tab[u]
      <3>1. listed[o] = tab /\ Distinct(tab) /\ ~replaced
        BY <1>2, <2>3 DEF TabInv, ListIsFresh, OpensOneTab
      <3>2. tab[t] \in {Blank, Closed} /\ ~replaced' /\ tab[t] \notin Pages
        <4>1. (tab[t] = Blank /\ replaced' = (replaced \/ tab[t] # Blank))
              \/ (tab[t] = Closed /\ replaced' = replaced)
          BY <1>4, <3>1
        <4>2. tab[t] \in {Blank, Closed}
          BY <4>1
        <4>3. replaced' = replaced
          BY <1>1, <4>1, Zenon DEF TabFlags
        <4>. QED  BY <3>1, <4>2, <4>3, TabAssumption
      <3>3. \A u \in Tabs : tab[u] \in Pages => Origin[tab[u]] # Origin[wanted[o]]
        BY <1>2, <3>1 DEF Shows
      <3>4. Distinct(tab')
        BY <2>2, <3>1, <3>3 DEF Distinct
      <3>. QED  BY <2>2, <3>2, <3>4
    <2>. QED  BY <1>2, <2>1, <2>2, <2>3, LeaveInv
  <1>. QED  BY <1>3, <1>4 DEF NavigateBlank, CreatePage

LEMMA BrowseInv ==
    ASSUME TabInv, NEW t \in Tabs, NEW c \in Contents, Browse(t, c)
    PROVE  TabInv'
  <1>1. OpenType /\ TabFlags
    BY TabParts DEF TabInv
  <1>2. OpenType'
    BY <1>1 DEF Browse, OpenType
  <1>3. TabFlags'
    BY <1>1 DEF Browse, TabFlags
  <1>4. OpensOneTab' /\ OneAtATime' /\ ListIsFresh'
    BY DEF TabInv, Browse, OpensOneTab, OneAtATime, ListIsFresh
  <1>. QED  BY <1>2, <1>3, <1>4, TabPartsAfter

LEMMA TabNextInv == TabInv /\ [TabNext]_tabVars => TabInv'
  <1>. SUFFICES ASSUME TabInv, [TabNext]_tabVars PROVE TabInv'
    OBVIOUS
  <1>1. CASE TabNext
    BY <1>1, BeginOpenInv, FetchPagesInv, LeaveTabsInv, ShowPageInv, BrowseInv DEF TabNext
  <1>2. CASE UNCHANGED tabVars
    BY <1>2 DEF tabVars, TabInv, TabTypeOK, OpensOneTab, Distinct, Shows, OneAtATime, ListIsFresh
  <1>. QED  BY <1>1, <1>2

-------------------------------------------------------------------------------
(* McpConnection: its types. *)

LEMMA BodyOf ==
    ASSUME NEW R, NEW P, NEW B, NEW D, NEW L, NEW K,
           NEW m \in [legible : R, post : P, bearer : B, declared : D, body : L, kind : K]
    PROVE  m.body \in L
  OBVIOUS

LEMMA LengthType == \A m \in Messages : Length(m) \in Nat
  <1>. TAKE m \in Messages
  <1>1. m.body \in BodyLengths
    BY BodyOf DEF Messages
  <1>2. m.body \in Nat /\ HeadLength \in Nat
    BY <1>1, LengthAssumption
  <1>3. HeadLength + m.body \in Nat
    BY <1>2
  <1>. QED  BY <1>3 DEF Length

ConnData ==
    /\ message \in Messages
    /\ sent \in 0..Length(message) /\ got \in 0..sent
    /\ conn \in {"reading", "handling", "replying", "answered", "cancelled", "trapped"}
    /\ status \in {0, 200, 204, 400, 401, 405}

LEMMA ConnParts == ConnTypeOK <=> ConnData /\ half \in BOOLEAN
  BY Zenon DEF ConnTypeOK, ConnData

LEMMA ConnInitInv == ConnInit => ConnTypeOK
  <1>. SUFFICES ASSUME ConnInit PROVE ConnTypeOK
    OBVIOUS
  <1>1. ConnData
    BY LengthType DEF ConnInit, ConnData
  <1>2. half \in BOOLEAN
    BY DEF ConnInit
  <1>. QED  BY <1>1, <1>2, ConnParts

\* What is answered early is one of three codes.
LEMMA ProcessType ==
    ASSUME NEW n, Process(n)
    PROVE  status' \in {0, 405, 401, 400} /\ conn' \in {"handling", "replying"}
  BY DEF Process

LEMMA ReceiveType ==
    ASSUME ConnTypeOK, NEW n \in 0..Length(message), Receive(n)
    PROVE  ConnTypeOK'
  <1>1. ConnData /\ half \in BOOLEAN /\ Length(message) \in Nat
    BY LengthType, ConnParts DEF ConnData
  <1>2. got' = got + n /\ got' <= sent /\ UNCHANGED <<message, sent, half>>
    BY DEF Receive
  <1>3. \/ Process(got')
        \/ conn' \in {"cancelled", "reading", "trapped"} /\ UNCHANGED status
    BY DEF Receive
  <1>4. /\ conn' \in {"reading", "handling", "replying", "answered", "cancelled", "trapped"}
        /\ status' \in {0, 200, 204, 400, 401, 405}
    BY <1>1, <1>3, ProcessType DEF ConnData
  <1>5. got' \in 0..sent'
    BY <1>1, <1>2 DEF ConnData
  <1>6. ConnData'
    BY <1>1, <1>2, <1>4, <1>5 DEF ConnData, Length
  <1>. QED  BY <1>1, <1>2, <1>6 DEF ConnData, ConnTypeOK

LEMMA ConnNextInv == ConnTypeOK /\ [ConnNext]_connVars => ConnTypeOK'
  <1>. SUFFICES ASSUME ConnTypeOK, [ConnNext]_connVars PROVE ConnTypeOK'
    OBVIOUS
  <1>1. ConnData /\ half \in BOOLEAN /\ Length(message) \in Nat
    BY LengthType, ConnParts DEF ConnData
  <1>2. ASSUME NEW n \in 1..Length(message), Send(n) PROVE ConnTypeOK'
    BY <1>1, <1>2 DEF Send, ConnData, ConnTypeOK, Length
  <1>3. CASE EndSending \/ ReceiveError
    <2>1. half' = TRUE /\ ConnData'
      BY <1>1, <1>3 DEF EndSending, ReceiveError, ConnData, Length
    <2>. QED  BY <2>1 DEF ConnData, ConnTypeOK
  <1>4. CASE HandleRequest
    <2>1. status' \in {400, 204, 200} /\ conn' = "replying" /\ UNCHANGED <<message, sent, half, got>>
      BY <1>4 DEF HandleRequest
    <2>2. ConnData'
      BY <1>1, <2>1 DEF ConnData, Length
    <2>. QED  BY <1>1, <2>1, <2>2 DEF ConnData, ConnTypeOK
  <1>5. CASE Reply \/ ContentProcessed \/ UNCHANGED connVars
    <2>1. ConnData' /\ half' = half
      BY <1>1, <1>5 DEF Reply, ContentProcessed, connVars, ConnData, Length
    <2>. QED  BY <1>1, <2>1 DEF ConnData, ConnTypeOK
  <1>. QED  BY <1>2, <1>3, <1>4, <1>5, ReceiveType DEF ConnNext

-------------------------------------------------------------------------------
(* IcmpSender: a reply and a timeout that both have seen the flag. *)

Handled == {"reply", "timeout", "free"}

\* Replies are handled on the loop that has sent, timeouts on the main loop.
HandlersAtHome ==
    \A p \in Pings, l \in Loops :
        /\ busy[l] = <<p, "reply">> => l = loopOf[p]
        /\ busy[l] = <<p, "timeout">> \/ busy[l] = <<p, "free">> => l = "main"

FlagIsParked == \A p \in Pings : useCoroutine[p] <=> coro[p] = "parked"

\* Nothing happens to a ping that was not sent.
QuietUnlessSent ==
    \A p \in Pings : coro[p] \in {"new", "failed"} =>
        /\ ~attached[p] /\ ~deadline[p] /\ ~stale[p] /\ wakes[p] = 0
        /\ \A l \in Loops, h \in Handled : busy[l] # <<p, h>>

\* A handler that has begun has a wake-up left: one in all for a ping sent from
\* the main loop, whose handlers exclude each other, and two otherwise.
WakesLeft ==
    \A p \in Pings :
        /\ coro[p] = "parked" => wakes[p] = 0
        /\ loopOf[p] = "main" =>
            /\ wakes[p] <= 1
            /\ busy["main"] = <<p, "reply">> \/ busy["main"] = <<p, "timeout">> => wakes[p] = 0
        /\ busy[loopOf[p]] = <<p, "reply">> \/ busy["main"] = <<p, "timeout">> => wakes[p] <= 1
        /\ busy[loopOf[p]] = <<p, "reply">> /\ busy["main"] = <<p, "timeout">> => wakes[p] = 0

\* A socket of the main loop that is still read belongs to a live context.
MainIsLive ==
    \A p \in Pings :
        loopOf[p] = "main" /\ (attached[p] \/ busy["main"] = <<p, "reply">>) => ctx[p] # "freed"

PingType ==
    /\ loopOf \in [Pings -> Loops] /\ tag \in [Pings -> Tags]
    /\ ctx \in [Pings -> {"none", "live", "freed"}]
    /\ coro \in [Pings -> {"new", "parked", "woken", "failed"}]
    /\ wakes \in [Pings -> 0..2]
    /\ inbox \in [Pings -> SUBSET Tags]
    /\ busy \in [Loops -> {Idle} \cup (Pings \X Handled)]

PingFlags ==
    /\ useCoroutine \in [Pings -> BOOLEAN] /\ pinned \in [Pings -> BOOLEAN]
    /\ attached \in [Pings -> BOOLEAN] /\ deadline \in [Pings -> BOOLEAN]
    /\ stale \in [Pings -> BOOLEAN] /\ served \in BOOLEAN

WakeInv == HandlersAtHome /\ FlagIsParked /\ QuietUnlessSent /\ WakesLeft /\ PinnedWhileParked

FreedInv == MainIsLive /\ NoStaleContext

PingInv == PingType /\ PingFlags /\ WakeInv /\ FreedInv

LEMMA PingParts == PingTypeOK <=> PingType /\ PingFlags
  BY DEF PingTypeOK, PingType, PingFlags, Handled

\* Handlers of different pings, or of different kinds, are different.
LEMMA HandlerFacts ==
    ASSUME NEW p, NEW h
    PROVE  /\ <<p, h>> # Idle
           /\ \A q, k : <<p, h>> = <<q, k>> => p = q /\ h = k
  BY DEF Idle

LEMMA PingInitInv == PingInit => PingInv
  <1>. SUFFICES ASSUME PingInit PROVE PingInv
    OBVIOUS
  <1>1. PingType
    BY PingAssumption DEF PingInit, PingType, Loops, Tags
  <1>2. PingFlags
    BY DEF PingInit, PingFlags
  <1>3. WakeInv
    BY HandlerFacts
    DEF PingInit, WakeInv, HandlersAtHome, FlagIsParked, QuietUnlessSent, WakesLeft,
        PinnedWhileParked, Loops
  <1>4. FreedInv
    BY DEF PingInit, FreedInv, MainIsLive, NoStaleContext
  <1>. QED  BY <1>1, <1>2, <1>3, <1>4 DEF PingInv

LEMMA SendPingInv ==
    ASSUME PingInv, NEW p \in Pings, NEW l \in Loops, NEW n \in Numbers,
           SendPing(p, l, n) \/ SendFails(p, l, n)
    PROVE  PingInv'
  <1>1. /\ coro[p] = "new" /\ loopOf' = [loopOf EXCEPT ![p] = l]
        /\ tag' = [tag EXCEPT ![p] = n % TagMod] /\ UNCHANGED <<wakes, inbox, busy, served, stale>>
        /\ \/ /\ coro' = [coro EXCEPT ![p] = "parked"] /\ ctx' = [ctx EXCEPT ![p] = "live"]
              /\ useCoroutine' = [useCoroutine EXCEPT ![p] = TRUE]
              /\ pinned' = [pinned EXCEPT ![p] = TRUE]
              /\ attached' = [attached EXCEPT ![p] = TRUE]
              /\ deadline' = [deadline EXCEPT ![p] = TRUE]
           \/ /\ coro' = [coro EXCEPT ![p] = "failed"] /\ ctx' = [ctx EXCEPT ![p] = "freed"]
              /\ UNCHANGED <<useCoroutine, pinned, attached, deadline>>
    BY DEF SendPing, SendFails, Calls
  <1>2. PingType /\ PingFlags /\ WakeInv /\ FreedInv
    BY DEF PingInv
  <1>3. n % TagMod \in Tags
    BY PingAssumption DEF Tags
  <1>4. PingType'
    BY <1>1, <1>2, <1>3 DEF PingType
  <1>5. PingFlags'
    BY <1>1, <1>2 DEF PingFlags
  <1>6. /\ wakes[p] = 0 /\ ~stale[p] /\ \A k \in Loops, h \in Handled : busy[k] # <<p, h>>
    BY <1>1, <1>2 DEF WakeInv, QuietUnlessSent
  <1>7. HandlersAtHome'
    BY <1>1, <1>2, <1>6 DEF WakeInv, HandlersAtHome, PingType, Handled
  <1>8. FlagIsParked' /\ PinnedWhileParked'
    BY <1>1, <1>2 DEF WakeInv, FlagIsParked, PinnedWhileParked, PingType, PingFlags
  <1>9. QuietUnlessSent'
    BY <1>1, <1>2, <1>6 DEF WakeInv, QuietUnlessSent, PingType, PingFlags
  <1>10. WakesLeft'
    BY <1>1, <1>2, <1>6 DEF WakeInv, WakesLeft, PingType, Handled, Loops
  <1>11. FreedInv'
    BY <1>1, <1>2, <1>6
    DEF WakeInv, QuietUnlessSent, FreedInv, MainIsLive, NoStaleContext, PingType, PingFlags, Handled,
        Loops
  <1>. QED  BY <1>4, <1>5, <1>7, <1>8, <1>9, <1>10, <1>11 DEF PingInv, WakeInv

LEMMA EchoReplyInv ==
    ASSUME PingInv, NEW k \in Tags, EchoReply(k)
    PROVE  PingInv'
  <1>1. PingType /\ PingFlags /\ WakeInv /\ FreedInv
    BY DEF PingInv
  <1>2. PingType'
    BY <1>1 DEF EchoReply, PingType
  <1>3. PingFlags'
    BY <1>1 DEF EchoReply, PingFlags
  <1>4. WakeInv' /\ FreedInv'
    BY <1>1
    DEF EchoReply, WakeInv, HandlersAtHome, FlagIsParked, QuietUnlessSent, WakesLeft,
        PinnedWhileParked, FreedInv, MainIsLive, NoStaleContext
  <1>. QED  BY <1>2, <1>3, <1>4 DEF PingInv

\* A reply begins to be handled only while the flag is up, and on a free loop.
LEMMA ReadReplyInv ==
    ASSUME PingInv, NEW p \in Pings, NEW k \in Tags, ReadReply(p, k)
    PROVE  PingInv'
  <1>1. PingType /\ PingFlags /\ WakeInv /\ FreedInv
    BY DEF PingInv
  <1>. DEFINE l == loopOf[p]
  <1>2. /\ attached[p] /\ busy[l] = Idle
        /\ inbox' = [inbox EXCEPT ![p] = inbox[p] \ {k}]
        /\ stale' = [stale EXCEPT ![p] = stale[p] \/ ctx[p] = "freed"]
        /\ UNCHANGED <<loopOf, tag, ctx, coro, wakes, useCoroutine, pinned, attached, deadline, served>>
    BY DEF ReadReply
  <1>3. \/ busy' = busy
        \/ useCoroutine[p] /\ busy' = [busy EXCEPT ![l] = <<p, "reply">>]
    BY DEF ReadReply
  <1>4. l \in Loops /\ coro[p] \notin {"new", "failed"}
    BY <1>1, <1>2 DEF PingType, WakeInv, QuietUnlessSent
  <1>. HIDE DEF l
  <1>5. PingType'
    BY <1>1, <1>2, <1>3, <1>4 DEF PingType, Handled
  <1>6. PingFlags'
    BY <1>1, <1>2 DEF PingFlags
  <1>7. FreedInv'
    <2>1. stale'[p] => loopOf[p] = "worker"
      BY <1>1, <1>2 DEF FreedInv, MainIsLive, NoStaleContext, PingType, PingFlags, Loops
    <2>2. NoStaleContext'
      BY <1>1, <1>2, <2>1 DEF FreedInv, NoStaleContext, PingFlags
    <2>3. MainIsLive'
      BY <1>1, <1>2, <1>3, <1>4, HandlerFacts DEF FreedInv, MainIsLive, PingType, l
    <2>. QED  BY <2>2, <2>3 DEF FreedInv
  <1>8. FlagIsParked' /\ PinnedWhileParked'
    BY <1>1, <1>2 DEF WakeInv, FlagIsParked, PinnedWhileParked
  <1>9. CASE busy' = busy
    <2>1. HandlersAtHome' /\ QuietUnlessSent' /\ WakesLeft'
      BY <1>1, <1>2, <1>4, <1>9
      DEF WakeInv, HandlersAtHome, QuietUnlessSent, WakesLeft, PingFlags
    <2>. QED  BY <1>5, <1>6, <1>7, <1>8, <2>1 DEF PingInv, WakeInv
  <1>10. CASE useCoroutine[p] /\ busy' = [busy EXCEPT ![l] = <<p, "reply">>]
    <2>1. busy'[l] = <<p, "reply">> /\ \A m \in Loops \ {l} : busy'[m] = busy[m]
      BY <1>1, <1>4, <1>10 DEF PingType
    <2>2. wakes[p] = 0
      BY <1>1, <1>10 DEF WakeInv, FlagIsParked, WakesLeft
    <2>3. HandlersAtHome'
      BY <1>1, <1>2, <2>1, HandlerFacts DEF WakeInv, HandlersAtHome, l
    <2>4. QuietUnlessSent'
      BY <1>1, <1>2, <1>4, <2>1, HandlerFacts DEF WakeInv, QuietUnlessSent, PingFlags
    <2>5. WakesLeft'
      BY <1>1, <1>2, <1>4, <2>1, <2>2, HandlerFacts DEF WakeInv, WakesLeft, PingType, Loops, l
    <2>. QED  BY <1>5, <1>6, <1>7, <1>8, <2>3, <2>4, <2>5 DEF PingInv, WakeInv
  <1>. QED  BY <1>3, <1>9, <1>10

\* The timeout finds the main loop free.
LEMMA TimeoutInv ==
    ASSUME PingInv, NEW p \in Pings, Timeout(p)
    PROVE  PingInv'
  <1>1. PingType /\ PingFlags /\ WakeInv /\ FreedInv
    BY DEF PingInv
  <1>2. /\ deadline[p] /\ busy["main"] = Idle
        /\ deadline' = [deadline EXCEPT ![p] = FALSE]
        /\ UNCHANGED <<loopOf, tag, ctx, coro, wakes, useCoroutine, pinned, attached, inbox, served, stale>>
    BY DEF Timeout
  <1>3. PICK h \in {"timeout", "free"} :
            busy' = [busy EXCEPT !["main"] = <<p, h>>] /\ (h = "timeout" => useCoroutine[p])
    BY DEF Timeout
  <1>4. coro[p] \notin {"new", "failed"} /\ (h = "timeout" => wakes[p] = 0)
    BY <1>1, <1>2, <1>3 DEF WakeInv, QuietUnlessSent, FlagIsParked, WakesLeft
  <1>5. busy'["main"] = <<p, h>> /\ busy'["worker"] = busy["worker"]
    BY <1>1, <1>3 DEF PingType, Loops
  <1>6. PingType'
    BY <1>1, <1>2, <1>3 DEF PingType, Handled
  <1>7. PingFlags'
    BY <1>1, <1>2 DEF PingFlags
  <1>8. FreedInv'
    BY <1>1, <1>2, <1>5, HandlerFacts DEF FreedInv, MainIsLive, NoStaleContext
  <1>9. FlagIsParked' /\ PinnedWhileParked'
    BY <1>1, <1>2 DEF WakeInv, FlagIsParked, PinnedWhileParked
  <1>10. HandlersAtHome'
    BY <1>1, <1>2, <1>5, HandlerFacts DEF WakeInv, HandlersAtHome, Loops
  <1>11. QuietUnlessSent'
    BY <1>1, <1>2, <1>4, <1>5, HandlerFacts DEF WakeInv, QuietUnlessSent, PingFlags, Loops
  <1>12. WakesLeft'
    BY <1>1, <1>2, <1>4, <1>5, HandlerFacts DEF WakeInv, WakesLeft, PingType, Loops
  <1>. QED  BY <1>6, <1>7, <1>8, <1>9, <1>10, <1>11, <1>12 DEF PingInv, WakeInv

\* Whoever wakes clears the flag and uses up the wake-up it had left.
LEMMA WakeUpInv ==
    ASSUME PingInv, NEW p \in Pings, WakeByReply(p) \/ WakeByTimeout(p)
    PROVE  PingInv'
  <1>1. PingType /\ PingFlags /\ WakeInv /\ FreedInv
    BY DEF PingInv
  <1>2. /\ useCoroutine' = [useCoroutine EXCEPT ![p] = FALSE]
        /\ wakes' = [wakes EXCEPT ![p] = wakes[p] + 1]
        /\ coro' = [coro EXCEPT ![p] = "woken"]
        /\ pinned' = [pinned EXCEPT ![p] = FALSE]
        /\ UNCHANGED <<loopOf, tag, ctx, attached, inbox, deadline, served>>
    BY DEF WakeByReply, WakeByTimeout, Wake
  <1>3. PICK l \in Loops, after \in {Idle, <<p, "free">>} :
            /\ busy' = [busy EXCEPT ![l] = after]
            /\ \/ /\ busy[l] = <<p, "reply">> /\ l = loopOf[p] /\ after = Idle
                  /\ stale' = [stale EXCEPT ![p] = stale[p] \/ ctx[p] = "freed"]
               \/ /\ busy[l] = <<p, "timeout">> /\ l = "main" /\ after = <<p, "free">>
                  /\ stale' = stale
    BY <1>1 DEF WakeByReply, WakeByTimeout, PingType, Loops
  <1>4. /\ coro[p] \notin {"new", "failed"}
    BY <1>1, <1>3 DEF WakeInv, QuietUnlessSent, PingType, Handled
  <1>5. wakes[p] \in 0..1 /\ (loopOf[p] = "main" => wakes[p] = 0)
    BY <1>1, <1>3 DEF WakeInv, WakesLeft, PingType, Loops
  <1>6. busy'[l] = after /\ \A m \in Loops \ {l} : busy'[m] = busy[m]
    BY <1>1, <1>3 DEF PingType
  <1>7. PingType'
    BY <1>1, <1>2, <1>3, <1>5 DEF PingType, Handled
  <1>8. PingFlags'
    BY <1>1, <1>2, <1>3 DEF PingFlags
  <1>9. FreedInv'
    <2>1. stale'[p] => loopOf[p] = "worker"
      BY <1>1, <1>3 DEF FreedInv, MainIsLive, NoStaleContext, PingType, PingFlags, Loops
    <2>2. NoStaleContext'
      BY <1>1, <1>2, <1>3, <2>1 DEF FreedInv, NoStaleContext, PingFlags
    <2>3. MainIsLive'
      BY <1>1, <1>2, <1>3, <1>6, HandlerFacts DEF FreedInv, MainIsLive, PingType, Loops
    <2>. QED  BY <2>2, <2>3 DEF FreedInv
  <1>10. FlagIsParked' /\ PinnedWhileParked'
    BY <1>1, <1>2 DEF WakeInv, FlagIsParked, PinnedWhileParked, PingType, PingFlags
  <1>11. HandlersAtHome'
    <2>1. ASSUME NEW q \in Pings, NEW m \in Loops, NEW h \in Handled, busy'[m] = <<q, h>>
          PROVE  busy[m] = <<q, h>> \/ (l = "main" /\ m = "main" /\ h = "free")
      BY <1>3, <1>6, <2>1, HandlerFacts
    <2>. QED  BY <1>1, <1>2, <2>1 DEF WakeInv, HandlersAtHome, Handled
  <1>12. QuietUnlessSent'
    BY <1>1, <1>2, <1>3, <1>4, <1>6, HandlerFacts DEF WakeInv, QuietUnlessSent, PingType, PingFlags
  <1>13. WakesLeft'
    <2>1. ASSUME NEW q \in Pings, NEW m \in Loops, NEW h \in {"reply", "timeout"},
                 busy'[m] = <<q, h>>
          PROVE  busy[m] = <<q, h>> /\ m # l
      BY <1>3, <1>6, <2>1, HandlerFacts
    <2>2. wakes'[p] = wakes[p] + 1 /\ coro'[p] = "woken"
          /\ \A q \in Pings \ {p} : wakes'[q] = wakes[q] /\ coro'[q] = coro[q]
      BY <1>1, <1>2 DEF PingType
    <2>3. loopOf[p] \in Loops /\ "main" \in Loops /\ \A q \in Pings : loopOf[q] \in Loops
      BY <1>1 DEF PingType, Loops
    <2>4. ASSUME NEW q \in Pings \ {p}
          PROVE  /\ coro'[q] = "parked" => wakes'[q] = 0
                 /\ loopOf'[q] = "main" =>
                     /\ wakes'[q] <= 1
                     /\ busy'["main"] = <<q, "reply">> \/ busy'["main"] = <<q, "timeout">>
                            => wakes'[q] = 0
                 /\ busy'[loopOf'[q]] = <<q, "reply">> \/ busy'["main"] = <<q, "timeout">>
                        => wakes'[q] <= 1
                 /\ busy'[loopOf'[q]] = <<q, "reply">> /\ busy'["main"] = <<q, "timeout">>
                        => wakes'[q] = 0
      BY <1>1, <1>2, <2>1, <2>2, <2>3 DEF WakeInv, WakesLeft
    <2>5. CASE busy[l] = <<p, "reply">> /\ l = loopOf[p]
      <3>1. busy'[loopOf[p]] # <<p, "reply">>
        BY <2>1, <2>3, <2>5
      <3>2. busy'["main"] = <<p, "timeout">> => wakes[p] = 0 /\ loopOf[p] # "main"
        BY <1>1, <2>1, <2>3, <2>5 DEF WakeInv, WakesLeft
      <3>3. loopOf[p] = "main" => busy'["main"] # <<p, "reply">>
        BY <3>1
      <3>. QED  BY <1>2, <1>5, <2>2, <2>4, <3>1, <3>2, <3>3 DEF WakesLeft
    <2>6. CASE busy[l] = <<p, "timeout">> /\ l = "main"
      <3>1. busy'["main"] # <<p, "timeout">> /\ busy'["main"] # <<p, "reply">>
        BY <2>1, <2>3, <2>6
      <3>2. busy'[loopOf[p]] = <<p, "reply">> => wakes[p] = 0 /\ loopOf[p] # "main"
        BY <1>1, <2>1, <2>3, <2>6 DEF WakeInv, WakesLeft
      <3>. QED  BY <1>2, <1>5, <2>2, <2>4, <3>1, <3>2 DEF WakesLeft
    <2>. QED  BY <1>3, <2>5, <2>6
  <1>. QED  BY <1>7, <1>8, <1>9, <1>10, <1>11, <1>12, <1>13 DEF PingInv, WakeInv

\* The context of a ping of the main loop is freed with its socket removed.
LEMMA FreeContextInv ==
    ASSUME PingInv, NEW p \in Pings, FreeContext(p)
    PROVE  PingInv'
  <1>1. PingType /\ PingFlags /\ WakeInv /\ FreedInv
    BY DEF PingInv
  <1>2. /\ busy["main"] = <<p, "free">>
        /\ attached' = [attached EXCEPT ![p] = attached[p] /\ loopOf[p] # "main"]
        /\ ctx' = [ctx EXCEPT ![p] = "freed"]
        /\ busy' = [busy EXCEPT !["main"] = Idle]
        /\ UNCHANGED <<loopOf, tag, coro, wakes, useCoroutine, pinned, inbox, deadline, served, stale>>
    BY DEF FreeContext
  <1>3. busy'["main"] = Idle /\ busy'["worker"] = busy["worker"]
    BY <1>1, <1>2 DEF PingType, Loops
  <1>4. coro[p] \notin {"new", "failed"}
    BY <1>1, <1>2 DEF WakeInv, QuietUnlessSent, Handled, Loops
  <1>5. PingType'
    BY <1>1, <1>2 DEF PingType
  <1>6. PingFlags'
    BY <1>1, <1>2 DEF PingFlags
  <1>7. FreedInv'
    BY <1>1, <1>2, <1>3, HandlerFacts DEF FreedInv, MainIsLive, NoStaleContext, PingType, PingFlags
  <1>8. FlagIsParked' /\ PinnedWhileParked'
    BY <1>1, <1>2 DEF WakeInv, FlagIsParked, PinnedWhileParked
  <1>9. HandlersAtHome' /\ WakesLeft'
    BY <1>1, <1>2, <1>3, HandlerFacts DEF WakeInv, HandlersAtHome, WakesLeft, PingType, Loops
  <1>10. QuietUnlessSent'
    BY <1>1, <1>2, <1>3, <1>4, HandlerFacts DEF WakeInv, QuietUnlessSent, PingFlags, Loops
  <1>. QED  BY <1>5, <1>6, <1>7, <1>8, <1>9, <1>10 DEF PingInv, WakeInv

LEMMA PingNextInv == PingInv /\ [PingNext]_pingVars => PingInv'
  <1>. SUFFICES ASSUME PingInv, [PingNext]_pingVars PROVE PingInv'
    OBVIOUS
  <1>1. CASE PingNext
    BY <1>1, SendPingInv, EchoReplyInv, ReadReplyInv, TimeoutInv, WakeUpInv, FreeContextInv
    DEF PingNext, PingStep
  <1>2. CASE UNCHANGED pingVars
    <2>1. PingType'
      BY <1>2 DEF pingVars, PingInv, PingType
    <2>2. PingFlags'
      BY <1>2 DEF pingVars, PingInv, PingFlags
    <2>3. WakeInv' /\ FreedInv'
      BY <1>2
      DEF pingVars, PingInv, WakeInv, HandlersAtHome, FlagIsParked, QuietUnlessSent, WakesLeft,
          PinnedWhileParked, FreedInv, MainIsLive, NoStaleContext
    <2>. QED  BY <2>1, <2>2, <2>3 DEF PingInv
  <1>. QED  BY <1>1, <1>2

-------------------------------------------------------------------------------
(* Sums over a finite set.  A property of all subsets is proved by taking a *)
(* smallest subset without it.                                              *)

\* The sums that MapThenSumSet defines by taking one element at a time away.
Pick(B) == CHOOSE b \in B : TRUE

Sums(f, S) ==
    CHOOSE s : s = [B \in SUBSET S |-> IF B = {} THEN 0 ELSE f[Pick(B)] + s[B \ {Pick(B)}]]

SumsUp(g, f, S) ==
    /\ g \in [SUBSET S -> Int]
    /\ \A B \in SUBSET S : g[B] = IF B = {} THEN 0 ELSE f[Pick(B)] + g[B \ {Pick(B)}]

\* A set of subsets of a finite set has a smallest one: what holds of a set
\* whenever it holds of all smaller ones holds of all.
LEMMA SmallestSubset ==
    ASSUME NEW S, IsFiniteSet(S), NEW T \in SUBSET SUBSET S, T # {}
    PROVE  \E B \in T : \A C \in T : C \subseteq B => C = B
  <1>1. IsWellFoundedOn(StrictSubsetOrdering(S), FiniteSubsetsOf(S))
    BY FS_StrictSubsetOrderingWellFounded
  <1>2. T \subseteq FiniteSubsetsOf(S)
    BY FS_Subset DEF FiniteSubsetsOf
  <1>3. PICK B \in T : \A C \in T : ~(<<C, B>> \in StrictSubsetOrdering(S))
    BY <1>1, <1>2, WFMin
  <1>. QED  BY <1>3 DEF StrictSubsetOrdering

LEMMA PickFacts ==
    ASSUME NEW B, B # {}
    PROVE  Pick(B) \in B /\ B \ {Pick(B)} \subseteq B /\ B \ {Pick(B)} # B
  <1>1. Pick(B) \in B
    BY DEF Pick
  <1>. QED  BY <1>1

LEMMA SumsUnique ==
    ASSUME NEW f, NEW A, NEW D, IsFiniteSet(A), NEW g, NEW h, SumsUp(g, f, A), SumsUp(h, f, D)
    PROVE  \A B \in SUBSET A : B \in SUBSET D => g[B] = h[B]
  <1>. DEFINE T == {B \in SUBSET A : B \in SUBSET D /\ g[B] # h[B]}
  <1>. SUFFICES ASSUME T # {} PROVE FALSE
    OBVIOUS
  <1>1. PICK B \in T : \A C \in T : C \subseteq B => C = B
    <2>1. T \in SUBSET SUBSET A
      OBVIOUS
    <2>. HIDE DEF T
    <2>. QED  BY <2>1, SmallestSubset
  <1>2. B # {}
    BY DEF SumsUp
  <1>3. B \ {Pick(B)} \notin T /\ B \ {Pick(B)} \in SUBSET A /\ B \ {Pick(B)} \in SUBSET D
    BY <1>1, <1>2, PickFacts
  <1>4. g[B] = f[Pick(B)] + g[B \ {Pick(B)}] /\ h[B] = f[Pick(B)] + h[B \ {Pick(B)}]
    BY <1>2 DEF SumsUp
  <1>. QED  BY <1>3, <1>4

LEMMA SumsExist ==
    ASSUME NEW S, IsFiniteSet(S), NEW f \in [S -> Int]
    PROVE  \E g : SumsUp(g, f, S)
  <1>. DEFINE T == {A \in SUBSET S : ~ \E g : SumsUp(g, f, A)}
  <1>. SUFFICES ASSUME T # {} PROVE FALSE
    OBVIOUS
  <1>1. PICK A \in T : \A C \in T : C \subseteq A => C = A
    <2>1. T \in SUBSET SUBSET S
      OBVIOUS
    <2>. HIDE DEF T
    <2>. QED  BY <2>1, SmallestSubset
  <1>. DEFINE G(C) == CHOOSE g : SumsUp(g, f, C)
  <1>2. ASSUME NEW C \in SUBSET A, C # A PROVE SumsUp(G(C), f, C) /\ IsFiniteSet(C)
    <2>1. C \in SUBSET S /\ C \notin T
      BY <1>1, <1>2
    <2>2. \E g : SumsUp(g, f, C)
      BY <2>1
    <2>. QED  BY <2>1, <2>2, FS_Subset
  <1>. HIDE DEF G
  <1>. DEFINE h == [B \in SUBSET A |->
                        IF B # A THEN G(B)[B]
                        ELSE IF B = {} THEN 0 ELSE f[Pick(B)] + G(B \ {Pick(B)})[B \ {Pick(B)}]]
  <1>3. ASSUME NEW B \in SUBSET A, B # {}
        PROVE  /\ B \ {Pick(B)} \in SUBSET A /\ B \ {Pick(B)} # A
               /\ f[Pick(B)] \in Int
               /\ h[B] = f[Pick(B)] + G(B \ {Pick(B)})[B \ {Pick(B)}]
    <2>1. Pick(B) \in B /\ B \ {Pick(B)} \in SUBSET A /\ B \ {Pick(B)} # A
      BY <1>3, PickFacts
    <2>2. f[Pick(B)] \in Int
      BY <2>1, <1>1
    <2>3. CASE B = A
      BY <1>3, <2>1, <2>2, <2>3
    <2>4. CASE B # A
      <3>1. SumsUp(G(B), f, B) /\ SumsUp(G(B \ {Pick(B)}), f, B \ {Pick(B)}) /\ IsFiniteSet(B)
        BY <1>2, <2>1, <2>4
      <3>2. G(B)[B \ {Pick(B)}] = G(B \ {Pick(B)})[B \ {Pick(B)}]
        BY <3>1, SumsUnique
      <3>3. G(B)[B] = f[Pick(B)] + G(B)[B \ {Pick(B)}]
        BY <1>3, <3>1 DEF SumsUp
      <3>. QED  BY <2>1, <2>2, <2>4, <3>2, <3>3
    <2>. QED  BY <2>3, <2>4
  <1>4. ASSUME NEW B \in SUBSET A, B # A PROVE h[B] = G(B)[B] /\ G(B)[B] \in Int
    BY <1>2, <1>4 DEF SumsUp
  <1>5. h[{}] = 0
    <2>1. CASE A = {}
      BY <2>1
    <2>2. CASE A # {}
      BY <1>2, <1>4, <2>2 DEF SumsUp
    <2>. QED  BY <2>1, <2>2
  <1>6. h = [B \in SUBSET A |-> h[B]]
    OBVIOUS
  <1>. HIDE DEF h
  <1>7. ASSUME NEW B \in SUBSET A, B # {} PROVE h[B] \in Int /\ h[B] = f[Pick(B)] + h[B \ {Pick(B)}]
    <2>. DEFINE D == B \ {Pick(B)}
    <2>1. D \in SUBSET A /\ D # A /\ f[Pick(B)] \in Int /\ h[B] = f[Pick(B)] + G(D)[D]
      BY <1>3, <1>7
    <2>. HIDE DEF D
    <2>2. h[D] = G(D)[D] /\ G(D)[D] \in Int
      BY <1>4, <2>1
    <2>3. h[B] \in Int /\ h[B] = f[Pick(B)] + h[D]
      BY <2>1, <2>2
    <2>. QED  BY <2>3 DEF D
  <1>8. SumsUp(h, f, A)
    <2>1. ASSUME NEW B \in SUBSET A PROVE h[B] \in Int
      <3>1. CASE B = {}
        BY <1>5, <3>1
      <3>2. CASE B # {}
        BY <1>7, <3>2
      <3>. QED  BY <3>1, <3>2
    <2>. QED  BY <1>5, <1>6, <1>7, <2>1 DEF SumsUp
  <1>. QED  BY <1>1, <1>8

LEMMA SumsFacts ==
    ASSUME NEW S, IsFiniteSet(S), NEW f \in [S -> Int]
    PROVE  SumsUp(Sums(f, S), f, S)
  <1>1. PICK g : SumsUp(g, f, S)
    BY SumsExist
  <1>2. g = [B \in SUBSET S |-> IF B = {} THEN 0 ELSE f[Pick(B)] + g[B \ {Pick(B)}]]
    BY <1>1 DEF SumsUp
  <1>3. Sums(f, S) =
            [B \in SUBSET S |-> IF B = {} THEN 0 ELSE f[Pick(B)] + Sums(f, S)[B \ {Pick(B)}]]
    BY <1>2 DEF Sums
  <1>4. \A B \in SUBSET S : g[B] = Sums(f, S)[B]
    <2>. DEFINE s == Sums(f, S)
    <2>. DEFINE T == {B \in SUBSET S : g[B] # s[B]}
    <2>1. \A B \in SUBSET S : s[B] = IF B = {} THEN 0 ELSE f[Pick(B)] + s[B \ {Pick(B)}]
      BY <1>3
    <2>. HIDE DEF s
    <2>. SUFFICES ASSUME T # {} PROVE FALSE
      BY DEF s
    <2>2. PICK B \in T : \A C \in T : C \subseteq B => C = B
      <3>1. T \in SUBSET SUBSET S
        OBVIOUS
      <3>. HIDE DEF T
      <3>. QED  BY <3>1, SmallestSubset
    <2>3. B # {}
      BY <1>1, <2>1 DEF SumsUp
    <2>4. B \ {Pick(B)} \notin T /\ B \ {Pick(B)} \in SUBSET S
      BY <2>2, <2>3, PickFacts
    <2>. QED  BY <1>1, <2>1, <2>3, <2>4 DEF SumsUp
  <1>5. Sums(f, S) = g
    BY <1>1, <1>3, <1>4 DEF SumsUp
  <1>. QED  BY <1>1, <1>5

LEMMA SumsStep ==
    ASSUME NEW S, IsFiniteSet(S), NEW f \in [S -> Int], NEW B \in SUBSET S
    PROVE  /\ Sums(f, S)[B] \in Int
           /\ B = {} => Sums(f, S)[B] = 0
           /\ B # {} => /\ Pick(B) \in B /\ B \ {Pick(B)} \in SUBSET S /\ B \ {Pick(B)} # B
                        /\ Sums(f, S)[B] = f[Pick(B)] + Sums(f, S)[B \ {Pick(B)}]
  <1>1. SumsUp(Sums(f, S), f, S)
    BY SumsFacts
  <1>. DEFINE g == Sums(f, S)
  <1>2. g \in [SUBSET S -> Int] /\ g[B] = IF B = {} THEN 0 ELSE f[Pick(B)] + g[B \ {Pick(B)}]
    BY <1>1 DEF SumsUp
  <1>. HIDE DEF g
  <1>3. g[B] \in Int
    BY <1>2
  <1>4. B # {} => Pick(B) \in B /\ B \ {Pick(B)} \in SUBSET S /\ B \ {Pick(B)} # B
    BY PickFacts
  <1>5. /\ g[B] \in Int
        /\ B = {} => g[B] = 0
        /\ B # {} => g[B] = f[Pick(B)] + g[B \ {Pick(B)}]
    BY <1>2, <1>3
  <1>. QED  BY <1>4, <1>5 DEF g

\* Another size of one element changes the sum by the difference.
LEMMA SumsUpdate ==
    ASSUME NEW S, IsFiniteSet(S), NEW f \in [S -> Int], NEW x \in S, NEW v \in Int,
           NEW g \in [S -> Int], g[x] = v, \A y \in S \ {x} : g[y] = f[y], NEW B \in SUBSET S
    PROVE  Sums(g, S)[B] = IF x \in B THEN Sums(f, S)[B] - f[x] + v ELSE Sums(f, S)[B]
  <1>. DEFINE Right(D) == IF x \in D THEN Sums(f, S)[D] - f[x] + v ELSE Sums(f, S)[D]
              T == {D \in SUBSET S : Sums(g, S)[D] # Right(D)}
  <1>. SUFFICES ASSUME T # {} PROVE FALSE
    OBVIOUS
  <1>2. PICK D \in T : \A C \in T : C \subseteq D => C = D
    <2>1. T \in SUBSET SUBSET S
      OBVIOUS
    <2>. HIDE DEF T
    <2>. QED  BY <2>1, SmallestSubset
  <1>3. D \in SUBSET S /\ Sums(g, S)[D] # Right(D)
    BY <1>2
  <1>4. D # {}
    BY <1>3, SumsStep
  <1>. DEFINE p == Pick(D)
              E == D \ {p}
  <1>5. /\ p \in D /\ E \in SUBSET S /\ E # D /\ E \subseteq D
        /\ Sums(g, S)[D] = g[p] + Sums(g, S)[E]
        /\ Sums(f, S)[D] = f[p] + Sums(f, S)[E]
        /\ Sums(f, S)[E] \in Int /\ Sums(g, S)[E] \in Int
    <2>1. p \in D /\ E \in SUBSET S /\ E # D /\ E \subseteq D
      BY <1>3, <1>4, PickFacts
    <2>2. D \in SUBSET S /\ D # {}
      BY <1>3, <1>4
    <2>3. Sums(f, S)[D] = f[p] + Sums(f, S)[E] /\ Sums(g, S)[D] = g[p] + Sums(g, S)[E]
      BY <2>2, SumsStep
    <2>4. Sums(f, S)[E] \in Int
      BY <2>1, SumsStep
    <2>5. Sums(g, S)[E] \in Int
      BY <2>1, SumsStep
    <2>. QED  BY <2>1, <2>3, <2>4, <2>5
  <1>6. Sums(g, S)[E] = Right(E)
    BY <1>2, <1>5
  <1>7. (x \in E <=> x \in D /\ x # p) /\ p \in S /\ f[p] \in Int /\ f[x] \in Int
    BY <1>3, <1>5
  <1>. HIDE DEF p, E
  <1>. QED  BY <1>3, <1>5, <1>6, <1>7

\* ... and so it does for the sum over the whole set.
LEMMA WholeUpdate ==
    ASSUME NEW S, IsFiniteSet(S), NEW f \in [S -> Int], NEW x \in S, NEW v \in Int,
           NEW g \in [S -> Int], g[x] = v, \A y \in S \ {x} : g[y] = f[y]
    PROVE  Sums(g, S)[S] = Sums(f, S)[S] - f[x] + v
  <1>1. S \in SUBSET S
    OBVIOUS
  <1>. QED  BY <1>1, SumsUpdate

LEMMA NextMultiple ==
    ASSUME NEW n \in Nat, NEW k \in Nat
    PROVE  (n + 1) * k = n * k + k /\ n * k \in Nat
  OBVIOUS

\* A sum of numbers up to k is at most as many times k.
LEMMA SumsBound ==
    ASSUME NEW S, IsFiniteSet(S), NEW k \in Nat, NEW f \in [S -> 0..k], NEW B \in SUBSET S
    PROVE  Sums(f, S)[B] \in 0..Cardinality(B) * k
  <1>. DEFINE T == {D \in SUBSET S : Sums(f, S)[D] \notin 0..Cardinality(D) * k}
  <1>1. f \in [S -> Int]
    OBVIOUS
  <1>. SUFFICES ASSUME T # {} PROVE FALSE
    OBVIOUS
  <1>2. PICK D \in T : \A C \in T : C \subseteq D => C = D
    <2>1. T \in SUBSET SUBSET S
      OBVIOUS
    <2>. HIDE DEF T
    <2>. QED  BY <2>1, SmallestSubset
  <1>3. D \in SUBSET S /\ IsFiniteSet(D)
    BY <1>2, FS_Subset
  <1>4. D # {}
    <2>1. Cardinality({}) * k = 0
      BY FS_EmptySet
    <2>2. Sums(f, S)[{}] = 0
      BY <1>1, SumsStep
    <2>3. {} \notin T
      BY <2>1, <2>2
    <2>. QED  BY <1>2, <2>3
  <1>. DEFINE p == Pick(D)
              E == D \ {p}
  <1>5. /\ p \in D /\ E \in SUBSET S /\ E # D /\ E \subseteq D
        /\ Sums(f, S)[D] = f[p] + Sums(f, S)[E]
    BY <1>1, <1>3, <1>4, SumsStep
  <1>6. Sums(f, S)[E] \in 0..Cardinality(E) * k /\ f[p] \in 0..k
    BY <1>2, <1>3, <1>5
  <1>7. Cardinality(E) \in Nat /\ Cardinality(D) = Cardinality(E) + 1
    <2>1. IsFiniteSet(E) /\ Cardinality(E) = Cardinality(D) - 1
      BY <1>3, <1>5, FS_RemoveElement
    <2>. QED  BY <1>3, <2>1, FS_CardinalityType
  <1>8. Cardinality(D) * k = Cardinality(E) * k + k /\ Cardinality(E) * k \in Nat
    BY <1>7, NextMultiple
  <1>9. Sums(f, S)[D] \in 0..Cardinality(D) * k
    BY <1>5, <1>6, <1>8
  <1>. QED  BY <1>2, <1>9

LEMMA DivMod ==
    ASSUME NEW W \in Nat \ {0}, NEW x \in Int
    PROVE  x \div W \in Int /\ x % W \in 0..W - 1 /\ x = W * (x \div W) + (x % W)
  OBVIOUS

LEMMA ModUnique ==
    ASSUME NEW W \in Nat \ {0}, NEW k \in Int, NEW s \in 0..W - 1
    PROVE  (W * k + s) % W = s
  OBVIOUS

LEMMA SumOfMultiples ==
    ASSUME NEW W \in Int, NEW m \in Int, NEW n \in Int
    PROVE  W * m + W * n = W * (m + n) /\ W * m \in Int /\ W * n \in Int
  OBVIOUS

\* It does not matter whether a number is reduced before another is added.
LEMMA ModShift ==
    ASSUME NEW W \in Nat \ {0}, NEW x \in Int, NEW y \in Int
    PROVE  ((x % W) + y) % W = (x + y) % W
  <1>. DEFINE r == (x % W) + y
              q == x \div W
              d == r \div W
              s == r % W
  <1>1. x = W * q + (x % W) /\ q \in Int /\ x % W \in 0..W - 1
    BY DivMod
  <1>2. r = W * d + s /\ d \in Int /\ s \in 0..W - 1 /\ r \in Int
    <2>1. r \in Int
      BY <1>1
    <2>. HIDE DEF r
    <2>. QED  BY <2>1, DivMod
  <1>3. W * q + W * d = W * (q + d) /\ W * q \in Int /\ W * d \in Int /\ q + d \in Int
    BY <1>1, <1>2, SumOfMultiples
  <1>. HIDE DEF q, d, s
  <1>4. x + y = W * (q + d) + s
    BY <1>1, <1>2, <1>3
  <1>. HIDE DEF r
  <1>5. (W * (q + d) + s) % W = s
    BY <1>2, <1>3, ModUnique
  <1>. QED  BY <1>4, <1>5 DEF r, s

-------------------------------------------------------------------------------
(* LuaAlloc: the total is the sum of the blocks. *)

LEMMA NatProduct == ASSUME NEW m \in Nat, NEW n \in Nat PROVE m * n \in Nat
  OBVIOUS

LEMMA WidthFacts ==
    /\ MaxSize \in Nat /\ Slack \in Nat /\ MaxLost \in Nat
    /\ Width \in Nat \ {0} /\ Width > Cardinality(Blocks) * (MaxSize + Slack)
  <1>1. Cardinality(Blocks) \in Nat /\ MaxSize + Slack \in Nat
    BY AllocAssumption, FS_CardinalityType
  <1>2. Cardinality(Blocks) * (MaxSize + Slack) \in Nat
    BY <1>1, NatProduct
  <1>. QED  BY <1>2, AllocAssumption

LEMMA LiveIsSum ==
    /\ Live = Sums(size, Blocks)[Blocks]
    /\ Live' = Sums(size', Blocks)[Blocks]
  BY DEF Live, Sums, MapThenSumSet, MapThenFoldSet, Pick

\* Without the block of the request under way, and without what failed
\* requests have taken away, the total is the sum of the sizes.
IdleTotal == request = NoRequest => total = (Live - lost) % Width

BusyTotal == request # NoRequest => total = (Live - size[request[1]] - lost) % Width

AllocInv == AllocTypeOK /\ IdleTotal /\ BusyTotal

\* What a change of one block does to the sum of the sizes.
LEMMA LiveUpdate ==
    ASSUME NEW b \in Blocks, NEW s \in Int, AllocTypeOK, size' \in [Blocks -> Int],
           size'[b] = s, \A c \in Blocks \ {b} : size'[c] = size[c]
    PROVE  Live \in Int /\ Live' = Live - size[b] + s
  <1>1. size \in [Blocks -> Int] /\ IsFiniteSet(Blocks)
    BY AllocAssumption, WidthFacts DEF AllocTypeOK, Sizes
  <1>2. Sums(size, Blocks)[Blocks] \in Int
    BY <1>1, SumsStep
  <1>3. Sums(size', Blocks)[Blocks] = Sums(size, Blocks)[Blocks] - size[b] + s
    BY <1>1, WholeUpdate
  <1>. QED  BY <1>2, <1>3, LiveIsSum

\* No sum of sizes reaches the width of a size_t, with or without a block.
LEMMA LiveBounds ==
    ASSUME AllocTypeOK
    PROVE  /\ Live \in 0..Width - 1
           /\ \A b \in Blocks : size[b] \in Nat /\ Live - size[b] \in 0..Width - 1
  <1>. DEFINE k == MaxSize + Slack
  <1>1. /\ k \in Nat /\ IsFiniteSet(Blocks) /\ size \in [Blocks -> 0..k]
        /\ size \in [Blocks -> Int] /\ Width \in Nat /\ Width > Cardinality(Blocks) * k
    BY AllocAssumption, WidthFacts DEF AllocTypeOK, Sizes
  <1>. HIDE DEF k
  <1>2. Cardinality(Blocks) * k \in Nat
    BY <1>1, FS_CardinalityType, NatProduct
  <1>3. \A f \in [Blocks -> 0..k] : Sums(f, Blocks)[Blocks] \in 0..Width - 1
    <2>1. \A f \in [Blocks -> 0..k] : Sums(f, Blocks)[Blocks] \in 0..Cardinality(Blocks) * k
      BY <1>1, SumsBound
    <2>. QED  BY <1>1, <1>2, <2>1
  <1>4. ASSUME NEW b \in Blocks PROVE size[b] \in Nat /\ Live - size[b] \in 0..Width - 1
    <2>. DEFINE g == [size EXCEPT ![b] = 0]
    <2>1. /\ g \in [Blocks -> 0..k] /\ g \in [Blocks -> Int] /\ size[b] \in Nat
          /\ g[b] = 0 /\ \A c \in Blocks \ {b} : g[c] = size[c]
      BY <1>1
    <2>. HIDE DEF g
    <2>2. Sums(g, Blocks)[Blocks] = Sums(size, Blocks)[Blocks] - size[b] + 0
      BY <1>1, <2>1, WholeUpdate
    <2>3. Sums(size, Blocks)[Blocks] \in Int
      BY <1>1, SumsStep
    <2>4. Sums(g, Blocks)[Blocks] \in 0..Width - 1
      BY <1>3, <2>1
    <2>. QED  BY <2>1, <2>2, <2>3, <2>4, LiveIsSum
  <1>5. Live \in 0..Width - 1
    BY <1>1, <1>3, LiveIsSum
  <1>. QED  BY <1>4, <1>5

LEMMA AllocInitInv == AllocInit => AllocInv
  <1>. SUFFICES ASSUME AllocInit PROVE AllocInv
    OBVIOUS
  <1>1. AllocTypeOK
    BY WidthFacts DEF AllocInit, AllocTypeOK, Sizes
  <1>2. Live = 0
    <2>1. 0 \in Nat /\ size \in [Blocks -> 0..0] /\ IsFiniteSet(Blocks)
      BY AllocAssumption DEF AllocInit
    <2>2. Sums(size, Blocks)[Blocks] \in 0..Cardinality(Blocks) * 0
      BY <2>1, SumsBound
    <2>3. Cardinality(Blocks) * 0 = 0
      BY <2>1, FS_CardinalityType
    <2>. QED  BY <2>2, <2>3, LiveIsSum
  <1>3. IdleTotal /\ BusyTotal
    BY <1>2, WidthFacts DEF AllocInit, IdleTotal, BusyTotal
  <1>. QED  BY <1>1, <1>3 DEF AllocInv

LEMMA SubtractInv ==
    ASSUME AllocInv, NEW b \in Blocks, NEW n \in 0..MaxSize, Subtract(b, n)
    PROVE  AllocInv'
  <1>1. Live \in Int /\ size[b] \in Int /\ total \in Int /\ lost \in Int /\ Live' = Live
    BY LiveBounds, LiveIsSum, WidthFacts DEF AllocInv, AllocTypeOK, Subtract
  <1>2. request' = <<b, n>> /\ request' # NoRequest /\ request'[1] = b
    BY DEF Subtract, NoRequest
  <1>3. total' = (total - size[b]) % Width /\ total = (Live - lost) % Width
    BY DEF AllocInv, IdleTotal, Subtract
  <1>4. total' = (Live - size[b] - lost) % Width
    <2>1. (((Live - lost) % Width) + (0 - size[b])) % Width = ((Live - lost) + (0 - size[b])) % Width
      <3>1. Live - lost \in Int /\ 0 - size[b] \in Int /\ Width \in Nat \ {0}
        BY <1>1, WidthFacts
      <3>. QED  BY <3>1, ModShift
    <2>2. (total - size[b]) = total + (0 - size[b])
      BY <1>1
    <2>3. (Live - lost) + (0 - size[b]) = Live - size[b] - lost
      BY <1>1
    <2>. QED  BY <1>3, <2>1, <2>2, <2>3
  <1>5. IdleTotal' /\ BusyTotal'
    BY <1>1, <1>2, <1>4 DEF IdleTotal, BusyTotal, Subtract
  <1>6. total' \in 0..Width - 1
    BY <1>1, <1>3, WidthFacts
  <1>7. AllocTypeOK'
    BY <1>2, <1>6 DEF AllocInv, AllocTypeOK, Subtract, Sizes
  <1>. QED  BY <1>5, <1>7 DEF AllocInv

\* What the second half of a request finds.
LEMMA RequestFacts ==
    ASSUME AllocInv, request # NoRequest
    PROVE  /\ request[1] \in Blocks /\ request[2] \in 0..MaxSize
           /\ size[request[1]] \in Sizes /\ size[request[1]] \in Int
           /\ total = (Live - size[request[1]] - lost) % Width
           /\ Live \in Int /\ lost \in Nat /\ total \in 0..Width - 1
  <1>1. request[1] \in Blocks /\ request[2] \in 0..MaxSize
    BY DEF AllocInv, AllocTypeOK
  <1>2. Live \in Int
    BY LiveBounds, WidthFacts DEF AllocInv
  <1>. QED  BY <1>1, <1>2, WidthFacts DEF AllocInv, AllocTypeOK, BusyTotal, Sizes

LEMMA FreeBlockInv == AllocInv /\ FreeBlock => AllocInv'
  <1>. SUFFICES ASSUME AllocInv, FreeBlock PROVE AllocInv'
    OBVIOUS
  <1>1. request # NoRequest
    BY DEF FreeBlock
  <1>. DEFINE b == request[1]
  <1>2. b \in Blocks /\ size' = [size EXCEPT ![b] = 0] /\ 0 \in Int /\ AllocTypeOK
    BY <1>1, RequestFacts DEF FreeBlock, AllocInv
  <1>3. Live' = Live - size[b] + 0
    <2>1. /\ size' \in [Blocks -> Int] /\ size'[b] = 0
          /\ \A c \in Blocks \ {b} : size'[c] = size[c]
      BY <1>2, WidthFacts DEF AllocTypeOK, Sizes
    <2>. QED  BY <1>2, <2>1, LiveUpdate
  <1>4. total' = (Live' - lost') % Width
    BY <1>1, <1>3, RequestFacts DEF FreeBlock
  <1>5. IdleTotal' /\ BusyTotal'
    BY <1>4 DEF IdleTotal, BusyTotal, FreeBlock
  <1>6. AllocTypeOK'
    BY <1>2, WidthFacts DEF AllocTypeOK, FreeBlock, Sizes
  <1>. QED  BY <1>5, <1>6 DEF AllocInv

LEMMA ReallocInv == AllocInv /\ Realloc => AllocInv'
  <1>. SUFFICES ASSUME AllocInv, Realloc PROVE AllocInv'
    OBVIOUS
  <1>1. PICK s \in Sizes : Resized(s) /\ total' = (total + s) % Width /\ UNCHANGED lost
    BY DEF Realloc
  <1>2. request # NoRequest /\ s \in Int
    BY <1>1, WidthFacts DEF Resized, Sizes
  <1>. DEFINE b == request[1]
  <1>3. b \in Blocks /\ size' = [size EXCEPT ![b] = s] /\ AllocTypeOK
    BY <1>1, <1>2, RequestFacts DEF Resized, AllocInv
  <1>4. Live' = Live - size[b] + s
    <2>1. /\ size' \in [Blocks -> Int] /\ size'[b] = s
          /\ \A c \in Blocks \ {b} : size'[c] = size[c]
      BY <1>2, <1>3, WidthFacts DEF AllocTypeOK, Sizes
    <2>. QED  BY <1>2, <1>3, <2>1, LiveUpdate
  <1>5. total' = (Live' - lost') % Width
    <2>1. /\ Live \in Int /\ size[b] \in Int /\ lost \in Int
          /\ total = (Live - size[b] - lost) % Width
      BY <1>2, RequestFacts
    <2>2. (((Live - size[b] - lost) % Width) + s) % Width = ((Live - size[b] - lost) + s) % Width
      <3>1. Live - size[b] - lost \in Int /\ Width \in Nat \ {0}
        BY <2>1, WidthFacts
      <3>. QED  BY <1>2, <3>1, ModShift
    <2>3. (Live - size[b] - lost) + s = Live' - lost' /\ total' = (total + s) % Width
      BY <1>1, <1>2, <1>4, <2>1
    <2>. QED  BY <2>1, <2>2, <2>3
  <1>6. IdleTotal' /\ BusyTotal'
    BY <1>1, <1>5 DEF IdleTotal, BusyTotal, Resized
  <1>7. total' \in 0..Width - 1
    BY <1>1, <1>2, RequestFacts, WidthFacts
  <1>8. AllocTypeOK'
    BY <1>1, <1>3, <1>7 DEF AllocTypeOK, Resized
  <1>. QED  BY <1>6, <1>8 DEF AllocInv

LEMMA ReallocFailsInv == AllocInv /\ ReallocFails => AllocInv'
  <1>. SUFFICES ASSUME AllocInv, ReallocFails PROVE AllocInv'
    OBVIOUS
  <1>1. request # NoRequest
    BY DEF ReallocFails
  <1>. DEFINE b == request[1]
  <1>2. /\ Live \in Int /\ size[b] \in Int /\ size[b] \in Sizes /\ lost \in Nat
        /\ total = (Live - size[b] - lost) % Width
    BY <1>1, RequestFacts
  <1>3. Live' = Live /\ lost' = lost + size[b] /\ lost' <= MaxLost
    BY LiveIsSum DEF ReallocFails
  <1>4. total' = (Live' - lost') % Width
    <2>1. Live - size[b] - lost = Live' - lost'
      BY <1>2, <1>3
    <2>. QED  BY <1>2, <2>1 DEF ReallocFails
  <1>5. IdleTotal' /\ BusyTotal'
    BY <1>4 DEF IdleTotal, BusyTotal, ReallocFails
  <1>6. lost' \in 0..MaxLost
    BY <1>2, <1>3, WidthFacts DEF Sizes
  <1>7. AllocTypeOK'
    BY <1>6 DEF AllocInv, AllocTypeOK, ReallocFails
  <1>. QED  BY <1>5, <1>7 DEF AllocInv

LEMMA AllocNextInv == AllocInv /\ [AllocNext]_allocVars => AllocInv'
  <1>. SUFFICES ASSUME AllocInv, [AllocNext]_allocVars PROVE AllocInv'
    OBVIOUS
  <1>1. CASE AllocNext
    BY <1>1, SubtractInv, FreeBlockInv, ReallocInv, ReallocFailsInv DEF AllocNext
  <1>2. CASE UNCHANGED allocVars
    <2>1. Live' = Live
      BY <1>2, LiveIsSum DEF allocVars
    <2>2. AllocTypeOK'
      BY <1>2 DEF allocVars, AllocInv, AllocTypeOK
    <2>3. IdleTotal' /\ BusyTotal'
      BY <1>2, <2>1 DEF allocVars, AllocInv, IdleTotal, BusyTotal
    <2>. QED  BY <2>2, <2>3 DEF AllocInv
  <1>. QED  BY <1>1, <1>2

LEMMA TotalOfInv == AllocInv => TotalIsTrue
  <1>. SUFFICES ASSUME AllocInv PROVE TotalIsTrue
    OBVIOUS
  <1>1. TotalIsLiveLessLost
    BY DEF AllocInv, IdleTotal, TotalIsLiveLessLost
  <1>2. ASSUME lost = 0 PROVE total <= Live
    <2>1. Live \in 0..Width - 1 /\ \A n \in 0..Width - 1 : n % Width = n
      BY LiveBounds, WidthFacts DEF AllocInv
    <2>2. CASE request = NoRequest
      <3>1. Live - lost = Live
        BY <1>2, <2>1, WidthFacts
      <3>2. total = Live
        BY <2>1, <2>2, <3>1 DEF AllocInv, IdleTotal
      <3>. QED  BY <2>1, <3>2, WidthFacts
    <2>3. CASE request # NoRequest
      <3>. DEFINE b == request[1]
      <3>1. b \in Blocks /\ total = (Live - size[b] - lost) % Width
        BY <2>3, RequestFacts
      <3>2. size[b] \in Nat /\ Live - size[b] \in 0..Width - 1
        BY <3>1, LiveBounds DEF AllocInv
      <3>3. Live - size[b] - lost = Live - size[b]
        BY <1>2, <2>1, <3>2, WidthFacts
      <3>4. total = Live - size[b]
        BY <2>1, <3>1, <3>2, <3>3
      <3>. QED  BY <2>1, <3>2, <3>4, WidthFacts
    <2>. QED  BY <2>2, <2>3
  <1>. QED  BY <1>1, <1>2 DEF TotalIsTrue, NeverReadsMore

-------------------------------------------------------------------------------
(* NativeHost: the parts together.  A step is one of a part, or a call of a *)
(* function, which touches no part.                                         *)

NativeInv == DirInv /\ HostInv /\ AllocInv /\ PingInv /\ ConnTypeOK /\ TabInv

LEMMA InitInv == Init => NativeInv
  BY DirInitInv, HostInitInv, AllocInitInv, PingInitInv, ConnInitInv, TabInitInv
  DEF Init, NativeInv

LEMMA CallsLeaveParts ==
    ASSUME \/ CallMatch \/ CallBest \/ CallTrim \/ CallReplace \/ CallEncode \/ CallPacket
           \/ Return
    PROVE  UNCHANGED <<dirVars, hostVars, allocVars, pingVars, connVars, tabVars>>
  BY DEF CallMatch, CallBest, CallTrim, CallReplace, CallEncode, CallPacket, Call, Return

\* Every step is one of each part, or leaves it as it is.
LEMMA PartSteps ==
    ASSUME [Next]_vars
    PROVE  /\ [DirNext]_dirVars /\ [HostNext]_hostVars /\ [AllocNext]_allocVars
           /\ [PingNext]_pingVars /\ [ConnNext]_connVars /\ [TabNext]_tabVars
  <1>1. CASE part = "functions" /\ call = NoCall
             /\ (CallMatch \/ CallBest \/ CallTrim \/ CallReplace \/ CallEncode \/ CallPacket)
    BY <1>1, CallsLeaveParts
  <1>2. CASE Return
    BY <1>2, CallsLeaveParts
  <1>3. CASE UNCHANGED vars
    BY <1>3 DEF vars
  <1>. QED  BY <1>1, <1>2, <1>3 DEF Next

LEMMA NextInv == NativeInv /\ [Next]_vars => NativeInv'
  BY PartSteps, DirNextInv, HostNextInv, AllocNextInv, PingNextInv, ConnNextInv, TabNextInv
  DEF NativeInv

LEMMA Invariance == Spec => []NativeInv
  BY InitInv, NextInv, PTL DEF Spec

\* RuntimeDir.tla to BrowserTabs.tla: all parts keep their types, with any
\* builds, threads, blocks, pings, requests and tabs.
THEOREM TypeCorrect == Spec => []TypeOK
  <1>1. NativeInv => TypeOK
    BY PingParts DEF NativeInv, TypeOK, DirInv, HostInv, AllocInv, PingInv, TabInv
  <1>. QED  BY <1>1, Invariance, PTL

\* main.swift 327-349, LuaBridge.m 227-254: whatever was left at the runtime
\* path before, a build that has its modules finds a tree, and runs its own, the
\* deployed one or the legacy one, never that of another build.
THEOREM RuntimeIsFoundCorrect == Spec => []RuntimeIsFound
  <1>1. NativeInv => RuntimeIsFound
    BY DEF NativeInv, DirInv
  <1>. QED  BY <1>1, Invariance, PTL

\* luauser.c 219-272: with any threads, the count of an open state is the number
\* of those that use it; and as long as no resume has begun outside of the
\* bridge's reference, the state is closed when no other uses it.
THEOREM StateKeptWhileUsedCorrect == Spec => []StateKeptWhileUsed
  <1>1. NativeInv => StateKeptWhileUsed
    BY DEF NativeInv, HostInv, RefInv, StateKeptWhileUsed
  <1>. QED  BY <1>1, Invariance, PTL

\* caplua.c 200-211: the total is the sum of the sizes of any finite number of
\* blocks, less what failed requests have lost, and is never read too high.
THEOREM TotalIsTrueCorrect == Spec => []TotalIsTrue
  <1>1. NativeInv => TotalIsTrue
    BY TotalOfInv DEF NativeInv
  <1>. QED  BY <1>1, Invariance, PTL

\* icmp_sender.m 193-256, 408-420: of any pings, those sent from the main loop
\* are woken at most once, and every coroutine is pinned while it waits.
THEOREM WokenAndUnpinnedOnceCorrect == Spec => []WokenAndUnpinnedOnce
  <1>1. NativeInv => WokenAndUnpinnedOnce
    BY DEF NativeInv, PingInv, WakeInv, WakesLeft, WokenAndUnpinnedOnce, WokenOnce
  <1>. QED  BY <1>1, Invariance, PTL

\* icmp_sender.m 422-430: no reply to a ping from the main loop reads a context
\* that its timeout has freed.
THEOREM NoStaleContextCorrect == Spec => []NoStaleContext
  <1>1. NativeInv => NoStaleContext
    BY DEF NativeInv, PingInv, FreedInv
  <1>. QED  BY <1>1, Invariance, PTL

\* NativeChromeMCP.swift 145-172: calls of open() one after the other, in a
\* browser left alone, show an origin in one tab and replace none, with any
\* number of tabs and of calls.
THEOREM OpensOneTabCorrect == Spec => []OpensOneTab
  <1>1. NativeInv => OpensOneTab
    BY DEF NativeInv, TabInv
  <1>. QED  BY <1>1, Invariance, PTL

\* luauser.c 374-380: the watchdog never ends a process whose handler could
\* still have seen a packet, however many times it polls.
THEOREM ProgressSurvivesCorrect == Spec => ProgressSurvives
  <1>1. NativeInv /\ [Next]_vars => [exited' # exited => ~wrote]_hostVars
    BY PartSteps, ExitUnwritten DEF NativeInv
  <1>. QED  BY <1>1, Invariance, PTL DEF Spec, ProgressSurvives

-------------------------------------------------------------------------------
(* The calls of the functions. *)

\* A call has the arguments it was made with.
CallInv ==
    /\ call.of = "match" => call.pattern \in Patterns /\ call.host \in Hosts
    /\ call.of = "best" => call.patterns \in PatternLists /\ call.host \in Hosts
    /\ call.of = "trim" => call.text \in Texts
    /\ call.of = "replace" => call.text \in Texts /\ call.needle \in Needles /\ call.by \in Substitutes
    /\ call.of = "encode" => call.bytes \in Packets /\ call.blankAt \in 0..8
    /\ call.of = "packet" =>
          call.identifier \in Identifiers /\ call.sequence \in Identifiers /\ call.data \in Packets

LEMMA CallInitInv == Init => CallInv
  BY DEF Init, NoCall, CallInv

\* A function is called with its arguments, and returns.
LEMMA CallStepInv ==
    ASSUME \/ CallMatch \/ CallBest \/ CallTrim \/ CallReplace \/ CallEncode \/ CallPacket
           \/ Return
    PROVE  CallInv'
  <1>1. CASE CallMatch
    BY <1>1 DEF CallMatch, Call, CallInv
  <1>2. CASE CallBest
    BY <1>2 DEF CallBest, Call, CallInv
  <1>3. CASE CallTrim
    BY <1>3 DEF CallTrim, Call, CallInv
  <1>4. CASE CallReplace
    BY <1>4 DEF CallReplace, Call, CallInv
  <1>5. CASE CallEncode
    BY <1>5 DEF CallEncode, Call, CallInv
  <1>6. CASE CallPacket
    BY <1>6 DEF CallPacket, Call, CallInv
  <1>7. CASE Return
    BY <1>7 DEF Return, NoCall, CallInv
  <1>. QED  BY <1>1, <1>2, <1>3, <1>4, <1>5, <1>6, <1>7

LEMMA CallNextInv == CallInv /\ [Next]_vars => CallInv'
  <1>. SUFFICES ASSUME CallInv, [Next]_vars PROVE CallInv'
    OBVIOUS
  <1>1. CASE UNCHANGED call
    BY <1>1 DEF CallInv
  <1>2. CASE \/ CallMatch \/ CallBest \/ CallTrim \/ CallReplace \/ CallEncode \/ CallPacket
             \/ Return
    BY <1>2, CallStepInv
  <1>. QED  BY <1>1, <1>2 DEF Next, vars

\* Of a call of lua_wildcard_match, all that the properties say.
LEMMA MatchAsPromised ==
    ASSUME call.pattern \in Seq(Chars), call.host \in Seq(Chars)
    PROVE  SingleLevelIsGlob /\ MultiLevelIsSound /\ WholeLabelsAreMatched /\ ExactScoresMost /\ CompiledPartsHold
  <1>1. SingleLevelIsGlob
    BY SingleLevel DEF SingleLevelIsGlob, Fits
  <1>2. MultiLevelIsSound
    BY MatchIsDenoted DEF MultiLevelIsSound, Fits
  <1>3. WholeLabelsAreMatched
    BY WholeLabelsMatch DEF WholeLabelsAreMatched, WholeLabels, Fits
  <1>4. ExactScoresMost
    BY ExactScores DEF ExactScoresMost, Fits
  <1>5. CompiledPartsHold
    BY CompiledParts DEF CompiledPartsHold, Fits
  <1>. QED  BY <1>1, <1>2, <1>3, <1>4, <1>5

LEMMA CallAsPromised == CallInv => WildcardsAsPromised
  <1>. SUFFICES ASSUME CallInv PROVE WildcardsAsPromised
    OBVIOUS
  <1>1. call.of = "match" => call.pattern \in Seq(Chars) /\ call.host \in Seq(Chars)
    BY NamesAssumption DEF CallInv, Chars
  <1>2. SingleLevelIsGlob /\ MultiLevelIsSound /\ WholeLabelsAreMatched /\ ExactScoresMost /\ CompiledPartsHold
    <2>1. CASE call.of = "match"
      BY <1>1, <2>1, MatchAsPromised
    <2>2. CASE call.of # "match"
      BY <2>2 DEF SingleLevelIsGlob, MultiLevelIsSound, WholeLabelsAreMatched, ExactScoresMost,
                  CompiledPartsHold
    <2>. QED  BY <2>1, <2>2
  <1>3. BestIsFirstOfHighest
    <2>1. CASE call.of = "best"
      <3>1. call.patterns \in Seq(Seq(Chars))
        BY <2>1, NamesAssumption DEF CallInv, Chars
      <3>. DEFINE best == FindBestWildcardMatch(call.host, call.patterns)
                  Score(i) == CalculatePatternScore(call.patterns[i])
                  matching == {i \in 1..Len(call.patterns) : WildcardMatch(call.patterns[i], call.host)}
                  eligible == {i \in 1..Len(call.patterns) :
                                  WildcardMatch(call.patterns[i], call.host) /\ Score(i) >= 0}
      <3>2. \A i \in matching : Score(i) \in Int /\ i \in Nat \ {0}
        <4>1. \A i \in 1..Len(call.patterns) : call.patterns[i] \in Seq(Chars)
          BY <3>1
        <4>. QED  BY <3>1, <4>1, ScoreType
      <3>3. /\ eligible \subseteq matching
            /\ \A i \in matching : i \in eligible <=> Score(i) >= 0
        OBVIOUS
      <3>4. IF eligible = {} THEN best = 0
            ELSE /\ best \in eligible
                 /\ \A i \in eligible : Score(i) < Score(best) \/ (Score(i) = Score(best) /\ best <= i)
        BY <3>1, BestOfPatterns
      <3>5. IF best = 0 THEN \A i \in matching : Score(i) < 0
            ELSE /\ best \in matching
                 /\ \A i \in matching : Score(i) < Score(best) \/ (Score(i) = Score(best) /\ best <= i)
        <4>. HIDE DEF best, Score, matching, eligible
        <4>. QED  BY <3>2, <3>3, <3>4
      <3>. QED  BY <3>5 DEF BestIsFirstOfHighest
    <2>2. CASE call.of # "best"
      BY <2>2 DEF BestIsFirstOfHighest
    <2>. QED  BY <2>1, <2>2
  <1>. QED  BY <1>2, <1>3 DEF WildcardsAsPromised

\* wildcard_matcher.c: whatever the patterns and names, matching, scores, the
\* choice and the compiled parts are what the pattern denotes.
THEOREM WildcardsAsPromisedCorrect == Spec => []WildcardsAsPromised
  BY CallInitInv, CallNextInv, CallAsPromised, PTL DEF Spec

\* Of a call of trim, what its property says.
LEMMA TrimAsPromised == CallInv => TrimIsMaximal
  <1>. SUFFICES ASSUME CallInv, call.of = "trim" PROVE TrimIsMaximal
    BY DEF TrimIsMaximal
  <1>1. call.text \in Seq(STRING)
    BY StringsAssumption DEF CallInv
  <1>. QED  BY <1>1, TrimOfAny, Zenon DEF TrimIsMaximal

\* Of a call of replace, for any needle that is not empty.
LEMMA ReplaceAsPromised == CallInv => ReplaceIsUndone
  <1>. SUFFICES ASSUME CallInv, call.of = "replace", call.by # <<>>, Strange(call.by, call.text)
                PROVE  ReplaceIsUndone
    BY DEF ReplaceIsUndone
  <1>1. /\ call.text \in Seq(STRING) /\ call.needle \in Seq(STRING) /\ call.needle # <<>>
        /\ call.by \in Seq(STRING)
    BY StringsAssumption DEF CallInv
  <1>. QED  BY <1>1, ReplacementUndone, Zenon DEF ReplaceIsUndone

\* Of the encoding and decoding of a packet, with the blank at any place.
LEMMA DecodeAsPromised == CallInv => DecodeInvertsEncode
  <1>. SUFFICES ASSUME CallInv, call.of = "encode" PROVE DecodeInvertsEncode
    BY DEF DecodeInvertsEncode
  <1>1. call.bytes \in Seq(Bytes) /\ call.blankAt \in Nat
    BY StringsAssumption DEF CallInv
  <1>. QED  BY <1>1, DecodingInvertsEncoding, Zenon DEF DecodeInvertsEncode

\* Of a packet that in_cksum can add up without overflow.
LEMMA ChecksumAsPromised == CallInv => ChecksumVerifies
  <1>. SUFFICES ASSUME CallInv, call.of = "packet", 8 + Len(call.data) <= MaxSummed
                PROVE  ChecksumVerifies
    BY DEF ChecksumVerifies
  <1>1. call.identifier \in UInt16 /\ call.sequence \in UInt16 /\ call.data \in Seq(Bytes)
    BY StringsAssumption DEF CallInv
  <1>2. Folded(WordSum(CreateIcmpPacket(call.identifier, call.sequence, call.data), BigEndian)) = 65535
    BY <1>1, PacketVerifies, SMT
  <1>. QED  BY <1>2, SMT DEF ChecksumVerifies

\* caplua.c, lbase64.c, icmp_sender.m: trimming is maximal, a replacement is
\* undone by the opposite one, decoding inverts encoding and the checksum of a
\* packet verifies, for arguments of any length.
THEOREM StringsAreUndoneCorrect == Spec => []StringsAreUndone
  <1>1. CallInv => StringsAreUndone
    BY TrimAsPromised, ReplaceAsPromised, DecodeAsPromised, ChecksumAsPromised, Zenon
    DEF StringsAreUndone
  <1>. QED  BY CallInitInv, CallNextInv, <1>1, PTL DEF Spec
==============================================================================
