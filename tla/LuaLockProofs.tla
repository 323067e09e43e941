---------------------------- MODULE LuaLockProofs ----------------------------
(***************************************************************************)
(* Proofs about LuaLock for any set of threads and any bounds.             *)
(*                                                                         *)
(* Mutual exclusion is not inductive: it follows from the depth of a       *)
(* thread counting the sections it is inside of, which LuaLockDepthSet and *)
(* LuaLockResumeAfterLoop preserve only if the depths saved in `frames`    *)
(* do so as well, which LuaLockEnable preserves only if nothing is locked  *)
(* and no worker runs while the latch is off.  LockInv collects these.     *)
(***************************************************************************)
EXTENDS LuaLock, SequenceTheorems, TLAPS

\* While the latch is off only the main thread runs; a thread that has not
\* started is inside of nothing; a state and the latch need the mutex.
StartInv ==
    /\ ~enabled => started = {Main}
    /\ \A t \in Threads : t \notin started => open[t] = 0 /\ frames[t] = <<>>
    /\ enabled \/ stateOpen => lockInited

LockInv == TypeOK /\ DepthMirrorsMutex /\ DepthCountsSections /\ StartInv

-------------------------------------------------------------------------------
(* Saved depths. *)

\* Saving a frame keeps the earlier ones where they were.
LEMMA PushFrame ==
    ASSUME NEW s \in Seq(Frame), NEW f \in Frame
    PROVE  /\ Append(s, f) \in Seq(Frame)
           /\ Len(Append(s, f)) = Len(s) + 1
           /\ \A i \in 1..Len(s) : Append(s, f)[i] = s[i]
           /\ Append(s, f)[Len(s) + 1] = f
  OBVIOUS

\* Dropping the innermost frame keeps the others.
LEMMA PopFrame ==
    ASSUME NEW s \in Seq(Frame), s # <<>>
    PROVE  /\ SubSeq(s, 1, Len(s) - 1) \in Seq(Frame)
           /\ Len(SubSeq(s, 1, Len(s) - 1)) = Len(s) - 1
           /\ \A i \in 1..(Len(s) - 1) : SubSeq(s, 1, Len(s) - 1)[i] = s[i]
           /\ Len(s) \in 1..Len(s)
           /\ s[Len(s)] \in Frame
  <1>. DEFINE n == Len(s) - 1
  <1>1. Len(s) \in Nat /\ Len(s) # 0 /\ \A i \in 1..Len(s) : s[i] \in Frame
    BY EmptySeq, LenProperties
  <1>2. n \in Nat /\ \A i \in 1..n : s[i] \in Frame
    BY <1>1
  <1>3. /\ SubSeq(s, 1, n) \in Seq(Frame)
        /\ Len(SubSeq(s, 1, n)) = IF 1 <= n THEN n - 1 + 1 ELSE 0
        /\ \A i \in 1..(n - 1 + 1) : SubSeq(s, 1, n)[i] = s[1 + i - 1]
    <2>. HIDE DEF n
    <2>. QED  BY <1>2, SubSeqProperties
  <1>4. Len(SubSeq(s, 1, n)) = n /\ \A i \in 1..n : SubSeq(s, 1, n)[i] = s[i]
    <2>. HIDE DEF n
    <2>. QED  BY <1>2, <1>3
  <1>5. Len(s) \in 1..Len(s) /\ s[Len(s)] \in Frame
    BY <1>1
  <1>. QED  BY <1>3, <1>4, <1>5

-------------------------------------------------------------------------------
(* The mutex. *)

\* Locking or unlocking until the depth is n keeps the copies of the depths
\* equal to the mutex's own count, and touches no other thread's.
LEMMA SetDepthFacts ==
    ASSUME TypeOK, DepthMirrorsMutex,
           NEW t \in Threads, NEW n \in Nat, SetDepth(t, n)
    PROVE  /\ owner' \in Threads \cup {NoThread}
           /\ held' \in Nat
           /\ depth' \in [Threads -> Nat]
           /\ depth' = [depth EXCEPT ![t] = n]
           /\ DepthMirrorsMutex'
  <1>1. CASE n = depth[t]
    <2>1. depth' = depth /\ held' = held /\ owner' = owner
      BY <1>1 DEF SetDepth, TypeOK
    <2>. QED  BY <1>1, <2>1 DEF SetDepth, TypeOK, DepthMirrorsMutex
  <1>2. CASE n # depth[t]
    <2>1. Free(t)
      <3>1. CASE n > depth[t]
        BY <3>1 DEF SetDepth
      <3>2. CASE depth[t] > 0
        BY <3>2 DEF DepthMirrorsMutex, Free, TypeOK
      <3>. QED  BY <1>2, <3>1, <3>2 DEF TypeOK
    <2>2. held = depth[t] /\ \A u \in Threads \ {t} : depth[u] = 0
      BY <2>1, ThreadAssumption DEF Free, DepthMirrorsMutex, TypeOK
    <2>3. held' = n /\ owner' = IF n = 0 THEN NoThread ELSE t
      BY <1>2, <2>2 DEF SetDepth, TypeOK
    <2>4. depth' = [depth EXCEPT ![t] = n]
      BY DEF SetDepth
    <2>5. DepthMirrorsMutex'
      BY <2>2, <2>3, <2>4, ThreadAssumption DEF DepthMirrorsMutex, TypeOK
    <2>. QED  BY <2>3, <2>4, <2>5 DEF TypeOK
  <1>. QED  BY <1>1, <1>2

\* The two forms of a step of the mutex: with the latch on, the depth of t
\* becomes n; with the latch off nothing moves.
MutexStep(t, n) == IF Locking THEN SetDepth(t, n) ELSE UNCHANGED mutexVars

\* A step of the mutex under LockInv.
LEMMA MutexStepFacts ==
    ASSUME LockInv, UNCHANGED <<lockInited, enabled>>,
           NEW t \in Threads, NEW n \in Nat, MutexStep(t, n)
    PROVE  /\ owner' \in Threads \cup {NoThread}
           /\ held' \in Nat
           /\ depth' = IF enabled THEN [depth EXCEPT ![t] = n] ELSE depth
           /\ depth' \in [Threads -> Nat]
           /\ DepthMirrorsMutex'
  <1>1. Locking <=> enabled
    BY DEF Locking, LockInv, StartInv
  <1>2. CASE enabled
    <2>1. SetDepth(t, n)
      BY <1>1, <1>2 DEF MutexStep
    <2>. QED  BY <1>2, <2>1, SetDepthFacts DEF LockInv
  <1>3. CASE ~enabled
    <2>1. UNCHANGED mutexVars
      BY <1>1, <1>3 DEF MutexStep
    <2>. QED  BY <1>3, <2>1 DEF mutexVars, LockInv, TypeOK, DepthMirrorsMutex
  <1>. QED  BY <1>2, <1>3

-------------------------------------------------------------------------------
(* LockInv is inductive. *)

LEMMA InitLockInv == Init => LockInv
  <1>. SUFFICES ASSUME Init PROVE LockInv
    OBVIOUS
  <1>1. \A t \in Threads : frames[t] \in Seq(Frame) /\ Len(frames[t]) = 0
    BY EmptySeq DEF Init
  <1>2. TypeOK
    BY <1>1, ThreadAssumption DEF Init, TypeOK
  <1>3. DepthMirrorsMutex
    BY ThreadAssumption DEF Init, DepthMirrorsMutex
  <1>4. DepthCountsSections
    <2>1. ~enabled /\ \A t \in Threads : depth[t] = 0
      BY DEF Init
    <2>2. \A t \in Threads : \A i \in 1..Len(frames[t]) : FALSE
      BY <1>1
    <2>. QED  BY <2>1, <2>2 DEF DepthCountsSections
  <1>5. StartInv
    BY DEF Init, StartInv
  <1>. QED  BY <1>2, <1>3, <1>4, <1>5 DEF LockInv

\* Leaving the mutex alone is a mutex step too.
LEMMA MutexStutter ==
    ASSUME LockInv, UNCHANGED mutexVars, NEW t \in Threads
    PROVE  MutexStep(t, depth[t])
  <1>1. depth' = [depth EXCEPT ![t] = depth[t]] /\ held' = held /\ owner' = owner
    BY DEF mutexVars, LockInv, TypeOK
  <1>2. SetDepth(t, depth[t])
    BY <1>1 DEF SetDepth, LockInv, TypeOK
  <1>. QED  BY <1>2 DEF MutexStep

\* What every step of a running thread has in common: the mutex, the open
\* sections and the saved depths of that thread move together.
LEMMA ThreadStepInv ==
    ASSUME LockInv,
           UNCHANGED <<lockInited, enabled, started>>,
           stateOpen' \in BOOLEAN, stateOpen' => stateOpen,
           NEW t \in Threads, t \in started,
           NEW n \in Nat, MutexStep(t, n),
           NEW k \in Nat, open' = [open EXCEPT ![t] = k], enabled => n = k,
           NEW fs \in Seq(Frame), frames' = [frames EXCEPT ![t] = fs],
           \A i \in 1..Len(fs) : fs[i].depth = IF enabled THEN fs[i].open ELSE 0
    PROVE  LockInv'
  <1>1. /\ owner' \in Threads \cup {NoThread}
        /\ held' \in Nat
        /\ depth' = IF enabled THEN [depth EXCEPT ![t] = n] ELSE depth
        /\ depth' \in [Threads -> Nat]
        /\ DepthMirrorsMutex'
    BY MutexStepFacts
  <1>2. TypeOK'
    BY <1>1 DEF LockInv, TypeOK
  <1>3. DepthCountsSections'
    <2>. SUFFICES ASSUME NEW u \in Threads
                  PROVE  /\ depth'[u] = IF enabled THEN open'[u] ELSE 0
                         /\ \A i \in 1..Len(frames'[u]) :
                              frames'[u][i].depth = IF enabled THEN frames'[u][i].open ELSE 0
      BY DEF DepthCountsSections
    <2>1. CASE u = t
      <3>1. open'[u] = k /\ frames'[u] = fs
        BY <2>1 DEF LockInv, TypeOK
      <3>2. depth'[u] = IF enabled THEN n ELSE depth[u]
        BY <1>1, <2>1 DEF LockInv, TypeOK
      <3>3. ~enabled => depth[u] = 0
        BY DEF LockInv, DepthCountsSections
      <3>. QED  BY <3>1, <3>2, <3>3
    <2>2. CASE u # t
      <3>1. open'[u] = open[u] /\ frames'[u] = frames[u] /\ depth'[u] = depth[u]
        BY <1>1, <2>2 DEF LockInv, TypeOK
      <3>. QED  BY <3>1 DEF LockInv, DepthCountsSections
    <2>. QED  BY <2>1, <2>2
  <1>4. StartInv'
    BY DEF LockInv, StartInv, TypeOK
  <1>. QED  BY <1>1, <1>2, <1>3, <1>4 DEF LockInv

\* The innermost saved depth, and the saved depths without it, under LockInv.
LEMMA TopFacts ==
    ASSUME LockInv, NEW t \in Threads, frames[t] # <<>>
    PROVE  /\ Top(t) \in Frame
           /\ Top(t).depth = IF enabled THEN Top(t).open ELSE 0
           /\ SubSeq(frames[t], 1, Len(frames[t]) - 1) \in Seq(Frame)
           /\ LET fs == SubSeq(frames[t], 1, Len(frames[t]) - 1)
              IN \A i \in 1..Len(fs) : fs[i].depth = IF enabled THEN fs[i].open ELSE 0
  <1>. DEFINE s  == frames[t]
              fs == SubSeq(s, 1, Len(s) - 1)
  <1>1. s \in Seq(Frame)
    BY DEF LockInv, TypeOK
  <1>2. \A i \in 1..Len(s) : s[i].depth = IF enabled THEN s[i].open ELSE 0
    BY DEF LockInv, DepthCountsSections
  <1>3. /\ fs \in Seq(Frame)
        /\ Len(fs) = Len(s) - 1
        /\ \A i \in 1..(Len(s) - 1) : fs[i] = s[i]
        /\ Len(s) \in 1..Len(s)
        /\ s[Len(s)] \in Frame
    <2>. HIDE DEF s
    <2>. QED  BY <1>1, PopFrame DEF s
  <1>4. Len(s) \in Nat
    BY <1>1, LenProperties
  <1>5. \A i \in 1..Len(fs) : fs[i].depth = IF enabled THEN fs[i].open ELSE 0
    <2>. HIDE DEF s, fs
    <2>. QED  BY <1>2, <1>3, <1>4
  <1>6. Top(t) = s[Len(s)]
    BY DEF Top
  <1>7. Top(t) \in Frame /\ Top(t).depth = IF enabled THEN Top(t).open ELSE 0
    <2>. HIDE DEF s
    <2>. QED  BY <1>2, <1>3, <1>6
  <1>. QED  BY <1>3, <1>5, <1>7

-------------------------------------------------------------------------------
(* One lemma per group of actions. *)

\* Entering and leaving a section.
LEMMA SectionSteps ==
    ASSUME LockInv, NEW t \in Threads, t \in started,
           EnterSection(t) \/ UnLockMainState(t)
    PROVE  LockInv'
  <1>1. /\ frames[t] \in Seq(Frame) /\ frames = [frames EXCEPT ![t] = frames[t]]
        /\ \A i \in 1..Len(frames[t]) :
              frames[t][i].depth = IF enabled THEN frames[t][i].open ELSE 0
        /\ depth[t] \in Nat /\ open[t] \in Nat
        /\ depth[t] = IF enabled THEN open[t] ELSE 0
        /\ stateOpen \in BOOLEAN
    BY DEF LockInv, TypeOK, DepthCountsSections
  <1>2. CASE EnterSection(t)
    <2>1. MutexStep(t, depth[t] + 1)
      BY <1>2 DEF EnterSection, Lock, MutexStep
    <2>2. /\ UNCHANGED <<lockInited, enabled, started, stateOpen, frames>>
          /\ open' = [open EXCEPT ![t] = open[t] + 1]
      BY <1>2 DEF EnterSection
    <2>3. frames' = [frames EXCEPT ![t] = frames[t]]
      BY <1>1, <2>2
    <2>4. depth[t] + 1 \in Nat /\ open[t] + 1 \in Nat /\ (enabled => depth[t] + 1 = open[t] + 1)
      BY <1>1
    <2>. QED  BY <1>1, <2>1, <2>2, <2>3, <2>4, ThreadStepInv
  <1>3. CASE UnLockMainState(t)
    <2>. DEFINE n == IF depth[t] > 0 THEN depth[t] - 1 ELSE depth[t]
                k == IF open[t] > 0 THEN open[t] - 1 ELSE 0
    <2>1. MutexStep(t, n)
      <3>1. CASE Locking /\ depth[t] > 0
        BY <1>3, <3>1 DEF UnLockMainState, Unlock, MutexStep
      <3>2. CASE Locking /\ ~(depth[t] > 0)
        BY <1>3, <3>2, MutexStutter DEF UnLockMainState, Unlock
      <3>3. CASE ~Locking
        BY <1>3, <3>3 DEF UnLockMainState, Unlock, MutexStep
      <3>. QED  BY <3>1, <3>2, <3>3
    <2>2. /\ UNCHANGED <<lockInited, enabled, started, stateOpen, frames>>
          /\ open' = [open EXCEPT ![t] = k]
      BY <1>3 DEF UnLockMainState
    <2>3. frames' = [frames EXCEPT ![t] = frames[t]]
      BY <1>1, <2>2
    <2>4. n \in Nat /\ k \in Nat /\ (enabled => n = k)
      BY <1>1
    <2>. HIDE DEF n, k
    <2>. QED  BY <1>1, <2>1, <2>2, <2>3, <2>4, ThreadStepInv
  <1>. QED  BY <1>2, <1>3

\* Saving a depth.
LEMMA PushSteps ==
    ASSUME LockInv, NEW t \in Threads, t \in started,
           LuaLockSuspendForLoop(t) \/ LuaLockDepthGet(t)
    PROVE  LockInv'
  <1>1. /\ frames[t] \in Seq(Frame)
        /\ \A i \in 1..Len(frames[t]) :
              frames[t][i].depth = IF enabled THEN frames[t][i].open ELSE 0
        /\ depth[t] \in Nat /\ open[t] \in Nat
        /\ depth[t] = IF enabled THEN open[t] ELSE 0
        /\ stateOpen \in BOOLEAN /\ open = [open EXCEPT ![t] = open[t]]
    BY DEF LockInv, TypeOK, DepthCountsSections
  <1>2. ASSUME NEW kind \in {"loop", "call"}, Push(t, kind)
        PROVE  \E fs \in Seq(Frame) :
                  /\ frames' = [frames EXCEPT ![t] = fs]
                  /\ \A i \in 1..Len(fs) : fs[i].depth = IF enabled THEN fs[i].open ELSE 0
    <2>. DEFINE f  == [kind |-> kind, depth |-> depth[t], open |-> open[t]]
                fs == Append(frames[t], f)
    <2>1. f \in Frame /\ f.depth = IF enabled THEN f.open ELSE 0
      BY <1>1 DEF Frame
    <2>2. frames' = [frames EXCEPT ![t] = fs]
      BY <1>2 DEF Push
    <2>3. Len(frames[t]) \in Nat
      BY <1>1, LenProperties
    <2>4. /\ fs \in Seq(Frame)
          /\ Len(fs) = Len(frames[t]) + 1
          /\ \A i \in 1..Len(frames[t]) : fs[i] = frames[t][i]
          /\ fs[Len(frames[t]) + 1] = f
      <3>. HIDE DEF f
      <3>. QED  BY <1>1, <2>1, PushFrame
    <2>5. \A i \in 1..Len(fs) : fs[i].depth = IF enabled THEN fs[i].open ELSE 0
      <3>. HIDE DEF f, fs
      <3>. TAKE i \in 1..Len(fs)
      <3>1. i \in 1..Len(frames[t]) \/ i = Len(frames[t]) + 1
        BY <2>3, <2>4
      <3>. QED  BY <1>1, <2>1, <2>4, <3>1
    <2>. HIDE DEF fs
    <2>. QED  BY <2>2, <2>4, <2>5
  <1>3. CASE LuaLockSuspendForLoop(t)
    <2>1. PICK fs \in Seq(Frame) :
                  /\ frames' = [frames EXCEPT ![t] = fs]
                  /\ \A i \in 1..Len(fs) : fs[i].depth = IF enabled THEN fs[i].open ELSE 0
      BY <1>2, <1>3 DEF LuaLockSuspendForLoop
    <2>2. MutexStep(t, 0) /\ open' = [open EXCEPT ![t] = 0]
      BY <1>3 DEF LuaLockSuspendForLoop, MutexStep
    <2>3. UNCHANGED <<lockInited, enabled, started, stateOpen>>
      BY <1>3 DEF LuaLockSuspendForLoop
    <2>. QED  BY <1>1, <2>1, <2>2, <2>3, ThreadStepInv
  <1>4. CASE LuaLockDepthGet(t)
    <2>1. PICK fs \in Seq(Frame) :
                  /\ frames' = [frames EXCEPT ![t] = fs]
                  /\ \A i \in 1..Len(fs) : fs[i].depth = IF enabled THEN fs[i].open ELSE 0
      BY <1>2, <1>4 DEF LuaLockDepthGet
    <2>2. MutexStep(t, depth[t]) /\ open' = [open EXCEPT ![t] = open[t]]
      BY <1>1, <1>4, MutexStutter DEF LuaLockDepthGet
    <2>3. UNCHANGED <<lockInited, enabled, started, stateOpen>>
      BY <1>4 DEF LuaLockDepthGet
    <2>. QED  BY <1>1, <2>1, <2>2, <2>3, ThreadStepInv
  <1>. QED  BY <1>3, <1>4

\* Restoring or forgetting a depth.
LEMMA PopSteps ==
    ASSUME LockInv, NEW t \in Threads, t \in started,
           LuaLockResumeAfterLoop(t) \/ ReturnFromCall(t) \/ LuaLockDepthSet(t)
    PROVE  LockInv'
  <1>. DEFINE fs == SubSeq(frames[t], 1, Len(frames[t]) - 1)
              n  == Top(t).depth
              k  == Top(t).open
  <1>1. frames[t] # <<>> /\ frames' = [frames EXCEPT ![t] = fs]
    BY DEF LuaLockResumeAfterLoop, ReturnFromCall, LuaLockDepthSet, InFrame, Pop
  <1>2. /\ n \in Nat /\ k \in Nat
        /\ n = IF enabled THEN k ELSE 0
        /\ fs \in Seq(Frame)
        /\ \A i \in 1..Len(fs) : fs[i].depth = IF enabled THEN fs[i].open ELSE 0
    <2>1. Top(t) \in Frame /\ Top(t).depth = IF enabled THEN Top(t).open ELSE 0
      BY <1>1, TopFacts
    <2>2. n \in Nat /\ k \in Nat
      BY <2>1 DEF Frame
    <2>. QED  BY <1>1, <2>1, <2>2, TopFacts
  <1>3. UNCHANGED <<lockInited, enabled, started, stateOpen>> /\ stateOpen \in BOOLEAN
    BY DEF LuaLockResumeAfterLoop, ReturnFromCall, LuaLockDepthSet, LockInv, TypeOK
  <1>4. /\ depth[t] \in Nat /\ open[t] \in Nat
        /\ depth[t] = IF enabled THEN open[t] ELSE 0
        /\ Locking <=> enabled
    BY DEF LockInv, TypeOK, DepthCountsSections, StartInv, Locking
  <1>5. CASE LuaLockResumeAfterLoop(t)
    <2>1. open' = [open EXCEPT ![t] = k] /\ open[t] = 0
      BY <1>5 DEF LuaLockResumeAfterLoop
    <2>2. MutexStep(t, n)
      <3>1. CASE Locking /\ depth[t] < n
        BY <1>5, <3>1 DEF LuaLockResumeAfterLoop, MutexStep
      <3>2. CASE Locking /\ ~(depth[t] < n)
        <4>1. n = depth[t]
          BY <1>2, <1>4, <2>1, <3>2
        <4>2. UNCHANGED mutexVars
          BY <1>5, <3>2 DEF LuaLockResumeAfterLoop
        <4>. QED  BY <4>1, <4>2, MutexStutter
      <3>3. CASE ~Locking
        BY <1>5, <3>3 DEF LuaLockResumeAfterLoop, MutexStep
      <3>. QED  BY <3>1, <3>2, <3>3
    <2>. HIDE DEF fs, n, k
    <2>. QED  BY <1>1, <1>2, <1>3, <2>1, <2>2, ThreadStepInv
  <1>6. CASE ReturnFromCall(t)
    <2>1. open' = [open EXCEPT ![t] = open[t]]
      BY <1>6 DEF ReturnFromCall, LockInv, TypeOK
    <2>2. MutexStep(t, depth[t])
      BY <1>6, MutexStutter DEF ReturnFromCall
    <2>. HIDE DEF fs, n, k
    <2>. QED  BY <1>1, <1>2, <1>3, <1>4, <2>1, <2>2, ThreadStepInv
  <1>7. CASE LuaLockDepthSet(t)
    <2>1. open' = [open EXCEPT ![t] = k]
      BY <1>7 DEF LuaLockDepthSet
    <2>2. MutexStep(t, n)
      <3>1. CASE Locking
        BY <1>7, <3>1 DEF LuaLockDepthSet, MutexStep
      <3>2. CASE ~Locking
        <4>1. depth' = depth /\ owner' = owner /\ held' = held
          BY <1>4, <1>7, <3>2 DEF LuaLockDepthSet, LockInv, TypeOK
        <4>. QED  BY <3>2, <4>1 DEF MutexStep, mutexVars
      <3>. QED  BY <3>1, <3>2
    <2>. HIDE DEF fs, n, k
    <2>. QED  BY <1>1, <1>2, <1>3, <2>1, <2>2, ThreadStepInv
  <1>. QED  BY <1>5, <1>6, <1>7

\* Opening and closing a state, the latch and the workers.
LEMMA LifeSteps ==
    ASSUME LockInv, NEW t \in Threads,
           \/ t \in started /\ (LuaLockInitial(t) \/ LuaLockFinalState(t) \/ LuaLockEnable(t))
           \/ SpawnWorker(t)
    PROVE  LockInv'
  <1>1. ASSUME LuaLockInitial(t) PROVE LockInv'
    <2>1. /\ enabled' = enabled /\ depth' = depth /\ started' = started
          /\ open' = open /\ frames' = frames /\ lockInited' = TRUE /\ stateOpen' = TRUE
      BY <1>1 DEF LuaLockInitial
    <2>2. owner' = owner /\ held' = held
      <3>1. CASE lockInited
        BY <1>1, <3>1 DEF LuaLockInitial
      <3>2. CASE ~lockInited
        <4>1. depth[Main] = 0 /\ \A u \in Threads : depth[u] = 0
          BY <3>2, ThreadAssumption DEF LockInv, StartInv, DepthCountsSections
        <4>2. owner = NoThread /\ held = 0
          BY <4>1 DEF LockInv, TypeOK, DepthMirrorsMutex
        <4>. QED  BY <1>1, <3>2, <4>2 DEF LuaLockInitial
      <3>. QED  BY <3>1, <3>2
    <2>. QED  BY <2>1, <2>2
         DEF LockInv, TypeOK, DepthMirrorsMutex, DepthCountsSections, StartInv
  <1>2. ASSUME LuaLockFinalState(t), t \in started PROVE LockInv'
    <2>1. MutexStep(t, 0) /\ open' = [open EXCEPT ![t] = 0]
      BY <1>2 DEF LuaLockFinalState, MutexStep
    <2>2. /\ UNCHANGED <<lockInited, enabled, started, frames>>
          /\ stateOpen' = FALSE /\ stateOpen
      BY <1>2 DEF LuaLockFinalState
    <2>3. /\ frames[t] \in Seq(Frame) /\ frames' = [frames EXCEPT ![t] = frames[t]]
          /\ \A i \in 1..Len(frames[t]) :
                frames[t][i].depth = IF enabled THEN frames[t][i].open ELSE 0
      BY <2>2 DEF LockInv, TypeOK, DepthCountsSections
    <2>. QED  BY <1>2, <2>1, <2>2, <2>3, ThreadStepInv
  <1>3. ASSUME LuaLockEnable(t), t \in started PROVE LockInv'
    <2>1. /\ enabled' = TRUE /\ lockInited' = lockInited /\ stateOpen' = stateOpen
          /\ owner' = owner /\ held' = held /\ depth' = depth
          /\ started' = started /\ open' = open /\ frames' = frames
      BY <1>3 DEF LuaLockEnable, mutexVars, callVars
    <2>2. lockInited
      BY <1>3 DEF LuaLockEnable, LockInv, StartInv
    <2>3. CASE enabled
      BY <2>1, <2>2, <2>3
         DEF LockInv, TypeOK, DepthMirrorsMutex, DepthCountsSections, StartInv
    <2>4. CASE ~enabled
      <3>1. ASSUME NEW u \in Threads
            PROVE  /\ depth[u] = open[u]
                   /\ \A i \in 1..Len(frames[u]) : frames[u][i].depth = frames[u][i].open
        <4>1. CASE u = Main
          <5>1. t = Main /\ open[t] = 0 /\ \A i \in DOMAIN frames[t] : frames[t][i].open = 0
            BY <1>3 DEF LuaLockEnable
          <5>2. frames[t] \in Seq(Frame)
            BY DEF LockInv, TypeOK
          <5>3. DOMAIN frames[t] = 1..Len(frames[t])
            BY <5>2, LenProperties
          <5>. QED  BY <2>4, <4>1, <5>1, <5>3 DEF LockInv, DepthCountsSections
        <4>2. CASE u # Main
          <5>1. open[u] = 0 /\ frames[u] = <<>>
            BY <2>4, <4>2 DEF LockInv, StartInv
          <5>2. \A i \in 1..Len(frames[u]) : FALSE
            BY <5>1, EmptySeq
          <5>3. depth[u] = 0
            BY <2>4 DEF LockInv, DepthCountsSections
          <5>. QED  BY <5>1, <5>2, <5>3
        <4>. QED  BY <4>1, <4>2
      <3>2. DepthCountsSections'
        BY <2>1, <3>1 DEF DepthCountsSections
      <3>. QED  BY <2>1, <2>2, <3>2 DEF LockInv, TypeOK, DepthMirrorsMutex, StartInv
    <2>. QED  BY <2>3, <2>4
  <1>4. ASSUME SpawnWorker(t) PROVE LockInv'
    BY <1>4 DEF SpawnWorker, mutexVars, callVars,
                LockInv, TypeOK, DepthMirrorsMutex, DepthCountsSections, StartInv
  <1>. QED  BY <1>1, <1>2, <1>3, <1>4

LEMMA NextLockInv == LockInv /\ [Next]_vars => LockInv'
  <1>. SUFFICES ASSUME LockInv, [Next]_vars PROVE LockInv'
    OBVIOUS
  <1>1. ASSUME NEW t \in started, ThreadNext(t) PROVE LockInv'
    <2>1. t \in Threads
      BY <1>1 DEF LockInv, TypeOK
    <2>2. CASE LuaLockInitial(t) \/ LuaLockFinalState(t) \/ LuaLockEnable(t)
      BY <2>1, <2>2, LifeSteps
    <2>3. CASE LockMainState(t) \/ LuaGlobalLock(t) \/ UnLockMainState(t)
      BY <2>1, <2>3, SectionSteps DEF LockMainState, LuaGlobalLock
    <2>4. CASE LuaLockSuspendForLoop(t) \/ LuaLockDepthGet(t)
      BY <2>1, <2>4, PushSteps
    <2>5. CASE LuaLockResumeAfterLoop(t) \/ ReturnFromCall(t) \/ LuaLockDepthSet(t)
      BY <2>1, <2>5, PopSteps
    <2>. QED  BY <1>1, <2>2, <2>3, <2>4, <2>5 DEF ThreadNext
  <1>2. ASSUME NEW t \in Threads, SpawnWorker(t) PROVE LockInv'
    BY <1>2, LifeSteps
  <1>3. CASE UNCHANGED vars
    BY <1>3 DEF vars, LockInv, TypeOK, DepthMirrorsMutex, DepthCountsSections, StartInv
  <1>. QED  BY <1>1, <1>2, <1>3 DEF Next

-------------------------------------------------------------------------------
(* The theorems. *)

\* The inductive invariant holds in every reachable state.
THEOREM Invariance == Spec => []LockInv
  BY InitLockInv, NextLockInv, PTL DEF Spec

\* Type correctness of the lock's variables, whatever the threads and bounds.
THEOREM TypeCorrect == Spec => []TypeOK
  <1>1. LockInv => TypeOK
    BY DEF LockInv
  <1>. QED  BY <1>1, Invariance, PTL

\* luauser.c 44-46: lua_lock_depth mirrors the recursive mutex for every
\* thread, through unlock, longjmp recovery, the event loop and lua_close.
THEOREM MirrorCorrect == Spec => []DepthMirrorsMutex
  <1>1. LockInv => DepthMirrorsMutex
    BY DEF LockInv
  <1>. QED  BY <1>1, Invariance, PTL

\* luauser.c 44-200: the depth of a thread is the number of the sections its
\* frames have entered, whatever way they are left.
THEOREM CountCorrect == Spec => []DepthCountsSections
  <1>1. LockInv => DepthCountsSections
    BY DEF LockInv
  <1>. QED  BY <1>1, Invariance, PTL

LEMMA InvExclusion == LockInv => MutualExclusion
  <1>. SUFFICES ASSUME LockInv, NEW t \in Threads, NEW u \in Threads,
                       open[t] > 0, open[u] > 0
                PROVE  t = u
    BY DEF MutualExclusion
  <1>1. CASE enabled
    <2>1. depth[t] # 0 /\ depth[u] # 0
      BY <1>1 DEF LockInv, DepthCountsSections, TypeOK
    <2>2. owner = t /\ owner = u
      BY <2>1 DEF LockInv, DepthMirrorsMutex
    <2>. QED  BY <2>2
  <1>2. CASE ~enabled
    <2>1. started = {Main} /\ t \in started /\ u \in started
      BY <1>2 DEF LockInv, StartInv
    <2>. QED  BY <2>1
  <1>. QED  BY <1>1, <1>2

\* luauser.c 55-58: no two threads are inside lua_lock sections at once, for
\* any number of workers and any nesting.
THEOREM Exclusion == Spec => []MutualExclusion
  BY InvExclusion, Invariance, PTL

\* luauser.c 113: a thread that waits in its event loop does not own the mutex.
THEOREM LoopReleases == Spec => []LoopHoldsNothing
  <1>1. ASSUME LockInv, NEW t \in Threads, open[t] = 0
        PROVE  owner # t
    <2>1. depth[t] = 0
      BY <1>1 DEF LockInv, DepthCountsSections
    <2>2. owner = t => held = 0
      BY <1>1, <2>1 DEF LockInv, DepthMirrorsMutex
    <2>3. held = 0 => owner = NoThread
      BY <1>1 DEF LockInv, DepthMirrorsMutex
    <2>. QED  BY <2>2, <2>3, ThreadAssumption
  <1>2. LockInv => LoopHoldsNothing
    BY <1>1 DEF LoopHoldsNothing
  <1>. QED  BY <1>2, Invariance, PTL

\* A step changes the open sections of at most one thread.
LEMMA OpenSteps ==
    ASSUME LockInv, [Next]_vars
    PROVE  \E t \in Threads : \E k : open' = [open EXCEPT ![t] = k]
  <1>1. open = [open EXCEPT ![Main] = open[Main]]
    BY ThreadAssumption DEF LockInv, TypeOK
  <1>2. CASE open' = open
    BY <1>1, <1>2, ThreadAssumption
  <1>3. CASE \E t \in started : ThreadNext(t)
    <2>1. PICK t \in started : ThreadNext(t)
      BY <1>3
    <2>2. t \in Threads
      BY <2>1 DEF LockInv, TypeOK
    <2>3. open' = open \/ \E k : open' = [open EXCEPT ![t] = k]
      BY <2>1 DEF ThreadNext, LuaLockInitial, LuaLockFinalState, LuaLockEnable, LockMainState,
                  LuaGlobalLock, EnterSection, UnLockMainState, LuaLockSuspendForLoop,
                  LuaLockResumeAfterLoop, LuaLockDepthGet, ReturnFromCall, LuaLockDepthSet,
                  callVars
    <2>. QED  BY <1>2, <2>2, <2>3
  <1>4. CASE \E t \in Threads : SpawnWorker(t)
    BY <1>2, <1>4 DEF SpawnWorker, callVars
  <1>. QED  BY <1>2, <1>3, <1>4 DEF Next, vars

\* luauser.c 195-202: when lua_close frees the state no thread is inside a
\* section, so none is left running Lua on freed memory.
THEOREM CloseIsAlone == Spec => CloseWaitsForSections
  <1>1. ASSUME LockInv, [Next]_vars, stateOpen, ~stateOpen', NEW u \in Threads
        PROVE  open'[u] = 0
    <2>1. PICK t \in started : LuaLockFinalState(t)
      BY <1>1 DEF Next, ThreadNext, vars, LuaLockInitial, LuaLockEnable, LockMainState,
                  LuaGlobalLock, EnterSection, UnLockMainState, LuaLockSuspendForLoop,
                  LuaLockResumeAfterLoop, LuaLockDepthGet, ReturnFromCall, LuaLockDepthSet,
                  SpawnWorker
    <2>2. t \in Threads /\ open' = [open EXCEPT ![t] = 0]
      BY <1>1, <2>1 DEF LuaLockFinalState, LockInv, TypeOK
    <2>3. CASE u = t
      BY <2>2, <2>3, <1>1 DEF LockInv, TypeOK
    <2>4. CASE u # t /\ enabled
      <3>1. Free(t)
        BY <1>1, <2>1, <2>4 DEF LuaLockFinalState, Locking, LockInv, StartInv
      <3>2. depth[u] = 0
        BY <1>1, <2>4, <3>1, ThreadAssumption DEF Free, LockInv, DepthMirrorsMutex
      <3>3. open[u] = 0
        BY <1>1, <2>4, <3>2 DEF LockInv, DepthCountsSections
      <3>. QED  BY <1>1, <2>2, <2>4, <3>3 DEF LockInv, TypeOK
    <2>5. CASE u # t /\ ~enabled
      <3>1. open[u] = 0
        BY <1>1, <2>1, <2>5 DEF LockInv, StartInv
      <3>. QED  BY <1>1, <2>2, <2>5, <3>1 DEF LockInv, TypeOK
    <2>. QED  BY <2>3, <2>4, <2>5
  <1>2. LockInv /\ [Next]_vars =>
          [stateOpen /\ ~stateOpen' => \A t \in Threads : open'[t] = 0]_vars
    BY <1>1
  <1>. QED  BY <1>2, Invariance, PTL DEF Spec, CloseWaitsForSections

\* luauser.c 79-159: the lock implements LuaSection.  A step opens or closes
\* the section of one thread, and by mutual exclusion before and after it that
\* thread is the only one there.
THEOREM Refinement == Spec => SectionSpec
  <1>. DEFINE inside == {t \in Threads : open[t] > 0}
  <1>1. Init => Section!Init
    BY DEF Init, Section!Init
  <1>2. ASSUME LockInv, LockInv', [Next]_vars
        PROVE  [Section!Next]_inside
    <2>1. PICK t \in Threads : \E k : open' = [open EXCEPT ![t] = k]
      BY <1>2, OpenSteps
    <2>2. \A u \in Threads : u # t => open'[u] = open[u]
      BY <1>2, <2>1 DEF LockInv, TypeOK
    <2>3. MutualExclusion /\ MutualExclusion'
      <3>1. LockInv' => MutualExclusion'
        BY InvExclusion, PTL
      <3>. QED  BY <1>2, <3>1, InvExclusion
    <2>4. CASE open[t] > 0 <=> open'[t] > 0
      <3>1. inside' = inside
        BY <2>2, <2>4
      <3>. QED  BY <3>1
    <2>5. CASE ~(open[t] > 0) /\ open'[t] > 0
      <3>1. inside = {} /\ inside' = {t}
        BY <2>2, <2>3, <2>5 DEF MutualExclusion
      <3>. QED  BY <3>1 DEF Section!Next, Section!Enter
    <2>6. CASE open[t] > 0 /\ ~(open'[t] > 0)
      <3>1. inside = {t} /\ inside' = {}
        BY <2>2, <2>3, <2>6 DEF MutualExclusion
      <3>. QED  BY <3>1 DEF Section!Next, Section!Leave
    <2>. QED  BY <2>4, <2>5, <2>6
  <1>. QED  BY <1>1, <1>2, Invariance, PTL DEF Spec, SectionSpec, Section!Spec
==============================================================================
