-------------------------- MODULE ChromeManagerProofs --------------------------
(***************************************************************************)
(* Proofs about ChromeManager for any ports, listeners, callers, Chromes   *)
(* and bounds.                                                             *)
(*                                                                         *)
(* That the app shows what its one listener does is not inductive: it      *)
(* believes updates that are late.  An update is never false of the        *)
(* listener it comes from, only older (TasksAreTrue), and the listener the *)
(* app knows has not been cancelled (KnownIsOpen).  That no Chrome is left *)
(* behind is inductive as it stands; that polls stay within their bound    *)
(* is not, without the calls that have none left (PollsLeft).              *)
(***************************************************************************)
EXTENDS ChromeManager, TLAPS

\* Only start() and stop() cancel a listener, and they forget it.
KnownIsOpen == listener # None => lstate[listener] \in {"starting", "ready", "failed"}

\* What a listener has reported, it has been.
TasksAreTrue ==
    \A i \in 1..Len(tasks) :
        lstate[tasks[i].from] \in
            IF tasks[i].state = "ready" THEN {"ready", "closing", "closed"} ELSE {"failed", "closed"}

PollsLeft == \A c \in Callers : pc[c] \in {"idle"} \cup Waiting => polls[c] < MaxPolls

\* The conjuncts of TypeOK by the parts they are about.
ListenerType ==
    /\ listener \in Listeners \cup {None} /\ currentPort \in Ports \cup {0}
    /\ isRunning \in BOOLEAN /\ token \in Tokens \cup {NoToken}
    /\ lport \in [Listeners -> Ports \cup {0}]
    /\ lstate \in [Listeners -> {"unused", "starting", "ready", "failed", "closing", "closed"}]
    /\ tasks \in Seq([from : Listeners, state : {"ready", "failed"}])

ChromeType ==
    /\ chromeProcess \in Chromes \cup {None}
    /\ chrome \in [Chromes -> {"unused", "starting", "browser", "exited", "gone"}]
    /\ told \subseteq Chromes /\ foreign \in BOOLEAN

CallType ==
    /\ pc \in [Callers -> {"idle", "done", "failed"} \cup Waiting]
    /\ answer \in [Callers -> {"none", "up", "down"}]
    /\ polls \in [Callers -> 0..MaxPolls]

AppType ==
    /\ app \in {"up", "gone"}
    /\ enabled \in BOOLEAN /\ port \in Ports /\ terminateChromeOnQuit \in BOOLEAN
    /\ overtaken \in BOOLEAN /\ disturbed \in BOOLEAN
    /\ renewed \in BOOLEAN /\ overlapped \in BOOLEAN

ListenerInv == OneListener /\ KnownIsOpen /\ TasksAreTrue

ChromeInv == TypeOK /\ ListenerInv /\ NoOrphanChrome /\ PollsLeft

-------------------------------------------------------------------------------
(* The listener. *)

LEMMA TypeParts == TypeOK <=> ListenerType /\ ChromeType /\ CallType /\ AppType
  BY DEF TypeOK, ListenerType, ChromeType, CallType, AppType

\* A cancelled listener is one no longer, and no other is touched.
LEMMA CancelledKeeps ==
    ASSUME ListenerType, ListenerInv
    PROVE  /\ Cancelled(listener) \in
                [Listeners -> {"unused", "starting", "ready", "failed", "closing", "closed"}]
           /\ \A l \in Listeners : lstate[l] \in {"ready", "closing", "closed"}
                => Cancelled(listener)[l] \in {"ready", "closing", "closed"}
           /\ \A l \in Listeners : lstate[l] \in {"failed", "closed"}
                => Cancelled(listener)[l] \in {"failed", "closed"}
           /\ \A l \in Listeners : Cancelled(listener)[l] \in {"starting", "ready"}
                => l # listener /\ lstate[l] \in {"starting", "ready"}
           /\ \A l \in Listeners : lstate[l] = "unused" /\ l # listener
                => Cancelled(listener)[l] = "unused"
  BY DEF ListenerType, Cancelled

\* The elements of a queue, before and after one is appended.
LEMMA QueueElement ==
    ASSUME NEW S, NEW s \in Seq(S), NEW i \in 1..Len(s)
    PROVE  s[i] \in S
  OBVIOUS

LEMMA EmptyQueue == ASSUME NEW S PROVE <<>> \in Seq(S)
  OBVIOUS

LEMMA QueueAppend ==
    ASSUME NEW S, NEW s \in Seq(S), NEW e \in S
    PROVE  /\ Append(s, e) \in Seq(S)
           /\ \A i \in 1..Len(Append(s, e)) :
                (i \in 1..Len(s) /\ Append(s, e)[i] = s[i]) \/ Append(s, e)[i] = e
  OBVIOUS

\* Every task comes from a listener and says one of two things.
LEMMA TaskType ==
    ASSUME ListenerType, NEW i \in 1..Len(tasks)
    PROVE  tasks[i].from \in Listeners /\ tasks[i].state \in {"ready", "failed"}
  <1>1. tasks[i] \in [from : Listeners, state : {"ready", "failed"}]
    BY QueueElement DEF ListenerType
  <1>. QED  BY <1>1

LEMMA StopListenerInv ==
    ASSUME ListenerType, ListenerInv, StopListener, UNCHANGED overtaken,
           token' \in Tokens \cup {NoToken}
    PROVE  ListenerType' /\ ListenerInv'
  <1>1. /\ listener' = None /\ currentPort' = 0 /\ isRunning' = FALSE
        /\ lstate' = Cancelled(listener) /\ UNCHANGED <<lport, tasks>>
    BY DEF StopListener, Forget
  <1>2. ListenerType'
    BY <1>1, CancelledKeeps DEF ListenerType
  <1>3. OneListener' /\ KnownIsOpen'
    BY <1>1, CancelledKeeps DEF ListenerInv, OneListener, KnownIsOpen
  <1>4. TasksAreTrue'
    BY <1>1, CancelledKeeps, TaskType DEF ListenerInv, TasksAreTrue
  <1>. QED  BY <1>2, <1>3, <1>4 DEF ListenerInv

\* A new listener takes the place of the one before.
LEMMA ListenInv ==
    ASSUME ListenerType, ListenerInv, NEW q \in Ports, Listen(q), UNCHANGED overtaken,
           token' \in Tokens \cup {NoToken}
    PROVE  ListenerType' /\ ListenerInv'
  <1>1. CASE StopListener
    BY <1>1, StopListenerInv
  <1>2. ASSUME NEW l \in Listeners, NextListener(l),
               listener' = l, currentPort' = q, isRunning' = FALSE,
               lport' = [lport EXCEPT ![l] = q],
               lstate' = [Cancelled(listener) EXCEPT ![l] = "starting"],
               UNCHANGED tasks
        PROVE  ListenerType' /\ ListenerInv'
    <2>1. lstate[l] = "unused"
      BY <1>2 DEF NextListener
    <2>2. /\ lstate'[l] = "starting"
          /\ \A k \in Listeners \ {l} : lstate'[k] = Cancelled(listener)[k]
          /\ lstate' \in
               [Listeners -> {"unused", "starting", "ready", "failed", "closing", "closed"}]
      BY <1>2, CancelledKeeps
    <2>3. ListenerType'
      BY <1>2, <2>2 DEF ListenerType
    <2>4. l # None /\ q # 0
      BY PortAssumption DEF Listeners, None
    <2>5. OneListener' /\ KnownIsOpen'
      BY <1>2, <2>2, <2>4, CancelledKeeps DEF ListenerInv, OneListener, KnownIsOpen
    <2>6. \A i \in 1..Len(tasks) : tasks[i].from # l
      BY <2>1, TaskType DEF ListenerInv, TasksAreTrue
    <2>7. TasksAreTrue'
      BY <1>2, <2>2, <2>6, CancelledKeeps, TaskType DEF ListenerInv, TasksAreTrue
    <2>. QED  BY <2>3, <2>5, <2>7 DEF ListenerInv
  <1>. QED  BY <1>1, <1>2 DEF Listen

\* A step that touches neither the listener nor its updates.
LEMMA ListenerSame ==
    ASSUME ListenerType, ListenerInv, UNCHANGED <<mcpVars, socketVars, overtaken>>
    PROVE  ListenerType' /\ ListenerInv'
  BY DEF mcpVars, socketVars, ListenerType, ListenerInv, OneListener, KnownIsOpen, TasksAreTrue

\* The socket of a listener is bound or not, which is an update to come.
LEMMA BindInv ==
    ASSUME TypeOK, ListenerInv, NEW l \in Listeners, Bind(l)
    PROVE  ListenerType' /\ ListenerInv'
  <1>1. PICK s \in {"ready", "failed"} :
            /\ lstate[l] = "starting" /\ lstate' = [lstate EXCEPT ![l] = s]
            /\ tasks' \in {tasks, Append(tasks, [from |-> l, state |-> s])}
            /\ UNCHANGED <<listener, currentPort, isRunning, token, lport, overtaken>>
    BY DEF Bind, mcpVars, history
  <1>. DEFINE task == [from |-> l, state |-> s]
  <1>2. /\ ListenerType /\ task \in [from : Listeners, state : {"ready", "failed"}]
        /\ task.from = l /\ task.state = s
    BY TypeParts
  <1>3. /\ lstate'[l] = s /\ \A k \in Listeners \ {l} : lstate'[k] = lstate[k]
        /\ lstate' \in
             [Listeners -> {"unused", "starting", "ready", "failed", "closing", "closed"}]
    BY <1>1, <1>2 DEF ListenerType
  <1>. HIDE DEF task
  <1>4. /\ tasks' \in Seq([from : Listeners, state : {"ready", "failed"}])
        /\ \A i \in 1..Len(tasks') : (i \in 1..Len(tasks) /\ tasks'[i] = tasks[i]) \/ tasks'[i] = task
    <2>1. tasks \in Seq([from : Listeners, state : {"ready", "failed"}])
      BY <1>2 DEF ListenerType
    <2>2. tasks' = tasks \/ tasks' = Append(tasks, task)
      BY <1>1 DEF task
    <2>3. CASE tasks' = tasks
      BY <2>1, <2>3
    <2>4. CASE tasks' = Append(tasks, task)
      BY <1>2, <2>1, <2>4, QueueAppend
    <2>. QED  BY <2>2, <2>3, <2>4
  <1>5. ListenerType'
    BY <1>1, <1>2, <1>3, <1>4 DEF ListenerType
  <1>6. OneListener' /\ KnownIsOpen'
    BY <1>1, <1>2, <1>3 DEF ListenerInv, OneListener, KnownIsOpen, ListenerType
  <1>7. TasksAreTrue'
    BY <1>1, <1>2, <1>3, <1>4, TaskType DEF ListenerInv, TasksAreTrue
  <1>. QED  BY <1>5, <1>6, <1>7 DEF ListenerInv

LEMMA ReleaseInv ==
    ASSUME TypeOK, ListenerInv, NEW l \in Listeners, Release(l)
    PROVE  ListenerType' /\ ListenerInv'
  <1>1. /\ lstate[l] = "closing" /\ lstate' = [lstate EXCEPT ![l] = "closed"]
        /\ UNCHANGED <<listener, currentPort, isRunning, token, lport, tasks, overtaken>>
    BY DEF Release, mcpVars, history
  <1>2. ListenerType
    BY TypeParts
  <1>3. /\ lstate'[l] = "closed" /\ \A k \in Listeners \ {l} : lstate'[k] = lstate[k]
        /\ ListenerType'
    BY <1>1, <1>2 DEF ListenerType
  <1>4. OneListener' /\ KnownIsOpen'
    BY <1>1, <1>2, <1>3 DEF ListenerInv, OneListener, KnownIsOpen, ListenerType
  <1>5. TasksAreTrue'
    BY <1>1, <1>2, <1>3, TaskType DEF ListenerInv, TasksAreTrue
  <1>. QED  BY <1>3, <1>4, <1>5 DEF ListenerInv

\* An update of the listener the app knows is believed and true.
LEMMA StateUpdateInv ==
    ASSUME TypeOK, ListenerInv, StateUpdate
    PROVE  ListenerType' /\ ListenerInv' /\ overtaken' \in BOOLEAN
  <1>1. ListenerType /\ overtaken \in BOOLEAN
    BY TypeParts DEF AppType
  <1>2. /\ tasks # <<>> /\ tasks' = Tail(tasks)
        /\ overtaken' = (overtaken \/ Head(tasks).from # listener)
        /\ \/ /\ Head(tasks).state = "ready" /\ isRunning' = TRUE
              /\ UNCHANGED <<listener, currentPort>>
           \/ /\ Head(tasks).state # "ready"
              /\ listener' = None /\ currentPort' = 0 /\ isRunning' = FALSE
        /\ UNCHANGED <<token, lport, lstate>>
    BY DEF StateUpdate, Forget
  <1>3. /\ tasks' \in Seq([from : Listeners, state : {"ready", "failed"}])
        /\ 1 \in 1..Len(tasks) /\ Head(tasks) = tasks[1]
        /\ \A i \in 1..Len(tasks') : i + 1 \in 1..Len(tasks) /\ tasks'[i] = tasks[i + 1]
    <2>1. tasks \in Seq([from : Listeners, state : {"ready", "failed"}])
      BY <1>1 DEF ListenerType
    <2>. QED  BY <1>2, <2>1
  <1>4. ListenerType'
    BY <1>1, <1>2, <1>3 DEF ListenerType
  <1>5. TasksAreTrue'
    BY <1>2, <1>3 DEF ListenerInv, TasksAreTrue
  <1>. DEFINE from == Head(tasks).from
  <1>6. /\ from \in Listeners /\ Head(tasks).state \in {"ready", "failed"}
        /\ Head(tasks).state = "ready" => lstate[from] \in {"ready", "closing", "closed"}
        /\ Head(tasks).state = "failed" => lstate[from] \in {"failed", "closed"}
    BY <1>1, <1>3, TaskType DEF ListenerInv, TasksAreTrue
  <1>7. from # None
    BY <1>6 DEF Listeners, None
  <1>8. OneListener' /\ KnownIsOpen'
    BY <1>1, <1>2, <1>6, <1>7 DEF ListenerInv, OneListener, KnownIsOpen, ListenerType
  <1>. QED  BY <1>1, <1>2, <1>4, <1>5, <1>8 DEF ListenerInv

-------------------------------------------------------------------------------
(* The Chromes. *)

\* Nobody but the app and the Chromes themselves matters to NoOrphanChrome.
LEMMA ChromeSame ==
    ASSUME ChromeType, NoOrphanChrome, UNCHANGED <<app, terminateChromeOnQuit, chromeVars, overlapped>>
    PROVE  ChromeType' /\ NoOrphanChrome'
  BY DEF chromeVars, ChromeType, NoOrphanChrome, Alive

\* stop() tells the Chrome the app knows, if it was launched for the endpoint.
LEMMA ForgetChromeInv ==
    ASSUME ChromeType, NoOrphanChrome, TerminateChrome \/ KeepChrome,
           UNCHANGED <<app, terminateChromeOnQuit, chrome, foreign, overlapped>>
    PROVE  ChromeType' /\ NoOrphanChrome'
  <1>1. CASE TerminateChrome
    BY <1>1 DEF TerminateChrome, ChromeType, NoOrphanChrome, Alive
  <1>2. CASE KeepChrome
    BY <1>2, ChromeSame DEF KeepChrome, chromeVars
  <1>. QED  BY <1>1, <1>2

\* A Chrome that ends, or comes to own the profile, or is noticed to have ended.
LEMMA ChromeStepInv ==
    ASSUME TypeOK, NoOrphanChrome, NEW p \in Chromes,
           ChromeTerminated(p) \/ BecomeBrowser(p) \/ ChromeExits(p)
    PROVE  ChromeType' /\ NoOrphanChrome'
  <1>1. ChromeType /\ UNCHANGED <<app, terminateChromeOnQuit, told, foreign, overlapped>>
    BY TypeParts DEF ChromeTerminated, BecomeBrowser, ChromeExits, settings, history
  <1>2. PICK s \in {"browser", "exited", "gone"} :
            /\ chrome' = [chrome EXCEPT ![p] = s]
            /\ s = "browser" => chrome[p] = "starting"
    BY DEF ChromeTerminated, BecomeBrowser, ChromeExits
  <1>3. chromeProcess' = chromeProcess \/ (chromeProcess = p /\ chromeProcess' = None /\ s # "browser")
    <2>1. CASE ChromeTerminated(p)
      BY <1>1, <1>2, <2>1 DEF ChromeTerminated, ChromeType
    <2>2. CASE BecomeBrowser(p) \/ ChromeExits(p)
      BY <2>2 DEF BecomeBrowser, ChromeExits
    <2>. QED  BY <2>1, <2>2
  <1>4. ChromeType'
    BY <1>1, <1>2, <1>3 DEF ChromeType
  <1>5. /\ chrome'[p] = s /\ \A q \in Chromes \ {p} : chrome'[q] = chrome[q]
    BY <1>1, <1>2 DEF ChromeType
  <1>6. \A q \in Chromes : Alive(q)' => Alive(q) /\ (q = p => s = "browser")
    BY <1>2, <1>5 DEF Alive
  <1>7. NoOrphanChrome'
    BY <1>1, <1>3, <1>6 DEF NoOrphanChrome
  <1>. QED  BY <1>4, <1>7

\* The Chrome of a launch is the one the app knows afterwards.
LEMMA LaunchInv ==
    ASSUME TypeOK, NoOrphanChrome, NEW c \in Callers, Launch(c)
    PROVE  ChromeType' /\ NoOrphanChrome' /\ overlapped' \in BOOLEAN
  <1>1. ChromeType /\ overlapped \in BOOLEAN /\ app = "up"
    BY TypeParts DEF Launch, AppType
  <1>2. PICK p \in Chromes :
            chrome[p] = "unused" /\ chrome' = [chrome EXCEPT ![p] = "starting"] /\ chromeProcess' = p
    BY DEF Launch
  <1>3. /\ overlapped' = (overlapped \/ \E q \in Chromes \ told : Alive(q))
        /\ UNCHANGED <<app, terminateChromeOnQuit, told, foreign>>
    BY DEF Launch, settings
  <1>4. ChromeType' /\ overlapped' \in BOOLEAN
    BY <1>1, <1>2, <1>3 DEF ChromeType
  <1>5. \A q \in Chromes : Alive(q)' => q = p \/ Alive(q)
    BY <1>1, <1>2 DEF ChromeType, Alive
  <1>6. NoOrphanChrome'
    BY <1>1, <1>2, <1>3, <1>5 DEF NoOrphanChrome
  <1>. QED  BY <1>4, <1>6

-------------------------------------------------------------------------------
(* The steps. *)

\* The invariant, part by part, before a step and after it.
LEMMA Parts ==
    ChromeInv <=> /\ ListenerType /\ ListenerInv
                  /\ ChromeType /\ NoOrphanChrome
                  /\ CallType /\ PollsLeft
                  /\ AppType
  BY TypeParts DEF ChromeInv

LEMMA PartsAfter ==
    ASSUME ListenerType', ListenerInv', ChromeType', NoOrphanChrome', CallType', PollsLeft', AppType'
    PROVE  ChromeInv'
  BY DEF ChromeInv, TypeOK, ListenerType, ChromeType, CallType, AppType

LEMMA InitInv == Init => ChromeInv
  <1>. SUFFICES ASSUME Init PROVE ChromeInv
    OBVIOUS
  <1>1. ListenerType /\ ChromeType
    <2>1. /\ lport \in [Listeners -> Ports \cup {0}]
          /\ lstate \in [Listeners -> {"unused", "starting", "ready", "failed", "closing", "closed"}]
          /\ chrome \in [Chromes -> {"unused", "starting", "browser", "exited", "gone"}]
      BY DEF Init
    <2>2. tasks \in Seq([from : Listeners, state : {"ready", "failed"}])
      BY EmptyQueue DEF Init
    <2>3. /\ listener \in Listeners \cup {None} /\ currentPort \in Ports \cup {0}
          /\ chromeProcess \in Chromes \cup {None} /\ told \subseteq Chromes
      BY DEF Init
    <2>4. isRunning \in BOOLEAN /\ token = NoToken /\ foreign \in BOOLEAN
      BY DEF Init
    <2>. QED  BY <2>1, <2>2, <2>3, <2>4 DEF ListenerType, ChromeType
  <1>2. CallType /\ AppType
    <2>1. CallType
      BY BoundAssumption DEF Init, CallType, Waiting
    <2>2. /\ enabled \in BOOLEAN /\ terminateChromeOnQuit \in BOOLEAN
          /\ overtaken \in BOOLEAN /\ disturbed \in BOOLEAN
          /\ renewed \in BOOLEAN /\ overlapped \in BOOLEAN
      BY DEF Init
    <2>3. app \in {"up", "gone"} /\ port \in Ports
      BY DEF Init
    <2>. QED  BY <2>1, <2>2, <2>3 DEF AppType
  <1>3. OneListener /\ KnownIsOpen /\ TasksAreTrue
    BY DEF Init, OneListener, KnownIsOpen, TasksAreTrue
  <1>4. NoOrphanChrome /\ PollsLeft
    BY BoundAssumption DEF Init, NoOrphanChrome, Alive, PollsLeft
  <1>. QED  BY <1>1, <1>2, <1>3, <1>4, Parts DEF ListenerInv

LEMMA ApplyInv ==
    ASSUME ChromeInv, NEW on \in BOOLEAN, NEW q \in Ports, NEW t \in Tokens, Apply(on, q, t)
    PROVE  ChromeInv'
  <1>1. /\ ListenerType /\ ListenerInv /\ ChromeType /\ NoOrphanChrome
        /\ CallType /\ PollsLeft /\ AppType
    BY Parts
  <1>2. /\ UNCHANGED <<app, terminateChromeOnQuit, chrome, foreign, pc, answer, polls, overtaken,
                      overlapped>>
        /\ enabled' = on /\ port' = q
        /\ disturbed' = \/ disturbed
                        \/ on /\ listener' = None
                        \/ on /\ <<on, q>> # <<enabled, port>> /\ \E l \in Listeners : lport[l] = q
        /\ renewed' = (renewed \/ (on /\ listener # None /\ currentPort = q /\ token # t))
    BY DEF Apply, callVars
  <1>3. /\ \/ (Listen(q) \/ StopListener) /\ token' \in {token, t}
           \/ UNCHANGED <<mcpVars, socketVars>>
        /\ TerminateChrome \/ KeepChrome
    BY DEF Apply, Start, Stop
  <1>8. token' \in {token, t} => token' \in Tokens \cup {NoToken}
    BY <1>1 DEF ListenerType
  <1>4. ListenerType' /\ ListenerInv'
    BY <1>1, <1>2, <1>3, <1>8, ListenInv, StopListenerInv, ListenerSame
  <1>5. ChromeType' /\ NoOrphanChrome'
    BY <1>1, <1>2, <1>3, ForgetChromeInv
  <1>6. CallType' /\ PollsLeft'
    BY <1>1, <1>2 DEF CallType, PollsLeft
  <1>7. AppType'
    BY <1>1, <1>2 DEF AppType
  <1>. QED  BY <1>4, <1>5, <1>6, <1>7, PartsAfter

LEMMA QuitInv ==
    ASSUME ChromeInv, Quit
    PROVE  ChromeInv'
  <1>1. /\ ListenerType /\ ListenerInv /\ ChromeType /\ NoOrphanChrome
        /\ CallType /\ PollsLeft /\ AppType
    BY Parts
  <1>2. /\ app' = "gone" /\ terminateChromeOnQuit' \in BOOLEAN
        /\ listener' = None /\ currentPort' = 0 /\ isRunning' = FALSE
        /\ lstate' = [l \in Listeners |-> IF lstate[l] = "unused" THEN "unused" ELSE "closed"]
        /\ tasks' = <<>>
        /\ chrome' = [p \in Chromes |-> IF chrome[p] = "exited" THEN "gone" ELSE chrome[p]]
        /\ pc' = [c \in Callers |-> "idle"]
        /\ answer' = [c \in Callers |-> "none"]
        /\ polls' = [c \in Callers |-> 0]
        /\ UNCHANGED <<enabled, port, token, lport, foreign, overtaken, disturbed, renewed, overlapped>>
    BY DEF Quit, Forget, history
  <1>3. ListenerType'
    <2>1. tasks' \in Seq([from : Listeners, state : {"ready", "failed"}])
      BY <1>2, EmptyQueue
    <2>2. /\ listener' \in Listeners \cup {None} /\ currentPort' \in Ports \cup {0}
          /\ isRunning' \in BOOLEAN /\ token' \in Tokens \cup {NoToken}
          /\ lport' \in [Listeners -> Ports \cup {0}]
      BY <1>1, <1>2 DEF ListenerType
    <2>3. lstate' \in [Listeners -> {"unused", "starting", "ready", "failed", "closing", "closed"}]
      BY <1>2
    <2>. QED  BY <2>1, <2>2, <2>3 DEF ListenerType
  <1>4. ListenerInv'
    BY <1>2 DEF ListenerInv, OneListener, KnownIsOpen, TasksAreTrue
  <1>5. \A p \in Chromes : Alive(p)' => Alive(p) /\ chrome[p] \in {"starting", "browser"}
    BY <1>2 DEF Alive
  <1>6. /\ app = "up"
        /\ \/ terminateChromeOnQuit' /\ TerminateChrome
           \/ ~terminateChromeOnQuit' /\ KeepChrome
    BY DEF Quit
  <1>7. ChromeType'
    BY <1>1, <1>2, <1>6 DEF ChromeType, TerminateChrome, KeepChrome
  <1>8. NoOrphanChrome'
    <2>1. CASE terminateChromeOnQuit' /\ TerminateChrome
      BY <1>1, <1>2, <1>5, <1>6, <2>1 DEF NoOrphanChrome, TerminateChrome
    <2>2. CASE ~terminateChromeOnQuit'
      BY <1>2, <2>2 DEF NoOrphanChrome
    <2>. QED  BY <1>6, <2>1, <2>2
  <1>9. CallType' /\ PollsLeft'
    BY <1>2, BoundAssumption DEF CallType, PollsLeft, Waiting
  <1>10. AppType'
    BY <1>1, <1>2 DEF AppType
  <1>. QED  BY <1>3, <1>4, <1>7, <1>8, <1>9, <1>10, PartsAfter

\* A step that concerns the updates and sockets of the listener alone.
LEMMA SocketStepInv ==
    ASSUME ChromeInv, StateUpdate \/ (\E l \in Listeners : Bind(l) \/ Release(l))
    PROVE  ChromeInv'
  <1>1. TypeOK /\ ListenerInv /\ NoOrphanChrome /\ PollsLeft
    BY DEF ChromeInv
  <1>2. ListenerType' /\ ListenerInv' /\ overtaken' \in BOOLEAN
    BY <1>1, StateUpdateInv, BindInv, ReleaseInv DEF Bind, Release, history, TypeOK
  <1>3. UNCHANGED <<app, settings, chromeVars, callVars, disturbed, renewed, overlapped>>
    BY DEF StateUpdate, Bind, Release, history
  <1>4. ChromeType' /\ NoOrphanChrome'
    BY <1>1, <1>3, ChromeSame, TypeParts DEF settings
  <1>5. CallType' /\ PollsLeft'
    BY <1>1, <1>3, TypeParts DEF callVars, CallType, PollsLeft
  <1>6. AppType'
    BY <1>1, <1>2, <1>3, TypeParts DEF settings, AppType
  <1>. QED  BY <1>2, <1>4, <1>5, <1>6, PartsAfter

\* A step of a Chrome, or of a browser of somebody else.
LEMMA BrowserStepInv ==
    ASSUME ChromeInv,
           \/ \E p \in Chromes : ChromeTerminated(p) \/ BecomeBrowser(p) \/ ChromeExits(p)
           \/ ForeignQuits
    PROVE  ChromeInv'
  <1>1. TypeOK /\ ListenerInv /\ NoOrphanChrome /\ PollsLeft
    BY DEF ChromeInv
  <1>2. UNCHANGED <<app, settings, mcpVars, socketVars, callVars, history>>
    BY DEF ChromeTerminated, BecomeBrowser, ChromeExits, ForeignQuits
  <1>3. ListenerType' /\ ListenerInv'
    BY <1>1, <1>2, ListenerSame, TypeParts DEF history
  <1>4. ChromeType' /\ NoOrphanChrome'
    <2>1. CASE \E p \in Chromes : ChromeTerminated(p) \/ BecomeBrowser(p) \/ ChromeExits(p)
      BY <1>1, <2>1, ChromeStepInv
    <2>2. CASE ForeignQuits
      <3>1. foreign' = FALSE /\ UNCHANGED <<chromeProcess, chrome, told>>
        BY <2>2 DEF ForeignQuits
      <3>2. ChromeType /\ UNCHANGED <<app, terminateChromeOnQuit, overlapped>>
        BY <1>1, <1>2, TypeParts DEF settings, history
      <3>3. ChromeType'
        BY <3>1, <3>2 DEF ChromeType
      <3>4. NoOrphanChrome'
        BY <1>1, <3>1, <3>2 DEF NoOrphanChrome, Alive
      <3>. QED  BY <3>3, <3>4
    <2>. QED  BY <2>1, <2>2
  <1>5. CallType' /\ PollsLeft'
    BY <1>1, <1>2, TypeParts DEF callVars, CallType, PollsLeft
  <1>6. AppType'
    BY <1>1, <1>2, TypeParts DEF settings, history, AppType
  <1>. QED  BY <1>3, <1>4, <1>5, <1>6, PartsAfter

\* A call polls as long as it has polls left.
LEMMA CallVarsInv ==
    ASSUME CallType, PollsLeft, NEW c \in Callers, EnsureChrome(c) \/ CallStep(c)
    PROVE  CallType' /\ PollsLeft'
  <1>1. CASE EnsureChrome(c) \/ Found(c) \/ LaunchFails(c) \/ Launch(c)
    <2>1. /\ \E s \in {"done", "failed"} \cup Waiting : pc' = [pc EXCEPT ![c] = s]
          /\ answer' \in {answer, [answer EXCEPT ![c] = "none"]}
          /\ pc[c] \in {"idle"} \cup Waiting /\ UNCHANGED polls
      BY <1>1 DEF EnsureChrome, Found, LaunchFails, Launch, Return, Waiting
    <2>. QED  BY <2>1 DEF CallType, PollsLeft
  <1>2. CASE CdpGet(c)
    BY <1>2 DEF CdpGet, CallType, PollsLeft
  <1>3. CASE Poll(c)
    <2>1. /\ pc[c] = "polling" /\ answer' = [answer EXCEPT ![c] = "none"]
          /\ polls' = [polls EXCEPT ![c] = polls[c] + 1]
          /\ pc' = IF polls'[c] = MaxPolls THEN [pc EXCEPT ![c] = "failed"] ELSE pc
      BY <1>3 DEF Poll
    <2>2. polls[c] \in 0..MaxPolls /\ polls[c] < MaxPolls
      BY <2>1 DEF CallType, PollsLeft, Waiting
    <2>3. polls[c] + 1 \in 0..MaxPolls /\ polls'[c] = polls[c] + 1
      BY <2>1, <2>2, BoundAssumption DEF CallType
    <2>4. CallType'
      BY <2>1, <2>3 DEF CallType
    <2>5. pc'[c] \in {"idle"} \cup Waiting => polls'[c] < MaxPolls
      BY <2>1, <2>3, BoundAssumption DEF CallType, Waiting
    <2>6. \A d \in Callers \ {c} : pc'[d] = pc[d] /\ polls'[d] = polls[d]
      BY <2>1 DEF CallType
    <2>7. PollsLeft'
      BY <2>5, <2>6 DEF PollsLeft
    <2>. QED  BY <2>4, <2>7
  <1>. QED  BY <1>1, <1>2, <1>3 DEF CallStep

LEMMA CallInv ==
    ASSUME ChromeInv, NEW c \in Callers, EnsureChrome(c) \/ CallStep(c)
    PROVE  ChromeInv'
  <1>1. TypeOK /\ ListenerInv /\ NoOrphanChrome /\ PollsLeft
    BY DEF ChromeInv
  <1>2. UNCHANGED <<app, settings, mcpVars, socketVars, overtaken, disturbed, renewed>>
    BY DEF EnsureChrome, CallStep, CdpGet, Found, LaunchFails, Launch, Poll, Return, history
  <1>3. ListenerType' /\ ListenerInv'
    BY <1>1, <1>2, ListenerSame, TypeParts
  <1>4. CallType' /\ PollsLeft'
    BY <1>1, CallVarsInv, TypeParts
  <1>5. ChromeType' /\ NoOrphanChrome' /\ overlapped' \in BOOLEAN
    <2>1. CASE Launch(c)
      BY <1>1, <2>1, LaunchInv
    <2>2. CASE EnsureChrome(c) \/ CdpGet(c) \/ Found(c) \/ LaunchFails(c) \/ Poll(c)
      <3>1. UNCHANGED <<chromeVars, overlapped>>
        BY <2>2 DEF EnsureChrome, CdpGet, Found, LaunchFails, Poll, Return, history
      <3>. QED  BY <1>1, <1>2, <3>1, ChromeSame, TypeParts DEF settings, AppType
    <2>. QED  BY <2>1, <2>2 DEF CallStep
  <1>6. AppType'
    BY <1>1, <1>2, <1>5, TypeParts DEF settings, AppType
  <1>. QED  BY <1>3, <1>4, <1>5, <1>6, PartsAfter

-------------------------------------------------------------------------------
(* The theorems. *)

LEMMA NextInv == ChromeInv /\ [Next]_vars => ChromeInv'
  <1>. SUFFICES ASSUME ChromeInv, [Next]_vars PROVE ChromeInv'
    OBVIOUS
  <1>1. CASE \E on \in BOOLEAN, q \in Ports, t \in Tokens : Apply(on, q, t)
    BY <1>1, ApplyInv
  <1>2. CASE Quit
    BY <1>2, QuitInv
  <1>3. CASE StateUpdate \/ (\E l \in Listeners : Bind(l) \/ Release(l))
    BY <1>3, SocketStepInv
  <1>4. CASE \E c \in Callers : EnsureChrome(c) \/ CallStep(c)
    BY <1>4, CallInv
  <1>5. CASE \/ \E p \in Chromes : ChromeTerminated(p) \/ BecomeBrowser(p) \/ ChromeExits(p)
             \/ ForeignQuits
    BY <1>5, BrowserStepInv
  <1>6. CASE UNCHANGED vars
    <2>1. UNCHANGED <<app, settings, mcpVars, socketVars, chromeVars, callVars, history>>
      BY <1>6 DEF vars
    <2>2. ListenerType' /\ ListenerInv' /\ ChromeType' /\ NoOrphanChrome'
      BY <2>1, ListenerSame, ChromeSame, Parts DEF settings, history
    <2>3. CallType' /\ PollsLeft' /\ AppType'
      BY <2>1, Parts DEF settings, callVars, history, CallType, PollsLeft, AppType
    <2>. QED  BY <2>2, <2>3, PartsAfter
  <1>. QED  BY <1>1, <1>2, <1>3, <1>4, <1>5, <1>6 DEF Next

LEMMA Invariance == Spec => []ChromeInv
  BY InitInv, NextInv, PTL DEF Spec

\* The endpoint, its sockets, the Chromes and the calls keep their types; no
\* call polls more often than it may.
THEOREM TypeCorrect == Spec => []TypeOK
  BY Invariance, PTL DEF ChromeInv

\* NativeChromeMCP.swift 65-68, 88-128: until an update of a replaced listener
\* is applied, the app shows what its listener does and no other listens, for
\* any number of restarts and any order of the updates.
THEOREM OneListenerCorrect == Spec => []OneListener
  BY Invariance, PTL DEF ChromeInv, ListenerInv

\* LuanMacApp.swift 14-16, NativeChromeMCP.swift 559-565: no Chrome is left
\* behind unless one was launched beside another, for any number of callers.
THEOREM NoOrphanChromeCorrect == Spec => []NoOrphanChrome
  BY Invariance, PTL DEF ChromeInv
================================================================================
