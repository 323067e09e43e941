---------------------------- MODULE ChromeManager ----------------------------
(***************************************************************************)
(* NativeChromeMCP of LuanMac/NativeChromeMCP.swift: the loopback listener *)
(* of the MCP endpoint and the Chrome that the app launches for it.        *)
(*                                                                         *)
(* The object lives on the main actor.  What the listener reports, what    *)
(* the DevTools port answers and the end of a Chrome process reach it as   *)
(* tasks, later than they happen and after whatever came in between.       *)
(* Chrome, the sockets and other programs are external.                    *)
(***************************************************************************)
EXTENDS Integers, Sequences, FiniteSets

CONSTANTS
    Tokens,        \* the tokens of the views: each AppSettings makes one of its own
    NoToken,       \* the empty token
    Ports,         \* ports the setting can take
    TakenPorts,    \* those another program listens on
    MaxListeners,  \* bound: listeners created
    Callers,       \* calls of ensureChrome: open(), or a tool call
    MaxChromes,    \* bound: Chrome processes launched
    MaxPolls,      \* 60 in the code
    MaxActivity    \* bound: listeners created and calls begun, together

ASSUME TokenAssumption == NoToken \notin Tokens
ASSUME PortAssumption == Ports \subseteq Nat \ {0} /\ TakenPorts \subseteq Ports
ASSUME BoundAssumption ==
    MaxListeners \in Nat /\ MaxChromes \in Nat /\ MaxPolls \in Nat \ {0} /\ MaxActivity \in Nat

Listeners == 1..MaxListeners
Chromes == 1..MaxChromes
None == 0

VARIABLES
    app,            \* the app is up or gone
    enabled,        \* nativeChromeMCPEnabled, as last applied
    port,           \* nativeChromeMCPPort, as last applied
    terminateChromeOnQuit, \* its value at the end of the app, where it is read
    listener,       \* the listener the app knows, or None
    currentPort,
    isRunning,
    token,          \* the one every request must carry
    lport,          \* the port of each listener
    lstate,         \* what became of it
    tasks,          \* state updates on their way to the main actor, in order
    chromeProcess,  \* the Chrome the app knows, or None
    chrome,         \* what became of each Chrome
    told,           \* the Chromes that were sent SIGTERM
    foreign,        \* a browser of somebody else answers on the debug port
    pc,             \* where each call of ensureChrome is
    answer,         \* what the debug port told it, not yet acted upon
    polls,          \* how often it has polled
    overtaken,      \* history: an update of a replaced listener was applied
    disturbed,      \* history: a port was given up or refused before it was bound
    renewed,        \* history: a listener was replaced for its token alone
    overlapped      \* history: a Chrome was launched while an earlier one ran

settings == <<enabled, port, terminateChromeOnQuit>>
mcpVars == <<listener, currentPort, isRunning, token>>
socketVars == <<lport, lstate, tasks>>
chromeVars == <<chromeProcess, chrome, told, foreign>>
callVars == <<pc, answer, polls>>
history == <<overtaken, disturbed, renewed, overlapped>>
vars == <<app, settings, mcpVars, socketVars, chromeVars, callVars, history>>

Waiting == {"probing", "polling"}

TypeOK ==
    /\ app \in {"up", "gone"}
    /\ enabled \in BOOLEAN /\ port \in Ports /\ terminateChromeOnQuit \in BOOLEAN
    /\ listener \in Listeners \cup {None} /\ currentPort \in Ports \cup {0}
    /\ isRunning \in BOOLEAN /\ token \in Tokens \cup {NoToken}
    /\ lport \in [Listeners -> Ports \cup {0}]
    /\ lstate \in [Listeners -> {"unused", "starting", "ready", "failed", "closing", "closed"}]
    /\ tasks \in Seq([from : Listeners, state : {"ready", "failed"}])
    /\ chromeProcess \in Chromes \cup {None}
    /\ chrome \in [Chromes -> {"unused", "starting", "browser", "exited", "gone"}]
    /\ told \subseteq Chromes /\ foreign \in BOOLEAN
    /\ pc \in [Callers -> {"idle", "done", "failed"} \cup Waiting]
    /\ answer \in [Callers -> {"none", "up", "down"}]
    /\ polls \in [Callers -> 0..MaxPolls]
    /\ {overtaken, disturbed, renewed, overlapped} \subseteq BOOLEAN

Init ==
    /\ app = "up"
    /\ enabled \in BOOLEAN /\ port \in Ports /\ terminateChromeOnQuit = TRUE
    /\ listener = None /\ currentPort = 0 /\ isRunning = FALSE /\ token = NoToken
    /\ lport = [l \in Listeners |-> 0]
    /\ lstate = [l \in Listeners |-> "unused"]
    /\ tasks = <<>>
    /\ chromeProcess = None
    /\ chrome = [p \in Chromes |-> "unused"]
    /\ told = {}
    /\ foreign \in BOOLEAN
    /\ pc = [c \in Callers |-> "idle"]
    /\ answer = [c \in Callers |-> "none"]
    /\ polls = [c \in Callers |-> 0]
    /\ overtaken = FALSE /\ disturbed = FALSE /\ renewed = FALSE /\ overlapped = FALSE

BelowBound ==
    Cardinality({l \in Listeners : lstate[l] # "unused"})
        + Cardinality({c \in Callers : pc[c] # "idle"}) < MaxActivity

-------------------------------------------------------------------------------
(* The listener.  start() and stop() are one piece of code each. *)

\* A cancelled listener releases its port some time later.
Cancelled(l) ==
    [k \in Listeners |->
        IF k # l THEN lstate[k]
        ELSE IF lstate[k] \in {"starting", "ready"} THEN "closing" ELSE "closed"]

NextListener(l) == BelowBound /\ lstate[l] = "unused" /\ \A k \in Listeners : k < l => lstate[k] # "unused"

Forget == listener' = None /\ currentPort' = 0 /\ isRunning' = FALSE

StopListener == Forget /\ lstate' = Cancelled(listener) /\ UNCHANGED <<lport, tasks>>

TerminateChrome ==
    /\ chromeProcess' = None
    /\ told' = told \cup {p \in Chromes : p = chromeProcess /\ chrome[p] \in {"starting", "browser"}}

KeepChrome == UNCHANGED <<chromeProcess, told>>

\* A listener for port q in the place of the one before, or none when the
\* system refuses to create it.
Listen(q) ==
    \/ \E l \in Listeners :
        /\ NextListener(l)
        /\ listener' = l /\ currentPort' = q /\ isRunning' = FALSE
        /\ lport' = [lport EXCEPT ![l] = q]
        /\ lstate' = [Cancelled(listener) EXCEPT ![l] = "starting"]
        /\ UNCHANGED tasks
    \/ StopListener

\* Mutants: start() listens again although it has a listener for the port and
\* the token; it leaves the one before as it is.
StartAgain(q, t) == Listen(q) /\ token' = t /\ KeepChrome

StartBeside(q, t) ==
    /\ IF listener # None /\ currentPort = q /\ token = t THEN UNCHANGED <<mcpVars, socketVars>>
       ELSE /\ \E l \in Listeners :
                 /\ NextListener(l)
                 /\ listener' = l /\ currentPort' = q /\ UNCHANGED isRunning
                 /\ lport' = [lport EXCEPT ![l] = q]
                 /\ lstate' = [lstate EXCEPT ![l] = "starting"]
            /\ token' = t
            /\ UNCHANGED tasks
    /\ KeepChrome

\* Another token is reason enough to cancel the listener and bind the same port.
Start(q, t) ==
    /\ IF listener # None /\ currentPort = q /\ token = t THEN UNCHANGED <<mcpVars, socketVars>>
                                                         ELSE Listen(q) /\ token' = t
    /\ KeepChrome

Stop(killChrome) ==
    /\ StopListener /\ UNCHANGED token
    /\ IF killChrome THEN TerminateChrome ELSE KeepChrome

\* applyNativeChromeMCP() of a view, with what its settings say by then: when it
\* appears, as another one does when the language changes or a window opens,
\* when another document root is chosen, and when one of the two is changed.
Apply(on, q, t) ==
    /\ app = "up"
    /\ IF on THEN Start(q, t) ELSE Stop(TRUE)
    /\ enabled' = on /\ port' = q
    /\ disturbed' = \/ disturbed
                    \/ on /\ listener' = None
                    \/ on /\ <<on, q>> # <<enabled, port>> /\ \E l \in Listeners : lport[l] = q
    /\ renewed' = (renewed \/ (on /\ listener # None /\ currentPort = q /\ token # t))
    /\ UNCHANGED <<app, terminateChromeOnQuit, chrome, foreign, callVars, overtaken, overlapped>>

\* applicationWillTerminate(), the end of the app.
Quit ==
    /\ app = "up"
    /\ app' = "gone"
    /\ Forget
    /\ terminateChromeOnQuit' \in BOOLEAN
    /\ IF terminateChromeOnQuit' THEN TerminateChrome ELSE KeepChrome
    /\ lstate' = [l \in Listeners |-> IF lstate[l] = "unused" THEN "unused" ELSE "closed"]
    /\ tasks' = <<>>
    /\ chrome' = [p \in Chromes |-> IF chrome[p] = "exited" THEN "gone" ELSE chrome[p]]
    /\ pc' = [c \in Callers |-> "idle"]
    /\ answer' = [c \in Callers |-> "none"]
    /\ polls' = [c \in Callers |-> 0]
    /\ UNCHANGED <<enabled, port, token, lport, foreign, history>>

\* stateUpdateHandler: it does not ask whose state has changed.
StateUpdate ==
    /\ app = "up" /\ tasks # <<>>
    /\ tasks' = Tail(tasks)
    /\ overtaken' = (overtaken \/ Head(tasks).from # listener)
    /\ IF Head(tasks).state = "ready" THEN isRunning' = TRUE /\ UNCHANGED <<listener, currentPort>>
       ELSE Forget
    /\ UNCHANGED <<app, settings, token, lport, lstate, chromeVars, callVars>>
    /\ UNCHANGED <<disturbed, renewed, overlapped>>

-------------------------------------------------------------------------------
(* The sockets. *)

Bound(q) ==
    \/ q \in TakenPorts
    \/ \E l \in Listeners : lport[l] = q /\ lstate[l] \in {"ready", "closing"}

\* A listener binds its port, or finds it bound.
Bind(l) ==
    /\ lstate[l] = "starting"
    /\ LET s == IF Bound(lport[l]) THEN "failed" ELSE "ready"
       IN /\ lstate' = [lstate EXCEPT ![l] = s]
          /\ tasks' = IF app = "up" THEN Append(tasks, [from |-> l, state |-> s]) ELSE tasks
    /\ UNCHANGED <<app, settings, mcpVars, lport, chromeVars, callVars, history>>

Release(l) ==
    /\ lstate[l] = "closing"
    /\ lstate' = [lstate EXCEPT ![l] = "closed"]
    /\ UNCHANGED <<app, settings, mcpVars, lport, tasks, chromeVars, callVars, history>>

-------------------------------------------------------------------------------
(* ensureChrome(), at its awaits. *)

Alive(p) == chrome[p] \in {"starting", "browser"}

Serving == foreign \/ \E p \in Chromes : chrome[p] = "browser"

\* open() asks isRunning; a tool call comes over a listener.
EnsureChrome(c) ==
    /\ app = "up"
    /\ pc[c] = "idle" /\ BelowBound
    /\ isRunning \/ \E l \in Listeners : lstate[l] = "ready"
    /\ pc' = [pc EXCEPT ![c] = "probing"]
    /\ UNCHANGED <<app, settings, mcpVars, socketVars, chromeVars, answer, polls, history>>

\* The debug port answers, or refuses; the caller hears of it later.
CdpGet(c) ==
    /\ app = "up"
    /\ pc[c] \in Waiting /\ answer[c] = "none"
    /\ answer' = [answer EXCEPT ![c] = IF Serving THEN "up" ELSE "down"]
    /\ UNCHANGED <<app, settings, mcpVars, socketVars, chromeVars, pc, polls, history>>

Return(c, result) ==
    /\ pc' = [pc EXCEPT ![c] = result]
    /\ answer' = [answer EXCEPT ![c] = "none"]
    /\ UNCHANGED <<app, settings, mcpVars, socketVars, chromeVars, polls, history>>

Found(c) == app = "up" /\ pc[c] \in Waiting /\ answer[c] = "up" /\ Return(c, "done")

\* No executable, or it cannot be run.
LaunchFails(c) == app = "up" /\ pc[c] = "probing" /\ answer[c] = "down" /\ Return(c, "failed")

Launch(c) ==
    /\ app = "up"
    /\ pc[c] = "probing" /\ answer[c] = "down"
    /\ \E p \in Chromes :
        /\ chrome[p] = "unused" /\ \A q \in Chromes : q < p => chrome[q] # "unused"
        /\ chrome' = [chrome EXCEPT ![p] = "starting"]
        /\ chromeProcess' = p
    /\ overlapped' = (overlapped \/ \E q \in Chromes \ told : Alive(q))
    /\ pc' = [pc EXCEPT ![c] = "polling"]
    /\ answer' = [answer EXCEPT ![c] = "none"]
    /\ UNCHANGED <<app, settings, mcpVars, socketVars, told, foreign, polls, overtaken, disturbed, renewed>>

\* Mutant: one poll too many.
PollBeyond(c) ==
    /\ app = "up" /\ pc[c] = "polling" /\ answer[c] = "down"
    /\ answer' = [answer EXCEPT ![c] = "none"]
    /\ polls' = [polls EXCEPT ![c] = @ + 1]
    /\ pc' = IF polls'[c] > MaxPolls THEN [pc EXCEPT ![c] = "failed"] ELSE pc
    /\ UNCHANGED <<app, settings, mcpVars, socketVars, chromeVars, history>>

Poll(c) ==
    /\ app = "up"
    /\ pc[c] = "polling" /\ answer[c] = "down"
    /\ answer' = [answer EXCEPT ![c] = "none"]
    /\ polls' = [polls EXCEPT ![c] = @ + 1]
    /\ pc' = IF polls'[c] = MaxPolls THEN [pc EXCEPT ![c] = "failed"] ELSE pc
    /\ UNCHANGED <<app, settings, mcpVars, socketVars, chromeVars, history>>

\* Mutant: the end of any Chrome makes the app forget the one it knows.
TerminatedAny(p) ==
    /\ app = "up" /\ chrome[p] = "exited"
    /\ chrome' = [chrome EXCEPT ![p] = "gone"]
    /\ chromeProcess' = None
    /\ UNCHANGED <<app, settings, mcpVars, socketVars, told, foreign, callVars, history>>

ChromeTerminated(p) ==
    /\ app = "up"
    /\ chrome[p] = "exited"
    /\ chrome' = [chrome EXCEPT ![p] = "gone"]
    /\ chromeProcess' = IF chromeProcess = p THEN None ELSE chromeProcess
    /\ UNCHANGED <<app, settings, mcpVars, socketVars, told, foreign, callVars, history>>

-------------------------------------------------------------------------------
(* Chrome and the browsers of others. *)

\* One Chrome at a time owns the profile and the debug port.
BecomeBrowser(p) ==
    /\ chrome[p] = "starting" /\ \A q \in Chromes : chrome[q] # "browser"
    /\ chrome' = [chrome EXCEPT ![p] = "browser"]
    /\ UNCHANGED <<app, settings, mcpVars, socketVars, chromeProcess, told, foreign, callVars, history>>

\* Told to, handing over to the browser that owns the profile, closed by the
\* user, or by a crash.
ChromeExits(p) ==
    /\ Alive(p)
    /\ chrome' = [chrome EXCEPT ![p] = IF app = "up" THEN "exited" ELSE "gone"]
    /\ UNCHANGED <<app, settings, mcpVars, socketVars, chromeProcess, told, foreign, callVars, history>>

ForeignQuits ==
    /\ foreign
    /\ foreign' = FALSE
    /\ UNCHANGED <<app, settings, mcpVars, socketVars, chromeProcess, chrome, told, callVars, history>>

-------------------------------------------------------------------------------
CallStep(c) == CdpGet(c) \/ Found(c) \/ LaunchFails(c) \/ Launch(c) \/ Poll(c)

Next ==
    \/ \E on \in BOOLEAN, q \in Ports, t \in Tokens : Apply(on, q, t)
    \/ Quit \/ StateUpdate
    \/ \E l \in Listeners : Bind(l) \/ Release(l)
    \/ \E c \in Callers : EnsureChrome(c) \/ CallStep(c)
    \/ \E p \in Chromes : ChromeTerminated(p) \/ BecomeBrowser(p) \/ ChromeExits(p)
    \/ ForeignQuits

\* The main actor runs its tasks and the system binds sockets.
Fairness ==
    /\ WF_vars(StateUpdate)
    /\ \A l \in Listeners : WF_vars(Bind(l))

Spec == Init /\ [][Next]_vars /\ Fairness

-------------------------------------------------------------------------------
(* Properties. *)

\* NativeChromeMCP.swift 65-68, 88-128: the app has a port exactly while it
\* knows a listener.  As long as no update of a replaced listener was applied,
\* only the one it knows can accept requests, and it is shown as running only
\* when it has been bound.
OneListener ==
    /\ listener = None <=> currentPort = 0
    /\ ~overtaken =>
        /\ \A l \in Listeners : lstate[l] \in {"starting", "ready"} => l = listener
        /\ isRunning => listener # None /\ lstate[listener] = "ready"

Wanted(q) == app = "up" /\ enabled /\ port = q

\* NativeChromeMCP.swift 60-65: an enabled endpoint comes up, however often the
\* view appears again, when its port is free, was not given up before, and no
\* other view has come with a token of its own: that one replaces the listener
\* and may be refused the port.
EndpointComesUp ==
    \A q \in Ports \ TakenPorts :
        Wanted(q) /\ listener # None ~> isRunning \/ overtaken \/ disturbed \/ renewed \/ ~Wanted(q)

\* LuanMacApp.swift 14-16, NativeChromeMCP.swift 559-565: unless a Chrome was
\* launched while an earlier one ran, every Chrome the app has launched is one
\* it still knows or has told to end, and none is left behind on quitting.
NoOrphanChrome ==
    ~overlapped =>
        \A p \in Chromes : Alive(p) =>
            \/ p \in told
            \/ app = "up" /\ p = chromeProcess
            \/ app = "gone" /\ ~terminateChromeOnQuit
==============================================================================
