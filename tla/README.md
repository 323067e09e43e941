# LuanMac in TLA+

This directory specifies the concurrent core of LuanMac, the macOS host of the
Luan runtime: the global Lua lock, the luan process, the app that supervises
it, the configuration file the two share, the browser the app launches and
drives, and the C and Objective-C parts around the Lua runtime that have state
or an algorithm of their own. The specifications are checked with TLC on small
instances; the safety of every component that has state is proved with TLAPS for
any number of threads, processes, connections, blocks and so on, and what the
matcher of names, trim, replace, base64 and the checksum compute for strings of
any length.

Every definition is translated from the code under `src/`; `PROJECT.json` maps
each one to its lines. Paths below are relative to `src/`.

## The system

| Part | Code | State | Talks to |
|---|---|---|---|
| Global Lua lock | `lua-apple/luauser.c` | recursive mutex, one-way latch, per-thread depth | every thread that touches the `lua_State`: main event loop, workers |
| lua_State reference count | `lua-apple/luauser.c`, `utlua/core/LuaState.m`, `utlua/caplua.c` | count in the state's extra space | the lock, `lua_close` |
| Lock watchdog | `lua-apple/luauser.c` 287-403 | timer, last packet count | the lock (trylock) |
| luan process | `LuanCLI/main.swift` | document-root lock, signal handlers, keepalive pipe | the app (pipe, signals, exit status), the file, other luan processes |
| Lua bridge | `LuanMac/LuaBridge.m` | one `lua_State`, the event loop | luan process, the lock |
| Service supervisor | `LuanMac/LuaRunner.swift` | `ServiceState`, child, pipe, three tasks | luan process, the views |
| Password reset | `LuanMac/ContentView.swift` 597-680 | one task per settings sheet | supervisor, the service over HTTP |
| Settings | `LuanMac/AppSettings.swift` | settings in memory, `.luanmac.json` | the file, luan process (arguments, environment) |
| Browser WebSocket pool | `LuanMac/NativeChromeMCP.swift` 445-527 | one pooled connection, command ids | browser |
| Native Chrome MCP | `LuanMac/NativeChromeMCP.swift`, `ContentView.swift` 252-259 | listener, its connections, launched Chrome, the tabs of the browser | HTTP clients, Chrome, app lifecycle |
| Runtime directory | `LuanCLI/main.swift` 298-355, `LuanMac/LuaBridge.m` 217-263 | a symbolic link, or a directory, in the document root | file system, other builds |
| ICMP sender | `lua-apple/icmp_sender.m` | one context per ping | run loop, parked coroutine |
| Platform layer | `lua-apple/pal/*` | read callback and flag, paths | packet flow, event loop |
| Allocator, resume | `lua-apple/utlua/caplua.c` | byte counter | Lua |
| Wildcard matcher | `lua-apple/wildcard_matcher.c` | none | Lua |

What is hard in it: threads that share one Lua state around longjmp and a
blocking event loop; processes that are started, stopped, killed and orphaned
while they own a lock and a port; main-actor handlers and background tasks whose
answers come back to a later session; an actor that is re-entered at every
await; a file two programs write without a common lock. `PROJECT.json` lists
each of these hazards at its line with the properties that would catch it.

## Modules

| Module | Models | Run |
|---|---|---|
| `LuaSection` | what the lock promises: one thread inside, no handing over | as a property of `lua_lock` |
| `LuaLock` | `luauser.c` 36-208 | `lua_lock` |
| `LuaLockProofs` | theorems about `LuaLock` | tlapm |
| `LuanCLI` | luan processes on one document root | through `LuaRunner` |
| `LuaRunner` | the supervisor, composed with `LuanCLI` | `runner`, `running_bound` |
| `LuaRunnerProofs` | theorems about `LuanCLI`, `LuaRunner` and `ResetPassword` | tlapm |
| `ResetPassword` | the reset tasks, composed with `LuaRunner` | `runner`, `reset`, `reset_mode` |
| `LuanConfig` | `.luanmac.json` and its two writers | `config`, `secrets_lost`, `port_lost` |
| `LuanConfigProofs` | theorems about `LuanConfig` | tlapm |
| `BrowserWSPool` | the pool, its connections, the browser | `ws_pool`, `replies_lost` |
| `BrowserWSPoolProofs` | theorems about `BrowserWSPool` | tlapm |
| `ChromeManager` | listener, `ensureChrome`, quitting, of `NativeChromeMCP.swift` | `chrome` |
| `ChromeManagerProofs` | theorems about `ChromeManager` | tlapm |
| `McpConnection` | one connection to the MCP endpoint | `native` |
| `BrowserTabs` | `open()` after `ensureChrome` | `native` |
| `RuntimeDir` | the search for the runtime directory, by two programs | `native` |
| `LuaStateRef` | `incrRef`, `decrRef` and their callers | `native` |
| `Watchdog` | `LuaLockWatchdogStart`, on the lock of `LuaStateRef` | `native` |
| `LuaAlloc` | `l_alloc` and `lua_mem_total` | `native` |
| `IcmpSender` | pings, the reply and the timeout | `native` |
| `WildcardMatcher` | `wildcard_matcher.c` | `native` |
| `WildcardProofs` | theorems about `WildcardMatcher` | tlapm |
| `LuaStrings` | trim, replace, base64, the ICMP packet | `native` |
| `LuaStringsProofs` | theorems about `LuaStrings`, and about recursive functions | tlapm |
| `NativeHost` | the nine parts above, one at a time | `native` |
| `NativeHostProofs` | theorems about `NativeHost` and its parts | tlapm |

`MC*` modules give the constants of a specification small values. Definitions
commented "Mutant" are wrong versions of the definition below them; they are not
part of the specification, and show for each property a bug it detects.

### LuaLock

`owner` and `held` are the pthread mutex, `depth` is `lua_lock_depth`, `enabled`
is `g_lua_locking_enabled`. The loops of the code that lock or unlock until a
depth is reached are one step (`SetDepth`): they only give levels back, or wait
for the mutex once and then keep it. Two variables are about the callers: `open` counts the
sections a thread is inside of, and `frames` holds the depths it has saved, for
an event loop (`LuaLockSuspendForLoop`) or for a protected call
(`LuaLockDepthGet`; left by `ReturnFromCall`, or by `LuaLockDepthSet` when a
longjmp abandons its sections).

Two things are taken from how the code is used. `LuaLockEnable` is called by
the worker bootstrap, a C function run by Lua: C functions run outside
`lua_lock`, and the bridge leaves its own section before it resumes the entry
coroutine (`LuaBridge.m` 382), so the main thread has no section open, nor one
saved, at that moment. And the bootstrap creates a worker only after the latch is on
(`luauser.c` 55-58), the guard of `SpawnWorker`. Without either, mutual exclusion
fails: a section entered while the lock was off is invisible to it.

### LuanCLI and LuaRunner

A process goes through `booting` (before its lock), `merging` (lock taken,
signals still kill), `loading` (handlers installed, Lua runs), `serving` (in
the event loop), `closing` and `dead`; `stuck` is Lua code that never returns to
the loop. Death releases lock and port, as the operating system does. The
app's handlers run on the main actor and are one step each. Two are longer: `start()` tries the
document-root lock, gives it back and spawns (`Start`, `ReleaseProbe`, `Spawn`),
with other processes in between, and quitting sleeps between SIGTERM and SIGKILL (`TerminateForAppExit`, `AppExits`).
The health check and the metrics task are two steps each, the answer off the
actor and its application on it, with anything in between, also the end of the
session. Users at a terminal may start and interrupt luan on the same document
root, and the port may belong to another program from the start.

`BreakIsSticky` says whether a break requested before the event loop runs is
remembered by it; the loop is in a submodule that is not part of the repository.
Safety is checked with FALSE, the weaker assumption. The liveness run needs
TRUE: with FALSE an orphan that reads the end of its pipe while still loading
serves for ever, as the listed hazard at `main.swift` 372 says.

### ResetPassword

`performResetPassword` is a task of the settings sheet (`Resets`) that alternates
with everything else at its awaits. `stop()` and `start()` do nothing when their
guards fail, and the task goes on regardless; this is what `CallStop` and
`CallStart` say. Nothing holds others off: the sheet can be dismissed
(`ContentView.swift` 339) while its task runs, `isResetting` belongs to one sheet
(331), so the user starts and stops the service at any time and a second sheet
may begin a reset of its own. A task ends by its normal start (`none`) or gives
up before its stop (`gaveUp`): the service was not seen running, or there is no
URL for the request (`InvalidURL`). The tasks are gone when the app is.

With all this, a stop that finds the service not running, and does nothing, does
not by itself leave it in reset mode: `ResetModeIsHeld` says that as long as the
app holds the pipe of such a service, some reset is still before its stop, or one
has given up. After one that has, the service may stay, and `ResetModeEnds`
fails.

### LuanConfig

A write truncates the file and fills it in two steps, since neither program asks
for an atomic one; another process may read, write or die in between. `jwt`
stands for the secrets both programs know, `ws` for those only luan writes. A
file written by luan alone (kind `cli`) lacks keys the app's decoder needs.
`last`, `chosen` and `disturbed` are history variables and no guard reads them.
`AppSettings.regenerateJWT` and `regenerateActivation` have no caller and are
not modelled; secrets are edited in the sheet (`EditSecret`).

The app starts luan in two ways. `startService` saves first and takes the
environment then (`StartService`, `Started`); the reset takes the environment
(`env`) before empty secrets are generated (`StartForReset`,
`StartedForReset`), so luan may be given none. `ServiceAsSet` therefore speaks of
the secret only when there was one in the environment.

### BrowserWSPool

A Swift actor is free for other calls while one awaits, so a step is the code
between two awaits of `run`, and any number of calls share, replace and drop the
connection. An endpoint that is no URL (`BadUrls`) makes `run` throw after it has
cancelled the pooled connection and before it has another (`BeginInvalid`), so a
cancelled connection may stay pooled under its old address. The next command for
that address fails to send on it and clears the pool; nothing in the code
promises otherwise, so this is listed as a hazard and no property forbids it. `GivenUpIsLeft` is about the connections that
commands gave up on while a reply might still come. The browser answers commands in any order, sends events and breaks
connections.

### ChromeManager

`start()` and `stop()` run on the main actor in one piece; what a listener
reports comes to it as a task (`tasks`) that does not say whose state has
changed, and `StateUpdate` applies it to whatever listener the app knows then. A
cancelled listener keeps its port for a while (`closing`, `Release`). `Apply` is
`applyNativeChromeMCP()` of any view: the token belongs to the `AppSettings` of
that view, which is made anew when the language changes or a second window opens,
and `start()` leaves the listener alone only for the same port and token.
`ensureChrome` is cut at its awaits: the answer of the debug port (`CdpGet`) is
acted upon later (`Found`, `Launch`, `Poll`). The end of a Chrome
(`ChromeExits`) reaches the app as a task too (`ChromeTerminated`). Only one
Chrome at a time is the browser of the profile; the others wait, hand over, or
die.

`overtaken`, `disturbed`, `renewed` and `overlapped` are history variables: an
update of a replaced listener was applied; a port was refused, or taken up a
second time; a listener was replaced for its token alone; a Chrome was launched
while an earlier one ran. They are conditions of the properties, and the hazards
at `NativeChromeMCP.swift` 65, 96 and 546 are that these things happen: without
`overlapped`, `NoOrphanChrome` fails with two overlapping calls, against the
intent in `LuanMacApp.swift` 14-16. `EndpointComesUp` fails without `renewed`: a
second view replaces the listener, the new one is refused the port and nobody
tries again.

### NativeHost and its parts

These nine share no state with each other (only `Watchdog` extends
`LuaStateRef` and takes its lock), so one run checks them all: `Init` chooses
the `part` that runs and the others stay in one initial state. No interleaving
is lost, and no product of independent state spaces is explored.

* `RuntimeDir`. A luan process is a sequence of steps over what is at the
  runtime path: `main.swift` first (remove, link, check), then the bridge. It
  may be killed between any two; between runs the user installs and removes
  builds and deploys a tree. `BuildFindsRuntime` and `RunsOwnRuntime` are
  checked together as `RuntimeIsFound`. They leave open whether the own tree or
  the legacy one comes first.
* `LuaStateRef`. The bridge holds one reference around the run and each
  `caplua_resume` one around its own. `decrRef` is two steps, the decrement
  under the lock and the look at the count without it; what is written to a
  freed count is lost, and what is read from it is anything (`CheckCount`).
  `outlived` says that a resume lasted beyond the reference of the bridge: then
  the second look may see anything, as the hazard at `luauser.c` 259 says, and
  `ClosedWhenUnused` promises nothing.
* `Watchdog`. The handler of the timer, with its polls a step each, and the
  throttling under memory pressure in which it holds the lock itself. Nothing in
  this repository starts it.
* `LuaAlloc`. A request is two steps, since metrics read the total between them
  without a lock. A `size_t` has `Width` values. `lost` adds up what failed
  requests have subtracted for nothing.
* `IcmpSender`. Each loop runs one handler at a time (`busy`); the timeout is
  always on the main queue, the socket on the loop that sent. For a ping of
  another loop reply and timeout run at the same time, so `WokenOnce` and
  `NoStaleContext` speak of pings of the main loop. `TagMod` cuts identifiers as
  the 16 bits do.
* `McpConnection`. The bytes of a client arrive in pieces of any size; a request
  is its number of bytes and what its head says. The head need not be legible,
  and may declare any integer: one that is negative, or too large for an `Int`
  when the head is added (`MaxInt`), ends the whole app (`trapped`), before
  method and token are looked at. A client that stops half-way, or whose head
  never becomes legible, is not timed out: `RequestIsAnswered` speaks of
  legible requests sent in whole and of clients that end, and says which of the
  three ends each has. No document says what such heads should lead to, so
  they are hazards and not findings.
* `BrowserTabs`. A call decides on a list that may be old when it acts.
  `OpensOneTab` holds for calls one after the other (`entwined` and `browsed`
  are histories); with overlapping calls each of its three parts fails.
* `WildcardMatcher`, `LuaStrings`. Functions as written in C, recursive
  functions in the place of loops, against a definition of what they compute:
  `Denotes` for patterns, what undoes or verifies them for the others. A call is
  a state of the run (`call`). A pattern that matches may score less than 0 and is then not chosen:
  `BestIsFirstOfHighest` leaves that case open. Three limits of the matcher are conditions
  of the properties: names longer than the buffers (`MaxLength`) are cut; with `**`
  only soundness holds in general, completeness for a `**` that stands for whole
  labels with no other star; and a name with a star of its own scores like a
  pattern, so `ExactScoresMost` speaks of names without. Of what is compiled,
  the suffix loses its first dot in a name where `**.` stands for no label:
  `*a**.a` matches `aa`. For the others: a replacement can be undone when the
  substitute is not empty and has no character of the text (a shared character
  can make a new occurrence across its border); the needle is never empty, for
  which the loop of the code does not end; and a packet has at most 65536 bytes
  (`MaxSummed`), which the `int32_t` of `in_cksum` can add up whatever they are.

## Runs

| Run | Instance | Shows |
|---|---|---|
| `lua_lock` | 3 threads, 2 nested sections, 2 saved depths, symmetric workers | mirror, counted sections, exclusion, nothing held in the loop, `lua_close` alone, implements `LuaSection` |
| `runner` | 2 processes and 2 overlapping resets, 3 processes as long as none is in reset mode; port free or taken, break not sticky | at most one server per document root; state, child, watcher, pipe and stop timer agree; a service in reset mode has a reset that is to stop it, or one that gave up |
| `reset` | 2 processes, 1 reset, port free, fairness | stop, start, orphan and reset end, whatever the user does meanwhile |
| `config` | 3 starts, 2 ports, up to 3 secrets from the app | a service runs as set; the file holds its secrets; stable without the app |
| `ws_pool` | 3 calls, 2 endpoints and one that is no URL, 3 connections, 1 event | own reply, no connection given up on is used again, every command ends |
| `chrome` | 2 listeners, 2 tokens, 2 ports of which one is taken, 2 calls, 2 Chromes, 1 poll, 3 activities | one listener; an enabled endpoint comes up; no Chrome is orphaned |
| `native` | see below | each part of `NativeHost` |

Bounds. Two sections and two saved depths give a section inside an event loop
inside a protected call, the deepest nesting with a distinct effect; a third
thread lets two workers contend while the main thread waits. Three processes
give a session, its successor and a process started by hand; two give any two of
them, and a reset its two services. With a service in reset mode the third is
left out (`ThirdWithoutResets`). Two resets are enough for one to come between
any two steps of another; that a reset ends is checked for one, beside a user who
can make every call of another reset but the start in reset mode. The theorems
are for any number of processes and resets. Three starts of luan let a value be
saved, overwritten and missed. Three connections let a call fail on an old connection
while the pool holds a newer one; three calls put a bystander on it.

In `chrome`, two listeners and two Chromes give one that is known and one that
was replaced; `MaxActivity` bounds listeners and calls together. In `native`:
two builds, since a link leads to the own build or another; two resumes beside
the bridge, so that two threads may both look at the count; two polls, the first
and the last; two blocks of up to two bytes with one byte of slack and three
lost bytes, so that the total goes below zero; two pings with one bit of
identifier, so that they may be confused; bodies of at most one byte, cut
short, exact and too long, with a negative length and one that overflows; two
tabs, two origins and two addresses of one of them, and nothing begins any more
after an overlap or a change by the user; all patterns
of up to four characters over two cases of a letter, dot and star, with longer
ones for two stars on both sides, against names of up to seven; texts of up to
five characters; packets of up to four bytes, with bytes that carry.

In `ws_pool`, `port_lost`, `chrome` and `native` deadlock is not an error:
calls, starts by hand, listeners and pings run out, the app quits, the watchdog
exits.

Five runs show a disagreement between the code and what it says of itself; the
`findings` quote both sides.

* `running_bound`: any HTTP answer on the port turns `starting` into `running`, also that of another program.
* `reset_mode`: a reset that gives up leaves the service in reset mode.
* `replies_lost`: overlapping commands throw away each other's replies; the sender runs into its timeout and drops the connection.
* `secrets_lost`: the app replaces the secrets luan has persisted.
* `port_lost`: luan without `-p` overwrites the saved port with the default.

Four more are without a run of their own. The first two are conditions of a
property that fails without them, the others are left open by one.

* A reset with empty settings starts the service without the secrets it then
  generates: `ContentView.swift` 612 takes the environment before 614 calls
  `ensureSecretsAndSave`, which `AppSettings.swift` 95 says fills in empty fields
  before the start (`cli.env # Empty` in `ServiceAsSet`).
* A second view replaces the listener on the same port, loses the race for it,
  and the endpoint stays down: `start()` compares a token that each
  `AppSettings` makes for itself, while `AppSettings.swift` 102 says it is made
  once per session, and `NativeChromeMCP.swift` 60-64 why a listener must not be
  replaced so (`renewed` in `EndpointComesUp`).
* The bundle is preferred to a legacy tree (`LuaBridge.m` 229-233, 253-256);
  `LuaBridge.m` 213 has the legacy tree before the bundle (left open by
  `RunsOwnRuntime`).
* A list with a pattern that matches has no best match when the score is below 0,
  as that of `**` is; `wildcard_matcher.h` 86 returns -1 only if none matches
  (left open by `BestIsFirstOfHighest`).

### Fairness

`LuaRunner`'s `Fairness` is weak fairness of what the operating system and the
Swift runtime do by themselves: a process takes its next step, a termination
handler or a task runs, a timer fires. It is per action and per process, so one
process cannot starve another. Not assumed: that Lua returns to its loop (a
child may get `stuck`), that anybody presses a button, that metrics are taken.
The resets' waits are polls on a timer beside calls of the user and of other resets, so their fairness
is strong: the guard of a step may be lost in between, but not each time the task
looks. The next stop is at least the 200 ms of the first health check away, and
the tasks look every 100 ms. In `BrowserWSPool` a call takes its next
step: a send completes or fails, and a receive ends by a message, an error or
its own 20-second timer. That timer restarts with every message, so `CommandEnds`
rests on the bound of the browser's own messages; with an endless stream of
events a command would not end. The browser owes no answer.

`ChromeManager` assumes that the main actor runs its tasks and the system binds
sockets. `HostFairness`: a thread that waits for a lock given back again and
again gets it at last (strong fairness), the timer fires and its handler goes
on; not that Lua code gives the lock back, so `StateIsClosed` has this as its
condition. `PingFairness` is strong since the handlers of a loop take turns; a
main queue that is not `served` owes nothing. `ConnFairness`: bytes that have
arrived are handed over and a handler ends; a client owes nothing.

## Proofs

`LuaLockProofs` proves for every set of threads and all bounds: type
correctness, the mirror (`MirrorCorrect`), the counted sections (`CountCorrect`), exclusion,
`LoopReleases`, `CloseIsAlone`, and that the lock implements `LuaSection`
(`Refinement`). Assumptions: `ThreadAssumption`, `BoundAssumption`.

Exclusion alone is not inductive: a thread that wakes from its loop takes back
what it had saved, so the saved depths must be right, and the sections entered
with the latch off must be accounted for. `LockInv` therefore adds to the types
that depth mirrors mutex, that depth and saved depths count sections, that only
the main thread runs before the latch is on, and that the mutex is initialised
when needed. Steps that move the mutex are instances of `SetDepth`, about which
`SetDepthFacts` and `MutexStepFacts` say all that is used; `PushFrame` and
`PopFrame` do the same for the saved depths. `NextLockInv` combines one lemma
per group of actions.

`LuaRunnerProofs` proves for any set of processes and any settings: type
correctness, `OneServerCorrect` (`OneServer`) and `SessionCorrect`
(`SessionHasChild`). Assumptions: `ProcAssumption`, of which only that processes,
the app and nobody are different things is used, and that `BreakIsSticky` is a
Boolean. Neither property is inductive. `ReleaseProbe` frees the lock without
asking who holds it, so `RunnerInv` adds that a probing app holds it; and
`SessionHasChild` speaks of an app that is up, so `RunnerInv` adds what is left
of a session while the app probes, exits or is gone. `CLIKept` is what each step
of a process guarantees (types, `OneServer`, and the lock stays with the app if
it has it); the handlers of the app follow from it, one lemma each. The proofs
allow `start()` either environment, so they serve `ResetPassword` too.

Its second half adds the tasks of `ResetPassword`, any number of them: `FlowInv` is
`RunnerInv`, the types of the flow, and four facts. The app knows every open pipe
and closes it before it exits (`PipeIsHeld`, `ExitingCloses`), and a start in
reset mode, or the session that came of it, has a reset before its stop or one
that gave up (`StartIsHeld`, `SessionIsHeld`). A reset whose request is under way
counts only while the service runs, when its stop is one; a service that is
starting in reset mode has another reset, the one that polls for it. From these `ResetModeIsHeldCorrect` follows, and `FlowSessionCorrect`:
with the flow interleaved, the two invariants of the supervisor still hold.

`LuanConfigProofs` proves three invariants and `StableWithoutApp` for any ports,
secrets and number of starts. `ConfigInv` has two halves beside the types:
`HandOver`, what an app passes to a process, also from an environment taken
earlier (`ResetTakes`), and what a save that is followed by a start must have, gives `ServiceAsSet`; `Secrets`, which secrets the process, the
last process and the file have, and that nothing reads a file cut short or was
saved by the app before the first disturbance, gives `FileHoldsSecrets`.

`BrowserWSPoolProofs`, for any calls, connections and endpoints. That a command
returns the reply to itself needs the whole life of an identifier: `IdsGivenOut`
and `IdsDiffer` (each is given once), `MessagesOwned` (what a connection holds
carries an identifier of the call that sent it) and `HasConn`. `PoolInv` is their
conjunction with `GivenUpIsLeft` and `ReturnsOwnReply`.

`ChromeManagerProofs`, for any listeners, ports, calls and Chromes. `OneListener`
needs that the listener the app knows is not cancelled (`KnownIsOpen`) and that a
report on its way to the main actor is true of the listener it comes from
(`TasksAreTrue`). `NoOrphanChrome` is inductive as it stands; the bound of the
polls in the types is not, without `PollsLeft`. One assumption is used beside the
types: a call polls at least once.

`NativeHostProofs` proves the eight invariants of the parts with state from one
invariant, `NativeInv`, whose conjuncts belong to one part each; `PartSteps` has
a lemma per part and `NextInv` says that a step of one leaves the others alone.
The parts:

* `HostInv`, from `IsFiniteSet(Resumers)`: the count is the number of holders
  (`CountIsHolders`, by cardinalities), so one that is about to let go keeps the
  state from being closed; `ClosedWhenUnused` adds what threads that look at the
  count may assume (`ClosersAreOut`, `NoStateBefore`, `WithinTheRun`).
  `OffIsIdle` and `WritesAreSeen`: no handler runs before the timer is started,
  and a packet written during the polls is never missed.
* `DirInv`: a link that is being made anew is gone, and there is a tree for it
  (`LinkIsGone`); a build with a tree of its own comes nearer to it with every
  step (`OwnIsNear`). Assumption: `BuildAssumption`.
* `AllocInv`: the total is a sum over all blocks modulo the width, so the proof
  first develops sums over finite sets. There is no induction schema to cite;
  each fact is shown by a smallest finite subset that violates it
  (`SmallestSubset`). `IdleTotal` and `BusyTotal` say what is added while a
  request is half done. Assumptions: `IsFiniteSet(Blocks)`, and that the width
  exceeds all blocks at their largest together with the slack: without that, a
  wrapped total looks like a small one and `TotalIsTrue` does not hold.
* `PingInv`: replies are handled on the loop that sent, timeouts on the main loop
  (`HandlersAtHome`), a ping is flagged exactly while its coroutine is parked
  (`FlagIsParked`), nothing happens to one that was not sent (`QuietUnlessSent`),
  and handlers that have begun have a wake-up left (`WakesLeft`, `MainIsLive`).
* `TabInv`: a call that has neither been overlapped nor been crossed by the user
  acts on the list as it is (`OneAtATime`, `ListIsFresh`). Assumption: a page
  exists (`Pages # {}`).
* `McpConnection` keeps its types; `ProgressSurvives` is a consequence of
  `HostInv`.
* `CallInv`: a call has arguments of the constants. With `NamesAssumption` and
  `StringsAssumption`, that these are strings of characters, packets of bytes and
  words of 16 bits, the theorems of `WildcardProofs` give `WildcardsAsPromised`
  and those of `LuaStringsProofs` give `StringsAreUndone`.

`WildcardProofs` proves, for every pattern and every name of any length, what the
functions of `wildcard_matcher.c` compute. Assumptions: `MaxLength` is at least
1, and `LowerAssumption`: lower case is idempotent and leaves stars and dots
alone. Every step along a string is an argument by a least counterexample, as in
`LuaStringsProofs`, which it extends. From there:

* `SingleLevel`: without `**` the backtracking search and the sets of places of
  `Denotes` agree. The search is described as a set of pairs of places
  (`Search`), the sets as a walk (`Walk`); a pair is found exactly when the end
  can be reached from its place, by stepping over a literal or a run of stars.
* `MatchIsDenoted`: what stands before `**` and after it is searched for with
  the first theorem, and the walk can be continued across the pair of stars,
  also where `**.` stands for nothing.
* `WholeLabelsMatch`: with one `**` the name is split where the walk passes it,
  and each branch of the code finds its half.
* `ExactScores`: a name is shorter than its pattern by no more than the places
  it may pass without a character of its own (`Free`, `WalkIsLong`), the stars
  and the dots after two of them. Scanned from the end, nine of these are paid
  for by each pair of stars and four by each single one (`Paid`, with a slack of
  at most two inside a run of stars), less than the ten and five the score takes.
* `CompiledParts`: every place reached lies behind the prefix, and the suffix is
  walked through last.
* `BestOfPatterns`: the running best is the first of the highest so far.

`LuaStringsProofs` proves what trim, replace, base64 and the checksum compute,
for sequences of any length, with no assumption on a constant. Since no induction
schema can be cited, every step along a sequence is an argument by a least or
greatest counterexample (`LeastNumber`, `GreatestNumber`), and that a function
defined from smaller or from greater arguments exists, without which nothing is
known of its values, is proved from the same (`Recursion`, `RecursionDown`).

* `TrimOfAny`: the first and the last character that is no blank bound the result.
* `ReplacementUndone`: a text is cut into pieces, each up to a needle (`IsPiece`),
  and a rest without one (`IsLast`). From the last piece to the first, the text
  that the replacement leaves is turned back, whatever precedes it
  (`UndoneFrom`), because the substitute begins nowhere but where it was put
  in.
* `DecodingInvertsEncoding`: three bytes and their four digits make the same
  number (`TupleOfBytes`, `TupleOfDigits`), and what is encoded from a place on is
  read as the bytes from there, whatever precedes it (`ReadAs`, `ReadBack`). A
  blank is skipped with the tuple begun as it is (`SkipBlank`).
* `PacketVerifies`: the sum of the words with their bytes turned around is the
  sum of the words times 256, less a multiple of 65535 (`Turned`); folding changes
  nothing but such a multiple, and makes zero of nothing but zero. So the
  checksum, which fills the sum in the order of the machine up to a multiple of
  65535, does so in the order of the network too; the sum is not zero because the
  first byte of a packet is 8.

Liveness (`ResetEnds`, `StopEnds`, `StartEnds`, `OrphanExits`, `CommandEnds`,
`EndpointComesUp`, `HostEnds`, `PingEnds`, `RequestIsAnswered`) is only
model-checked: it needs fairness and ENABLED. Every invariant that a run checks,
and every action property, is stated by a theorem.

## Not modelled, and the plan

The modules planned are written, and the theorems planned are proved. What would
extend the specification: the change of the alphabet by `code()` of `lbase64.c`
(the text then has no digits but those of the table in force), and the settings
of `.luanmac.json` other than the port and the secrets.

Left out, and why:

* Vendored libraries (sqlite, lsqlite, lfs, zlib, time64, uthash): third-party
  code, and by far most of the lines of the repository; `sqlite3.c` alone is
  nine tenths of them.
* The packet loop of the platform layer: `project.yml` 69 defines
  `PAL_NO_TUNNEL`, so it is compiled out of this program.
* Tool calls (`callTool`): one dispatch to the pool or to one request. The
  one-shot WebSocket of `wsCommand` shares nothing with other calls.
* Sampling of CPU and memory: system values and a quotient.
* The second base64, time64, brotli and the digests: conversions without state,
  or bindings of a library. What is modelled of `lbase64.c` and `caplua.c` has
  two conditions: the alphabet is the one the library starts with, which
  `code()` changes for the whole process, and the needle of `str_replace` is not
  empty, since with an empty one its loop does not end.
* Build scripts, assets and view layout, the wording of diagnostics and logs,
  script mode of luan, and a port of 0 (with which the state stays `starting`
  and cannot be stopped; listed as a hazard).
