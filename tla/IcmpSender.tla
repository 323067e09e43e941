----------------------------- MODULE IcmpSender -----------------------------
(***************************************************************************)
(* send_ping of lua-apple/icmp_sender.m: a coroutine that is parked until  *)
(* the echo reply comes or ten seconds are over.                           *)
(*                                                                         *)
(* The reply is handled on the run loop of the thread that has sent, the   *)
(* timeout always on the main queue, and both test the same flag before    *)
(* they wake the coroutine.  Every ICMP socket of the process gets every   *)
(* reply.  Run loops, the main queue and the wake-up are external.         *)
(***************************************************************************)
EXTENDS Integers, FiniteSets

CONSTANTS
    Pings,     \* the calls of send_ping
    Numbers,   \* identifier and sequence they ask for, as one number
    TagMod     \* what fits the packet, 2^16 each in the code

ASSUME PingAssumption == Numbers \subseteq Nat /\ TagMod \in Nat \ {0}

Tags == 0..TagMod - 1
Loops == {"main", "worker"}
Idle == <<>>

VARIABLES
    loopOf,    \* the loop whose thread has called send_ping
    tag,       \* ctx->identifier and ctx->sequence
    ctx,       \* none, live or freed
    coro,      \* the coroutine: new, parked, woken or failed
    wakes,     \* how often it was woken
    useCoroutine,
    pinned,    \* _ref_ keeps it from being collected
    attached,  \* its socket is a source of the loop
    inbox,     \* replies the socket holds
    deadline,  \* the timeout is scheduled
    busy,      \* the handler each loop is in, after it has tested the flag
    served,    \* somebody runs the blocks of the main queue
    stale      \* history: the handler has read a freed context

pingVars == <<loopOf, tag, ctx, coro, wakes, useCoroutine, pinned, attached, inbox, deadline, busy, served, stale>>

PingTypeOK ==
    /\ loopOf \in [Pings -> Loops] /\ tag \in [Pings -> Tags]
    /\ ctx \in [Pings -> {"none", "live", "freed"}]
    /\ coro \in [Pings -> {"new", "parked", "woken", "failed"}]
    /\ wakes \in [Pings -> 0..2]
    /\ useCoroutine \in [Pings -> BOOLEAN] /\ pinned \in [Pings -> BOOLEAN]
    /\ attached \in [Pings -> BOOLEAN] /\ inbox \in [Pings -> SUBSET Tags]
    /\ deadline \in [Pings -> BOOLEAN]
    /\ busy \in [Loops -> {Idle} \cup (Pings \X {"reply", "timeout", "free"})]
    /\ served \in BOOLEAN /\ stale \in [Pings -> BOOLEAN]

PingInit ==
    /\ loopOf = [p \in Pings |-> "main"] /\ tag = [p \in Pings |-> 0]
    /\ ctx = [p \in Pings |-> "none"]
    /\ coro = [p \in Pings |-> "new"]
    /\ wakes = [p \in Pings |-> 0]
    /\ useCoroutine = [p \in Pings |-> FALSE] /\ pinned = [p \in Pings |-> FALSE]
    /\ attached = [p \in Pings |-> FALSE] /\ inbox = [p \in Pings |-> {}]
    /\ deadline = [p \in Pings |-> FALSE]
    /\ busy = [l \in Loops |-> Idle]
    /\ served \in BOOLEAN /\ stale = [p \in Pings |-> FALSE]

-------------------------------------------------------------------------------
(* Sending. *)

\* A free loop runs Lua code that calls send_ping.
Calls(p, l, n) ==
    /\ coro[p] = "new" /\ busy[l] = Idle
    /\ loopOf' = [loopOf EXCEPT ![p] = l]
    /\ tag' = [tag EXCEPT ![p] = n % TagMod]

SendPing(p, l, n) ==
    /\ Calls(p, l, n)
    /\ coro' = [coro EXCEPT ![p] = "parked"]
    /\ ctx' = [ctx EXCEPT ![p] = "live"]
    /\ useCoroutine' = [useCoroutine EXCEPT ![p] = TRUE]
    /\ pinned' = [pinned EXCEPT ![p] = TRUE]
    /\ attached' = [attached EXCEPT ![p] = TRUE]
    /\ deadline' = [deadline EXCEPT ![p] = TRUE]
    /\ UNCHANGED <<wakes, inbox, busy, served, stale>>

\* No socket, a bad address, or a packet that is not sent as a whole: the
\* coroutine is released at once and goes on with an error.
SendFails(p, l, n) ==
    /\ Calls(p, l, n)
    /\ coro' = [coro EXCEPT ![p] = "failed"]
    /\ ctx' = [ctx EXCEPT ![p] = "freed"]
    /\ UNCHANGED <<wakes, useCoroutine, pinned, attached, inbox, deadline, busy, served, stale>>

\* An echo reply, to this process or another, reaches every socket.
EchoReply(k) ==
    /\ inbox' = [p \in Pings |-> IF attached[p] THEN inbox[p] \cup {k} ELSE inbox[p]]
    /\ UNCHANGED <<loopOf, tag, ctx, coro, wakes, useCoroutine, pinned, attached, deadline, busy, served, stale>>

-------------------------------------------------------------------------------
(* The handlers: each tests the flag, then clears it and wakes. *)

\* icmp_socket_callback: the reply to another ping is not ours.
ReadReply(p, k) ==
    /\ attached[p] /\ k \in inbox[p]
    /\ busy[loopOf[p]] = Idle
    /\ inbox' = [inbox EXCEPT ![p] = @ \ {k}]
    /\ stale' = [stale EXCEPT ![p] = @ \/ ctx[p] = "freed"]
    /\ busy' = IF k = tag[p] /\ useCoroutine[p] THEN [busy EXCEPT ![loopOf[p]] = <<p, "reply">>] ELSE busy
    /\ UNCHANGED <<loopOf, tag, ctx, coro, wakes, useCoroutine, pinned, attached, deadline, served>>

\* fan_coro_wake and the end of the pin.
Wake(p) ==
    /\ useCoroutine' = [useCoroutine EXCEPT ![p] = FALSE]
    /\ wakes' = [wakes EXCEPT ![p] = @ + 1]
    /\ coro' = [coro EXCEPT ![p] = "woken"]
    /\ pinned' = [pinned EXCEPT ![p] = FALSE]

\* Mutant: the flag is left as it was.
WakeKeepsFlag(p) ==
    /\ busy[loopOf[p]] = <<p, "reply">>
    /\ wakes' = [wakes EXCEPT ![p] = @ + 1]
    /\ coro' = [coro EXCEPT ![p] = "woken"]
    /\ pinned' = [pinned EXCEPT ![p] = FALSE]
    /\ busy' = [busy EXCEPT ![loopOf[p]] = Idle]
    /\ UNCHANGED <<loopOf, tag, ctx, useCoroutine, attached, inbox, deadline, served, stale>>

WakeByReply(p) ==
    /\ busy[loopOf[p]] = <<p, "reply">>
    /\ Wake(p)
    /\ busy' = [busy EXCEPT ![loopOf[p]] = Idle]
    /\ stale' = [stale EXCEPT ![p] = @ \/ ctx[p] = "freed"]
    /\ UNCHANGED <<loopOf, tag, ctx, attached, inbox, deadline, served>>

\* Mutant: the timeout frees the context and wakes nobody.
TimeoutSilent(p) ==
    /\ served /\ deadline[p] /\ busy["main"] = Idle
    /\ deadline' = [deadline EXCEPT ![p] = FALSE]
    /\ busy' = [busy EXCEPT !["main"] = <<p, "free">>]
    /\ UNCHANGED <<loopOf, tag, ctx, coro, wakes, useCoroutine, pinned, attached, inbox, served, stale>>

Timeout(p) ==
    /\ served /\ deadline[p] /\ busy["main"] = Idle
    /\ deadline' = [deadline EXCEPT ![p] = FALSE]
    /\ busy' = [busy EXCEPT !["main"] = <<p, IF useCoroutine[p] THEN "timeout" ELSE "free">>]
    /\ UNCHANGED <<loopOf, tag, ctx, coro, wakes, useCoroutine, pinned, attached, inbox, served, stale>>

WakeByTimeout(p) ==
    /\ busy["main"] = <<p, "timeout">>
    /\ Wake(p)
    /\ busy' = [busy EXCEPT !["main"] = <<p, "free">>]
    /\ UNCHANGED <<loopOf, tag, ctx, attached, inbox, deadline, served, stale>>

\* Mutant: the source stays in the loop.
FreeOnly(p) ==
    /\ busy["main"] = <<p, "free">>
    /\ ctx' = [ctx EXCEPT ![p] = "freed"]
    /\ busy' = [busy EXCEPT !["main"] = Idle]
    /\ UNCHANGED <<loopOf, tag, coro, wakes, useCoroutine, pinned, attached, inbox, deadline, served, stale>>

\* The source is removed from the loop of the main thread only, and the
\* socket is released but not invalidated.
FreeContext(p) ==
    /\ busy["main"] = <<p, "free">>
    /\ attached' = [attached EXCEPT ![p] = @ /\ loopOf[p] # "main"]
    /\ ctx' = [ctx EXCEPT ![p] = "freed"]
    /\ busy' = [busy EXCEPT !["main"] = Idle]
    /\ UNCHANGED <<loopOf, tag, coro, wakes, useCoroutine, pinned, inbox, deadline, served, stale>>

PingStep(p) == WakeByReply(p) \/ Timeout(p) \/ WakeByTimeout(p) \/ FreeContext(p)

PingNext ==
    \/ \E p \in Pings, l \in Loops, n \in Numbers : SendPing(p, l, n) \/ SendFails(p, l, n)
    \/ \E k \in Tags : EchoReply(k)
    \/ \E p \in Pings, k \in Tags : ReadReply(p, k)
    \/ \E p \in Pings : PingStep(p)

\* A handler that has begun ends; a main queue that is served runs its blocks,
\* whatever else its loop has to do.
PingFairness == \A p \in Pings : SF_pingVars(PingStep(p))

PingSpec == PingInit /\ [][PingNext]_pingVars /\ PingFairness

-------------------------------------------------------------------------------
(* Properties. *)

\* icmp_sender.m 193-194, 413-414: the reply and the timeout of a ping sent
\* from the main loop do not both wake its coroutine.
WokenOnce == \A p \in Pings : loopOf[p] = "main" => wakes[p] <= 1

\* icmp_sender.m 385, 248-249, 418-419: whoever sent it, a coroutine that waits
\* is pinned, and it is pinned no longer than it waits.
PinnedWhileParked == \A p \in Pings : pinned[p] <=> coro[p] = "parked"

\* icmp_sender.m 422-430: the context of a ping sent from the main loop is not
\* read any more once the timeout has freed it.
NoStaleContext == \A p \in Pings : stale[p] => loopOf[p] = "worker"

\* icmp_sender.m 409-434: where the main queue is served, a parked coroutine
\* is woken though no reply ever comes.
PingEnds == \A p \in Pings : served /\ coro[p] = "parked" ~> coro[p] = "woken"

\* icmp_sender.m 193-256, 408-420: the two together.
WokenAndUnpinnedOnce == WokenOnce /\ PinnedWhileParked
==============================================================================
