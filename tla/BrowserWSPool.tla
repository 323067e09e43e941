---------------------------- MODULE BrowserWSPool ----------------------------
(***************************************************************************)
(* The actor BrowserWSPool of LuanMac/NativeChromeMCP.swift: DevTools      *)
(* commands over one persistent WebSocket to the browser.                  *)
(*                                                                         *)
(* A Swift actor runs one piece of code at a time but is free for others   *)
(* whenever a call awaits.  run() awaits its send and each receive, so a   *)
(* step below is the code between two awaits, and several calls may be     *)
(* under way on the same connection.                                       *)
(***************************************************************************)
EXTENDS Integers, Sequences, SequencesExt

CONSTANTS
    Calls,      \* calls of run()
    NoCall,     \* the sender of an event, which answers no call
    Urls,       \* browser endpoints, one per life of the browser
    NoUrl,      \* the empty wsURL
    BadUrls,    \* endpoints that are no URL
    MaxConns,   \* bound: connections made
    MaxEvents   \* bound: events the browser sends of its own accord

ASSUME PoolAssumption ==
    /\ NoCall \notin Calls
    /\ NoUrl \notin Urls /\ BadUrls \cap Urls = {}
    /\ MaxConns \in Nat /\ MaxEvents \in Nat

Conns == 1..MaxConns
NoConn == 0

VARIABLES
    task,     \* the pooled connection, or NoConn
    wsURL,    \* the endpoint it was made for
    nextID,   \* the last command id given out
    pc,       \* where each call is
    conn,     \* the connection a call captured
    id,       \* the id of its command
    got,      \* whose reply it returned
    link,     \* each connection: unused, open, broken by the other side, cancelled
    asked,    \* commands the browser has received and not answered
    inbox,    \* messages on their way back, in order
    events    \* events sent so far

poolVars == <<task, wsURL, nextID>>
callVars == <<pc, conn, id, got>>
netVars == <<link, asked, inbox, events>>
vars == <<poolVars, callVars, netVars>>

\* A message carries the id it answers; events carry none.
Message == [id : Nat, call : Calls \cup {NoCall}]
Event == [id |-> 0, call |-> NoCall]

TypeOK ==
    /\ task \in Conns \cup {NoConn}
    /\ wsURL \in Urls \cup {NoUrl}
    /\ nextID \in Nat
    /\ pc \in [Calls -> {"ready", "sending", "receiving", "returned", "thrown"}]
    /\ conn \in [Calls -> Conns \cup {NoConn}]
    /\ id \in [Calls -> Nat]
    /\ got \in [Calls -> Calls \cup {NoCall}]
    /\ link \in [Conns -> {"unused", "open", "broken", "cancelled"}]
    /\ asked \in [Conns -> SUBSET Message]
    /\ inbox \in [Conns -> Seq(Message)]
    /\ events \in 0..MaxEvents

Init ==
    /\ task = NoConn /\ wsURL = NoUrl /\ nextID = 0
    /\ pc = [c \in Calls |-> "ready"]
    /\ conn = [c \in Calls |-> NoConn]
    /\ id = [c \in Calls |-> 0]
    /\ got = [c \in Calls |-> NoCall]
    /\ link = [k \in Conns |-> "unused"]
    /\ asked = [k \in Conns |-> {}]
    /\ inbox = [k \in Conns |-> <<>>]
    /\ events = 0

InFlight(c) == pc[c] \in {"sending", "receiving"}

-------------------------------------------------------------------------------
(* run(), up to the first await ... *)

\* The next unused connection replaces the pooled one, which is cancelled.
Connect(url, k) ==
    /\ link[k] = "unused" /\ \A j \in Conns : j < k => link[j] # "unused"
    /\ link' = [j \in Conns |-> IF j = k THEN "open"
                                ELSE IF j = task THEN "cancelled" ELSE link[j]]
    /\ task' = k
    /\ wsURL' = url

Begin(c, url) ==
    /\ pc[c] = "ready"
    /\ IF task = NoConn \/ wsURL # url THEN \E k \in Conns : Connect(url, k)
                                       ELSE UNCHANGED <<link, task, wsURL>>
    /\ nextID' = nextID + 1
    /\ id' = [id EXCEPT ![c] = nextID + 1]
    /\ conn' = [conn EXCEPT ![c] = task']
    /\ pc' = [pc EXCEPT ![c] = "sending"]
    /\ UNCHANGED <<got, asked, inbox, events>>

\* The pooled connection is cancelled, and stays, before the endpoint turns
\* out to be none.
BeginInvalid(c, url) ==
    /\ pc[c] = "ready"
    /\ task = NoConn \/ wsURL # url
    /\ link' = [k \in Conns |-> IF k = task THEN "cancelled" ELSE link[k]]
    /\ pc' = [pc EXCEPT ![c] = "thrown"]
    /\ UNCHANGED <<poolVars, conn, id, got, asked, inbox, events>>

\* ... the send ...
Sent(c) ==
    /\ pc[c] = "sending" /\ link[conn[c]] = "open"
    /\ pc' = [pc EXCEPT ![c] = "receiving"]
    /\ asked' = [asked EXCEPT ![conn[c]] = @ \cup {[id |-> id[c], call |-> c]}]
    /\ UNCHANGED <<poolVars, conn, id, got, link, inbox, events>>

\* Mutant: the pool keeps the cancelled connection.
DropKeepsTask(c, url) ==
    /\ link' = [link EXCEPT ![conn[c]] = "cancelled"]
    /\ pc' = [pc EXCEPT ![c] = "thrown"]
    /\ UNCHANGED <<poolVars, conn, id, got, asked, inbox, events>>

\* The connection of the call is cancelled; the pool forgets whichever
\* connection it has by now.
Drop(c, url) ==
    /\ link' = [link EXCEPT ![conn[c]] = "cancelled"]
    /\ task' = NoConn
    /\ wsURL' = url
    /\ pc' = [pc EXCEPT ![c] = "thrown"]
    /\ UNCHANGED <<nextID, conn, id, got, asked, inbox, events>>

SendError(c) == pc[c] = "sending" /\ link[conn[c]] # "open" /\ Drop(c, wsURL)

\* Mutants of Receive: any reply will do; the message is returned, not its result.
ReceiveAny(c) ==
    /\ pc[c] = "receiving" /\ inbox[conn[c]] # <<>> /\ link[conn[c]] # "cancelled"
    /\ inbox' = [inbox EXCEPT ![conn[c]] = Tail(@)]
    /\ pc' = [pc EXCEPT ![c] = "returned"]
    /\ got' = [got EXCEPT ![c] = Head(inbox[conn[c]]).call]
    /\ UNCHANGED <<poolVars, conn, id, link, asked, events>>

ReceiveMessage(c) ==
    /\ pc[c] = "receiving" /\ inbox[conn[c]] # <<>> /\ link[conn[c]] # "cancelled"
    /\ inbox' = [inbox EXCEPT ![conn[c]] = Tail(@)]
    /\ pc' = [pc EXCEPT ![c] = "returned"]
    /\ got' = [got EXCEPT ![c] = Head(inbox[conn[c]])]
    /\ UNCHANGED <<poolVars, conn, id, link, asked, events>>

\* ... and each receive.  A message for somebody else is thrown away.
Receive(c) ==
    /\ pc[c] = "receiving" /\ inbox[conn[c]] # <<>> /\ link[conn[c]] # "cancelled"
    /\ inbox' = [inbox EXCEPT ![conn[c]] = Tail(@)]
    /\ LET m == Head(inbox[conn[c]])
       IN IF m.id = id[c]
          THEN pc' = [pc EXCEPT ![c] = "returned"] /\ got' = [got EXCEPT ![c] = m.call]
          ELSE UNCHANGED <<pc, got>>
    /\ UNCHANGED <<poolVars, conn, id, link, asked, events>>

\* Mutant: a receive without a timer.
NoTimeout(c) == FALSE

\* The timer is that of one receive and may win against a late message.
Timeout(c) == pc[c] = "receiving" /\ Drop(c, NoUrl)

TransportError(c) == pc[c] = "receiving" /\ link[conn[c]] # "open" /\ Drop(c, wsURL)

-------------------------------------------------------------------------------
(* The browser. *)

Reply(k, m) ==
    /\ link[k] = "open" /\ m \in asked[k]
    /\ asked' = [asked EXCEPT ![k] = @ \ {m}]
    /\ inbox' = [inbox EXCEPT ![k] = Append(@, m)]
    /\ UNCHANGED <<poolVars, callVars, link, events>>

SendEvent(k) ==
    /\ link[k] = "open" /\ events < MaxEvents
    /\ inbox' = [inbox EXCEPT ![k] = Append(@, Event)]
    /\ events' = events + 1
    /\ UNCHANGED <<poolVars, callVars, link, asked>>

Break(k) ==
    /\ link[k] = "open"
    /\ link' = [link EXCEPT ![k] = "broken"]
    /\ UNCHANGED <<poolVars, callVars, asked, inbox, events>>

-------------------------------------------------------------------------------
CallStep(c) == Sent(c) \/ SendError(c) \/ Receive(c) \/ Timeout(c) \/ TransportError(c)

Next ==
    \/ \E c \in Calls, url \in Urls : Begin(c, url)
    \/ \E c \in Calls, url \in BadUrls : BeginInvalid(c, url)
    \/ \E c \in Calls : CallStep(c)
    \/ \E k \in Conns : SendEvent(k) \/ Break(k)
    \/ \E k \in Conns : \E m \in asked[k] : Reply(k, m)

\* Sends and receives complete, one way or another; the browser owes nothing.
Spec == Init /\ [][Next]_vars /\ \A c \in Calls : WF_vars(CallStep(c))

-------------------------------------------------------------------------------
(* Properties. *)

\* NativeChromeMCP.swift 450-452, 496-515: a connection a command has given up
\* on, and that may still owe it a reply, is cancelled and never pooled again,
\* so no later command gets it, also when others began on it or made another
\* meanwhile.  (One cancelled for an endpoint that is none may stay pooled.)
GivenUpIsLeft ==
    \A c \in Calls : pc[c] = "thrown" /\ conn[c] # NoConn =>
        link[conn[c]] = "cancelled" /\ task # conn[c]

\* NativeChromeMCP.swift 472-474, 518-524: a command returns the reply to
\* itself, never another command's, also when connections change under it.
ReturnsOwnReply == \A c \in Calls : pc[c] = "returned" => got[c] = c

\* NativeChromeMCP.swift 490-525: every command returns or throws, also one
\* whose reply was lost, once the browser's own messages come to an end.
CommandEnds == \A c \in Calls : InFlight(c) ~> ~InFlight(c)

\* NativeChromeMCP.swift 449-450: commands are serialized by the actor, so a
\* reply that has come is not thrown away while its command waits for it.
ReplyWaiting(c) == \E i \in DOMAIN inbox[conn[c]] : inbox[conn[c]][i].call = c

RepliesReachTheirCommand ==
    [][\A c \in Calls :
         /\ conn[c] # NoConn /\ InFlight(c) /\ InFlight(c)'
         /\ ReplyWaiting(c)
         => ReplyWaiting(c)']_vars
==============================================================================
