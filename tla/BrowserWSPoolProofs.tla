-------------------------- MODULE BrowserWSPoolProofs --------------------------
(***************************************************************************)
(* Proofs about BrowserWSPool for any calls, endpoints and bounds.         *)
(*                                                                         *)
(* A command returns what Receive takes for its reply, so that this is the *)
(* reply to itself needs two things of all messages under way, however     *)
(* many connections came and went: every reply carries the id its command  *)
(* still has (Owned), and no two commands share one (IdsDiffer).           *)
(***************************************************************************)
EXTENDS BrowserWSPool, TLAPS

\* A call that has been given a connection, and an id with it.
Begun(c) == conn[c] # NoConn

\* That is every call under way, and none that has not started.
HasConn ==
    \A c \in Calls : (InFlight(c) => conn[c] \in Conns) /\ (pc[c] = "ready" => ~Begun(c))

\* Ids are given out once, and never the one that events have.
IdsGivenOut == \A c \in Calls : Begun(c) => 0 < id[c] /\ id[c] <= nextID
IdsDiffer == \A c, d \in Calls : Begun(c) /\ Begun(d) /\ id[c] = id[d] => c = d

\* A reply carries the id of its command, before it is given and after.
Owned(m) == m.call \in Calls /\ Begun(m.call) /\ m.id = id[m.call]

MessagesOwned ==
    \A k \in Conns :
        /\ \A m \in asked[k] : Owned(m)
        /\ \A i \in 1..Len(inbox[k]) : inbox[k][i] = Event \/ Owned(inbox[k][i])

PoolInv ==
    TypeOK /\ GivenUpIsLeft /\ HasConn /\ IdsGivenOut /\ IdsDiffer /\ MessagesOwned
        /\ ReturnsOwnReply

-------------------------------------------------------------------------------
(* Ids and messages. *)

\* A step that starts no command leaves every id with its command.
LEMMA IdsKept ==
    ASSUME PoolInv, UNCHANGED <<nextID, conn, id>>,
           \A c \in Calls :
              (pc'[c] = "ready" => pc[c] = "ready") /\ (InFlight(c)' => InFlight(c))
    PROVE  /\ HasConn' /\ IdsGivenOut' /\ IdsDiffer'
           /\ \A m : Owned(m)' <=> Owned(m)
  <1>1. HasConn'
    BY DEF PoolInv, HasConn, Begun
  <1>2. IdsGivenOut'
    BY DEF PoolInv, IdsGivenOut, Begun
  <1>3. IdsDiffer'
    BY DEF PoolInv, IdsDiffer, Begun
  <1>4. \A m : Owned(m)' <=> Owned(m)
    BY DEF Owned, Begun
  <1>. QED  BY <1>1, <1>2, <1>3, <1>4

\* The head of an inbox is a message, and an event or a reply to its command;
\* so are those behind it.
LEMMA HeadIsOwned ==
    ASSUME PoolInv, NEW k \in Conns, inbox[k] # <<>>
    PROVE  /\ Head(inbox[k]) \in Message
           /\ Head(inbox[k]) = Event \/ Owned(Head(inbox[k]))
           /\ Tail(inbox[k]) \in Seq(Message)
           /\ \A i \in 1..Len(Tail(inbox[k])) :
                 Tail(inbox[k])[i] = Event \/ Owned(Tail(inbox[k])[i])
  <1>1. inbox[k] \in Seq(Message)
    BY DEF PoolInv, TypeOK
  <1>2. /\ Len(inbox[k]) \in Nat /\ 1 \in 1..Len(inbox[k])
        /\ Head(inbox[k]) = inbox[k][1] /\ Head(inbox[k]) \in Message
        /\ Tail(inbox[k]) \in Seq(Message)
        /\ Len(Tail(inbox[k])) = Len(inbox[k]) - 1
        /\ \A i \in 1..Len(Tail(inbox[k])) :
              i + 1 \in 1..Len(inbox[k]) /\ Tail(inbox[k])[i] = inbox[k][i + 1]
    BY <1>1
  <1>. QED  BY <1>2 DEF PoolInv, MessagesOwned

\* A message that is appended is a message of the inbox.
LEMMA AppendIsOwned ==
    ASSUME PoolInv, NEW k \in Conns, NEW m \in Message, m = Event \/ Owned(m)
    PROVE  /\ Append(inbox[k], m) \in Seq(Message)
           /\ \A i \in 1..Len(Append(inbox[k], m)) :
                 Append(inbox[k], m)[i] = Event \/ Owned(Append(inbox[k], m)[i])
  <1>1. inbox[k] \in Seq(Message)
    BY DEF PoolInv, TypeOK
  <1>2. /\ Append(inbox[k], m) \in Seq(Message)
        /\ Len(Append(inbox[k], m)) = Len(inbox[k]) + 1 /\ Len(inbox[k]) \in Nat
        /\ \A i \in 1..Len(inbox[k]) : Append(inbox[k], m)[i] = inbox[k][i]
        /\ Append(inbox[k], m)[Len(inbox[k]) + 1] = m
    BY <1>1
  <1>3. \A i \in 1..(Len(inbox[k]) + 1) : i \in 1..Len(inbox[k]) \/ i = Len(inbox[k]) + 1
    BY <1>2
  <1>. QED  BY <1>2, <1>3 DEF PoolInv, MessagesOwned

\* While the network is not touched, its messages stay those of their commands.
LEMMA MessagesKept ==
    ASSUME PoolInv, UNCHANGED <<asked, inbox>>, \A m : Owned(m) => Owned(m)'
    PROVE  MessagesOwned'
  BY DEF PoolInv, MessagesOwned, Event

-------------------------------------------------------------------------------
(* The steps of a call. *)

LEMMA InitInv == Init => PoolInv
  <1>. SUFFICES ASSUME Init PROVE PoolInv
    OBVIOUS
  <1>1. TypeOK
    BY PoolAssumption DEF Init, TypeOK, Conns, NoConn
  <1>2. HasConn /\ IdsGivenOut /\ IdsDiffer /\ ReturnsOwnReply /\ GivenUpIsLeft
    BY DEF Init, HasConn, IdsGivenOut, IdsDiffer, ReturnsOwnReply, GivenUpIsLeft, Begun, InFlight
  <1>3. MessagesOwned
    BY DEF Init, MessagesOwned
  <1>. QED  BY <1>1, <1>2, <1>3 DEF PoolInv

\* The connection of a command that begins is the pooled one or a new one.
LEMMA PoolAtBegin ==
    ASSUME PoolInv, NEW c \in Calls, NEW url \in Urls, Begin(c, url)
    PROVE  /\ task' \in Conns /\ wsURL' \in Urls
           /\ link' \in [Conns -> {"unused", "open", "broken", "cancelled"}]
           /\ \A k \in Conns : link[k] = "cancelled" /\ task # k =>
                 link'[k] = "cancelled" /\ task' # k
  <1>1. CASE task = NoConn \/ wsURL # url
    <2>1. PICK k \in Conns : Connect(url, k)
      BY <1>1 DEF Begin
    <2>. QED  BY <2>1 DEF Connect, PoolInv, TypeOK
  <1>2. CASE ~(task = NoConn \/ wsURL # url)
    BY <1>2 DEF Begin, PoolInv, TypeOK
  <1>. QED  BY <1>1, <1>2

LEMMA BeginInv ==
    ASSUME PoolInv, NEW c \in Calls, NEW url \in Urls, Begin(c, url)
    PROVE  PoolInv'
  <1>1. /\ pc[c] = "ready" /\ nextID' = nextID + 1
        /\ id' = [id EXCEPT ![c] = nextID + 1]
        /\ conn' = [conn EXCEPT ![c] = task']
        /\ pc' = [pc EXCEPT ![c] = "sending"]
        /\ UNCHANGED <<got, asked, inbox, events>>
    BY DEF Begin
  <1>2. /\ nextID' \in Nat
        /\ id'[c] = nextID + 1 /\ conn'[c] = task' /\ pc'[c] = "sending"
        /\ \A d \in Calls \ {c} : id'[d] = id[d] /\ conn'[d] = conn[d] /\ pc'[d] = pc[d]
        /\ \A d \in Calls : id[d] \in Nat
        /\ nextID \in Nat
    BY <1>1 DEF PoolInv, TypeOK
  <1>3. TypeOK'
    BY <1>1, <1>2, PoolAtBegin DEF PoolInv, TypeOK
  <1>4. GivenUpIsLeft' /\ HasConn'
    <2>1. \A d \in Calls : conn[d] \in Conns \cup {NoConn}
      BY DEF PoolInv, TypeOK
    <2>2. HasConn'
      BY <1>1, <1>2, PoolAtBegin DEF PoolInv, HasConn, InFlight, Begun
    <2>. QED  BY <1>1, <1>2, <2>1, <2>2, PoolAtBegin DEF PoolInv, GivenUpIsLeft
  <1>5. IdsGivenOut'
    BY <1>1, <1>2 DEF PoolInv, IdsGivenOut, Begun
  <1>6. IdsDiffer'
    BY <1>1, <1>2 DEF PoolInv, IdsGivenOut, IdsDiffer, Begun
  <1>7. MessagesOwned'
    <2>1. \A m : Owned(m) => Owned(m)'
      BY <1>1, <1>2 DEF PoolInv, HasConn, Owned, Begun
    <2>. QED  BY <1>1, <2>1, MessagesKept
  <1>8. ReturnsOwnReply'
    BY <1>1, <1>2 DEF PoolInv, ReturnsOwnReply
  <1>. QED  BY <1>3, <1>4, <1>5, <1>6, <1>7, <1>8 DEF PoolInv

\* A call with an endpoint that is none gives up before it has a connection.
LEMMA BeginInvalidInv ==
    ASSUME PoolInv, NEW c \in Calls, NEW url \in BadUrls, BeginInvalid(c, url)
    PROVE  PoolInv'
  <1>1. /\ pc[c] = "ready" /\ pc' = [pc EXCEPT ![c] = "thrown"]
        /\ link' = [k \in Conns |-> IF k = task THEN "cancelled" ELSE link[k]]
        /\ UNCHANGED <<task, wsURL, nextID, conn, id, got, asked, inbox, events>>
    BY DEF BeginInvalid, poolVars
  <1>2. /\ pc' \in [Calls -> {"ready", "sending", "receiving", "returned", "thrown"}]
        /\ \A d \in Calls : pc'[d] = "ready" => pc[d] = "ready"
        /\ \A d \in Calls : InFlight(d)' => InFlight(d)
        /\ \A d \in Calls : pc'[d] = "returned" => pc[d] = "returned"
        /\ \A d \in Calls : pc'[d] = "thrown" => pc[d] = "thrown" \/ d = c
    BY <1>1 DEF PoolInv, TypeOK, InFlight
  <1>3. /\ HasConn' /\ IdsGivenOut' /\ IdsDiffer'
        /\ \A x : Owned(x)' <=> Owned(x)
    BY <1>1, <1>2, IdsKept
  <1>4. TypeOK'
    BY <1>1, <1>2 DEF PoolInv, TypeOK
  <1>5. MessagesOwned'
    BY <1>1, <1>3, MessagesKept
  <1>6. GivenUpIsLeft'
    <2>1. conn[c] = NoConn
      BY <1>1 DEF PoolInv, HasConn, Begun
    <2>2. \A d \in Calls : conn[d] \in Conns \cup {NoConn}
      BY DEF PoolInv, TypeOK
    <2>. QED  BY <1>1, <1>2, <2>1, <2>2 DEF PoolInv, GivenUpIsLeft
  <1>7. ReturnsOwnReply'
    BY <1>1, <1>2 DEF PoolInv, ReturnsOwnReply
  <1>. QED  BY <1>3, <1>4, <1>5, <1>6, <1>7 DEF PoolInv

LEMMA SentInv ==
    ASSUME PoolInv, NEW c \in Calls, Sent(c)
    PROVE  PoolInv'
  <1>. DEFINE m == [id |-> id[c], call |-> c]
  <1>1. /\ pc[c] = "sending" /\ pc' = [pc EXCEPT ![c] = "receiving"]
        /\ asked' = [asked EXCEPT ![conn[c]] = @ \cup {m}]
        /\ UNCHANGED <<task, wsURL, nextID, conn, id, got, link, inbox, events>>
    BY DEF Sent, poolVars
  <1>2. m \in Message /\ conn[c] \in Conns /\ m.call = c /\ m.id = id[c]
    BY <1>1 DEF PoolInv, TypeOK, Message, HasConn, InFlight
  <1>3. /\ pc' \in [Calls -> {"ready", "sending", "receiving", "returned", "thrown"}]
        /\ \A d \in Calls : pc'[d] = "ready" => pc[d] = "ready"
        /\ \A d \in Calls : InFlight(d)' => InFlight(d)
        /\ \A d \in Calls : pc'[d] = "returned" => pc[d] = "returned"
    BY <1>1 DEF PoolInv, TypeOK, InFlight
  <1>4. /\ HasConn' /\ IdsGivenOut' /\ IdsDiffer'
        /\ \A x : Owned(x)' <=> Owned(x)
    BY <1>1, <1>3, IdsKept
  <1>5. TypeOK'
    BY <1>1, <1>2, <1>3 DEF PoolInv, TypeOK
  <1>6. Owned(m)
    BY <1>2 DEF Owned, Begun, Conns, NoConn
  <1>. HIDE DEF m
  <1>7. \A k \in Conns : asked'[k] \in {asked[k], asked[k] \cup {m}}
    BY <1>1, <1>2 DEF PoolInv, TypeOK
  <1>8. MessagesOwned'
    BY <1>1, <1>4, <1>6, <1>7 DEF PoolInv, MessagesOwned, Event
  <1>9. GivenUpIsLeft' /\ ReturnsOwnReply'
    BY <1>1, <1>3 DEF PoolInv, GivenUpIsLeft, ReturnsOwnReply
  <1>. QED  BY <1>4, <1>5, <1>8, <1>9 DEF PoolInv

\* A call that gives up cancels its connection and empties the pool.
LEMMA DropInv ==
    ASSUME PoolInv, NEW c \in Calls, NEW url \in Urls \cup {NoUrl}, InFlight(c), Drop(c, url)
    PROVE  PoolInv'
  <1>1. /\ link' = [link EXCEPT ![conn[c]] = "cancelled"]
        /\ task' = NoConn /\ wsURL' = url
        /\ pc' = [pc EXCEPT ![c] = "thrown"]
        /\ UNCHANGED <<nextID, conn, id, got, asked, inbox, events>>
    BY DEF Drop
  <1>2. /\ pc' \in [Calls -> {"ready", "sending", "receiving", "returned", "thrown"}]
        /\ \A d \in Calls : pc'[d] = "ready" => pc[d] = "ready"
        /\ \A d \in Calls : InFlight(d)' => InFlight(d)
        /\ \A d \in Calls : pc'[d] = "returned" => pc[d] = "returned"
    BY <1>1 DEF PoolInv, TypeOK, InFlight
  <1>3. /\ HasConn' /\ IdsGivenOut' /\ IdsDiffer'
        /\ \A x : Owned(x)' <=> Owned(x)
    BY <1>1, <1>2, IdsKept
  <1>4. TypeOK'
    BY <1>1, <1>2 DEF PoolInv, TypeOK
  <1>5. MessagesOwned'
    BY <1>1, <1>3, MessagesKept
  <1>6. GivenUpIsLeft'
    <2>1. \A d \in Calls : pc'[d] = "thrown" => pc[d] = "thrown" \/ d = c
      BY <1>1 DEF PoolInv, TypeOK
    <2>2. conn[c] \in Conns /\ \A d \in Calls : conn[d] \in Conns \cup {NoConn}
      BY DEF PoolInv, TypeOK, HasConn
    <2>3. \A k \in Conns : link'[k] = IF k = conn[c] THEN "cancelled" ELSE link[k]
      BY <1>1 DEF PoolInv, TypeOK
    <2>. QED  BY <1>1, <2>1, <2>2, <2>3 DEF PoolInv, GivenUpIsLeft
  <1>7. ReturnsOwnReply'
    BY <1>1, <1>2 DEF PoolInv, ReturnsOwnReply
  <1>. QED  BY <1>3, <1>4, <1>5, <1>6, <1>7 DEF PoolInv

\* The id tells a command that a message is the reply to it, and no other.
LEMMA ReceiveInv ==
    ASSUME PoolInv, NEW c \in Calls, Receive(c)
    PROVE  PoolInv'
  <1>. DEFINE k == conn[c]
              m == Head(inbox[k])
  <1>1. /\ pc[c] = "receiving" /\ inbox[k] # <<>>
        /\ inbox' = [inbox EXCEPT ![k] = Tail(@)]
        /\ UNCHANGED <<task, wsURL, nextID, conn, id, link, asked, events>>
    BY DEF Receive, poolVars
  <1>2. k \in Conns
    BY <1>1 DEF PoolInv, HasConn, InFlight
  <1>3. /\ m \in Message /\ (m = Event \/ Owned(m))
        /\ Tail(inbox[k]) \in Seq(Message)
        /\ \A i \in 1..Len(Tail(inbox[k])) :
              Tail(inbox[k])[i] = Event \/ Owned(Tail(inbox[k])[i])
    BY <1>1, <1>2, HeadIsOwned
  <1>4. \/ /\ m.id = id[c]
           /\ pc' = [pc EXCEPT ![c] = "returned"] /\ got' = [got EXCEPT ![c] = m.call]
        \/ UNCHANGED <<pc, got>>
    BY DEF Receive
  <1>. HIDE DEF k, m
  <1>5. m.id = id[c] => m.call = c
    <2>. SUFFICES ASSUME m.id = id[c] PROVE m.call = c
      OBVIOUS
    <2>1. Begun(c) /\ id[c] \in Nat /\ 0 < id[c]
      BY <1>1, <1>2 DEF k, PoolInv, IdsGivenOut, Begun, TypeOK, Conns, NoConn
    <2>2. m # Event
      BY <2>1 DEF Event
    <2>. QED  BY <1>3, <2>1, <2>2 DEF PoolInv, IdsDiffer, Owned
  <1>6. /\ pc' \in [Calls -> {"ready", "sending", "receiving", "returned", "thrown"}]
        /\ got' \in [Calls -> Calls \cup {NoCall}]
        /\ \A d \in Calls : pc'[d] = "ready" => pc[d] = "ready"
        /\ \A d \in Calls : InFlight(d)' => InFlight(d)
        /\ \A d \in Calls : pc'[d] = "returned" => got'[d] = d
        /\ \A d \in Calls : pc'[d] = "thrown" => pc[d] = "thrown"
    <2>1. CASE /\ m.id = id[c] /\ m.call = c
               /\ pc' = [pc EXCEPT ![c] = "returned"] /\ got' = [got EXCEPT ![c] = m.call]
      BY <1>1, <2>1 DEF PoolInv, TypeOK, InFlight, ReturnsOwnReply
    <2>2. CASE UNCHANGED <<pc, got>>
      BY <2>2 DEF PoolInv, TypeOK, InFlight, ReturnsOwnReply
    <2>. QED  BY <1>4, <1>5, <2>1, <2>2
  <1>7. /\ HasConn' /\ IdsGivenOut' /\ IdsDiffer'
        /\ \A x : Owned(x)' <=> Owned(x)
    BY <1>1, <1>6, IdsKept
  <1>8. inbox' \in [Conns -> Seq(Message)]
    BY <1>1, <1>2, <1>3 DEF PoolInv, TypeOK
  <1>9. TypeOK'
    BY <1>1, <1>6, <1>8 DEF PoolInv, TypeOK
  <1>10. \A j \in Conns : inbox'[j] = IF j = k THEN Tail(inbox[k]) ELSE inbox[j]
    BY <1>1, <1>2 DEF PoolInv, TypeOK
  <1>11. MessagesOwned'
    BY <1>1, <1>3, <1>7, <1>10 DEF PoolInv, MessagesOwned, Event
  <1>12. GivenUpIsLeft' /\ ReturnsOwnReply'
    BY <1>1, <1>6 DEF PoolInv, GivenUpIsLeft, ReturnsOwnReply
  <1>. QED  BY <1>7, <1>9, <1>11, <1>12 DEF PoolInv

-------------------------------------------------------------------------------
(* The browser. *)

\* A message that comes in, as an answer or as an event.
LEMMA ArrivalInv ==
    ASSUME PoolInv, NEW k \in Conns, NEW m \in Message, m = Event \/ Owned(m),
           inbox' = [inbox EXCEPT ![k] = Append(@, m)],
           asked' \in {asked, [asked EXCEPT ![k] = @ \ {m}]},
           events' \in 0..MaxEvents,
           UNCHANGED <<poolVars, callVars, link>>
    PROVE  PoolInv'
  <1>1. UNCHANGED <<task, wsURL, nextID, pc, conn, id, got, link>>
    BY DEF poolVars, callVars
  <1>2. /\ HasConn' /\ IdsGivenOut' /\ IdsDiffer'
        /\ \A x : Owned(x)' <=> Owned(x)
    BY <1>1, IdsKept DEF InFlight
  <1>3. /\ Append(inbox[k], m) \in Seq(Message)
        /\ \A i \in 1..Len(Append(inbox[k], m)) :
              Append(inbox[k], m)[i] = Event \/ Owned(Append(inbox[k], m)[i])
    BY AppendIsOwned
  <1>4. /\ inbox' \in [Conns -> Seq(Message)]
        /\ \A j \in Conns : inbox'[j] = IF j = k THEN Append(inbox[k], m) ELSE inbox[j]
    BY <1>3 DEF PoolInv, TypeOK
  <1>5. asked' \in [Conns -> SUBSET Message] /\ \A j \in Conns : asked'[j] \subseteq asked[j]
    BY DEF PoolInv, TypeOK
  <1>6. TypeOK'
    BY <1>1, <1>4, <1>5 DEF PoolInv, TypeOK
  <1>7. MessagesOwned'
    BY <1>2, <1>3, <1>4, <1>5 DEF PoolInv, MessagesOwned, Event
  <1>8. GivenUpIsLeft' /\ ReturnsOwnReply'
    BY <1>1 DEF PoolInv, GivenUpIsLeft, ReturnsOwnReply
  <1>. QED  BY <1>2, <1>6, <1>7, <1>8 DEF PoolInv

LEMMA ReplyInv ==
    ASSUME PoolInv, NEW k \in Conns, NEW m \in asked[k], Reply(k, m)
    PROVE  PoolInv'
  <1>1. m \in Message /\ Owned(m) /\ events \in 0..MaxEvents
    BY DEF PoolInv, TypeOK, MessagesOwned
  <1>. QED  BY <1>1, ArrivalInv DEF Reply

LEMMA SendEventInv ==
    ASSUME PoolInv, NEW k \in Conns, SendEvent(k)
    PROVE  PoolInv'
  <1>1. Event \in Message
    BY DEF Event, Message
  <1>2. events' \in 0..MaxEvents
    BY PoolAssumption DEF SendEvent, PoolInv, TypeOK
  <1>. QED  BY <1>1, <1>2, ArrivalInv DEF SendEvent

LEMMA BreakInv ==
    ASSUME PoolInv, NEW k \in Conns, Break(k)
    PROVE  PoolInv'
  <1>1. /\ link' = [link EXCEPT ![k] = "broken"]
        /\ UNCHANGED <<task, wsURL, nextID, pc, conn, id, got, asked, inbox, events>>
    BY DEF Break, poolVars, callVars
  <1>2. /\ HasConn' /\ IdsGivenOut' /\ IdsDiffer'
        /\ \A x : Owned(x)' <=> Owned(x)
    BY <1>1, IdsKept DEF InFlight
  <1>3. TypeOK' /\ ReturnsOwnReply'
    BY <1>1 DEF PoolInv, TypeOK, ReturnsOwnReply
  <1>5. GivenUpIsLeft'
    <2>1. link[k] = "open" /\ \A j \in Conns : j # k => link'[j] = link[j]
      BY <1>1 DEF Break, PoolInv, TypeOK
    <2>2. \A d \in Calls : conn[d] \in Conns \cup {NoConn}
      BY DEF PoolInv, TypeOK
    <2>. QED  BY <1>1, <2>1, <2>2 DEF PoolInv, GivenUpIsLeft
  <1>4. MessagesOwned'
    BY <1>1, <1>2, MessagesKept
  <1>. QED  BY <1>2, <1>3, <1>4, <1>5 DEF PoolInv

-------------------------------------------------------------------------------
(* The theorems. *)

LEMMA CallStepInv ==
    ASSUME PoolInv, NEW c \in Calls, CallStep(c)
    PROVE  PoolInv'
  <1>1. CASE SendError(c) \/ Timeout(c) \/ TransportError(c)
    <2>1. InFlight(c) /\ (Drop(c, wsURL) \/ Drop(c, NoUrl)) /\ wsURL \in Urls \cup {NoUrl}
      BY <1>1 DEF SendError, Timeout, TransportError, InFlight, PoolInv, TypeOK
    <2>. QED  BY <2>1, DropInv
  <1>. QED  BY <1>1, SentInv, ReceiveInv DEF CallStep

LEMMA NextInv == PoolInv /\ [Next]_vars => PoolInv'
  <1>. SUFFICES ASSUME PoolInv, [Next]_vars PROVE PoolInv'
    OBVIOUS
  <1>1. CASE \E c \in Calls, url \in Urls : Begin(c, url)
    BY <1>1, BeginInv
  <1>6. CASE \E c \in Calls, url \in BadUrls : BeginInvalid(c, url)
    BY <1>6, BeginInvalidInv
  <1>2. CASE \E c \in Calls : CallStep(c)
    BY <1>2, CallStepInv
  <1>3. CASE \E k \in Conns : SendEvent(k) \/ Break(k)
    BY <1>3, SendEventInv, BreakInv
  <1>4. CASE \E k \in Conns : \E m \in asked[k] : Reply(k, m)
    BY <1>4, ReplyInv
  <1>5. CASE UNCHANGED vars
    <2>1. UNCHANGED <<task, wsURL, nextID, pc, conn, id, got, link, asked, inbox, events>>
      BY <1>5 DEF vars, poolVars, callVars, netVars
    <2>2. /\ HasConn' /\ IdsGivenOut' /\ IdsDiffer'
          /\ \A x : Owned(x)' <=> Owned(x)
      BY <2>1, IdsKept DEF InFlight
    <2>3. TypeOK' /\ GivenUpIsLeft' /\ ReturnsOwnReply'
      BY <2>1 DEF PoolInv, TypeOK, GivenUpIsLeft, ReturnsOwnReply
    <2>. QED  BY <2>1, <2>2, <2>3, MessagesKept DEF PoolInv
  <1>. QED  BY <1>1, <1>2, <1>3, <1>4, <1>5, <1>6 DEF Next

LEMMA Invariance == Spec => []PoolInv
  BY InitInv, NextInv, PTL DEF Spec

\* The pool, the calls and the network keep their types.
THEOREM TypeCorrect == Spec => []TypeOK
  BY Invariance, PTL DEF PoolInv

\* NativeChromeMCP.swift 450-452, 496-515: no command is ever given a
\* connection another has given up on, however many calls and connections there
\* are, however they overlap, and whatever endpoints the browser names.
THEOREM GivenUpIsLeftCorrect == Spec => []GivenUpIsLeft
  BY Invariance, PTL DEF PoolInv

\* NativeChromeMCP.swift 472-474, 518-524: a command that returns has the
\* reply to itself, for any number of commands, connections and events.
THEOREM ReturnsOwnReplyCorrect == Spec => []ReturnsOwnReply
  BY Invariance, PTL DEF PoolInv
===============================================================================
