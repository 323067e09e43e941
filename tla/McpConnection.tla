---------------------------- MODULE McpConnection ----------------------------
(***************************************************************************)
(* One connection to the MCP endpoint of LuanMac/NativeChromeMCP.swift:    *)
(* accept(), process(), handleRequest() and reply().  The request arrives  *)
(* in pieces of any size, each handed over to the main actor before the    *)
(* next is asked for; it is handled once its head and as many bytes as the *)
(* head declares are there.  The client is external, and may send a head   *)
(* that is no request, or declare a length that nothing can have.          *)
(***************************************************************************)
EXTENDS Integers

CONSTANTS
    HeadLength,   \* bytes up to the empty line
    BodyLengths,  \* bytes that clients send after it
    Declared,     \* lengths that they declare: whatever Int() reads
    MaxInt        \* the largest Int

ASSUME LengthAssumption ==
    /\ HeadLength \in Nat \ {0} /\ BodyLengths \subseteq Nat
    /\ Declared \subseteq Int /\ MaxInt \in Nat

Kinds == {"call", "notification", "no method"}

\* What a client sends; the bytes after the head are those of the body, and a
\* body that is cut short is no JSON.  A head is legible when it is UTF-8 and its
\* first line has a method and a path.
Messages == [legible : BOOLEAN, post : BOOLEAN, bearer : BOOLEAN,
             declared : Declared, body : BodyLengths, kind : Kinds]

VARIABLES
    message,   \* the request
    sent,      \* bytes the client has sent
    half,      \* the client has ended its side
    got,       \* length of the buffer
    conn,      \* reading, handling, replying, answered or cancelled, or trapped
               \* with the whole app
    status     \* of the reply, 0 before

connVars == <<message, sent, half, got, conn, status>>

Length(m) == HeadLength + m.body

ConnTypeOK ==
    /\ message \in Messages
    /\ sent \in 0..Length(message) /\ got \in 0..sent /\ half \in BOOLEAN
    /\ conn \in {"reading", "handling", "replying", "answered", "cancelled", "trapped"}
    /\ status \in {0, 200, 204, 400, 401, 405}

ConnInit ==
    /\ message \in Messages
    /\ sent = 0 /\ half = FALSE /\ got = 0
    /\ conn = "reading" /\ status = 0

Send(n) ==
    /\ ~half
    /\ sent + n <= Length(message) /\ sent' = sent + n
    /\ UNCHANGED <<message, half, got, conn, status>>

EndSending == ~half /\ half' = TRUE /\ UNCHANGED <<message, sent, got, conn, status>>

\* Mutant: the head is enough.
ParsedHead(n) == message.legible /\ n >= HeadLength

ParseHTTP(n) == message.legible /\ n >= HeadLength /\ n >= HeadLength + message.declared

\* The end of the body is added up and cut out without a check: it may be more
\* than any Int, or before the beginning.
Countable == message.declared \in 0..(MaxInt - HeadLength)

Traps(n) == message.legible /\ n >= HeadLength /\ ~Countable

\* What is cut out of n bytes as the body is the JSON the client meant.
IsJson(n) == message.declared = message.body /\ message.body > 0 /\ n >= Length(message)

Process(n) ==
    LET early == IF ~message.post THEN 405
                 ELSE IF ~message.bearer THEN 401
                 ELSE IF ~IsJson(n) THEN 400 ELSE 0
    IN /\ status' = early
       /\ conn' = IF early = 0 THEN "handling" ELSE "replying"

\* A piece of what was sent and not yet read, with the end if it is the last.
Receive(n) ==
    /\ conn = "reading"
    /\ got' = got + n /\ got' <= sent
    /\ LET complete == half /\ got' = sent
       IN /\ n > 0 \/ complete
          /\ \/ Traps(got') /\ conn' = "trapped" /\ UNCHANGED status
             \/ ~Traps(got') /\ ParseHTTP(got') /\ Process(got')
             \/ /\ ~Traps(got') /\ ~ParseHTTP(got')
                /\ conn' = (IF complete THEN "cancelled" ELSE "reading") /\ UNCHANGED status
    /\ UNCHANGED <<message, sent, half>>

\* A reset of the connection: an error, and no data after what was read.
ReceiveError ==
    /\ conn = "reading"
    /\ half' = TRUE
    /\ conn' = "cancelled"
    /\ UNCHANGED <<message, sent, got, status>>

HandleRequest ==
    /\ conn = "handling"
    /\ status' = CASE message.kind = "no method" -> 400
                   [] message.kind = "notification" -> 204
                   [] OTHER -> 200
    /\ conn' = "replying"
    /\ UNCHANGED <<message, sent, half, got>>

Reply == conn = "replying" /\ conn' = "answered" /\ UNCHANGED <<message, sent, half, got, status>>

ContentProcessed == conn = "answered" /\ conn' = "cancelled" /\ UNCHANGED <<message, sent, half, got, status>>

ConnNext ==
    \/ \E n \in 1..Length(message) : Send(n)
    \/ EndSending
    \/ \E n \in 0..Length(message) : Receive(n)
    \/ ReceiveError \/ HandleRequest \/ Reply \/ ContentProcessed

\* What has arrived is handed over, and a handler, once begun, ends.
ConnFairness ==
    /\ WF_connVars(\E n \in 0..Length(message) : Receive(n))
    /\ WF_connVars(HandleRequest \/ Reply \/ ContentProcessed)

ConnSpec == ConnInit /\ [][ConnNext]_connVars /\ ConnFairness

-------------------------------------------------------------------------------
(* Properties. *)

\* What the request deserves, however it is cut into pieces.
Deserved ==
    IF ~message.post THEN 405
    ELSE IF ~message.bearer THEN 401
    ELSE IF message.declared # message.body \/ message.body = 0 \/ message.kind = "no method" THEN 400
    ELSE IF message.kind = "notification" THEN 204 ELSE 200

Whole == HeadLength + message.declared

\* The request is there, as far as the client means to send it.
SentWhole == message.legible /\ sent >= HeadLength /\ (Countable => sent >= Whole)

\* NativeChromeMCP.swift 193-285: once all declared bytes were sent, or the
\* client has ended, the connection ends: with the status the request deserves
\* as a whole; without an answer if the client ended before the whole was read,
\* or if the head never was a request; and with the app itself when the length
\* is negative or too large to add up.  A client whose head is no request, or
\* who does not go on, is waited for without a limit.
RequestIsAnswered ==
    half \/ SentWhole
        ~> \/ conn = "cancelled" /\ message.legible /\ Countable /\ status = Deserved
           \/ conn = "cancelled" /\ status = 0 /\ (message.legible /\ Countable => got < Whole)
           \/ conn = "trapped" /\ message.legible /\ ~Countable
==============================================================================
