----------------------------- MODULE NativeHost -----------------------------
(***************************************************************************)
(* The parts around the Lua runtime, for model checking: the search for    *)
(* its modules, the reference count with the watchdog, the allocator, the  *)
(* ICMP sender, a connection to the MCP endpoint, the tabs of the browser  *)
(* and the functions that Lua calls.  They share no state, so one of them  *)
(* is chosen first and the others stay as they are.                        *)
(***************************************************************************)
EXTENDS RuntimeDir, Watchdog, LuaAlloc, IcmpSender, McpConnection, BrowserTabs,
        WildcardMatcher, LuaStrings

CONSTANTS
    Patterns, Hosts, PatternLists,    \* names to match
    Texts, Needles, Substitutes,      \* strings to trim and to replace in
    Packets,                          \* strings to encode
    Identifiers                       \* identifiers and sequence numbers

\* Patterns and names are strings of the characters of Lower.
ASSUME NamesAssumption ==
    /\ Patterns \subseteq Seq(DOMAIN Lower)
    /\ Hosts \subseteq Seq(DOMAIN Lower)
    /\ PatternLists \subseteq Seq(Seq(DOMAIN Lower))

\* Strings of characters, where the needle to replace is not empty, and packets
\* of bytes.
ASSUME StringsAssumption ==
    /\ Texts \subseteq Seq(STRING)
    /\ Needles \subseteq Seq(STRING) \ {<<>>}
    /\ Substitutes \subseteq Seq(STRING)
    /\ Packets \subseteq Seq(Bytes)
    /\ Identifiers \subseteq UInt16

VARIABLES
    part,    \* the part that runs
    call     \* the call of a function that returns next, or NoCall

vars == <<dirVars, hostVars, allocVars, pingVars, connVars, tabVars, part, call>>

NoCall == [of |-> "nothing"]

Init ==
    /\ part \in {"runtime", "state", "memory", "icmp", "connection", "tabs", "functions"}
    /\ DirInit /\ HostInit /\ AllocInit /\ PingInit /\ ConnInit /\ TabInit
    /\ part # "runtime" => runtime = "absent" /\ hasSource = {} /\ ~hasLegacy /\ build = CHOOSE b \in Builds : TRUE
    /\ part # "icmp" => served
    /\ part # "connection" => message = CHOOSE m \in Messages : TRUE
    /\ part # "tabs" => tab = NoTabs
    /\ call = NoCall

Call(c) ==
    /\ call' = c
    /\ UNCHANGED <<dirVars, hostVars, allocVars, pingVars, connVars, tabVars, part>>

CallMatch == \E p \in Patterns, h \in Hosts : Call([of |-> "match", pattern |-> p, host |-> h])
CallBest == \E l \in PatternLists, h \in Hosts : Call([of |-> "best", patterns |-> l, host |-> h])
CallTrim == \E s \in Texts : Call([of |-> "trim", text |-> s])
CallReplace ==
    \E s \in Texts, p \in Needles, by \in Substitutes :
        Call([of |-> "replace", text |-> s, needle |-> p, by |-> by])
CallEncode == \E s \in Packets, k \in 0..8 : Call([of |-> "encode", bytes |-> s, blankAt |-> k])
CallPacket ==
    \E i \in Identifiers, q \in Identifiers, d \in Packets :
        Call([of |-> "packet", identifier |-> i, sequence |-> q, data |-> d])

Return ==
    /\ call # NoCall
    /\ call' = NoCall
    /\ UNCHANGED <<dirVars, hostVars, allocVars, pingVars, connVars, tabVars, part>>

Next ==
    \/ /\ part = "runtime" /\ DirNext
       /\ UNCHANGED <<hostVars, allocVars, pingVars, connVars, tabVars, part, call>>
    \/ /\ part = "state" /\ HostNext
       /\ UNCHANGED <<dirVars, allocVars, pingVars, connVars, tabVars, part, call>>
    \/ /\ part = "memory" /\ AllocNext
       /\ UNCHANGED <<dirVars, hostVars, pingVars, connVars, tabVars, part, call>>
    \/ /\ part = "icmp" /\ PingNext
       /\ UNCHANGED <<dirVars, hostVars, allocVars, connVars, tabVars, part, call>>
    \/ /\ part = "connection" /\ ConnNext
       /\ UNCHANGED <<dirVars, hostVars, allocVars, pingVars, tabVars, part, call>>
    \/ /\ part = "tabs" /\ TabNext
       /\ UNCHANGED <<dirVars, hostVars, allocVars, pingVars, connVars, part, call>>
    \/ /\ part = "functions" /\ call = NoCall
       /\ CallMatch \/ CallBest \/ CallTrim \/ CallReplace \/ CallEncode \/ CallPacket
    \/ Return

\* In its initial state a part has nothing to be fair about.
Spec == Init /\ [][Next]_vars /\ HostFairness /\ PingFairness /\ ConnFairness

-------------------------------------------------------------------------------
(* Properties of the functions. *)

Fits(s) == Len(s) <= MaxLength

\* wildcard_matcher.c 242-287: without "**" and within the lengths of the
\* buffers, the search with backtracking finds exactly the names that the
\* pattern denotes.
SingleLevelIsGlob ==
    call.of = "match" /\ DoubleStarAt(call.pattern) = {} /\ Fits(call.pattern) /\ Fits(call.host)
        => (WildcardMatch(call.pattern, call.host) <=> Denotes(call.pattern, call.host))

\* wildcard_matcher.c 144-224: with "**" no name is matched that the pattern
\* does not denote, whatever stands before and after it.
MultiLevelIsSound ==
    call.of = "match" /\ Fits(call.pattern) /\ Fits(call.host) /\ WildcardMatch(call.pattern, call.host)
        => Denotes(call.pattern, call.host)

\* A single "**" that stands for whole labels, with no other star.
WholeLabels(p) ==
    /\ Cardinality(Stars(p)) = 2 /\ DoubleStarAt(p) # {}
    /\ LET i == Least(DoubleStarAt(p))
       IN (i > 1 => p[i - 1] = ".") /\ (i + 2 <= Len(p) => p[i + 2] = ".")

\* wildcard_matcher.c 167-218: such a pattern matches every name it denotes,
\* also with no label in the place of "**".
WholeLabelsAreMatched ==
    call.of = "match" /\ WholeLabels(call.pattern) /\ Fits(call.pattern) /\ Fits(call.host)
        => (Denotes(call.pattern, call.host) => WildcardMatch(call.pattern, call.host))

\* wildcard_matcher.c 289-318: the name itself scores more than any pattern
\* with a star that matches it, so an exact entry is always preferred.
ExactScoresMost ==
    call.of = "match" /\ Fits(call.pattern) /\ Fits(call.host) /\ ~HasStar(call.host)
    /\ WildcardMatch(call.pattern, call.host) /\ ~SameName(call.pattern, call.host)
        => CalculatePatternScore(call.pattern) < CalculatePatternScore(call.host)

\* wildcard_matcher.c 375-408: every name matched begins with what is compiled
\* before the first star and ends, after that, with what is compiled after the
\* last, less the first dot where "**." stands for nothing.
CompiledPartsHold ==
    call.of = "match" /\ Fits(call.pattern) /\ Fits(call.host)
    /\ WildcardMatch(call.pattern, call.host) /\ HasStar(call.pattern)
        => LET c == CompilePattern(call.pattern)
           IN /\ StartsWith(call.host, c.prefix)
              /\ \/ /\ EndsWith(call.host, c.suffix)
                    /\ Len(c.prefix) + Len(c.suffix) <= Len(call.host)
                 \/ /\ c.type = "mixed" /\ c.suffix # <<>> /\ Head(c.suffix) = "."
                    /\ EndsWith(call.host, Tail(c.suffix))
                    /\ Len(c.prefix) + Len(c.suffix) - 1 <= Len(call.host)

\* wildcard_matcher.c 320-335: a choice is the first of the patterns that match
\* with the highest score; without one, whatever matches scores below 0.
\* wildcard_matcher.h 86 promises a choice for those too, the code makes none;
\* that case is left open.
BestIsFirstOfHighest ==
    call.of = "best" =>
        LET best == FindBestWildcardMatch(call.host, call.patterns)
            Score(i) == CalculatePatternScore(call.patterns[i])
            matching == {i \in 1..Len(call.patterns) : WildcardMatch(call.patterns[i], call.host)}
        IN IF best = 0 THEN \A i \in matching : Score(i) < 0
           ELSE /\ best \in matching
                /\ \A i \in matching : Score(i) < Score(best) \/ (Score(i) = Score(best) /\ best <= i)

\* caplua.c 77-90: only blanks are cut off, and all of them.
TrimIsMaximal ==
    call.of = "trim" =>
        LET s == call.text
            r == StrTrim(s)
        IN /\ r # <<>> => r[1] # Space /\ r[Len(r)] # Space
           /\ \E i \in 0..Len(s), k \in 0..Len(s) :
                /\ i + Len(r) + k = Len(s)
                /\ SubSeq(s, i + 1, i + Len(r)) = r
                /\ \A m \in 1..Len(s) : m <= i \/ m > Len(s) - k => s[m] = Space

\* caplua.c 114-142: a substitute of other characters than the text has can be
\* replaced by the needle again, as often, and gives the text back; the needle
\* is left nowhere.
ReplaceIsUndone ==
    call.of = "replace" /\ call.by # <<>> /\ Strange(call.by, call.text) =>
        LET there == StrReplace(call.text, call.needle, call.by)
            back == StrReplace(there.text, call.by, call.needle)
        IN /\ back = [text |-> call.text, n |-> there.n]
           /\ LMemFind(there.text, 1, call.needle) = 0

\* lbase64.c 35-50, 77-115: decoding an encoded string gives it back, with a
\* line break anywhere in the text.
DecodeInvertsEncode ==
    call.of = "encode" =>
        LET text == LEncode(call.bytes)
            k == IF call.blankAt > Len(text) THEN Len(text) ELSE call.blankAt
        IN /\ Len(text) % 4 = 0
           /\ LDecode(SubSeq(text, 1, k) \o <<Whitespace>> \o SubSeq(text, k + 1, Len(text)))
                 = [ok |-> TRUE, bytes |-> call.bytes]

\* icmp_sender.m 77-115, 259-279: whoever adds the words of a packet in network
\* order, the checksum with them, gets all ones, for an odd payload too, and
\* for any that in_cksum can add up without overflow.
ChecksumVerifies ==
    call.of = "packet" /\ 8 + Len(call.data) <= MaxSummed =>
        Folded(WordSum(CreateIcmpPacket(call.identifier, call.sequence, call.data), BigEndian)) = 65535

-------------------------------------------------------------------------------
(* What a run checks of all parts, and of the functions. *)

\* The types of all parts: the links and directories at the runtime path, the
\* lock, the count and the watchdog, the blocks, pings, the connection, tabs.
TypeOK == DirTypeOK /\ HostTypeOK /\ AllocTypeOK /\ PingTypeOK /\ ConnTypeOK /\ TabTypeOK

\* wildcard_matcher.c: matching, scores, the choice and the compiled parts are
\* what the pattern denotes, as far as the six properties say.
WildcardsAsPromised ==
    /\ SingleLevelIsGlob /\ MultiLevelIsSound /\ WholeLabelsAreMatched
    /\ ExactScoresMost /\ CompiledPartsHold /\ BestIsFirstOfHighest

\* caplua.c, lbase64.c, icmp_sender.m: trim, replace, base64 and the checksum,
\* each against what undoes or verifies it.
StringsAreUndone == TrimIsMaximal /\ ReplaceIsUndone /\ DecodeInvertsEncode /\ ChecksumVerifies
==============================================================================
