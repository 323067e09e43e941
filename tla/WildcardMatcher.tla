--------------------------- MODULE WildcardMatcher ---------------------------
(***************************************************************************)
(* The matching of host names of lua-apple/wildcard_matcher.c: the answer, *)
(* the score and the choice of each call, as functions of its arguments.   *)
(* A string is a sequence of characters.                                   *)
(***************************************************************************)
EXTENDS Integers, Sequences, FiniteSets

CONSTANTS
    Lower,        \* tolower, a function on the characters
    MaxLength     \* MAX_PATTERN_LENGTH - 1 and MAX_HOST_LENGTH - 1, 255 each

ASSUME MaxLengthAssumption == MaxLength \in Nat \ {0}

\* Only letters change.
ASSUME LowerAssumption ==
    /\ Lower \in [DOMAIN Lower -> DOMAIN Lower]
    /\ \A c \in DOMAIN Lower :
          /\ Lower[Lower[c]] = Lower[c]
          /\ Lower[c] = "*" <=> c = "*"
          /\ Lower[c] = "." <=> c = "."

Lowered(s) == [i \in 1..Len(s) |-> Lower[s[i]]]
Cut(s) == SubSeq(s, 1, IF Len(s) < MaxLength THEN Len(s) ELSE MaxLength)
From(s, i) == SubSeq(s, i, Len(s))

SameName(s, t) == Lowered(s) = Lowered(t)
EndsWith(s, t) == Len(t) <= Len(s) /\ SameName(From(s, Len(s) - Len(t) + 1), t)
StartsWith(s, t) == Len(t) <= Len(s) /\ SameName(SubSeq(s, 1, Len(t)), t)

HasStar(s) == \E i \in 1..Len(s) : s[i] = "*"
DoubleStarAt(s) == {i \in 1..Len(s) - 1 : s[i] = "*" /\ s[i + 1] = "*"}
Least(S) == CHOOSE i \in S : \A j \in S : i <= j

-------------------------------------------------------------------------------
(* One star stands for characters other than dots. *)

\* The end of the run of stars at i, or i.
PastStars(s, i) == Least({j \in i..Len(s) + 1 : j = Len(s) + 1 \/ s[j] # "*"})

\* Whether the rest of p from i on matches the rest of h from k on.
MatchSingleLevelRecursive(p, h) ==
    LET match[at \in (1..Len(p) + 1) \X (1..Len(h) + 1)] ==
            LET i == at[1]
                k == at[2]
                next == PastStars(p, i)
            IN IF i > Len(p) \/ k > Len(h) THEN next > Len(p) /\ k > Len(h)
               ELSE IF p[i] # "*" THEN p[i] = h[k] /\ match[<<i + 1, k + 1>>]
               ELSE IF next > Len(p) THEN \A m \in k..Len(h) : h[m] # "."
               ELSE \E m \in k..Len(h) :
                       /\ h[m] = p[next] /\ match[<<next, m>>]
                       /\ \A q \in k..m - 1 : h[q] # "."
    IN match[<<1, 1>>]

MatchSingleLevelWildcard(p, h) == MatchSingleLevelRecursive(Lowered(Cut(p)), Lowered(Cut(h)))

-------------------------------------------------------------------------------
(* Two stars stand for any number of labels. *)

NoMatch == -1

\* Length of the shortest prefix of h that matches.
MatchPrefixPattern(p, h) ==
    LET lengths == {n \in 1..Len(h) : n <= MaxLength /\ MatchSingleLevelRecursive(p, SubSeq(h, 1, n))}
    IN IF p = <<>> THEN 0
       ELSE IF ~HasStar(p)
            THEN IF Len(p) <= Len(h) /\ SubSeq(h, 1, Len(p)) = p THEN Len(p) ELSE NoMatch
       ELSE IF lengths = {} THEN NoMatch ELSE Least(lengths)

\* Length of the longest suffix of h that matches.
MatchSuffixPattern(p, h) ==
    LET starts == {i \in 1..Len(h) + 1 : MatchSingleLevelRecursive(p, From(h, i))}
    IN IF p = <<>> THEN 0
       ELSE IF ~HasStar(p)
            THEN IF Len(p) <= Len(h) /\ From(h, Len(h) - Len(p) + 1) = p THEN Len(p) ELSE NoMatch
       ELSE IF starts = {} THEN NoMatch ELSE Len(h) - Least(starts) + 1

\* "**" at the front: what follows must begin at a dot, which may be missing.
MatchLeading(suffix, h) ==
    \/ suffix = <<>>
    \/ /\ suffix # <<>> /\ Head(suffix) = "."
       /\ IF HasStar(Tail(suffix))
          THEN MatchSingleLevelRecursive(Tail(suffix), h) \/ MatchSuffixPattern(suffix, h) # NoMatch
          ELSE h = Tail(suffix) \/ EndsWith(h, suffix)

\* Mutant: the suffix is looked for in the whole name.
MatchBetweenOverlapping(prefix, suffix, h) ==
    \/ suffix = <<>> /\ MatchPrefixPattern(prefix, h) # NoMatch
    \/ /\ suffix # <<>>
       /\ MatchPrefixPattern(prefix, h) # NoMatch
       /\ MatchSuffixPattern(suffix, h) # NoMatch

\* A prefix: no labels between it and the suffix, or whatever comes after its
\* shortest match.
MatchBetween(prefix, suffix, h) ==
    LET matched == MatchPrefixPattern(prefix, h)
    IN \/ suffix = <<>> /\ matched # NoMatch
       \/ /\ suffix # <<>>
          /\ \/ Head(suffix) = "." /\ MatchSingleLevelRecursive(Cut(prefix \o Tail(suffix)), h)
             \/ matched # NoMatch /\ MatchSuffixPattern(suffix, From(h, matched + 1)) # NoMatch

MatchMultiLevelWildcard(pattern, host) ==
    LET p == Lowered(pattern)
        split == Least(DoubleStarAt(p))
        prefix == SubSeq(p, 1, split - 1)
        suffix == From(p, split + 2)
    IN IF prefix = <<>> THEN MatchLeading(suffix, Lowered(host)) ELSE MatchBetween(prefix, suffix, Lowered(host))

WildcardMatch(p, h) ==
    \/ SameName(p, h)
    \/ /\ HasStar(p)
       /\ IF DoubleStarAt(p) # {} THEN MatchMultiLevelWildcard(p, h) ELSE MatchSingleLevelWildcard(p, h)

-------------------------------------------------------------------------------
(* Scores, and the best of a list of patterns. *)

\* How many "**" a scan from the left finds: a run of n stars has n \div 2.
DoubleStars(s) ==
    LET count[i \in 1..Len(s) + 1] ==
            IF i > Len(s) THEN 0
            ELSE IF i \in DoubleStarAt(s) THEN 1 + count[IF i + 2 > Len(s) THEN Len(s) + 1 ELSE i + 2]
            ELSE count[i + 1]
    IN count[1]

\* Stars with no star beside them.
SingleStars(s) ==
    Cardinality({i \in 1..Len(s) : /\ s[i] = "*"
                                   /\ i > 1 => s[i - 1] # "*"
                                   /\ i < Len(s) => s[i + 1] # "*"})

CalculatePatternScore(p) == Len(p) - 10 * DoubleStars(p) - 5 * SingleStars(p)

\* The index, from 1 on, or 0 for none.
FindBestWildcardMatch(h, patterns) ==
    LET step[i \in 0..Len(patterns)] ==
            IF i = 0 THEN [index |-> 0, score |-> -1]
            ELSE LET best == step[i - 1]
                     score == CalculatePatternScore(patterns[i])
                 IN IF WildcardMatch(patterns[i], h) /\ score > best.score
                    THEN [index |-> i, score |-> score] ELSE best
    IN step[Len(patterns)].index

\* compile_pattern_c: the parts before the first star and after the last.
Stars(p) == {i \in 1..Len(p) : p[i] = "*"}

CompilePattern(p) ==
    [type |-> IF Stars(p) = {} THEN "exact" ELSE IF DoubleStarAt(p) # {} THEN "mixed" ELSE "single",
     score |-> CalculatePatternScore(p),
     prefix |-> IF Stars(p) = {} THEN <<>> ELSE SubSeq(p, 1, Least(Stars(p)) - 1),
     suffix |-> IF Stars(p) = {} THEN <<>>
                ELSE From(p, 1 + CHOOSE i \in Stars(p) : \A j \in Stars(p) : j <= i)]

-------------------------------------------------------------------------------
(* What a match means: the positions of the name reached by each prefix of *)
(* the pattern.  A star may pass characters other than dots, a star of a   *)
(* pair any character, and "**." may stand for no label at all.            *)

Reached(p, h) ==
    LET Paired(i) == \/ i > 1 /\ p[i - 1] = "*"
                     \/ i < Len(p) /\ p[i + 1] = "*"
        after[i \in 0..Len(p)] ==
            IF i = 0 THEN {0}
            ELSE IF p[i] = "*"
                 THEN {k \in 0..Len(h) : \E j \in after[i - 1] :
                            j <= k /\ (Paired(i) \/ \A q \in j + 1..k : h[q] # ".")}
            ELSE {k \in 1..Len(h) : k - 1 \in after[i - 1] /\ h[k] = p[i]}
                    \cup (IF p[i] = "." /\ i > 2 /\ p[i - 1] = "*" /\ p[i - 2] = "*" THEN after[i - 3] ELSE {})
    IN after[Len(p)]

Denotes(p, h) == SameName(p, h) \/ Len(h) \in Reached(Lowered(p), Lowered(h))
==============================================================================
