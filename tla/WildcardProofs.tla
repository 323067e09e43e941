--------------------------- MODULE WildcardProofs ---------------------------
(***************************************************************************)
(* Proofs about the functions of wildcard_matcher.c, for all patterns and  *)
(* all names: without "**" the search finds exactly what the pattern       *)
(* denotes, with it nothing else, and everything where a single "**"       *)
(* stands for whole labels; a name scores most; the choice is the first of *)
(* the highest.                                                            *)
(***************************************************************************)
EXTENDS WildcardMatcher, LuaStringsProofs

-------------------------------------------------------------------------------
(* The search with backtracking, as a set of pairs of places. *)

\* Least gives the least member.
LEMMA LeastIs ==
    ASSUME NEW T \in SUBSET Nat, NEW x \in T, \A y \in T : x <= y
    PROVE  Least(T) = x
  <1>1. \A y \in T : (\A z \in T : y <= z) => y = x
    OBVIOUS
  <1>. QED  BY <1>1 DEF Least

\* Least gives a member that no other is below.
LEMMA LeastFacts ==
    ASSUME NEW T \in SUBSET Nat, T # {}
    PROVE  Least(T) \in T /\ \A y \in T : Least(T) <= y
  <1>1. PICK x \in T : \A y \in T : x <= y
    BY LeastNumber
  <1>. QED  BY <1>1, LeastIs

\* Where a run of stars ends (wildcard_matcher.c 55-62).
LEMMA PastStarsFacts ==
    ASSUME NEW S, NEW p \in Seq(S), NEW i \in 1..Len(p) + 1
    PROVE  /\ PastStars(p, i) \in i..Len(p) + 1
           /\ PastStars(p, i) <= Len(p) => p[PastStars(p, i)] # "*"
           /\ i <= Len(p) /\ p[i] = "*" => PastStars(p, i) > i
           /\ i <= Len(p) /\ p[i] # "*" => PastStars(p, i) = i
           /\ i < Len(p) /\ p[i] = "*" /\ p[i + 1] # "*" => PastStars(p, i) = i + 1
           /\ i = Len(p) => PastStars(p, i) = IF p[i] = "*" THEN i + 1 ELSE i
           /\ i = Len(p) + 1 => PastStars(p, i) = i
  <1>. DEFINE n == Len(p)
              T == {j \in i..n + 1 : j = n + 1 \/ p[j] # "*"}
  <1>1. n \in Nat /\ i \in Nat /\ i <= n + 1
    OBVIOUS
  <1>2. T \in SUBSET Nat /\ n + 1 \in T
    BY <1>1
  <1>3. Least(T) \in T /\ \A y \in T : Least(T) <= y
    <2>. HIDE DEF T
    <2>. QED  BY <1>2, LeastFacts
  <1>4. PastStars(p, i) = Least(T)
    BY DEF PastStars
  <1>. DEFINE x == Least(T)
  <1>5. x \in i..n + 1 /\ (x = n + 1 \/ p[x] # "*")
    BY <1>3
  <1>6. \A y \in i..n + 1 : y = n + 1 \/ p[y] # "*" => x <= y
    BY <1>3
  <1>. HIDE DEF x, T
  <1>7. x <= n => p[x] # "*"
    BY <1>1, <1>5
  <1>8. i <= n /\ p[i] = "*" => x > i
    BY <1>1, <1>5
  <1>9. i <= n /\ p[i] # "*" => x = i
    BY <1>1, <1>5, <1>6
  <1>10. i < n /\ p[i] = "*" /\ p[i + 1] # "*" => x = i + 1
    BY <1>1, <1>5, <1>6
  <1>11. i = n => x = IF p[i] = "*" THEN i + 1 ELSE i
    BY <1>1, <1>5, <1>8, <1>9
  <1>12. i = n + 1 => x = i
    BY <1>1, <1>5
  <1>. QED  BY <1>4, <1>5, <1>7, <1>8, <1>9, <1>10, <1>11, <1>12 DEF x, n

\* What the code finds at i and k when X is what it finds further on.
Found(p, h, X, i, k) ==
    LET next == PastStars(p, i)
    IN IF i > Len(p) \/ k > Len(h) THEN next > Len(p) /\ k > Len(h)
       ELSE IF p[i] # "*" THEN p[i] = h[k] /\ <<i + 1, k + 1>> \in X
       ELSE IF next > Len(p) THEN \A m \in k..Len(h) : h[m] # "."
       ELSE \E m \in k..Len(h) :
               /\ h[m] = p[next] /\ <<next, m>> \in X
               /\ \A q \in k..m - 1 : h[q] # "."

\* X holds all pairs of places from which the search finds a match.
Search(p, h, X) ==
    \A i \in 1..Len(p) + 1, k \in 1..Len(h) + 1 : <<i, k>> \in X <=> Found(p, h, X, i, k)

\* Found looks only at later places of the pattern.
LEMMA FoundLater ==
    ASSUME NEW S, NEW p \in Seq(S), NEW h \in Seq(S), NEW i \in 1..Len(p) + 1, NEW k \in 1..Len(h) + 1,
           NEW X, NEW Y, \A j \in i + 1..Len(p) + 1, l \in 1..Len(h) + 1 : <<j, l>> \in X <=> <<j, l>> \in Y
    PROVE  Found(p, h, X, i, k) <=> Found(p, h, Y, i, k)
  <1>. DEFINE n == Len(p)
              m == Len(h)
              next == PastStars(p, i)
  <1>1. n \in Nat /\ m \in Nat /\ i \in 1..n + 1 /\ k \in 1..m + 1
    OBVIOUS
  <1>2. i <= n /\ p[i] = "*" => next \in i + 1..n + 1
    BY PastStarsFacts
  <1>3. \A j \in i + 1..n + 1, l \in 1..m + 1 : <<j, l>> \in X <=> <<j, l>> \in Y
    OBVIOUS
  <1>. HIDE DEF n, m, next
  <1>4. CASE i > n \/ k > m
    BY <1>4 DEF Found, n, m
  <1>5. CASE ~(i > n \/ k > m) /\ p[i] # "*"
    <2>1. i + 1 \in i + 1..n + 1 /\ k + 1 \in 1..m + 1
      BY <1>1, <1>5
    <2>. QED  BY <1>3, <1>5, <2>1 DEF Found, n, m
  <1>6. CASE ~(i > n \/ k > m) /\ p[i] = "*"
    <2>1. next \in i + 1..n + 1 /\ \A l \in k..m : l \in 1..m + 1
      BY <1>1, <1>2, <1>6
    <2>2. \A l \in k..m : <<next, l>> \in X <=> <<next, l>> \in Y
      BY <1>3, <2>1
    <2>. QED  BY <1>6, <2>2 DEF Found, n, m, next
  <1>. QED  BY <1>4, <1>5, <1>6

\* There is such a set.
LEMMA SearchExists ==
    ASSUME NEW S, NEW p \in Seq(S), NEW h \in Seq(S)
    PROVE  \E X : Search(p, h, X)
  <1>. DEFINE n == Len(p)
              K == 1..Len(h) + 1
              Onward(j, X) == \A i \in 1..n + 1, k \in K : i + j > n + 1 => (<<i, k>> \in X <=> Found(p, h, X, i, k))
              T == {j \in 0..n + 1 : ~\E X : Onward(j, X)}
  <1>1. n \in Nat
    OBVIOUS
  <1>2. CASE T = {}
    <2>1. PICK X : Onward(n + 1, X)
      <3>1. n + 1 \in 0..n + 1
        BY <1>1
      <3>2. n + 1 \notin T
        <4>. HIDE DEF T
        <4>. QED  BY <1>2
      <3>. QED  BY <3>1, <3>2
    <2>2. \A i \in 1..n + 1 : i + (n + 1) > n + 1
      BY <1>1
    <2>. QED  BY <2>1, <2>2 DEF Search
  <1>3. CASE T # {}
    <2>1. PICK j \in T : \A l \in T : j <= l
      <3>1. T \in SUBSET Nat
        BY <1>1
      <3>. HIDE DEF T
      <3>. QED  BY <1>3, <3>1, LeastNumber
    <2>2. j \in 0..n + 1 /\ ~\E X : Onward(j, X)
      OBVIOUS
    <2>3. j # 0
      <3>1. \A i \in 1..n + 1 : ~(i + 0 > n + 1)
        BY <1>1
      <3>2. Onward(0, {})
        BY <3>1
      <3>. QED  BY <2>2, <3>2
    <2>4. PICK X : Onward(j - 1, X)
      <3>1. j - 1 \in 0..n + 1 /\ ~(j <= j - 1)
        BY <1>1, <2>2, <2>3
      <3>2. j - 1 \notin T
        BY <2>1, <3>1
      <3>. QED  BY <3>1, <3>2
    <2>. DEFINE i0 == n + 2 - j
                Y == {x \in (1..n + 1) \X K : IF x[1] = i0 THEN Found(p, h, X, i0, x[2]) ELSE x \in X}
    <2>5. i0 \in 1..n + 1 /\ \A i \in 1..n + 1 : (i + j > n + 1 <=> i >= i0) /\ (i + (j - 1) > n + 1 <=> i > i0)
      BY <1>1, <2>2, <2>3
    <2>6. \A i \in 1..n + 1, k \in K : i # i0 => (<<i, k>> \in Y <=> <<i, k>> \in X)
      OBVIOUS
    <2>7. \A k \in K : <<i0, k>> \in Y <=> Found(p, h, X, i0, k)
      BY <2>5
    <2>. HIDE DEF Y, i0
    <2>8. ASSUME NEW i \in 1..n + 1, NEW k \in K, i + j > n + 1
          PROVE  <<i, k>> \in Y <=> Found(p, h, Y, i, k)
      <3>1. i >= i0 /\ \A l \in i + 1..n + 1 : l \in 1..n + 1 /\ l # i0
        BY <1>1, <2>5, <2>8
      <3>2. \A l \in i + 1..Len(p) + 1, q \in 1..Len(h) + 1 : <<l, q>> \in X <=> <<l, q>> \in Y
        BY <2>6, <3>1
      <3>3. Found(p, h, X, i, k) <=> Found(p, h, Y, i, k)
        BY <3>2, FoundLater
      <3>4. CASE i = i0
        BY <2>7, <3>3, <3>4
      <3>5. CASE i # i0
        <4>1. i + (j - 1) > n + 1
          BY <1>1, <2>5, <3>1, <3>5
        <4>2. <<i, k>> \in X <=> Found(p, h, X, i, k)
          BY <2>4, <4>1
        <4>. QED  BY <2>6, <3>3, <3>5, <4>2
      <3>. QED  BY <3>4, <3>5
    <2>9. Onward(j, Y)
      BY <2>8
    <2>. QED  BY <2>2, <2>9
  <1>. QED  BY <1>2, <1>3

\* The answer of the search is whether the first pair of places is found.
LEMMA SearchIsMatch ==
    ASSUME NEW S, NEW p \in Seq(S), NEW h \in Seq(S)
    PROVE  \E X : Search(p, h, X) /\ (MatchSingleLevelRecursive(p, h) <=> <<1, 1>> \in X)
  <1>. DEFINE D == (1..Len(p) + 1) \X (1..Len(h) + 1)
              Step(match, at) ==
                  LET i == at[1]
                      k == at[2]
                      next == PastStars(p, i)
                  IN IF i > Len(p) \/ k > Len(h) THEN next > Len(p) /\ k > Len(h)
                     ELSE IF p[i] # "*" THEN p[i] = h[k] /\ match[<<i + 1, k + 1>>]
                     ELSE IF next > Len(p) THEN \A m \in k..Len(h) : h[m] # "."
                     ELSE \E m \in k..Len(h) :
                             /\ h[m] = p[next] /\ match[<<next, m>>]
                             /\ \A q \in k..m - 1 : h[q] # "."
              mt == CHOOSE match : match = [at \in D |-> Step(match, at)]
  <1>1. MatchSingleLevelRecursive(p, h) = mt[<<1, 1>>]
    BY DEF MatchSingleLevelRecursive
  \* A function that answers as the set does.
  <1>2. ASSUME NEW f, NEW X, NEW i \in 1..Len(p) + 1, NEW k \in 1..Len(h) + 1, \A at \in D : f[at] <=> at \in X
        PROVE  Step(f, <<i, k>>) <=> Found(p, h, X, i, k)
    <2>1. CASE i > Len(p) \/ k > Len(h)
      BY <2>1 DEF Found
    <2>2. CASE ~(i > Len(p) \/ k > Len(h)) /\ p[i] # "*"
      <3>1. <<i + 1, k + 1>> \in D
        BY <2>2
      <3>. HIDE DEF D
      <3>2. f[<<i + 1, k + 1>>] <=> <<i + 1, k + 1>> \in X
        BY <1>2, <3>1
      <3>. QED  BY <2>2, <3>2 DEF Found
    <2>3. CASE ~(i > Len(p) \/ k > Len(h)) /\ p[i] = "*"
      <3>. DEFINE next == PastStars(p, i)
      <3>1. \A m \in k..Len(h) : <<next, m>> \in D
        BY <2>3, PastStarsFacts, SMTT(30)
      <3>. HIDE DEF D
      <3>2. \A m \in k..Len(h) : f[<<next, m>>] <=> <<next, m>> \in X
        BY <1>2, <3>1
      <3>. QED  BY <2>3, <3>2 DEF Found
    <2>. QED  BY <2>1, <2>2, <2>3
  <1>3. PICK Y : Search(p, h, Y)
    BY SearchExists
  <1>. DEFINE g == [at \in D |-> at \in Y]
  <1>4. \A at \in D : g[at] <=> at \in Y
    OBVIOUS
  <1>. HIDE DEF g
  <1>5. ASSUME NEW at \in D PROVE Step(g, at) <=> at \in Y
    <2>1. PICK i \in 1..Len(p) + 1, k \in 1..Len(h) + 1 : at = <<i, k>>
      OBVIOUS
    <2>. HIDE DEF Step, D
    <2>. QED  BY <1>2, <1>3, <1>4, <2>1 DEF Search
  <1>6. \A at \in D : Step(g, at) \in BOOLEAN
    OBVIOUS
  <1>. HIDE DEF Step
  <1>7. g = [at \in D |-> Step(g, at)]
    <2>. HIDE DEF D
    <2>1. \A at \in D : Step(g, at) = (at \in Y)
      BY <1>5, <1>6
    <2>. QED  BY <2>1 DEF g
  <1>8. mt = [at \in D |-> Step(mt, at)]
    BY <1>7
  <1>. DEFINE X == {at \in D : mt[at]}
  <1>9. \A at \in D : mt[at] <=> at \in X
    OBVIOUS
  <1>. HIDE DEF mt
  <1>10. \A at \in D : mt[at] = Step(mt, at)
    <2>. HIDE DEF D
    <2>. QED  BY <1>8
  <1>. HIDE DEF X
  <1>11. ASSUME NEW i \in 1..Len(p) + 1, NEW k \in 1..Len(h) + 1
         PROVE  <<i, k>> \in X <=> Found(p, h, X, i, k)
    <2>1. <<i, k>> \in D
      OBVIOUS
    <2>2. Step(mt, <<i, k>>) <=> Found(p, h, X, i, k)
      BY <1>2, <1>9
    <2>. HIDE DEF D
    <2>. QED  BY <1>9, <1>10, <2>1, <2>2
  <1>12. <<1, 1>> \in D
    OBVIOUS
  <1>. QED  BY <1>1, <1>9, <1>11, <1>12 DEF Search

-------------------------------------------------------------------------------
(* The places reached, as the definition of what a pattern denotes. *)

\* What a character of the pattern adds to the places before it.
After(p, h, R, i) ==
    LET Paired == \/ i > 1 /\ p[i - 1] = "*"
                  \/ i < Len(p) /\ p[i + 1] = "*"
    IN IF i = 0 THEN {0}
       ELSE IF p[i] = "*"
            THEN {k \in 0..Len(h) : \E j \in R[i - 1] :
                       j <= k /\ (Paired \/ \A q \in j + 1..k : h[q] # ".")}
       ELSE {k \in 1..Len(h) : k - 1 \in R[i - 1] /\ h[k] = p[i]}
               \cup (IF p[i] = "." /\ i > 2 /\ p[i - 1] = "*" /\ p[i - 2] = "*" THEN R[i - 3] ELSE {})

\* R[i] is what the first i characters of p reach in h.
Walk(p, h, R) == R = [i \in 0..Len(p) |-> After(p, h, R, i)]

\* A walk exists, as it looks only at earlier characters.
LEMMA WalkExists ==
    ASSUME NEW S, NEW p \in Seq(S), NEW h \in Seq(S)
    PROVE  \E R : Walk(p, h, R)
  <1>. DEFINE n == Len(p)
              V == SUBSET (0..Len(h))
              G == [i \in 0..n |-> [f \in [0..n -> V] |-> After(p, h, f, i)]]
  <1>1. n \in Nat
    OBVIOUS
  <1>2. ASSUME NEW i \in 0..n, NEW f \in [0..n -> V] PROVE After(p, h, f, i) \in V
    <2>1. i > 2 => f[i - 3] \in V
      OBVIOUS
    <2>. QED  BY <2>1 DEF After
  <1>3. ASSUME NEW i \in 0..n, NEW f \in [0..n -> V], NEW g \in [0..n -> V],
               \A j \in 0..i - 1 : f[j] = g[j]
        PROVE  After(p, h, f, i) = After(p, h, g, i)
    <2>1. (i # 0 => f[i - 1] = g[i - 1]) /\ (i > 2 => f[i - 3] = g[i - 3])
      BY <1>3
    <2>. QED  BY <2>1 DEF After
  <1>4. \A i \in 0..n : \A f \in [0..n -> V] : G[i][f] = After(p, h, f, i)
    <2>. HIDE DEF V
    <2>. QED  OBVIOUS
  <1>. HIDE DEF G
  <1>5. Causal(G, n, V)
    <2>1. V # {}
      OBVIOUS
    <2>. HIDE DEF V, n
    <2>. QED  BY <1>2, <1>3, <1>4, <2>1 DEF Causal
  <1>6. PICK f \in [0..n -> V] : \A i \in 0..n : f[i] = G[i][f]
    <2>. HIDE DEF V
    <2>. QED  BY <1>1, <1>5, Recursion
  <1>7. \A i \in 0..n : f[i] = After(p, h, f, i)
    <2>. HIDE DEF V
    <2>. QED  BY <1>4, <1>6
  <1>. QED  BY <1>7 DEF Walk

\* Reached is the end of a walk.
LEMMA ReachedIsWalk ==
    ASSUME NEW S, NEW p \in Seq(S), NEW h \in Seq(S)
    PROVE  \E R : Walk(p, h, R) /\ Reached(p, h) = R[Len(p)]
  <1>. DEFINE R == CHOOSE after : after = [i \in 0..Len(p) |-> After(p, h, after, i)]
  <1>1. Reached(p, h) = R[Len(p)]
    BY DEF Reached, After
  <1>2. Walk(p, h, R)
    BY WalkExists DEF Walk
  <1>. QED  BY <1>1, <1>2

\* All stars of a run have the same end.
LEMMA PastStarsOnward ==
    ASSUME NEW S, NEW p \in Seq(S), NEW i \in 1..Len(p), p[i] = "*"
    PROVE  PastStars(p, i + 1) = PastStars(p, i)
  <1>1. {j \in i..Len(p) + 1 : j = Len(p) + 1 \/ p[j] # "*"}
            = {j \in i + 1..Len(p) + 1 : j = Len(p) + 1 \/ p[j] # "*"}
    OBVIOUS
  <1>. QED  BY <1>1 DEF PastStars

\* W[i] holds every place that the first i characters of the pattern, with
\* stars that pass no dots, lead to from a place in W[0].
WalkClosed(p, h, W) ==
    \A i \in 1..Len(p), j \in 0..Len(h) : j \in W[i - 1] =>
        /\ p[i] = "*" => \A k \in j..Len(h) : (\A q \in j + 1..k : h[q] # ".") => k \in W[i]
        /\ p[i] # "*" /\ j < Len(h) /\ h[j + 1] = p[i] => j + 1 \in W[i]

\* From a pair that is found, and closed under the steps of a pattern, one
\* character of the pattern leads on to another such pair.
LEMMA FoundOnward ==
    ASSUME NEW S, NEW p \in Seq(S), NEW h \in Seq(S), NEW X, NEW W, Search(p, h, X), WalkClosed(p, h, W),
           NEW i \in 1..Len(p), NEW k \in 1..Len(h) + 1, <<i, k>> \in X, k - 1 \in W[i - 1]
    PROVE  \E l \in 1..Len(h) + 1 : <<i + 1, l>> \in X /\ l - 1 \in W[i]
  <1>. DEFINE n == Len(p)
              m == Len(h)
              next == PastStars(p, i)
  <1>1. n \in Nat /\ m \in Nat /\ i \in 1..n /\ k \in 1..m + 1 /\ i + 1 \in 1..n + 1 /\ i \in 1..n + 1
    OBVIOUS
  <1>2. /\ k > m => next > n
        /\ k <= m /\ p[i] # "*" => p[i] = h[k] /\ <<i + 1, k + 1>> \in X
        /\ k <= m /\ p[i] = "*" /\ next > n => \A l \in k..m : h[l] # "."
        /\ k <= m /\ p[i] = "*" /\ ~(next > n) =>
                \E l \in k..m : h[l] = p[next] /\ <<next, l>> \in X /\ \A q \in k..l - 1 : h[q] # "."
    <2>1. Found(p, h, X, i, k)
      BY <1>1 DEF Search
    <2>2. CASE k > m
      BY <2>1, <2>2 DEF Found
    <2>3. CASE ~(k > m) /\ p[i] # "*"
      BY <2>1, <2>3, ~(i > n) DEF Found
    <2>4. CASE ~(k > m) /\ p[i] = "*"
      <3>1. IF next > n THEN \A l \in k..m : h[l] # "."
            ELSE \E l \in k..m : h[l] = p[next] /\ <<next, l>> \in X /\ \A q \in k..l - 1 : h[q] # "."
        BY <2>1, <2>4, ~(i > n) DEF Found
      <3>. QED  BY <2>4, <3>1
    <2>5. k > m <=> ~(k <= m)
      BY <1>1
    <2>. HIDE DEF m, n, next
    <2>. QED  BY <2>2, <2>3, <2>4, <2>5
  <1>3. \A l \in 1..m + 1 : <<i + 1, l>> \in X <=> Found(p, h, X, i + 1, l)
    BY <1>1 DEF Search
  <1>4. p[i] # "*" => next = i
    BY <1>1, PastStarsFacts
  <1>5. p[i] = "*" => next \in i + 1..n + 1 /\ PastStars(p, i + 1) = next
    BY <1>1, PastStarsFacts, PastStarsOnward
  <1>6. /\ p[i] = "*" => \A l \in k - 1..m : (\A q \in k..l : h[q] # ".") => l \in W[i]
        /\ p[i] # "*" /\ k <= m /\ h[k] = p[i] => k \in W[i]
    <2>1. k - 1 \in 0..m /\ (k - 1) + 1 = k /\ (k - 1 < m <=> k <= m)
      BY <1>1
    <2>. QED  BY <1>1, <2>1 DEF WalkClosed
  \* All that is left are stars, and the name has ended.
  <1>7. ASSUME p[i] = "*", next > n, m \in W[i] PROVE <<i + 1, m + 1>> \in X
    <2>1. Found(p, h, X, i + 1, m + 1)
      BY <1>1, <1>5, <1>7 DEF Found
    <2>2. m + 1 \in 1..m + 1
      BY <1>1
    <2>. QED  BY <1>3, <2>1, <2>2
  <1>0. m + 1 \in 1..Len(h) + 1 /\ (m + 1) - 1 = m
    BY <1>1
  <1>. HIDE DEF n, m, next
  <1>8. CASE k > m
    <2>1. next > n /\ k = m + 1
      BY <1>1, <1>2, <1>8
    <2>2. p[i] = "*"
      BY <1>1, <1>4, <2>1
    <2>3. m \in k - 1..m /\ k..m = {}
      BY <1>1, <2>1
    <2>4. m \in W[i]
      BY <1>6, <2>2, <2>3
    <2>. QED  BY <1>1, <1>7, <1>0, <2>1, <2>2, <2>4 DEF m
  <1>9. CASE k <= m /\ p[i] # "*"
    <2>1. p[i] = h[k] /\ <<i + 1, k + 1>> \in X
      BY <1>2, <1>9
    <2>2. k \in W[i]
      BY <1>6, <1>9, <2>1
    <2>3. k + 1 \in 1..m + 1 /\ (k + 1) - 1 = k
      BY <1>1, <1>9
    <2>. QED  BY <2>1, <2>2, <2>3 DEF m
  <1>10. CASE k <= m /\ p[i] = "*" /\ next > n
    <2>1. \A q \in k..m : h[q] # "."
      BY <1>2, <1>10
    <2>2. m \in k - 1..m
      BY <1>1, <1>10
    <2>3. m \in W[i]
      BY <1>6, <1>10, <2>1, <2>2
    <2>. QED  BY <1>1, <1>7, <1>10, <1>0, <2>3 DEF m
  <1>11. CASE k <= m /\ p[i] = "*" /\ ~(next > n)
    <2>1. PICK l \in k..m : h[l] = p[next] /\ <<next, l>> \in X /\ \A q \in k..l - 1 : h[q] # "."
      BY <1>2, <1>11
    <2>2. l \in 1..m /\ l \in 1..m + 1 /\ l - 1 \in k - 1..m /\ l \in l..m /\ l..l - 1 = {}
      BY <1>1, <1>11
    <2>3. l - 1 \in W[i]
      BY <1>6, <1>11, <2>1, <2>2
    <2>4. <<i + 1, l>> \in X
      <3>1. CASE next = i + 1
        BY <2>1, <3>1
      <3>2. CASE next # i + 1
        <4>1. i + 1 \in 1..n /\ i + 1 \in 1..n + 1
          BY <1>1, <1>5, <1>11, <3>2
        <4>2. p[i + 1] = "*"
          <5>1. p[i + 1] # "*" => PastStars(p, i + 1) = i + 1
            BY <4>1, PastStarsFacts DEF n
          <5>. QED  BY <1>5, <1>11, <3>2, <5>1
        <4>3. Found(p, h, X, i + 1, l)
          <5>1. ~(i + 1 > Len(p) \/ l > Len(h)) /\ ~(PastStars(p, i + 1) > Len(p))
            BY <1>5, <1>11, <2>2, <4>1, <1>1 DEF n, m
          <5>2. \E o \in l..Len(h) : h[o] = p[PastStars(p, i + 1)] /\ <<PastStars(p, i + 1), o>> \in X
                                     /\ \A q \in l..o - 1 : h[q] # "."
            BY <1>5, <1>11, <2>1, <2>2 DEF m
          <5>. QED  BY <4>2, <5>1, <5>2 DEF Found
        <4>. QED  BY <1>3, <2>2, <4>3
      <3>. QED  BY <3>1, <3>2
    <2>. QED  BY <2>2, <2>3, <2>4 DEF m
  <1>12. k > m \/ k <= m
    BY <1>1
  <1>. QED  BY <1>8, <1>9, <1>10, <1>11, <1>12

\* Whatever the search finds is in such sets.
LEMMA SearchIsClosed ==
    ASSUME NEW S, NEW p \in Seq(S), NEW h \in Seq(S), NEW W,
           WalkClosed(p, h, W), 0 \in W[0], MatchSingleLevelRecursive(p, h)
    PROVE  Len(h) \in W[Len(p)]
  <1>. DEFINE n == Len(p)
              m == Len(h)
  <1>1. n \in Nat /\ m \in Nat
    OBVIOUS
  <1>2. PICK X : Search(p, h, X) /\ <<1, 1>> \in X
    BY SearchIsMatch
  <1>. DEFINE On(i) == \E k \in 1..m + 1 : <<i, k>> \in X /\ k - 1 \in W[i - 1]
              T == {i \in 1..n + 1 : On(i)}
  <1>3. 1 \in T
    <2>1. 1 \in 1..m + 1 /\ 1 - 1 = 0 /\ 1 \in 1..n + 1
      BY <1>1
    <2>. QED  BY <1>2, <2>1
  <1>4. PICK i \in T : \A j \in T : j <= i
    <2>1. T \in SUBSET (0..n + 1)
      BY <1>1
    <2>2. n + 1 \in Nat /\ T # {}
      BY <1>1, <1>3
    <2>. HIDE DEF T
    <2>. QED  BY <2>1, <2>2, GreatestNumber
  <1>5. i = n + 1
    <2>. SUFFICES ASSUME i # n + 1 PROVE FALSE
      OBVIOUS
    <2>1. i \in 1..n /\ i + 1 \in 1..n + 1 /\ (i + 1) - 1 = i /\ ~(i + 1 <= i)
      BY <1>1
    <2>2. On(i)
      OBVIOUS
    <2>3. On(i + 1)
      BY <1>2, <2>1, <2>2, FoundOnward
    <2>. QED  BY <1>4, <2>1, <2>3
  <1>6. PICK k \in 1..m + 1 : <<n + 1, k>> \in X /\ k - 1 \in W[(n + 1) - 1]
    BY <1>5
  <1>7. (n + 1) - 1 = n /\ n + 1 \in 1..n + 1
    BY <1>1
  <1>8. Found(p, h, X, n + 1, k)
    BY <1>2, <1>6, <1>7 DEF Search
  <1>9. k = m + 1
    BY <1>1, <1>8 DEF Found
  <1>. QED  BY <1>1, <1>6, <1>7, <1>9

\* A pattern leads through a name that is the same, for a star is no dot.
LEMMA LiteralIsClosed ==
    ASSUME NEW S, NEW p \in Seq(S), NEW W, WalkClosed(p, p, W), 0 \in W[0]
    PROVE  Len(p) \in W[Len(p)]
  <1>. DEFINE n == Len(p)
              T == {i \in 0..n : i \in W[i]}
  <1>1. n \in Nat /\ 0 \in T /\ T \in SUBSET (0..n)
    OBVIOUS
  <1>2. PICK i \in T : \A j \in T : j <= i
    <2>. HIDE DEF T
    <2>. QED  BY <1>1, GreatestNumber
  <1>3. i = n
    <2>. SUFFICES ASSUME i # n PROVE FALSE
      OBVIOUS
    <2>1. i \in 0..n /\ i < n /\ i + 1 \in 1..n /\ (i + 1) - 1 = i /\ ~(i + 1 <= i) /\ i \in W[i]
      BY <1>1
    <2>2. i + 1 \in i..n /\ \A q \in i + 1..i + 1 : q = i + 1
      BY <2>1
    <2>3. i + 1 \in W[i + 1]
      <3>1. CASE p[i + 1] = "*"
        BY <2>1, <2>2, <3>1 DEF WalkClosed
      <3>2. CASE p[i + 1] # "*"
        BY <2>1, <3>2 DEF WalkClosed
      <3>. QED  BY <3>1, <3>2
    <2>. QED  BY <1>2, <2>1, <2>3
  <1>. QED  BY <1>3

\* What the definition says of each step of a walk.
LEMMA WalkFacts ==
    ASSUME NEW S, NEW p \in Seq(S), NEW h \in Seq(S), NEW R, Walk(p, h, R)
    PROVE  /\ R[0] = {0}
           /\ \A i \in 1..Len(p) : R[i] = After(p, h, R, i)
           /\ \A i \in 0..Len(p) : R[i] \in SUBSET (0..Len(h))
  <1>1. \A i \in 0..Len(p) : R[i] = After(p, h, R, i)
    BY DEF Walk
  <1>2. R[0] = {0}
    <2>1. 0 \in 0..Len(p)
      OBVIOUS
    <2>. QED  BY <1>1, <2>1 DEF After
  <1>. DEFINE n == Len(p)
              T == {i \in 0..n : ~(R[i] \in SUBSET (0..Len(h)))}
  <1>3. T = {}
    <2>. SUFFICES ASSUME T # {} PROVE FALSE
      OBVIOUS
    <2>1. PICK i \in T : \A j \in T : i <= j
      <3>1. T \in SUBSET Nat
        OBVIOUS
      <3>. HIDE DEF T
      <3>. QED  BY <3>1, LeastNumber
    <2>2. i \in 1..n /\ ~(R[i] \in SUBSET (0..Len(h)))
      BY <1>2
    <2>3. i > 2 => R[i - 3] \in SUBSET (0..Len(h))
      <3>1. i > 2 => i - 3 \in 0..n /\ ~(i <= i - 3)
        BY <2>2
      <3>. QED  BY <2>1, <3>1
    <2>4. After(p, h, R, i) \in SUBSET (0..Len(h))
      BY <2>2, <2>3 DEF After
    <2>. QED  BY <1>1, <2>2, <2>4
  <1>. QED  BY <1>1, <1>2, <1>3

\* A walk is closed, whatever pairs of stars and labels left out add to it.
LEMMA WalkIsClosed ==
    ASSUME NEW S, NEW p \in Seq(S), NEW h \in Seq(S), NEW R, Walk(p, h, R)
    PROVE  WalkClosed(p, h, R)
  <1>. SUFFICES ASSUME NEW i \in 1..Len(p), NEW j \in 0..Len(h), j \in R[i - 1]
                PROVE  /\ p[i] = "*" => \A k \in j..Len(h) : (\A q \in j + 1..k : h[q] # ".") => k \in R[i]
                       /\ p[i] # "*" /\ j < Len(h) /\ h[j + 1] = p[i] => j + 1 \in R[i]
    BY DEF WalkClosed
  <1>1. R[i] = After(p, h, R, i)
    BY WalkFacts
  <1>2. ASSUME p[i] = "*", NEW k \in j..Len(h), \A q \in j + 1..k : h[q] # "." PROVE k \in R[i]
    <2>1. k \in 0..Len(h) /\ j <= k
      OBVIOUS
    <2>. QED  BY <1>1, <1>2, <2>1 DEF After
  <1>3. ASSUME p[i] # "*", j < Len(h), h[j + 1] = p[i] PROVE j + 1 \in R[i]
    <2>1. j + 1 \in 1..Len(h) /\ (j + 1) - 1 = j
      BY <1>3
    <2>. QED  BY <1>1, <1>3, <2>1 DEF After
  <1>. QED  BY <1>2, <1>3

\* The search finds only what the pattern denotes.
LEMMA SearchIsSound ==
    ASSUME NEW S, NEW p \in Seq(S), NEW h \in Seq(S), MatchSingleLevelRecursive(p, h)
    PROVE  Len(h) \in Reached(p, h)
  <1>1. PICK R : Walk(p, h, R) /\ Reached(p, h) = R[Len(p)]
    BY ReachedIsWalk
  <1>2. WalkClosed(p, h, R) /\ 0 \in R[0]
    BY <1>1, WalkIsClosed, WalkFacts
  <1>. QED  BY <1>1, <1>2, SearchIsClosed

\* Without two stars beside each other the search finds a place to go on from
\* wherever a step of the walk ends.
LEMMA FoundBefore ==
    ASSUME NEW S, NEW p \in Seq(S), NEW h \in Seq(S), NEW X, NEW R, Search(p, h, X), Walk(p, h, R),
           DoubleStarAt(p) = {}, NEW i \in 1..Len(p), NEW k \in R[i], <<i + 1, k + 1>> \in X
    PROVE  \E j \in R[i - 1] : <<i, j + 1>> \in X
  <1>. DEFINE n == Len(p)
              m == Len(h)
              next == PastStars(p, i)
  <1>1. n \in Nat /\ m \in Nat /\ i \in 1..n /\ i + 1 \in 1..n + 1 /\ i \in 1..n + 1 /\ k \in 0..m /\ k + 1 \in 1..m + 1
        /\ R[i - 1] \in SUBSET (0..m)
    BY WalkFacts
  <1>2. k \in After(p, h, R, i)
    BY <1>1, WalkFacts
  <1>3. \A l \in 1..m + 1 : <<i, l>> \in X <=> Found(p, h, X, i, l)
    BY <1>1 DEF Search
  <1>4. CASE p[i] # "*"
    <2>1. ~(i > 2 /\ p[i - 1] = "*" /\ p[i - 2] = "*")
      <3>1. i > 2 => i - 2 \in 1..Len(p) - 1 /\ (i - 2) + 1 = i - 1
        BY <1>1
      <3>. QED  BY <3>1 DEF DoubleStarAt
    <2>2. k \in 1..m /\ k - 1 \in R[i - 1] /\ h[k] = p[i]
      BY <1>1, <1>2, <1>4, <2>1 DEF After
    <2>3. Found(p, h, X, i, k)
      BY <1>1, <1>4, <2>2 DEF Found
    <2>4. k \in 1..m + 1 /\ (k - 1) + 1 = k
      BY <2>2
    <2>. QED  BY <1>3, <2>2, <2>3, <2>4
  <1>5. CASE p[i] = "*"
    <2>1. /\ ~(i > 1 /\ p[i - 1] = "*")
          /\ ~(i < n /\ p[i + 1] = "*")
      <3>1. i > 1 => i - 1 \in 1..Len(p) - 1 /\ (i - 1) + 1 = i
        BY <1>1
      <3>2. i < n => i \in 1..Len(p) - 1
        BY <1>1
      <3>. QED  BY <1>5, <3>1, <3>2 DEF DoubleStarAt
    <2>2. PICK j \in R[i - 1] : j <= k /\ \A q \in j + 1..k : h[q] # "."
      BY <1>1, <1>2, <1>5, <2>1 DEF After
    <2>3. j \in 0..m /\ j + 1 \in 1..m + 1
      BY <1>1, <2>2
    <2>4. Found(p, h, X, i + 1, k + 1)
      BY <1>1 DEF Search
    <2>5. next = i + 1
      <3>1. i = n => next = i + 1
        BY <1>1, <1>5, PastStarsFacts
      <3>2. i < n => next = i + 1
        BY <1>1, <1>5, <2>1, PastStarsFacts
      <3>. QED  BY <1>1, <3>1, <3>2
    <2>6. Found(p, h, X, i, j + 1)
      <3>1. CASE i = n
        <4>1. k = m
          BY <1>1, <2>4, <3>1 DEF Found
        <4>2. next > n
          BY <2>5, <3>1, <1>1
        <4>. QED  BY <1>1, <1>5, <2>2, <2>3, <4>1, <4>2 DEF Found
      <3>2. CASE i < n
        <4>1. i + 1 \in 1..n /\ p[i + 1] # "*" /\ PastStars(p, i + 1) = i + 1
          <5>1. i + 1 \in 1..n /\ p[i + 1] # "*"
            BY <1>1, <2>1, <3>2
          <5>. QED  BY <1>1, <5>1, PastStarsFacts
        <4>2. k + 1 <= m /\ p[i + 1] = h[k + 1]
          BY <1>1, <2>4, <4>1, <3>2 DEF Found
        <4>3. k + 1 \in j + 1..m /\ ~(j + 1 > m) /\ (k + 1) - 1 = k /\ ~(next > n) /\ ~(i > n)
          <5>. HIDE DEF next, n, m
          <5>1. n \in Nat /\ m \in Nat /\ i \in 1..n /\ k \in 0..m /\ j <= k /\ j \in 0..m
            BY <1>1, <2>2, <2>3
          <5>. QED  BY <5>1, <2>5, <3>2, <4>2
        <4>4. h[k + 1] = p[next] /\ <<next, k + 1>> \in X /\ \A q \in j + 1..(k + 1) - 1 : h[q] # "."
          BY <2>2, <2>5, <4>2, <4>3
        <4>5. \E l \in j + 1..Len(h) : h[l] = p[next] /\ <<next, l>> \in X /\ \A q \in j + 1..l - 1 : h[q] # "."
          BY <4>3, <4>4
        <4>. HIDE DEF next
        <4>6. ~(i > Len(p) \/ j + 1 > Len(h)) /\ ~(next > Len(p))
          BY <4>3
        <4>. QED  BY <1>5, <4>5, <4>6 DEF Found, next
      <3>. QED  BY <1>1, <3>1, <3>2
    <2>. QED  BY <1>3, <2>2, <2>3, <2>6
  <1>. QED  BY <1>4, <1>5

\* So it finds all that such a pattern denotes.
LEMMA SearchIsComplete ==
    ASSUME NEW S, NEW p \in Seq(S), NEW h \in Seq(S), DoubleStarAt(p) = {}, Len(h) \in Reached(p, h)
    PROVE  MatchSingleLevelRecursive(p, h)
  <1>. DEFINE n == Len(p)
              m == Len(h)
  <1>1. n \in Nat /\ m \in Nat
    OBVIOUS
  <1>2. PICK R : Walk(p, h, R) /\ Reached(p, h) = R[n]
    BY ReachedIsWalk
  <1>3. PICK X : Search(p, h, X) /\ (MatchSingleLevelRecursive(p, h) <=> <<1, 1>> \in X)
    BY SearchIsMatch
  <1>. DEFINE On(i) == \E k \in R[i] : <<i + 1, k + 1>> \in X
              T == {i \in 0..n : On(i)}
  <1>4. n \in T
    <2>1. n + 1 \in 1..n + 1 /\ m + 1 \in 1..m + 1
      BY <1>1
    <2>2. PastStars(p, n + 1) = n + 1
      BY <2>1, PastStarsFacts
    <2>3. Found(p, h, X, n + 1, m + 1)
      BY <1>1, <2>2 DEF Found
    <2>4. <<n + 1, m + 1>> \in X
      BY <1>3, <2>1, <2>3 DEF Search
    <2>5. m \in R[n]
      BY <1>2
    <2>6. n \in 0..n
      BY <1>1
    <2>. HIDE DEF n, m
    <2>. QED  BY <2>4, <2>5, <2>6
  <1>5. PICK i \in T : \A j \in T : i <= j
    <2>1. T \in SUBSET Nat /\ T # {}
      BY <1>1, <1>4
    <2>. HIDE DEF T
    <2>. QED  BY <2>1, LeastNumber
  <1>6. i = 0
    <2>. SUFFICES ASSUME i # 0 PROVE FALSE
      OBVIOUS
    <2>1. i \in 1..n /\ i - 1 \in 0..n /\ (i - 1) + 1 = i /\ ~(i <= i - 1)
      OBVIOUS
    <2>2. PICK k \in R[i] : <<i + 1, k + 1>> \in X
      OBVIOUS
    <2>3. \E j \in R[i - 1] : <<i, j + 1>> \in X
      BY <1>2, <1>3, <2>1, <2>2, FoundBefore
    <2>4. On(i - 1)
      BY <2>1, <2>3
    <2>. QED  BY <1>5, <2>1, <2>4
  <1>7. \E k \in R[0] : <<0 + 1, k + 1>> \in X
    BY <1>6
  <1>8. R[0] = {0}
    BY <1>2, WalkFacts
  <1>. QED  BY <1>3, <1>7, <1>8

\* The first e characters of p are not stars.
Literal(p, e) == \A i \in 1..e : p[i] # "*"

\* So much of a pattern denotes itself.
LEMMA LiteralWalk ==
    ASSUME NEW S, NEW p \in Seq(S), NEW h \in Seq(S), NEW R, Walk(p, h, R), NEW e \in 0..Len(p),
           Literal(p, e)
    PROVE  \A i \in 0..e : \A k \in R[i] : k = i /\ k <= Len(h) /\ \A q \in 1..i : h[q] = p[q]
  <1>. DEFINE Same(i) == \A k \in R[i] : k = i /\ k <= Len(h) /\ \A q \in 1..i : h[q] = p[q]
              T == {i \in 0..e : ~Same(i)}
  <1>. SUFFICES ASSUME T # {} PROVE FALSE
    OBVIOUS
  <1>1. PICK i \in T : \A j \in T : i <= j
    <2>1. T \in SUBSET Nat
      OBVIOUS
    <2>. HIDE DEF T
    <2>. QED  BY <2>1, LeastNumber
  <1>2. i # 0
    <2>1. R[0] = {0}
      BY WalkFacts
    <2>2. Same(0)
      BY <2>1
    <2>. QED  BY <1>1, <2>2
  <1>3. i \in 1..e /\ i \in 1..Len(p) /\ i - 1 \in 0..e /\ ~(i <= i - 1) /\ ~Same(i)
    BY <1>2
  <1>4. Same(i - 1)
    BY <1>1, <1>3
  <1>5. ~(i > 2 /\ p[i - 1] = "*" /\ p[i - 2] = "*") /\ p[i] # "*"
    BY <1>3 DEF Literal
  <1>6. R[i] = {k \in 1..Len(h) : k - 1 \in R[i - 1] /\ h[k] = p[i]}
    <2>1. R[i] = After(p, h, R, i)
      BY <1>3, WalkFacts
    <2>. QED  BY <1>3, <1>5, <2>1 DEF After
  <1>7. Same(i)
    <2>. SUFFICES ASSUME NEW k \in R[i] PROVE k = i /\ k <= Len(h) /\ \A q \in 1..i : h[q] = p[q]
      OBVIOUS
    <2>1. k \in 1..Len(h) /\ k - 1 \in R[i - 1] /\ h[k] = p[i]
      BY <1>6
    <2>2. k - 1 = i - 1 /\ \A q \in 1..i - 1 : h[q] = p[q]
      BY <1>4, <2>1
    <2>. QED  BY <1>3, <2>1, <2>2
  <1>. QED  BY <1>3, <1>7

-------------------------------------------------------------------------------
(* Pieces of names, and lower case. *)

\* The rest of a sequence.
LEMMA FromFacts ==
    ASSUME NEW S, NEW s \in Seq(S), NEW a \in 1..Len(s) + 1
    PROVE  /\ From(s, a) \in Seq(S) /\ Len(From(s, a)) = Len(s) - a + 1
           /\ \A i \in 1..Len(s) - a + 1 : From(s, a)[i] = s[a + i - 1]
  <1>1. Len(s) \in a - 1..Len(s)
    OBVIOUS
  <1>. QED  BY <1>1, Pieces DEF From

\* The characters.
Chars == DOMAIN Lower

\* Lower case keeps the length, the stars and the dots.
LEMMA LoweredFacts ==
    ASSUME NEW s \in Seq(Chars)
    PROVE  /\ Lowered(s) \in Seq(Chars) /\ Len(Lowered(s)) = Len(s)
           /\ \A i \in 1..Len(s) : /\ Lowered(s)[i] = Lower[s[i]]
                                   /\ Lowered(s)[i] = "*" <=> s[i] = "*"
                                   /\ Lowered(s)[i] = "." <=> s[i] = "."
           /\ HasStar(Lowered(s)) <=> HasStar(s)
           /\ DoubleStarAt(Lowered(s)) = DoubleStarAt(s)
           /\ Lowered(Lowered(s)) = Lowered(s)
  <1>1. \A i \in 1..Len(s) : s[i] \in Chars /\ Lower[s[i]] \in Chars
    BY LowerAssumption DEF Chars
  <1>2. Lowered(s) \in Seq(Chars) /\ Len(Lowered(s)) = Len(s) /\ \A i \in 1..Len(s) : Lowered(s)[i] = Lower[s[i]]
    <2>. HIDE DEF Chars
    <2>1. Len(s) \in Nat
      OBVIOUS
    <2>2. \A i \in 1..Len(s) : Lower[s[i]] \in Chars
      BY <1>1
    <2>3. [i \in 1..Len(s) |-> Lower[s[i]]] \in Seq(Chars)
      BY <2>1, <2>2, IsASeq
    <2>. QED  BY <2>1, <2>3 DEF Lowered
  <1>3. \A i \in 1..Len(s) : (Lowered(s)[i] = "*" <=> s[i] = "*") /\ (Lowered(s)[i] = "." <=> s[i] = ".")
    BY <1>1, <1>2, LowerAssumption DEF Chars
  <1>4. HasStar(Lowered(s)) <=> HasStar(s)
    <2>. HIDE DEF Chars
    <2>. QED  BY <1>2, <1>3 DEF HasStar
  <1>5. DoubleStarAt(Lowered(s)) = DoubleStarAt(s)
    <2>1. \A i \in 1..Len(s) - 1 : i \in 1..Len(s) /\ i + 1 \in 1..Len(s)
      OBVIOUS
    <2>. QED  BY <1>2, <1>3, <2>1 DEF DoubleStarAt
  <1>6. Lowered(Lowered(s)) = Lowered(s)
    <2>1. \A i \in 1..Len(s) : Lower[Lower[s[i]]] = Lower[s[i]]
      BY <1>1, LowerAssumption DEF Chars
    <2>2. \A i \in 1..Len(s) : Lower[Lowered(s)[i]] = Lower[s[i]]
      BY <1>2, <2>1
    <2>. HIDE DEF Chars
    <2>3. [i \in 1..Len(Lowered(s)) |-> Lower[Lowered(s)[i]]] = [i \in 1..Len(s) |-> Lower[s[i]]]
      BY <1>2, <2>2
    <2>. QED  BY <2>3 DEF Lowered
  <1>. QED  BY <1>2, <1>3, <1>4, <1>5, <1>6

\* What fits is not cut.
LEMMA CutFacts ==
    ASSUME NEW s \in Seq(Chars), Len(s) <= MaxLength
    PROVE  Cut(s) = s
  <1>1. SubSeq(s, 1, Len(s)) = s
    BY SubSeqFull
  <1>2. (IF Len(s) < MaxLength THEN Len(s) ELSE MaxLength) = Len(s)
    BY MaxLengthAssumption
  <1>. QED  BY <1>1, <1>2 DEF Cut

\* wildcard_matcher.c 242-287: without two stars beside each other, a pattern
\* and a name of any length that fit the buffers match as the pattern denotes.
THEOREM SingleLevel ==
    ASSUME NEW p \in Seq(Chars), NEW h \in Seq(Chars), DoubleStarAt(p) = {},
           Len(p) <= MaxLength, Len(h) <= MaxLength
    PROVE  WildcardMatch(p, h) <=> Denotes(p, h)
  <1>. DEFINE q == Lowered(p)
              g == Lowered(h)
  <1>1. /\ q \in Seq(Chars) /\ g \in Seq(Chars) /\ Len(g) = Len(h) /\ Len(q) = Len(p)
        /\ DoubleStarAt(q) = {} /\ (HasStar(q) <=> HasStar(p))
    BY LoweredFacts
  <1>2. MatchSingleLevelWildcard(p, h) <=> MatchSingleLevelRecursive(q, g)
    BY CutFacts DEF MatchSingleLevelWildcard
  <1>3. WildcardMatch(p, h) <=> (SameName(p, h) \/ (HasStar(p) /\ MatchSingleLevelRecursive(q, g)))
    <2>. HIDE DEF q, g, Chars
    <2>. QED  BY <1>2 DEF WildcardMatch
  <1>4. Denotes(p, h) <=> (SameName(p, h) \/ Len(g) \in Reached(q, g))
    BY <1>1 DEF Denotes
  <1>. HIDE DEF q, g
  <1>5. MatchSingleLevelRecursive(q, g) <=> Len(g) \in Reached(q, g)
    BY <1>1, SearchIsSound, SearchIsComplete
  <1>6. ASSUME ~HasStar(p), Len(g) \in Reached(q, g) PROVE SameName(p, h)
    <2>1. PICK R : Walk(q, g, R) /\ Reached(q, g) = R[Len(q)]
      BY <1>1, ReachedIsWalk
    <2>2. Len(q) \in 0..Len(q) /\ Literal(q, Len(q))
      BY <1>1, <1>6 DEF HasStar, Literal
    <2>3. \A k \in R[Len(q)] : k = Len(q) /\ k <= Len(g) /\ \A i \in 1..Len(q) : g[i] = q[i]
      BY <1>1, <2>1, <2>2, LiteralWalk
    <2>4. Len(q) = Len(g) /\ \A i \in 1..Len(q) : q[i] = g[i]
      BY <1>6, <2>1, <2>3
    <2>5. q = g
      BY <1>1, <2>4, SeqEqual
    <2>. QED  BY <2>5 DEF SameName, q, g
  <1>. QED  BY <1>3, <1>4, <1>5, <1>6

-------------------------------------------------------------------------------
(* Two stars: what is matched is denoted. *)

\* The name is found by the search, or it is the pattern itself.
Holds(p, h) == (~HasStar(p) /\ h = p) \/ MatchSingleLevelRecursive(p, h)

\* A piece that holds stays within what is closed under its steps.
LEMMA HoldsIsClosed ==
    ASSUME NEW S, NEW p \in Seq(S), NEW h \in Seq(S), NEW W, WalkClosed(p, h, W), 0 \in W[0], Holds(p, h)
    PROVE  Len(h) \in W[Len(p)]
  <1>1. CASE h = p
    BY <1>1, LiteralIsClosed
  <1>2. CASE MatchSingleLevelRecursive(p, h)
    BY <1>2, SearchIsClosed
  <1>. QED  BY <1>1, <1>2 DEF Holds

\* A prefix that is found holds of the piece of that length.
LEMMA PrefixFound ==
    ASSUME NEW S, NEW p \in Seq(S), NEW h \in Seq(S), MatchPrefixPattern(p, h) # NoMatch
    PROVE  /\ MatchPrefixPattern(p, h) \in 0..Len(h)
           /\ Holds(p, SubSeq(h, 1, MatchPrefixPattern(p, h)))
  <1>1. CASE p = <<>>
    <2>1. MatchPrefixPattern(p, h) = 0 /\ ~HasStar(p)
      BY <1>1 DEF MatchPrefixPattern, HasStar
    <2>2. SubSeq(h, 1, 0) = <<>>
      BY SubSeqEmpty
    <2>. QED  BY <1>1, <2>1, <2>2 DEF Holds
  <1>2. CASE p # <<>> /\ ~HasStar(p)
    <2>1. Len(p) <= Len(h) /\ SubSeq(h, 1, Len(p)) = p /\ MatchPrefixPattern(p, h) = Len(p)
      BY <1>2 DEF MatchPrefixPattern
    <2>. QED  BY <1>2, <2>1 DEF Holds
  <1>3. CASE p # <<>> /\ HasStar(p)
    <2>. DEFINE lengths == {n \in 1..Len(h) : n <= MaxLength /\ MatchSingleLevelRecursive(p, SubSeq(h, 1, n))}
    <2>1. MatchPrefixPattern(p, h) = IF lengths = {} THEN NoMatch ELSE Least(lengths)
      BY <1>3 DEF MatchPrefixPattern
    <2>2. lengths \in SUBSET Nat /\ lengths # {}
      BY <2>1
    <2>3. MatchPrefixPattern(p, h) \in lengths
      <3>. HIDE DEF lengths
      <3>. QED  BY <2>1, <2>2, LeastFacts
    <2>. QED  BY <2>3 DEF Holds
  <1>. QED  BY <1>1, <1>2, <1>3

\* A suffix that is found holds of some end of the name.
LEMMA SuffixFound ==
    ASSUME NEW S, NEW p \in Seq(S), NEW h \in Seq(S), MatchSuffixPattern(p, h) # NoMatch
    PROVE  \E i \in 1..Len(h) + 1 : Holds(p, From(h, i))
  <1>1. CASE p = <<>>
    <2>1. From(h, Len(h) + 1) = <<>> /\ Len(h) + 1 \in 1..Len(h) + 1
      BY SubSeqEmpty DEF From
    <2>. QED  BY <1>1, <2>1 DEF Holds, HasStar
  <1>2. CASE p # <<>> /\ ~HasStar(p)
    <2>1. Len(p) <= Len(h) /\ From(h, Len(h) - Len(p) + 1) = p
      BY <1>2 DEF MatchSuffixPattern
    <2>2. Len(h) - Len(p) + 1 \in 1..Len(h) + 1
      BY <2>1
    <2>. QED  BY <1>2, <2>1, <2>2 DEF Holds
  <1>3. CASE p # <<>> /\ HasStar(p)
    <2>1. {i \in 1..Len(h) + 1 : MatchSingleLevelRecursive(p, From(h, i))} # {}
      BY <1>3 DEF MatchSuffixPattern
    <2>. QED  BY <2>1 DEF Holds
  <1>. QED  BY <1>1, <1>2, <1>3

\* A piece of the pattern that matches a piece of the name leads a walk from
\* one end of it to the other.
LEMMA PieceOfWalk ==
    ASSUME NEW S, NEW p \in Seq(S), NEW h \in Seq(S), NEW R, Walk(p, h, R),
           NEW a \in 0..Len(p), NEW e \in a..Len(p), NEW b \in R[a], NEW c \in b..Len(h),
           Holds(SubSeq(p, a + 1, e), SubSeq(h, b + 1, c))
    PROVE  c \in R[e]
  <1>. DEFINE q == SubSeq(p, a + 1, e)
              g == SubSeq(h, b + 1, c)
              W == [l \in 0..e - a |-> {k \in 0..c - b : b + k \in R[a + l]}]
  <1>1. /\ b \in 0..Len(h) /\ b \in Nat /\ c \in Nat /\ Len(h) \in Nat /\ b <= c /\ c <= Len(h)
        /\ a \in Nat /\ e \in Nat /\ a <= e
    <2>1. b \in 0..Len(h)
      BY WalkFacts
    <2>. QED  BY <2>1
  <1>2. q \in Seq(S) /\ Len(q) = e - a /\ \A i \in 1..e - a : q[i] = p[a + i]
    <2>1. a + 1 \in 1..Len(p) + 1 /\ e \in (a + 1) - 1..Len(p) /\ e - (a + 1) + 1 = e - a
          /\ \A i \in 1..e - a : (a + 1) + i - 1 = a + i
      OBVIOUS
    <2>. QED  BY <2>1, Pieces
  <1>3. g \in Seq(S) /\ Len(g) = c - b /\ \A i \in 1..c - b : g[i] = h[b + i]
    <2>1. b + 1 \in 1..Len(h) + 1 /\ c \in (b + 1) - 1..Len(h) /\ c - (b + 1) + 1 = c - b
          /\ \A i \in 1..c - b : (b + 1) + i - 1 = b + i
      BY <1>1
    <2>. QED  BY <2>1, Pieces, SMTT(30)
  <1>4. \A l \in 0..e - a, k \in 0..c - b : k \in W[l] <=> b + k \in R[a + l]
    OBVIOUS
  <1>5. 0 \in W[0]
    BY <1>1
  <1>. HIDE DEF q, g, W
  <1>6. WalkClosed(q, g, W)
    <2>. SUFFICES ASSUME NEW i \in 1..e - a, NEW j \in 0..c - b, j \in W[i - 1]
                  PROVE  /\ q[i] = "*" => \A k \in j..c - b : (\A o \in j + 1..k : g[o] # ".") => k \in W[i]
                         /\ q[i] # "*" /\ j < c - b /\ g[j + 1] = q[i] => j + 1 \in W[i]
      BY <1>2, <1>3 DEF WalkClosed
    <2>1. /\ a + i \in 1..Len(p) /\ (a + i) - 1 = a + (i - 1) /\ i - 1 \in 0..e - a /\ i \in 0..e - a
          /\ b + j \in 0..Len(h) /\ q[i] = p[a + i]
      BY <1>1, <1>2
    <2>2. b + j \in R[(a + i) - 1]
      BY <1>4, <2>1
    <2>3. /\ p[a + i] = "*" =>
                \A k \in b + j..Len(h) : (\A o \in (b + j) + 1..k : h[o] # ".") => k \in R[a + i]
          /\ p[a + i] # "*" /\ b + j < Len(h) /\ h[(b + j) + 1] = p[a + i] => (b + j) + 1 \in R[a + i]
      BY <2>1, <2>2, WalkIsClosed DEF WalkClosed
    <2>4. ASSUME q[i] = "*", NEW k \in j..c - b, \A o \in j + 1..k : g[o] # "." PROVE k \in W[i]
      <3>1. b + k \in b + j..Len(h) /\ k \in 0..c - b
        BY <1>1, <2>1
      <3>2. ASSUME NEW o \in (b + j) + 1..b + k PROVE h[o] # "."
        <4>1. o - b \in j + 1..k /\ o - b \in 1..c - b /\ b + (o - b) = o
          BY <1>1, <3>1
        <4>. QED  BY <1>3, <2>4, <4>1
      <3>3. b + k \in R[a + i]
        BY <2>1, <2>3, <2>4, <3>1, <3>2
      <3>. QED  BY <1>4, <2>1, <3>1, <3>3
    <2>5. ASSUME q[i] # "*", j < c - b, g[j + 1] = q[i] PROVE j + 1 \in W[i]
      <3>1. j + 1 \in 1..c - b /\ j + 1 \in 0..c - b /\ b + (j + 1) = (b + j) + 1 /\ b + j < Len(h)
        BY <1>1, <2>5
      <3>2. h[(b + j) + 1] = p[a + i]
        BY <1>3, <2>1, <2>5, <3>1
      <3>3. b + (j + 1) \in R[a + i]
        BY <2>1, <2>3, <2>5, <3>1, <3>2
      <3>. QED  BY <1>4, <2>1, <3>1, <3>3
    <2>. QED  BY <2>4, <2>5
  <1>7. c - b \in W[e - a]
    <2>1. Holds(q, g)
      BY DEF q, g
    <2>2. Len(g) \in W[Len(q)]
      <3>1. q \in Seq(S) /\ g \in Seq(S)
        BY <1>2, <1>3
      <3>. HIDE DEF Holds
      <3>. QED  BY <1>5, <1>6, <2>1, <3>1, HoldsIsClosed
    <2>. QED  BY <1>2, <1>3, <2>2
  <1>8. e - a \in 0..e - a /\ c - b \in 0..c - b /\ b + (c - b) = c /\ a + (e - a) = e
    BY <1>1
  <1>. QED  BY <1>4, <1>7, <1>8

\* Two stars beside each other lead anywhere further on.
LEMMA PairPasses ==
    ASSUME NEW S, NEW p \in Seq(S), NEW h \in Seq(S), NEW R, Walk(p, h, R),
           NEW s \in DoubleStarAt(p), NEW j \in R[s - 1], NEW k \in j..Len(h)
    PROVE  k \in R[s + 1]
  <1>1. s \in 1..Len(p) /\ s + 1 \in 1..Len(p) /\ p[s] = "*" /\ p[s + 1] = "*" /\ (s + 1) - 1 = s
    BY DEF DoubleStarAt
  <1>2. j \in 0..Len(h) /\ k \in 0..Len(h)
    <2>1. s - 1 \in 0..Len(p)
      BY <1>1
    <2>. QED  BY <2>1, WalkFacts
  <1>3. j \in R[s]
    <2>1. R[s] = After(p, h, R, s)
      BY <1>1, WalkFacts
    <2>. QED  BY <1>1, <1>2, <2>1 DEF After
  <1>4. R[s + 1] = After(p, h, R, s + 1)
    BY <1>1, WalkFacts
  <1>. QED  BY <1>1, <1>2, <1>3, <1>4 DEF After

\* With a dot after them they may stand for no label.
LEMMA PairIsSkipped ==
    ASSUME NEW S, NEW p \in Seq(S), NEW h \in Seq(S), NEW R, Walk(p, h, R),
           NEW s \in DoubleStarAt(p), s + 2 <= Len(p), p[s + 2] = "."
    PROVE  R[s - 1] \subseteq R[s + 2]
  <1>1. /\ s + 2 \in 1..Len(p) /\ s + 2 > 2 /\ (s + 2) - 1 = s + 1 /\ (s + 2) - 2 = s /\ (s + 2) - 3 = s - 1
        /\ p[s] = "*" /\ p[s + 1] = "*"
    BY DEF DoubleStarAt
  <1>2. R[s + 2] = After(p, h, R, s + 2)
    BY <1>1, WalkFacts
  <1>. QED  BY <1>1, <1>2 DEF After

\* The pattern without the two stars and their dot leads where the whole does.
LEMMA SkippingWalk ==
    ASSUME NEW S, NEW p \in Seq(S), NEW h \in Seq(S), NEW R, Walk(p, h, R),
           NEW s \in DoubleStarAt(p), s + 2 <= Len(p), p[s + 2] = ".",
           MatchSingleLevelRecursive(SubSeq(p, 1, s - 1) \o SubSeq(p, s + 3, Len(p)), h)
    PROVE  Len(h) \in R[Len(p)]
  <1>. DEFINE n == Len(p)
              q == SubSeq(p, 1, s - 1) \o SubSeq(p, s + 3, n)
              To(l) == IF l < s - 1 THEN l ELSE l + 3
              W == [l \in 0..n - 3 |-> R[To(l)]]
  <1>1. n \in Nat /\ s \in Nat /\ s >= 1 /\ s + 2 <= n
    BY DEF DoubleStarAt
  <1>2. q \in Seq(S) /\ Len(q) = n - 3 /\ \A i \in 1..n - 3 : q[i] = IF i <= s - 1 THEN p[i] ELSE p[i + 3]
    <2>. DEFINE u == SubSeq(p, 1, s - 1)
                v == SubSeq(p, s + 3, n)
    <2>1. u \in Seq(S) /\ Len(u) = s - 1 /\ \A i \in 1..s - 1 : u[i] = p[i]
      <3>1. 1 \in 1..n + 1 /\ s - 1 \in 1 - 1..n /\ (s - 1) - 1 + 1 = s - 1 /\ \A i \in 1..s - 1 : 1 + i - 1 = i
        BY <1>1
      <3>. QED  BY <3>1, Pieces
    <2>2. v \in Seq(S) /\ Len(v) = n - s - 2 /\ \A i \in 1..n - s - 2 : v[i] = p[s + 2 + i]
      <3>1. s + 3 \in 1..n + 1 /\ n \in (s + 3) - 1..n /\ n - (s + 3) + 1 = n - s - 2
            /\ \A i \in 1..n - s - 2 : (s + 3) + i - 1 = s + 2 + i
        BY <1>1
      <3>. QED  BY <3>1, Pieces
    <2>. HIDE DEF u, v, n
    <2>3. q \in Seq(S) /\ Len(q) = (s - 1) + (n - s - 2)
          /\ \A i \in 1..(s - 1) + (n - s - 2) : q[i] = IF i <= s - 1 THEN u[i] ELSE v[i - (s - 1)]
      <3>1. q = u \o v
        BY DEF u, v, n
      <3>2. /\ u \o v \in Seq(S) /\ Len(u \o v) = Len(u) + Len(v)
            /\ \A i \in 1..Len(u) + Len(v) : (u \o v)[i] = IF i <= Len(u) THEN u[i] ELSE v[i - Len(u)]
        BY <2>1, <2>2, ConcatProperties
      <3>. HIDE DEF q
      <3>. QED  BY <2>1, <2>2, <3>1, <3>2
    <2>4. (s - 1) + (n - s - 2) = n - 3
      BY <1>1
    <2>5. ASSUME NEW i \in 1..n - 3 PROVE q[i] = IF i <= s - 1 THEN p[i] ELSE p[i + 3]
      <3>1. CASE i <= s - 1
        BY <1>1, <2>1, <2>3, <2>4, <3>1
      <3>2. CASE ~(i <= s - 1)
        <4>1. i - (s - 1) \in 1..n - s - 2 /\ s + 2 + (i - (s - 1)) = i + 3
          BY <1>1, <3>2
        <4>. QED  BY <2>2, <2>3, <2>4, <3>2, <4>1
      <3>. QED  BY <3>1, <3>2
    <2>. QED  BY <2>3, <2>4, <2>5
  <1>3. \A l \in 0..n - 3 : W[l] = R[To(l)]
    OBVIOUS
  <1>4. 0 \in W[0]
    <2>1. R[0] = {0} /\ 0 \in 0..n - 3
      BY <1>1, WalkFacts
    <2>2. s = 1 => 0 \in R[3]
      BY <2>1, PairIsSkipped
    <2>3. W[0] = R[To(0)]
      BY <1>3, <2>1
    <2>. HIDE DEF W
    <2>. QED  BY <1>1, <2>1, <2>2, <2>3
  <1>. HIDE DEF q, W, n
  <1>5. WalkClosed(q, h, W)
    <2>. SUFFICES ASSUME NEW i \in 1..n - 3, NEW j \in 0..Len(h), j \in W[i - 1]
                  PROVE  /\ q[i] = "*" => \A k \in j..Len(h) : (\A o \in j + 1..k : h[o] # ".") => k \in W[i]
                         /\ q[i] # "*" /\ j < Len(h) /\ h[j + 1] = q[i] => j + 1 \in W[i]
      BY <1>2 DEF WalkClosed
    <2>. DEFINE t == IF i <= s - 1 THEN i ELSE i + 3
    <2>1. t \in 1..Len(p) /\ q[i] = p[t] /\ i - 1 \in 0..n - 3 /\ i \in 0..n - 3
      BY <1>1, <1>2 DEF n
    <2>2. j \in R[t - 1]
      <3>1. To(i - 1) = t - 1
        BY <1>1
      <3>. QED  BY <1>3, <2>1, <3>1
    <2>3. R[t] \subseteq W[i]
      <3>1. W[i] = R[To(i)]
        BY <1>3, <2>1
      <3>2. CASE i = s - 1
        <4>1. To(i) = s + 2 /\ t = s - 1
          BY <1>1, <3>2
        <4>. QED  BY <3>1, <4>1, PairIsSkipped
      <3>3. CASE i # s - 1
        <4>1. To(i) = t
          BY <1>1, <3>3
        <4>. QED  BY <3>1, <4>1
      <3>. QED  BY <3>2, <3>3
    <2>. HIDE DEF t, To
    <2>4. /\ p[t] = "*" => \A k \in j..Len(h) : (\A o \in j + 1..k : h[o] # ".") => k \in R[t]
          /\ p[t] # "*" /\ j < Len(h) /\ h[j + 1] = p[t] => j + 1 \in R[t]
      BY <2>1, <2>2, WalkIsClosed DEF WalkClosed
    <2>. QED  BY <2>1, <2>3, <2>4
  <1>6. Len(h) \in W[Len(q)]
    <2>1. MatchSingleLevelRecursive(q, h)
      BY DEF q, n
    <2>2. q \in Seq(S)
      BY <1>2
    <2>. QED  BY <1>4, <1>5, <2>1, <2>2, SearchIsClosed
  <1>7. CASE n - 3 < s - 1
    <2>1. n = s + 2 /\ To(n - 3) = s - 1 /\ n - 3 \in 0..n - 3
      BY <1>1, <1>7
    <2>. QED  BY <1>2, <1>3, <1>6, <2>1, PairIsSkipped DEF n
  <1>8. CASE ~(n - 3 < s - 1)
    <2>1. To(n - 3) = n /\ n - 3 \in 0..n - 3
      BY <1>1, <1>8
    <2>. QED  BY <1>2, <1>3, <1>6, <2>1 DEF n
  <1>. QED  BY <1>7, <1>8

\* A piece of a lowered name stays as it is.
LEMMA LowPiece ==
    ASSUME NEW s \in Seq(Chars), NEW a \in 1..Len(s) + 1, NEW e \in a - 1..Len(s)
    PROVE  Lowered(SubSeq(Lowered(s), a, e)) = SubSeq(Lowered(s), a, e)
  <1>. DEFINE t == Lowered(s)
              u == SubSeq(t, a, e)
  <1>1. t \in Seq(Chars) /\ Len(t) = Len(s) /\ \A i \in 1..Len(s) : Lower[t[i]] = t[i]
    <2>1. t \in Seq(Chars) /\ Len(t) = Len(s) /\ Lowered(t) = t
      BY LoweredFacts
    <2>2. \A i \in 1..Len(t) : Lowered(t)[i] = Lower[t[i]]
      BY <2>1, LoweredFacts
    <2>. QED  BY <2>1, <2>2
  <1>2. u \in Seq(Chars) /\ Len(u) = e - a + 1 /\ \A i \in 1..e - a + 1 : u[i] = t[a + i - 1]
    BY <1>1, Pieces
  <1>3. \A i \in 1..Len(u) : Lower[u[i]] = u[i]
    <2>1. \A i \in 1..e - a + 1 : a + i - 1 \in 1..Len(s)
      OBVIOUS
    <2>. HIDE DEF t, u
    <2>. QED  BY <1>1, <1>2, <2>1
  <1>4. Lowered(u) \in Seq(Chars) /\ Len(Lowered(u)) = Len(u) /\ \A i \in 1..Len(u) : Lowered(u)[i] = Lower[u[i]]
    BY <1>2, LoweredFacts
  <1>. HIDE DEF u
  <1>5. Lowered(u) = u
    BY <1>2, <1>3, <1>4, SeqEqual
  <1>. QED  BY <1>5 DEF u

\* The first pair of stars.
LEMMA LeastDoubleStar ==
    ASSUME NEW S, NEW p \in Seq(S), DoubleStarAt(p) # {}
    PROVE  /\ Least(DoubleStarAt(p)) \in DoubleStarAt(p)
           /\ \A i \in DoubleStarAt(p) : Least(DoubleStarAt(p)) <= i
  <1>1. DoubleStarAt(p) \in SUBSET Nat
    BY DEF DoubleStarAt
  <1>. QED  BY <1>1, LeastFacts

\* All of a sequence is a piece of it.
LEMMA WholePieces ==
    ASSUME NEW S, NEW s \in Seq(S)
    PROVE  SubSeq(s, 1, Len(s)) = s
  BY SubSeqFull

\* wildcard_matcher.c 144-165: two stars at the front.
LEMMA LeadingIsSound ==
    ASSUME NEW p0 \in Seq(Chars), NEW h0 \in Seq(Chars), NEW p, NEW h, p = Lowered(p0), h = Lowered(h0),
           NEW R, Walk(p, h, R), 1 \in DoubleStarAt(p), MatchLeading(From(p, 3), h)
    PROVE  Len(h) \in R[Len(p)]
  <1>. DEFINE n == Len(p)
              m == Len(h)
              suffix == From(p, 3)
  <1>1. /\ p \in Seq(Chars) /\ h \in Seq(Chars) /\ n \in Nat /\ m \in Nat /\ n >= 2
        /\ R[0] = {0}
    <2>1. p \in Seq(Chars) /\ h \in Seq(Chars)
      BY LoweredFacts
    <2>. HIDE DEF Chars
    <2>2. n >= 2
      BY <2>1 DEF DoubleStarAt
    <2>. QED  BY <2>1, <2>2, WalkFacts
  <1>. HIDE DEF Chars
  <1>2. ASSUME NEW k \in 0..m PROVE k \in R[2]
    <2>1. 0 \in R[1 - 1] /\ k \in 0..Len(h) /\ 1 + 1 = 2
      BY <1>1
    <2>. QED  BY <1>1, <2>1, PairPasses
  <1>3. suffix \in Seq(Chars) /\ Len(suffix) = n - 2 /\ suffix = SubSeq(p, 3, n)
    <2>1. 3 \in 1..Len(p) + 1 /\ Len(p) - 3 + 1 = n - 2
      BY <1>1
    <2>. QED  BY <1>1, <2>1, FromFacts DEF From
  <1>4. CASE suffix = <<>>
    <2>1. n = 2
      BY <1>1, <1>3, <1>4
    <2>. QED  BY <1>1, <1>2, <2>1
  \* The suffix matches at the end of the name.
  <1>5. ASSUME NEW i \in 1..m + 1, Holds(suffix, From(h, i)) PROVE m \in R[n]
    <2>1. /\ 2 \in 0..Len(p) /\ n \in 2..Len(p) /\ i - 1 \in R[2] /\ m \in i - 1..Len(h)
          /\ (i - 1) + 1 = i
      BY <1>1, <1>2
    <2>2. Holds(SubSeq(p, 2 + 1, n), SubSeq(h, (i - 1) + 1, m))
      BY <1>3, <1>5, <2>1 DEF From
    <2>. HIDE DEF n, m, suffix, Holds
    <2>3. p \in Seq(Chars) /\ h \in Seq(Chars)
      BY <1>1
    <2>. QED  BY <2>1, <2>2, <2>3, PieceOfWalk
  <1>6. CASE suffix # <<>> /\ Head(suffix) = "."
    <2>1. n >= 3 /\ p[3] = "." /\ Tail(suffix) = SubSeq(p, 4, n) /\ 0 \in R[3]
      <3>1. n >= 3
        BY <1>1, <1>3, <1>6
      <3>2. 3 \in 1..Len(p) /\ n \in 3..Len(p)
        BY <1>1, <3>1
      <3>3. Head(suffix) = p[3] /\ Tail(suffix) = SubSeq(p, 3 + 1, n)
        BY <1>1, <1>3, <3>2, HeadTailOfSubSeq
      <3>4. 0 \in R[3]
        <4>1. 1 \in DoubleStarAt(p) /\ 1 + 2 <= Len(p) /\ p[1 + 2] = "." /\ 1 + 2 = 3 /\ 1 - 1 = 0
          BY <1>1, <1>6, <3>1, <3>3
        <4>2. R[1 - 1] \subseteq R[1 + 2]
          BY <1>1, <4>1, PairIsSkipped
        <4>. QED  BY <1>1, <4>1, <4>2
      <3>. QED  BY <1>6, <3>1, <3>3, <3>4
    <2>2. ASSUME Holds(Tail(suffix), h) PROVE m \in R[n]
      <3>1. 3 \in 0..Len(p) /\ n \in 3..Len(p) /\ m \in 0..Len(h)
        BY <1>1, <2>1
      <3>2. Holds(SubSeq(p, 3 + 1, n), SubSeq(h, 0 + 1, m))
        <4>1. SubSeq(h, 1, m) = h
          BY <1>1, WholePieces
        <4>2. 3 + 1 = 4 /\ 0 + 1 = 1
          OBVIOUS
        <4>. HIDE DEF n, m, suffix, Holds
        <4>. QED  BY <2>1, <2>2, <4>1, <4>2
      <3>. HIDE DEF n, m, suffix, Holds
      <3>3. p \in Seq(Chars) /\ h \in Seq(Chars) /\ 0 \in R[3]
        BY <1>1, <2>1
      <3>. QED  BY <3>1, <3>2, <3>3, PieceOfWalk
    <2>3. CASE HasStar(Tail(suffix))
      <3>1. MatchSingleLevelRecursive(Tail(suffix), h) \/ MatchSuffixPattern(suffix, h) # NoMatch
        BY <1>6, <2>3 DEF MatchLeading
      <3>2. MatchSuffixPattern(suffix, h) # NoMatch => \E i \in 1..m + 1 : Holds(suffix, From(h, i))
        BY <1>1, <1>3, SuffixFound
      <3>. QED  BY <1>5, <2>2, <3>1, <3>2 DEF Holds
    <2>4. CASE ~HasStar(Tail(suffix))
      <3>1. h = Tail(suffix) \/ EndsWith(h, suffix)
        BY <1>6, <2>4 DEF MatchLeading
      <3>2. CASE h = Tail(suffix)
        BY <2>2, <2>4, <3>2 DEF Holds
      <3>3. CASE EndsWith(h, suffix)
        <4>. DEFINE i == m - Len(suffix) + 1
        <4>1. i \in 1..m + 1 /\ Lowered(From(h, i)) = Lowered(suffix)
          BY <1>1, <1>3, <3>3 DEF EndsWith, SameName
        <4>2. Lowered(From(h, i)) = From(h, i)
          <5>1. Len(h0) = m /\ m \in i - 1..m
            BY <1>1, <4>1, LoweredFacts DEF Chars
          <5>. HIDE DEF i, m
          <5>2. h0 \in Seq(Chars) /\ i \in 1..Len(h0) + 1 /\ m \in i - 1..Len(h0)
            BY <4>1, <5>1
          <5>. QED  BY <5>2, LowPiece DEF From, m
        <4>3. Lowered(suffix) = suffix
          <5>1. Len(p0) = n
            BY <1>1, LoweredFacts DEF Chars
          <5>2. 3 \in 1..Len(p0) + 1 /\ n \in 3 - 1..Len(p0)
            BY <1>1, <5>1
          <5>. QED  BY <5>2, LowPiece DEF From
        <4>4. ~HasStar(suffix)
          <5>. HIDE DEF n, suffix
          <5>1. \A j \in 1..Len(Tail(suffix)) : Tail(suffix)[j] = suffix[j + 1] /\ Len(Tail(suffix)) = Len(suffix) - 1
            BY <1>3, <1>6, HeadTailProperties
          <5>2. Len(Tail(suffix)) = Len(suffix) - 1 /\ Head(suffix) = suffix[1] /\ Len(suffix) \in Nat
            BY <1>3, <1>6, HeadTailProperties
          <5>3. \A j \in 1..Len(suffix) : j = 1 \/ (j - 1 \in 1..Len(Tail(suffix)) /\ (j - 1) + 1 = j)
            BY <5>2
          <5>. QED  BY <1>6, <2>4, <5>1, <5>2, <5>3 DEF HasStar
        <4>5. Holds(suffix, From(h, i))
          BY <4>1, <4>2, <4>3, <4>4 DEF Holds
        <4>. QED  BY <1>5, <4>1, <4>5
      <3>. QED  BY <3>1, <3>2, <3>3
    <2>. QED  BY <2>3, <2>4
  <1>. QED  BY <1>4, <1>6 DEF MatchLeading

\* wildcard_matcher.c 167-224: two stars after a prefix.
LEMMA BetweenIsSound ==
    ASSUME NEW S, NEW p \in Seq(S), NEW h \in Seq(S), NEW R, Walk(p, h, R), Len(p) <= MaxLength,
           NEW s \in DoubleStarAt(p), MatchBetween(SubSeq(p, 1, s - 1), From(p, s + 2), h)
    PROVE  Len(h) \in R[Len(p)]
  <1>. DEFINE n == Len(p)
              m == Len(h)
              prefix == SubSeq(p, 1, s - 1)
              suffix == From(p, s + 2)
              matched == MatchPrefixPattern(prefix, h)
  <1>1. n \in Nat /\ m \in Nat /\ s \in Nat /\ s >= 1 /\ s + 1 <= n /\ R[0] = {0}
    BY WalkFacts DEF DoubleStarAt
  <1>2. prefix \in Seq(S) /\ Len(prefix) = s - 1
    <2>1. 1 \in 1..Len(p) + 1 /\ s - 1 \in 1 - 1..Len(p) /\ (s - 1) - 1 + 1 = s - 1
      BY <1>1
    <2>. QED  BY <2>1, Pieces
  <1>3. suffix \in Seq(S) /\ Len(suffix) = n - s - 1
    <2>1. s + 2 \in 1..Len(p) + 1 /\ n - (s + 2) + 1 = n - s - 1
      BY <1>1
    <2>. QED  BY <2>1, FromFacts
  <1>4. ASSUME matched # NoMatch PROVE matched \in 0..m /\ matched \in R[s - 1]
    <2>1. matched \in 0..m /\ Holds(prefix, SubSeq(h, 1, matched))
      BY <1>2, <1>4, PrefixFound
    <2>2. 0 \in 0..Len(p) /\ s - 1 \in 0..Len(p) /\ 0 \in R[0] /\ matched \in 0..Len(h)
      BY <1>1, <2>1
    <2>3. Holds(SubSeq(p, 0 + 1, s - 1), SubSeq(h, 0 + 1, matched))
      BY <2>1
    <2>. HIDE DEF n, m, prefix, matched
    <2>. QED  BY <2>1, <2>2, <2>3, PieceOfWalk DEF m
  <1>5. ASSUME matched # NoMatch, NEW k \in matched..m PROVE k \in R[s + 1]
    <2>. HIDE DEF matched
    <2>. QED  BY <1>4, <1>5, PairPasses
  <1>6. CASE suffix = <<>> /\ matched # NoMatch
    <2>1. m \in matched..m /\ s + 1 = n
      BY <1>1, <1>3, <1>4, <1>6
    <2>. HIDE DEF matched, suffix
    <2>. QED  BY <1>5, <1>6, <2>1
  <1>7. CASE suffix # <<>> /\ Head(suffix) = "." /\ MatchSingleLevelRecursive(Cut(prefix \o Tail(suffix)), h)
    <2>1. s + 2 <= n
      BY <1>1, <1>3, <1>7
    <2>2. Head(suffix) = p[s + 2] /\ Tail(suffix) = SubSeq(p, s + 3, n)
      <3>1. s + 2 \in 1..Len(p) /\ n \in s + 2..Len(p) /\ (s + 2) + 1 = s + 3
        BY <1>1, <2>1
      <3>. QED  BY <3>1, HeadTailOfSubSeq DEF From
    <2>3. Cut(prefix \o Tail(suffix)) = prefix \o Tail(suffix)
      <3>. DEFINE q == prefix \o Tail(suffix)
      <3>1. Tail(suffix) \in Seq(S) /\ Len(Tail(suffix)) = n - s - 2
        BY <1>1, <1>3, <1>7, HeadTailProperties
      <3>2. q \in Seq(S) /\ Len(q) = Len(prefix) + Len(Tail(suffix))
        <4>. HIDE DEF prefix, suffix
        <4>. QED  BY <1>2, <3>1, ConcatProperties
      <3>3. Len(q) <= MaxLength
        BY <1>1, <1>2, <3>1, <3>2, MaxLengthAssumption
      <3>. HIDE DEF q
      <3>4. SubSeq(q, 1, Len(q)) = q /\ Len(q) \in Nat
        <4>1. q \in Seq(S)
          BY <3>2
        <4>. QED  BY <4>1, SubSeqFull, LenProperties
      <3>5. (IF Len(q) < MaxLength THEN Len(q) ELSE MaxLength) = Len(q)
        <4>1. \A k \in Nat : k <= MaxLength => (IF k < MaxLength THEN k ELSE MaxLength) = k
          BY MaxLengthAssumption
        <4>. QED  BY <3>3, <3>4, <4>1
      <3>. QED  BY <3>4, <3>5 DEF Cut, q
    <2>4. MatchSingleLevelRecursive(SubSeq(p, 1, s - 1) \o SubSeq(p, s + 3, Len(p)), h)
      BY <1>7, <2>2, <2>3
    <2>. QED  BY <1>7, <2>1, <2>2, <2>4, SkippingWalk
  <1>8. CASE matched # NoMatch /\ MatchSuffixPattern(suffix, From(h, matched + 1)) # NoMatch
    <2>. DEFINE g == From(h, matched + 1)
    <2>1. matched \in 0..m
      BY <1>4, <1>8
    <2>2. g \in Seq(S) /\ Len(g) = m - matched /\ \A i \in 1..m - matched : g[i] = h[matched + i]
      <3>1. matched + 1 \in 1..Len(h) + 1 /\ Len(h) - (matched + 1) + 1 = m - matched
            /\ \A i \in 1..m - matched : (matched + 1) + i - 1 = matched + i
        BY <1>1, <2>1, SMTT(30)
      <3>. HIDE DEF matched
      <3>2. /\ From(h, matched + 1) \in Seq(S) /\ Len(From(h, matched + 1)) = Len(h) - (matched + 1) + 1
            /\ \A i \in 1..Len(h) - (matched + 1) + 1 : From(h, matched + 1)[i] = h[(matched + 1) + i - 1]
        BY <3>1, FromFacts
      <3>. QED  BY <3>1, <3>2
    <2>3. PICK i \in 1..Len(g) + 1 : Holds(suffix, From(g, i))
      <3>. HIDE DEF g, suffix, matched
      <3>. QED  BY <1>3, <1>8, <2>2, SuffixFound DEF g
    <2>. DEFINE b == matched + i - 1
    <2>4. b \in matched..m /\ b + 1 \in 1..m + 1
      <3>. HIDE DEF matched, g
      <3>1. m \in Nat /\ matched \in Nat /\ matched <= m /\ i \in Nat /\ 1 <= i /\ i <= m - matched + 1
        BY <1>1, <2>1, <2>2
      <3>. HIDE DEF m
      <3>. QED  BY <3>1
    <2>5. From(g, i) = SubSeq(h, b + 1, m)
      <3>. HIDE DEF matched, g
      <3>1. From(g, i) \in Seq(S) /\ Len(From(g, i)) = m - b /\ \A k \in 1..m - b : From(g, i)[k] = h[b + k]
        <4>1. /\ Len(g) - i + 1 = m - b
              /\ \A k \in 1..m - b : i + k - 1 \in 1..m - matched /\ matched + (i + k - 1) = b + k
          BY <1>1, <2>1, <2>2
        <4>2. /\ From(g, i) \in Seq(S) /\ Len(From(g, i)) = Len(g) - i + 1
              /\ \A k \in 1..Len(g) - i + 1 : From(g, i)[k] = g[i + k - 1]
          <5>1. g \in Seq(S) /\ i \in 1..Len(g) + 1
            BY <2>2, <2>3
          <5>. QED  BY <5>1, FromFacts, Zenon
        <4>. HIDE DEF b
        <4>. QED  BY <2>2, <4>1, <4>2
      <3>2. /\ SubSeq(h, b + 1, m) \in Seq(S) /\ Len(SubSeq(h, b + 1, m)) = m - b
            /\ \A k \in 1..m - b : SubSeq(h, b + 1, m)[k] = h[b + k]
        <4>1. /\ b + 1 \in 1..Len(h) + 1 /\ m \in (b + 1) - 1..Len(h) /\ m - (b + 1) + 1 = m - b
              /\ \A k \in 1..m - b : (b + 1) + k - 1 = b + k
          BY <1>1, <2>1, <2>4
        <4>. HIDE DEF b
        <4>. QED  BY <4>1, Pieces
      <3>. HIDE DEF b, m
      <3>. QED  BY <3>1, <3>2, SeqEqual
    <2>6. b \in R[s + 1]
      <3>. HIDE DEF matched, b
      <3>. QED  BY <1>5, <1>8, <2>4
    <2>7. /\ s + 1 \in 0..Len(p) /\ n \in s + 1..Len(p) /\ m \in b..Len(h) /\ (s + 1) + 1 = s + 2
      BY <1>1, <2>1, <2>4
    <2>8. Holds(SubSeq(p, (s + 1) + 1, n), SubSeq(h, b + 1, m))
      BY <2>3, <2>5, <2>7 DEF From
    <2>. HIDE DEF b, n, m
    <2>9. m \in R[n]
      BY <2>6, <2>7, <2>8, PieceOfWalk
    <2>. QED  BY <2>9 DEF n, m
  <1>. QED  BY <1>6, <1>7, <1>8 DEF MatchBetween

\* wildcard_matcher.c 64-77, 144-224: no name is matched that the pattern does
\* not denote, whatever its stars are.
THEOREM MatchIsDenoted ==
    ASSUME NEW p \in Seq(Chars), NEW h \in Seq(Chars), Len(p) <= MaxLength, Len(h) <= MaxLength,
           WildcardMatch(p, h)
    PROVE  Denotes(p, h)
  <1>1. CASE DoubleStarAt(p) = {}
    BY <1>1, SingleLevel
  <1>2. CASE DoubleStarAt(p) # {} /\ SameName(p, h)
    BY <1>2 DEF Denotes
  <1>3. CASE DoubleStarAt(p) # {} /\ MatchMultiLevelWildcard(p, h)
    <2>. DEFINE q == Lowered(p)
                g == Lowered(h)
                s == Least(DoubleStarAt(q))
                prefix == SubSeq(q, 1, s - 1)
    <2>1. q \in Seq(Chars) /\ g \in Seq(Chars) /\ Len(q) = Len(p) /\ Len(g) = Len(h) /\ DoubleStarAt(q) # {}
      BY <1>3, LoweredFacts
    <2>2. IF prefix = <<>> THEN MatchLeading(From(q, s + 2), g) ELSE MatchBetween(prefix, From(q, s + 2), g)
      <3>. HIDE DEF q, g
      <3>. QED  BY <1>3 DEF MatchMultiLevelWildcard, q, g
    <2>. HIDE DEF q, g, s
    <2>3. PICK R : Walk(q, g, R) /\ Reached(q, g) = R[Len(q)]
      BY <2>1, ReachedIsWalk
    <2>4. s \in DoubleStarAt(q) /\ s \in 1..Len(q)
      <3>1. s \in DoubleStarAt(q)
        BY <2>1, LeastDoubleStar DEF s
      <3>. QED  BY <2>1, <3>1 DEF DoubleStarAt
    <2>5. Len(g) \in R[Len(q)]
      <3>1. CASE prefix = <<>>
        <4>1. s = 1
          <5>1. 1 \in 1..Len(q) + 1 /\ s - 1 \in 1 - 1..Len(q)
            BY <2>1, <2>4
          <5>2. Len(prefix) = (s - 1) - 1 + 1
            BY <2>1, <5>1, Pieces
          <5>. QED  BY <2>4, <3>1, <5>2
        <4>2. MatchLeading(From(q, 3), g) /\ 1 \in DoubleStarAt(q)
          BY <2>2, <2>4, <3>1, <4>1
        <4>. QED  BY <2>3, <4>2, LeadingIsSound DEF q, g
      <3>2. CASE prefix # <<>>
        BY <2>1, <2>2, <2>3, <2>4, <3>2, BetweenIsSound
      <3>. QED  BY <3>1, <3>2
    <2>6. Len(h) \in Reached(q, g)
      BY <2>1, <2>3, <2>5
    <2>. QED  BY <2>6 DEF Denotes, q, g
  <1>4. CASE DoubleStarAt(p) # {} /\ ~SameName(p, h) /\ ~MatchMultiLevelWildcard(p, h)
    BY <1>4 DEF WildcardMatch
  <1>. QED  BY <1>1, <1>2, <1>3, <1>4

-------------------------------------------------------------------------------
(* Before the first star and after the last. *)

\* A pattern denotes itself, so Denotes is about places reached only.
LEMMA DenotesIsReached ==
    ASSUME NEW p \in Seq(Chars), NEW h \in Seq(Chars), Denotes(p, h)
    PROVE  Len(Lowered(h)) \in Reached(Lowered(p), Lowered(h))
  <1>. DEFINE q == Lowered(p)
              g == Lowered(h)
  <1>1. q \in Seq(Chars) /\ g \in Seq(Chars) /\ Len(g) = Len(h)
    BY LoweredFacts
  <1>2. q = g \/ Len(g) \in Reached(q, g)
    BY <1>1 DEF Denotes, SameName
  <1>. HIDE DEF q, g, Chars
  <1>3. CASE q = g
    <2>1. PICK R : Walk(q, q, R) /\ Reached(q, q) = R[Len(q)]
      BY <1>1, ReachedIsWalk
    <2>2. WalkClosed(q, q, R) /\ R[0] = {0}
      BY <1>1, <2>1, WalkIsClosed, WalkFacts
    <2>. QED  BY <1>1, <1>3, <2>1, <2>2, LiteralIsClosed DEF q, g
  <1>. QED  BY <1>2, <1>3 DEF q, g

\* f is the first star of p.
FirstStar(p, f) == f \in 1..Len(p) /\ p[f] = "*" /\ \A i \in 1..f - 1 : p[i] # "*"

\* l is the last.
LastStar(p, l) == l \in 1..Len(p) /\ p[l] = "*" /\ \A i \in l + 1..Len(p) : p[i] # "*"

\* The places reached from a star on lie after what stands before all stars.
LEMMA WalkAfterPrefix ==
    ASSUME NEW S, NEW p \in Seq(S), NEW h \in Seq(S), NEW R, Walk(p, h, R),
           NEW f, FirstStar(p, f)
    PROVE  \A i \in f - 1..Len(p) : \A k \in R[i] :
               f - 1 <= k /\ k <= Len(h) /\ \A d \in 1..f - 1 : h[d] = p[d]
  <1>. DEFINE n == Len(p)
              Good(i) == \A k \in R[i] : f - 1 <= k /\ k <= Len(h) /\ \A d \in 1..f - 1 : h[d] = p[d]
              T == {i \in f - 1..n : ~Good(i)}
  <1>0. f \in 1..Len(p) /\ p[f] = "*" /\ \A i \in 1..f - 1 : p[i] # "*"
    BY DEF FirstStar
  <1>1. n \in Nat /\ Len(h) \in Nat /\ f \in Nat /\ 1 <= f /\ f <= n
    BY <1>0
  <1>. SUFFICES ASSUME T # {} PROVE FALSE
    OBVIOUS
  <1>2. PICK i \in T : \A j \in T : i <= j
    <2>1. T \in SUBSET Nat
      BY <1>1
    <2>. HIDE DEF T
    <2>. QED  BY <2>1, LeastNumber
  <1>3. i # f - 1
    <2>1. f - 1 \in 0..Len(p) /\ f - 1 \in 0..f - 1 /\ f \in 1..Len(p)
      BY <1>1
    <2>2. Good(f - 1)
      <3>. HIDE DEF n
      <3>1. Literal(p, f - 1)
        BY <1>0 DEF Literal
      <3>2. \A e \in 0..f - 1 : \A k \in R[e] : k = e /\ k <= Len(h) /\ \A q \in 1..e : h[q] = p[q]
        BY <2>1, <3>1, LiteralWalk
      <3>. QED  BY <1>1, <2>1, <3>2
    <2>. QED  BY <1>2, <2>2
  <1>4. i \in f..n /\ i \in 1..n /\ i - 1 \in f - 1..n /\ ~(i <= i - 1) /\ ~Good(i)
    BY <1>1, <1>3
  <1>5. Good(i - 1)
    BY <1>2, <1>4
  <1>6. i > 2 /\ p[i - 1] = "*" /\ p[i - 2] = "*" => Good(i - 3)
    <2>. SUFFICES ASSUME i > 2, p[i - 1] = "*", p[i - 2] = "*" PROVE Good(i - 3)
      OBVIOUS
    <2>1. i - 2 \in 1..n /\ ~(i - 2 \in 1..f - 1)
      BY <1>0, <1>4
    <2>2. i - 3 \in f - 1..n /\ ~(i <= i - 3)
      BY <1>1, <1>4, <2>1
    <2>. QED  BY <1>2, <2>2
  <1>7. R[i] = After(p, h, R, i)
    BY <1>4, WalkFacts
  <1>8. ASSUME NEW k \in R[i] PROVE f - 1 <= k /\ k <= Len(h) /\ \A d \in 1..f - 1 : h[d] = p[d]
    <2>1. CASE p[i] = "*"
      <3>1. k \in 0..Len(h) /\ \E j \in R[i - 1] : j <= k
        BY <1>4, <1>7, <1>8, <2>1 DEF After
      <3>2. i - 1 \in 0..n
        BY <1>1, <1>4
      <3>3. R[i - 1] \in SUBSET (0..Len(h))
        BY <3>2, WalkFacts
      <3>. QED  BY <1>1, <1>5, <3>1, <3>3
    <2>2. CASE p[i] # "*" /\ k \in 1..Len(h) /\ k - 1 \in R[i - 1]
      BY <1>1, <1>5, <2>2
    <2>3. CASE p[i] # "*" /\ ~(k \in 1..Len(h) /\ k - 1 \in R[i - 1])
      <3>1. i > 2 /\ p[i - 1] = "*" /\ p[i - 2] = "*" /\ k \in R[i - 3]
        BY <1>4, <1>7, <1>8, <2>3 DEF After
      <3>. QED  BY <1>6, <3>1
    <2>. QED  BY <2>1, <2>2, <2>3
  <1>. QED  BY <1>4, <1>8

\* What stands after all stars is at the end of the name, except that a dot
\* after two stars may be left out.
LEMMA WalkThroughSuffix ==
    ASSUME NEW S, NEW p \in Seq(S), NEW h \in Seq(S), NEW R, Walk(p, h, R),
           NEW l, LastStar(p, l)
    PROVE  \A i \in l..Len(p) : \A k \in R[i] :
              \/ k - (i - l) \in R[l] /\ \A d \in 1..i - l : h[k - (i - l) + d] = p[l + d]
              \/ /\ i > l /\ p[l + 1] = "." /\ l > 1 /\ p[l - 1] = "*"
                 /\ k - (i - l - 1) \in R[l - 2]
                 /\ \A d \in 2..i - l : h[k - (i - l) + d] = p[l + d]
  <1>. DEFINE n == Len(p)
              Whole(i, k) == k - (i - l) \in R[l] /\ \A d \in 1..i - l : h[k - (i - l) + d] = p[l + d]
              Short(i, k) == /\ i > l /\ p[l + 1] = "." /\ l > 1 /\ p[l - 1] = "*"
                             /\ k - (i - l - 1) \in R[l - 2]
                             /\ \A d \in 2..i - l : h[k - (i - l) + d] = p[l + d]
              Good(i) == \A k \in R[i] : Whole(i, k) \/ Short(i, k)
              T == {i \in l..n : ~Good(i)}
  <1>0. l \in 1..Len(p) /\ p[l] = "*" /\ \A i \in l + 1..Len(p) : p[i] # "*"
    BY DEF LastStar
  <1>1. n \in Nat /\ Len(h) \in Nat /\ l \in Nat /\ 1 <= l /\ l <= n
    BY <1>0
  <1>. SUFFICES ASSUME T # {} PROVE FALSE
    OBVIOUS
  <1>2. PICK i \in T : \A j \in T : i <= j
    <2>1. T \in SUBSET Nat
      BY <1>1
    <2>. HIDE DEF T
    <2>. QED  BY <2>1, LeastNumber
  <1>3. i # l
    <2>1. ASSUME NEW k \in R[l] PROVE Whole(l, k)
      <3>1. k \in 0..Len(h) /\ k - (l - l) = k /\ 1..l - l = {}
        <4>1. l \in 0..Len(p)
          BY <1>1
        <4>2. k \in 0..Len(h)
          BY <2>1, <4>1, WalkFacts
        <4>. QED  BY <1>1, <4>2
      <3>. QED  BY <2>1, <3>1
    <2>2. Good(l)
      BY <2>1
    <2>. QED  BY <1>2, <2>2
  <1>4. i \in l + 1..n /\ i \in 1..n /\ i - 1 \in l..n /\ ~(i <= i - 1) /\ ~Good(i)
    BY <1>1, <1>3
  <1>5. Good(i - 1)
    BY <1>2, <1>4
  <1>6. R[i] = After(p, h, R, i) /\ p[i] # "*"
    <2>1. R[i] = After(p, h, R, i)
      BY <1>4, WalkFacts, SMTT(30)
    <2>2. p[i] # "*"
      BY <1>0, <1>4
    <2>. QED  BY <2>1, <2>2
  <1>7. ASSUME NEW k \in R[i] PROVE Whole(i, k) \/ Short(i, k)
    <2>1. CASE k \in 1..Len(h) /\ k - 1 \in R[i - 1] /\ h[k] = p[i]
      <3>1. /\ (k - 1) - ((i - 1) - l) = k - (i - l) /\ (k - 1) - ((i - 1) - l - 1) = k - (i - l - 1)
            /\ k - (i - l) + (i - l) = k /\ l + (i - l) = i /\ i > l
        <4>1. i \in Nat /\ l \in Nat /\ i > l
          BY <1>1, <1>4
        <4>2. k \in Nat
          BY <1>1, <2>1
        <4>3. /\ (k - 1) - ((i - 1) - l) = k - (i - l) /\ (k - 1) - ((i - 1) - l - 1) = k - (i - l - 1)
              /\ k - (i - l) + (i - l) = k
          BY <4>1, <4>2
        <4>4. l + (i - l) = i
          BY <4>1
        <4>. QED  BY <4>1, <4>3, <4>4
      <3>2. \A d \in 1..i - l : d = i - l \/ d \in 1..(i - 1) - l
        <4>1. i \in Nat /\ l \in Nat
          BY <1>1, <1>4
        <4>2. \A x, y \in Nat : \A d \in 1..x - y : d = x - y \/ d \in 1..(x - 1) - y
          BY SMTT(30)
        <4>. QED  BY <4>1, <4>2
      <3>3. CASE Whole(i - 1, k - 1)
        <4>1. \A d \in 1..(i - 1) - l : h[k - (i - l) + d] = p[l + d]
          BY <3>1, <3>3
        <4>2. \A d \in 1..i - l : h[k - (i - l) + d] = p[l + d]
          BY <2>1, <3>1, <3>2, <4>1
        <4>. QED  BY <3>1, <3>3, <4>2
      <3>4. CASE Short(i - 1, k - 1)
        <4>1. \A d \in 2..(i - 1) - l : h[k - (i - l) + d] = p[l + d]
          BY <3>1, <3>4
        <4>2. \A d \in 2..i - l : d = i - l \/ d \in 2..(i - 1) - l
          BY <1>1, <1>4
        <4>3. \A d \in 2..i - l : h[k - (i - l) + d] = p[l + d]
          BY <2>1, <3>1, <4>1, <4>2
        <4>. QED  BY <3>1, <3>4, <4>3
      <3>. HIDE DEF Whole, Short
      <3>. QED  BY <1>5, <2>1, <3>3, <3>4
    <2>2. CASE ~(k \in 1..Len(h) /\ k - 1 \in R[i - 1] /\ h[k] = p[i])
      <3>1. p[i] = "." /\ i > 2 /\ p[i - 1] = "*" /\ p[i - 2] = "*" /\ k \in R[i - 3]
        BY <1>4, <1>6, <1>7, <2>2 DEF After
      <3>2. i = l + 1
        <4>1. i - 1 \notin l + 1..Len(p)
          BY <1>0, <3>1
        <4>2. i \in Nat /\ l \in Nat /\ Len(p) \in Nat /\ i - 1 >= l /\ i - 1 <= Len(p)
          BY <1>1, <1>4
        <4>. QED  BY <4>1, <4>2
      <3>3. k \in 0..Len(h)
        <4>1. i - 3 \in 0..Len(p)
          BY <1>4, <3>1
        <4>. QED  BY <3>1, <4>1, WalkFacts
      <3>4. k - (i - l - 1) = k /\ l - 2 = i - 3 /\ l - 1 = i - 2 /\ l > 1 /\ i > l /\ 2..i - l = {}
        <4>1. i - l = 1 /\ l \in Nat /\ i \in Nat /\ k \in Nat /\ l > 1 /\ i > l
          BY <1>1, <3>1, <3>2, <3>3
        <4>2. 2..1 = {}
          OBVIOUS
        <4>3. k - (i - l - 1) = k /\ 2..i - l = {}
          BY <4>1, <4>2
        <4>4. l - 2 = i - 3 /\ l - 1 = i - 2
          BY <4>1
        <4>. QED  BY <4>1, <4>3, <4>4
      <3>5. Short(i, k)
        BY <3>1, <3>2, <3>4
      <3>. QED  BY <3>5
    <2>. QED  BY <2>1, <2>2
  <1>. QED  BY <1>4, <1>7

\* Pieces equal up to case, from their characters.
LEMMA SamePieces ==
    ASSUME NEW s \in Seq(Chars), NEW t \in Seq(Chars), NEW a \in Nat, NEW b \in Nat, NEW c \in Nat,
           a + c <= Len(s), b + c <= Len(t),
           \A d \in 1..c : Lowered(s)[a + d] = Lowered(t)[b + d]
    PROVE  SameName(SubSeq(s, a + 1, a + c), SubSeq(t, b + 1, b + c))
  <1>. DEFINE u == SubSeq(s, a + 1, a + c)
              v == SubSeq(t, b + 1, b + c)
  <1>1. u \in Seq(Chars) /\ Len(u) = c /\ \A d \in 1..c : u[d] = s[a + d]
    <2>1. /\ a + 1 \in 1..Len(s) + 1 /\ a + c \in (a + 1) - 1..Len(s) /\ (a + c) - (a + 1) + 1 = c
          /\ \A d \in 1..c : (a + 1) + d - 1 = a + d
      OBVIOUS
    <2>. QED  BY <2>1, Pieces
  <1>2. v \in Seq(Chars) /\ Len(v) = c /\ \A d \in 1..c : v[d] = t[b + d]
    <2>1. /\ b + 1 \in 1..Len(t) + 1 /\ b + c \in (b + 1) - 1..Len(t) /\ (b + c) - (b + 1) + 1 = c
          /\ \A d \in 1..c : (b + 1) + d - 1 = b + d
      OBVIOUS
    <2>. QED  BY <2>1, Pieces
  <1>3. \A d \in 1..c : /\ a + d \in 1..Len(s) /\ b + d \in 1..Len(t)
                        /\ Lowered(s)[a + d] = Lower[s[a + d]] /\ Lowered(t)[b + d] = Lower[t[b + d]]
    <2>1. \A d \in 1..c : a + d \in 1..Len(s) /\ b + d \in 1..Len(t)
      OBVIOUS
    <2>. QED  BY <2>1, LoweredFacts
  <1>. HIDE DEF u, v
  <1>4. \A d \in 1..c : Lower[u[d]] = Lower[v[d]]
    BY <1>1, <1>2, <1>3
  <1>. QED  BY <1>1, <1>2, <1>4 DEF SameName, Lowered, u, v

\* The greatest member of S.
Greatest(S) == CHOOSE i \in S : \A j \in S : j <= i

\* The first and the last star.
LEMMA StarPlaces ==
    ASSUME NEW S, NEW p \in Seq(S), HasStar(p)
    PROVE  /\ Stars(p) # {} /\ Least(Stars(p)) \in Stars(p) /\ Greatest(Stars(p)) \in Stars(p)
           /\ \A i \in Stars(p) : Least(Stars(p)) <= i /\ i <= Greatest(Stars(p))
  <1>1. Stars(p) \in SUBSET Nat /\ Stars(p) \in SUBSET (0..Len(p)) /\ Stars(p) # {}
    BY DEF Stars, HasStar
  <1>2. PICK x \in Stars(p) : \A j \in Stars(p) : j <= x
    <2>1. Len(p) \in Nat
      OBVIOUS
    <2>. QED  BY <1>1, <2>1, GreatestNumber
  <1>3. Greatest(Stars(p)) \in Stars(p) /\ \A j \in Stars(p) : j <= Greatest(Stars(p))
    BY <1>2 DEF Greatest
  <1>. QED  BY <1>1, <1>3, LeastFacts

\* wildcard_matcher.c 375-408: what is compiled before the first star and after
\* the last is found in every name matched, one after the other.
THEOREM CompiledParts ==
    ASSUME NEW p \in Seq(Chars), NEW h \in Seq(Chars), Len(p) <= MaxLength, Len(h) <= MaxLength,
           WildcardMatch(p, h), HasStar(p)
    PROVE  LET c == CompilePattern(p)
           IN /\ StartsWith(h, c.prefix)
              /\ \/ EndsWith(h, c.suffix) /\ Len(c.prefix) + Len(c.suffix) <= Len(h)
                 \/ /\ c.type = "mixed" /\ c.suffix # <<>> /\ Head(c.suffix) = "."
                    /\ EndsWith(h, Tail(c.suffix)) /\ Len(c.prefix) + Len(c.suffix) - 1 <= Len(h)
  <1>. DEFINE n == Len(p)
              m == Len(h)
              q == Lowered(p)
              g == Lowered(h)
              f == Least(Stars(p))
              l == Greatest(Stars(p))
              prefix == SubSeq(p, 1, f - 1)
              suffix == From(p, 1 + l)
  <1>1. /\ n \in Nat /\ m \in Nat /\ q \in Seq(Chars) /\ g \in Seq(Chars) /\ Len(q) = n /\ Len(g) = m
        /\ \A i \in 1..n : (q[i] = "*" <=> p[i] = "*") /\ (q[i] = "." <=> p[i] = ".")
    BY LoweredFacts
  <1>2. /\ f \in 1..n /\ l \in 1..n /\ f <= l /\ p[f] = "*" /\ p[l] = "*"
        /\ \A i \in 1..f - 1 : i \in 1..n /\ p[i] # "*"
        /\ \A i \in l + 1..n : i \in 1..n /\ p[i] # "*"
    <2>1. /\ Stars(p) # {} /\ f \in Stars(p) /\ l \in Stars(p) /\ \A i \in Stars(p) : f <= i /\ i <= l
      BY StarPlaces
    <2>2. \A i \in 1..n : i \in Stars(p) <=> p[i] = "*"
      BY DEF Stars
    <2>3. \A i \in Stars(p) : i \in 1..n
      BY DEF Stars
    <2>. HIDE DEF f, l, n
    <2>4. f \in 1..n /\ l \in 1..n /\ f <= l /\ p[f] = "*" /\ p[l] = "*"
      BY <2>1, <2>2, <2>3
    <2>5. ASSUME NEW i \in 1..f - 1 PROVE i \in 1..n /\ p[i] # "*"
      <3>1. i \in 1..n /\ ~(f <= i)
        BY <1>1, <2>4
      <3>. QED  BY <2>1, <2>2, <3>1
    <2>6. ASSUME NEW i \in l + 1..n PROVE i \in 1..n /\ p[i] # "*"
      <3>1. i \in 1..n /\ ~(i <= l)
        BY <1>1, <2>4
      <3>. QED  BY <2>1, <2>2, <3>1
    <2>. QED  BY <2>4, <2>5, <2>6
  <1>3. /\ CompilePattern(p).prefix = prefix /\ CompilePattern(p).suffix = suffix
        /\ DoubleStarAt(p) # {} => CompilePattern(p).type = "mixed"
    <2>1. Stars(p) # {}
      BY StarPlaces
    <2>. QED  BY <2>1 DEF CompilePattern, Greatest
  <1>4. PICK R : Walk(q, g, R) /\ Reached(q, g) = R[n]
    BY <1>1, ReachedIsWalk
  <1>5. m \in R[n]
    <2>1. Denotes(p, h)
      BY MatchIsDenoted
    <2>. QED  BY <1>1, <1>4, <2>1, DenotesIsReached
  <1>. HIDE DEF n, m, q, g, f, l
  <1>6. FirstStar(q, f) /\ LastStar(q, l)
    BY <1>1, <1>2 DEF FirstStar, LastStar
  <1>7. \A i \in f - 1..n : \A k \in R[i] : f - 1 <= k /\ k <= m /\ \A d \in 1..f - 1 : g[d] = q[d]
    <2>1. \A i \in f - 1..Len(q) : \A k \in R[i] : f - 1 <= k /\ k <= Len(g) /\ \A d \in 1..f - 1 : g[d] = q[d]
      <3>1. q \in Seq(Chars) /\ g \in Seq(Chars) /\ Walk(q, g, R) /\ FirstStar(q, f)
        BY <1>1, <1>4, <1>6
      <3>. QED  BY <3>1, WalkAfterPrefix, SMTT(60)
    <2>. QED  BY <1>1, <2>1
  <1>8. /\ Len(prefix) = f - 1
        /\ suffix \in Seq(Chars) /\ Len(suffix) = n - l /\ suffix = SubSeq(p, l + 1, n)
        /\ \A i \in 1..n - l : suffix[i] = p[l + i]
    <2>1. 1 \in 1..Len(p) + 1 /\ f - 1 \in 1 - 1..Len(p) /\ (f - 1) - 1 + 1 = f - 1
      BY <1>1, <1>2 DEF n
    <2>2. /\ 1 + l \in 1..Len(p) + 1 /\ Len(p) - (1 + l) + 1 = n - l /\ 1 + l = l + 1
          /\ \A i \in 1..n - l : (1 + l) + i - 1 = l + i
      BY <1>1, <1>2 DEF n
    <2>3. Len(prefix) = f - 1
      BY <2>1, Pieces
    <2>4. /\ suffix \in Seq(Chars) /\ Len(suffix) = Len(p) - (1 + l) + 1
          /\ \A i \in 1..Len(p) - (1 + l) + 1 : suffix[i] = p[(1 + l) + i - 1]
      BY <2>2, FromFacts
    <2>5. suffix = SubSeq(p, l + 1, n)
      BY <2>2 DEF From, n
    <2>. HIDE DEF suffix, prefix
    <2>. QED  BY <2>2, <2>3, <2>4, <2>5
  <1>9. StartsWith(h, prefix)
    <2>1. n \in f - 1..n
      BY <1>1, <1>2
    <2>2. f - 1 <= m /\ \A d \in 1..f - 1 : g[d] = q[d]
      BY <1>5, <1>7, <2>1
    <2>3. /\ 0 \in Nat /\ f - 1 \in Nat /\ 0 + (f - 1) <= Len(h) /\ 0 + (f - 1) <= Len(p)
          /\ 0 + 1 = 1 /\ 0 + (f - 1) = f - 1 /\ \A d \in 1..f - 1 : 0 + d = d
      BY <1>1, <1>2, <2>2 DEF n, m
    <2>4. \A d \in 1..f - 1 : Lowered(h)[0 + d] = Lowered(p)[0 + d]
      BY <2>2, <2>3 DEF q, g
    <2>5. SameName(SubSeq(h, 0 + 1, 0 + (f - 1)), SubSeq(p, 0 + 1, 0 + (f - 1)))
      BY <2>3, <2>4, SamePieces
    <2>. HIDE DEF prefix
    <2>6. SameName(SubSeq(h, 1, f - 1), prefix)
      BY <2>3, <2>5 DEF prefix
    <2>. QED  BY <1>8, <2>2, <2>6 DEF StartsWith, m
  <1>10. \/ m - (n - l) \in R[l] /\ \A d \in 1..n - l : g[m - (n - l) + d] = q[l + d]
         \/ /\ n > l /\ q[l + 1] = "." /\ l > 1 /\ q[l - 1] = "*"
            /\ m - (n - l - 1) \in R[l - 2]
            /\ \A d \in 2..n - l : g[m - (n - l) + d] = q[l + d]
    <2>1. n \in l..Len(q) /\ l \in Nat
      BY <1>1, <1>2
    <2>2. \A i \in l..Len(q) : \A k \in R[i] :
             \/ k - (i - l) \in R[l] /\ \A d \in 1..i - l : g[k - (i - l) + d] = q[l + d]
             \/ /\ i > l /\ q[l + 1] = "." /\ l > 1 /\ q[l - 1] = "*"
                /\ k - (i - l - 1) \in R[l - 2]
                /\ \A d \in 2..i - l : g[k - (i - l) + d] = q[l + d]
      <3>1. q \in Seq(Chars) /\ g \in Seq(Chars) /\ Walk(q, g, R) /\ LastStar(q, l)
        BY <1>1, <1>4, <1>6
      <3>. QED  BY <3>1, WalkThroughSuffix, SMTT(60)
    <2>. QED  BY <1>5, <2>1, <2>2
  <1>11. CASE m - (n - l) \in R[l] /\ \A d \in 1..n - l : g[m - (n - l) + d] = q[l + d]
    <2>. DEFINE a == m - (n - l)
    <2>1. f - 1 <= a /\ a <= m
      <3>1. l \in f - 1..n
        BY <1>1, <1>2
      <3>. QED  BY <1>7, <1>11, <3>1
    <2>2. /\ a \in Nat /\ l \in Nat /\ n - l \in Nat /\ a + (n - l) = m /\ l + (n - l) = n
          /\ m - (n - l) + 1 = a + 1
      BY <1>1, <1>2, <2>1
    <2>. HIDE DEF a
    <2>3. SameName(SubSeq(h, a + 1, a + (n - l)), SubSeq(p, l + 1, l + (n - l)))
      <3>1. a + (n - l) <= Len(h) /\ l + (n - l) <= Len(p)
        BY <1>1, <2>2 DEF n, m
      <3>2. \A d \in 1..n - l : Lowered(h)[a + d] = Lowered(p)[l + d]
        BY <1>11 DEF a, q, g
      <3>. QED  BY <2>2, <3>1, <3>2, SamePieces
    <2>4. SameName(From(h, m - (n - l) + 1), suffix)
      <3>. HIDE DEF suffix
      <3>. QED  BY <1>8, <2>2, <2>3 DEF From, m
    <2>5. EndsWith(h, suffix) /\ Len(prefix) + Len(suffix) <= m
      <3>. HIDE DEF suffix, prefix
      <3>1. n - l <= m /\ (f - 1) + (n - l) <= m
        BY <1>1, <1>2, <2>1, <2>2
      <3>. QED  BY <1>8, <2>4, <3>1 DEF EndsWith, m
    <2>. HIDE DEF prefix, suffix
    <2>. QED  BY <1>3, <1>9, <2>5 DEF m
  <1>12. CASE /\ n > l /\ q[l + 1] = "." /\ l > 1 /\ q[l - 1] = "*"
              /\ m - (n - l - 1) \in R[l - 2]
              /\ \A d \in 2..n - l : g[m - (n - l) + d] = q[l + d]
    <2>. DEFINE a == m - (n - l - 1)
    <2>1. l - 1 \in 1..n /\ p[l - 1] = "*" /\ f <= l - 1 /\ l - 2 \in f - 1..n
      <3>1. l - 1 \in 1..n /\ p[l - 1] = "*"
        BY <1>1, <1>2, <1>12
      <3>2. f <= l - 1
        BY <1>1, <1>2, <3>1
      <3>. QED  BY <1>1, <1>2, <3>1, <3>2
    <2>2. f - 1 <= a /\ a <= m
      BY <1>7, <1>12, <2>1
    <2>3. /\ a \in Nat /\ l + 1 \in Nat /\ n - l - 1 \in Nat /\ a + (n - l - 1) = m
          /\ (l + 1) + (n - l - 1) = n
      BY <1>1, <1>2, <1>12, <2>2
    <2>4. CompilePattern(p).type = "mixed"
      <3>1. l - 1 \in 1..Len(p) - 1 /\ (l - 1) + 1 = l
        BY <1>1, <1>2, <1>12, SMTT(30) DEF n
      <3>2. l - 1 \in DoubleStarAt(p)
        BY <1>2, <2>1, <3>1 DEF DoubleStarAt
      <3>. QED  BY <1>3, <3>2
    <2>5. /\ suffix # <<>> /\ Head(suffix) = "." /\ Len(Tail(suffix)) = n - l - 1
          /\ Tail(suffix) = SubSeq(p, l + 2, n)
      <3>1. l + 1 \in 1..n /\ p[l + 1] = "." /\ Len(suffix) # 0
        BY <1>1, <1>2, <1>8, <1>12
      <3>2. l + 1 \in 1..Len(p) /\ n \in l + 1..Len(p) /\ (l + 1) + 1 = l + 2
        BY <1>1, <1>2, <3>1 DEF n
      <3>3. Head(suffix) = p[l + 1] /\ Tail(suffix) = SubSeq(p, l + 2, n)
        <4>1. Head(SubSeq(p, l + 1, n)) = p[l + 1] /\ Tail(SubSeq(p, l + 1, n)) = SubSeq(p, (l + 1) + 1, n)
          BY <3>2, HeadTailOfSubSeq
        <4>. HIDE DEF suffix
        <4>. QED  BY <1>8, <3>2, <4>1
      <3>. HIDE DEF suffix
      <3>4. suffix # <<>>
        BY <3>1
      <3>5. Len(Tail(suffix)) = Len(suffix) - 1
        BY <1>8, <3>4, HeadTailProperties
      <3>. QED  BY <1>8, <3>1, <3>3, <3>4, <3>5
    <2>6. SameName(SubSeq(h, a + 1, a + (n - l - 1)), SubSeq(p, (l + 1) + 1, (l + 1) + (n - l - 1)))
      <3>1. a + (n - l - 1) <= Len(h) /\ (l + 1) + (n - l - 1) <= Len(p)
        BY <1>1, <2>3 DEF n, m
      <3>2. \A d \in 1..n - l - 1 : Lowered(h)[a + d] = Lowered(p)[(l + 1) + d]
        <4>. SUFFICES ASSUME NEW d \in 1..n - l - 1 PROVE g[a + d] = q[(l + 1) + d]
          BY DEF q, g
        <4>1. d + 1 \in 2..n - l /\ m - (n - l) + (d + 1) = a + d /\ l + (d + 1) = (l + 1) + d
          BY <1>1, <1>2, <2>3
        <4>. HIDE DEF a
        <4>. QED  BY <1>12, <4>1
      <3>. HIDE DEF a
      <3>. QED  BY <2>3, <3>1, <3>2, SamePieces
    <2>7. m - (n - l - 1) + 1 = a + 1 /\ (l + 1) + 1 = l + 2
      BY <1>1, <1>2
    <2>. HIDE DEF a, suffix, prefix
    <2>8. SameName(From(h, m - (n - l - 1) + 1), Tail(suffix))
      BY <2>3, <2>5, <2>6, <2>7 DEF From, m
    <2>9. n - l - 1 <= m /\ (f - 1) + (n - l) - 1 <= m
      BY <1>1, <1>2, <2>2, <2>3
    <2>10. EndsWith(h, Tail(suffix)) /\ Len(prefix) + Len(suffix) - 1 <= m
      BY <1>8, <2>5, <2>8, <2>9 DEF EndsWith, m
    <2>. QED  BY <1>3, <1>9, <2>4, <2>5, <2>10 DEF m
  <1>. QED  BY <1>10, <1>11, <1>12

-------------------------------------------------------------------------------
(* Scores. *)

\* The counts of a scan, by DEF DoubleStars.
Counts(s) ==
    CHOOSE count : count = [i \in 1..Len(s) + 1 |->
        IF i > Len(s) THEN 0
        ELSE IF i \in DoubleStarAt(s) THEN 1 + count[IF i + 2 > Len(s) THEN Len(s) + 1 ELSE i + 2]
        ELSE count[i + 1]]

\* The counts of the scan for pairs of stars exist and are numbers.
LEMMA DoubleStarsFacts ==
    ASSUME NEW S, NEW s \in Seq(S)
    PROVE  \E c \in [1..Len(s) + 1 -> Nat] :
              /\ DoubleStars(s) = c[1] /\ c[Len(s) + 1] = 0
              /\ \A i \in 1..Len(s) : c[i] = IF i \in DoubleStarAt(s) THEN 1 + c[i + 2] ELSE c[i + 1]
  <1>. DEFINE n == Len(s)
              D == DoubleStarAt(s)
              Next(i) == IF i + 2 > n THEN n + 1 ELSE i + 2
              Val(i, v, w) == IF i > n THEN 0 ELSE IF i \in D THEN 1 + v ELSE w
  <1>1. n \in Nat
    OBVIOUS
  <1>2. DoubleStars(s) = Counts(s)[1]
    BY DEF DoubleStars, Counts
  <1>3. Counts(s) = CHOOSE count : count = [i \in 1..n + 1 |-> Val(i, count[Next(i)], count[i + 1])]
    BY DEF Counts
  <1>. HIDE DEF n, D
  <1>. DEFINE G == [j \in 0..n |-> [f \in [0..n -> Nat] |->
                       IF j = 0 THEN 0 ELSE Val(n + 1 - j, f[n + 1 - Next(n + 1 - j)], f[j - 1])]]
  <1>4. \A j \in 0..n : \A f \in [0..n -> Nat] : G[j][f] \in Nat
    BY <1>1
  <1>5. \A j \in 0..n : \A f, g \in [0..n -> Nat] :
            (\A k \in 0..j - 1 : f[k] = g[k]) => G[j][f] = G[j][g]
    <2>. SUFFICES ASSUME NEW j \in 0..n, NEW f \in [0..n -> Nat], NEW g \in [0..n -> Nat],
                         \A k \in 0..j - 1 : f[k] = g[k]
                  PROVE  G[j][f] = G[j][g]
      OBVIOUS
    <2>1. CASE j = 0
      BY <2>1
    <2>2. CASE j # 0
      <3>1. j - 1 \in 0..j - 1 /\ n + 1 - Next(n + 1 - j) \in 0..j - 1
        BY <1>1, <2>2
      <3>2. f[j - 1] = g[j - 1] /\ f[n + 1 - Next(n + 1 - j)] = g[n + 1 - Next(n + 1 - j)]
        BY <3>1
      <3>. HIDE DEF Next, Val
      <3>. QED  BY <2>2, <3>2
    <2>. QED  BY <2>1, <2>2
  <1>6. \A j \in 0..n : \A f \in [0..n -> Nat] :
            G[j][f] = IF j = 0 THEN 0 ELSE Val(n + 1 - j, f[n + 1 - Next(n + 1 - j)], f[j - 1])
    OBVIOUS
  <1>. HIDE DEF G
  <1>7. PICK f \in [0..n -> Nat] : \A j \in 0..n : f[j] = G[j][f]
    <2>1. Causal(G, n, Nat)
      BY <1>4, <1>5 DEF Causal
    <2>. QED  BY <1>1, <2>1, Recursion
  <1>. DEFINE c == [i \in 1..n + 1 |-> f[n + 1 - i]]
  <1>8. c \in [1..n + 1 -> Nat]
    BY <1>1
  <1>9. ASSUME NEW i \in 1..n + 1 PROVE c[i] = Val(i, c[Next(i)], c[i + 1])
    <2>1. CASE i = n + 1
      <3>1. n + 1 - i = 0 /\ 0 \in 0..n
        BY <1>1, <2>1
      <3>2. f[0] = 0
        BY <1>6, <1>7, <3>1
      <3>3. c[i] = 0 /\ i > n
        BY <1>1, <2>1, <3>1, <3>2
      <3>. QED  BY <3>3
    <2>2. CASE i # n + 1
      <3>1. /\ n + 1 - i \in 0..n /\ n + 1 - i # 0 /\ n + 1 - (n + 1 - i) = i
            /\ Next(i) \in 1..n + 1 /\ i + 1 \in 1..n + 1 /\ n + 1 - (i + 1) = n + 1 - i - 1
        BY <1>1, <2>2
      <3>. DEFINE j == n + 1 - i
      <3>2. f[j] = Val(n + 1 - j, f[n + 1 - Next(n + 1 - j)], f[j - 1])
        <4>1. j \in 0..n /\ j # 0
          BY <3>1
        <4>. HIDE DEF j, Val, Next
        <4>. QED  BY <1>6, <1>7, <4>1
      <3>3. c[i] = f[j] /\ c[Next(i)] = f[n + 1 - Next(i)] /\ c[i + 1] = f[j - 1]
        <4>1. \A k \in 1..n + 1 : c[k] = f[n + 1 - k]
          OBVIOUS
        <4>. HIDE DEF c, Next
        <4>. QED  BY <1>1, <3>1, <4>1, SMTT(30)
      <3>4. n + 1 - j = i /\ j \in 0..n
        BY <3>1
      <3>. HIDE DEF Val, Next, c, j
      <3>. QED  BY <1>1, <3>2, <3>3, <3>4
    <2>. QED  BY <2>1, <2>2
  <1>10. c = [i \in 1..n + 1 |-> Val(i, c[Next(i)], c[i + 1])]
    BY <1>9
  <1>. DEFINE d == Counts(s)
  <1>11. d = [i \in 1..n + 1 |-> Val(i, d[Next(i)], d[i + 1])]
    BY <1>3, <1>10
  <1>. HIDE DEF c, d
  <1>. DEFINE T == {k \in 0..n : d[n + 1 - k] \notin Nat}
  <1>12. T = {}
    <2>. SUFFICES ASSUME T # {} PROVE FALSE
      OBVIOUS
    <2>1. PICK k \in T : \A j \in T : k <= j
      <3>1. T \in SUBSET Nat
        BY <1>1
      <3>. HIDE DEF T
      <3>. QED  BY <3>1, LeastNumber
    <2>. DEFINE i == n + 1 - k
    <2>2. i \in 1..n + 1 /\ k \in 0..n /\ d[i] \notin Nat
      BY <1>1
    <2>3. d[i] = Val(i, d[Next(i)], d[i + 1])
      BY <1>11, <2>2
    <2>4. i <= n
      BY <1>1, <2>2, <2>3
    <2>5. d[i + 1] \in Nat
      <3>1. k - 1 \in 0..n /\ n + 1 - (k - 1) = i + 1 /\ k - 1 < k
        BY <1>1, <2>2, <2>4
      <3>. QED  BY <2>1, <3>1
    <2>6. d[Next(i)] \in Nat
      <3>1. /\ n + 1 - Next(i) \in 0..n /\ n + 1 - (n + 1 - Next(i)) = Next(i)
            /\ n + 1 - Next(i) < k
        BY <1>1, <2>2, <2>4
      <3>. QED  BY <2>1, <3>1
    <2>. HIDE DEF i
    <2>. QED  BY <2>2, <2>3, <2>5, <2>6, SMTT(30)
  <1>13. d \in [1..n + 1 -> Nat]
    <2>1. ASSUME NEW i \in 1..n + 1 PROVE d[i] \in Nat
      <3>1. n + 1 - i \in 0..n /\ n + 1 - (n + 1 - i) = i
        BY <1>1
      <3>2. n + 1 - i \notin T
        BY <1>12
      <3>. QED  BY <3>1, <3>2
    <2>2. d = [i \in 1..n + 1 |-> d[i]]
      <3>. DEFINE W(i) == Val(i, d[Next(i)], d[i + 1])
      <3>1. d = [i \in 1..n + 1 |-> W(i)]
        BY <1>11
      <3>. HIDE DEF W
      <3>. QED  BY <3>1
    <2>. QED  BY <2>1, <2>2
  <1>14. ASSUME NEW i \in 1..n PROVE d[i] = IF i \in D THEN 1 + d[i + 2] ELSE d[i + 1]
    <2>1. i \in 1..n + 1 /\ ~(i > n) /\ (i \in D => ~(i + 2 > n + 1))
      BY <1>1 DEF D, DoubleStarAt, n
    <2>2. d[i] = Val(i, d[Next(i)], d[i + 1])
      BY <1>11, <2>1
    <2>3. i \in D => Next(i) = i + 2
      BY <1>1, <2>1
    <2>. HIDE DEF Next
    <2>. QED  BY <2>1, <2>2, <2>3
  <1>15. DoubleStars(s) = d[1]
    BY <1>2 DEF d
  <1>16. d[n + 1] = 0
    <2>1. n + 1 \in 1..n + 1 /\ n + 1 > n
      BY <1>1
    <2>2. d[n + 1] = Val(n + 1, d[Next(n + 1)], d[n + 1 + 1])
      BY <1>11, <2>1
    <2>. QED  BY <2>1, <2>2
  <1>. QED  BY <1>13, <1>14, <1>15, <1>16 DEF n, D

\* A score is an integer.
LEMMA ScoreType ==
    ASSUME NEW S, NEW p \in Seq(S)
    PROVE  CalculatePatternScore(p) \in Int
  <1>1. DoubleStars(p) \in Nat
    <2>1. PICK c \in [1..Len(p) + 1 -> Nat] : DoubleStars(p) = c[1]
      BY DoubleStarsFacts
    <2>2. 1 \in 1..Len(p) + 1
      OBVIOUS
    <2>. QED  BY <2>1, <2>2
  <1>2. SingleStars(p) \in Nat
    <2>1. IsFiniteSet(1..Len(p))
      BY FS_Interval
    <2>. QED  BY <2>1, FS_Subset, FS_CardinalityType DEF SingleStars
  <1>. QED  BY <1>1, <1>2 DEF CalculatePatternScore

\* How many members of A are in a..b.
Count(A, a, b) == Cardinality(A \cap (a..b))

\* A count changes by one at either end.
LEMMA CountFacts ==
    ASSUME NEW A, NEW a \in Int, NEW b \in Int
    PROVE  /\ Count(A, a, b) \in Nat
           /\ a > b => Count(A, a, b) = 0
           /\ a <= b => /\ Count(A, a, b) = Count(A, a + 1, b) + (IF a \in A THEN 1 ELSE 0)
                        /\ Count(A, a, b) = Count(A, a, b - 1) + (IF b \in A THEN 1 ELSE 0)
  <1>1. ASSUME NEW c \in Int, NEW d \in Int PROVE IsFiniteSet(A \cap (c..d))
    <2>1. IsFiniteSet(c..d)
      BY FS_Interval
    <2>. QED  BY <2>1, FS_Subset
  <1>2. Count(A, a, b) \in Nat
    BY <1>1, FS_CardinalityType DEF Count
  <1>3. ASSUME a > b PROVE Count(A, a, b) = 0
    <2>1. A \cap (a..b) = {}
      BY <1>3
    <2>. QED  BY <2>1, FS_EmptySet DEF Count
  <1>4. ASSUME a <= b PROVE Count(A, a, b) = Count(A, a + 1, b) + (IF a \in A THEN 1 ELSE 0)
    <2>. DEFINE U == A \cap (a + 1..b)
    <2>1. IsFiniteSet(U) /\ a \notin U /\ a + 1 \in Int
      BY <1>1
    <2>2. A \cap (a..b) = IF a \in A THEN U \cup {a} ELSE U
      BY <1>4
    <2>3. Cardinality(U \cup {a}) = Cardinality(U) + 1
      <3>. HIDE DEF U
      <3>. QED  BY <2>1, FS_AddElement
    <2>4. Cardinality(U) \in Nat
      <3>. HIDE DEF U
      <3>. QED  BY <2>1, FS_CardinalityType
    <2>5. Count(A, a + 1, b) = Cardinality(U) /\ Count(A, a, b) = Cardinality(A \cap (a..b))
      BY DEF Count
    <2>. HIDE DEF U
    <2>. QED  BY <2>2, <2>3, <2>4, <2>5
  <1>5. ASSUME a <= b PROVE Count(A, a, b) = Count(A, a, b - 1) + (IF b \in A THEN 1 ELSE 0)
    <2>. DEFINE U == A \cap (a..b - 1)
    <2>1. IsFiniteSet(U) /\ b \notin U /\ b - 1 \in Int
      BY <1>1
    <2>2. A \cap (a..b) = IF b \in A THEN U \cup {b} ELSE U
      BY <1>5
    <2>3. Cardinality(U \cup {b}) = Cardinality(U) + 1
      <3>. HIDE DEF U
      <3>. QED  BY <2>1, FS_AddElement
    <2>4. Cardinality(U) \in Nat
      <3>. HIDE DEF U
      <3>. QED  BY <2>1, FS_CardinalityType
    <2>5. Count(A, a, b - 1) = Cardinality(U) /\ Count(A, a, b) = Cardinality(A \cap (a..b))
      BY DEF Count
    <2>. HIDE DEF U
    <2>6. CASE b \in A
      BY <2>2, <2>3, <2>4, <2>5, <2>6
    <2>7. CASE b \notin A
      <3>1. (IF b \in A THEN 1 ELSE 0) = 0 /\ Count(A, a, b) = Count(A, a, b - 1) /\ Count(A, a, b - 1) \in Nat
        BY <2>2, <2>4, <2>5, <2>7
      <3>. QED  BY <3>1
    <2>. QED  BY <2>6, <2>7
  <1>. QED  BY <1>2, <1>3, <1>4, <1>5

\* Places of p that a name may pass without a character of its own: the stars
\* and the dots after two stars.
Free(p) == {i \in 1..Len(p) : \/ p[i] = "*"
                              \/ p[i] = "." /\ i > 2 /\ p[i - 1] = "*" /\ p[i - 2] = "*"}

\* A name is at least as long as the pattern without what can be passed.
LEMMA WalkIsLong ==
    ASSUME NEW S, NEW p \in Seq(S), NEW h \in Seq(S), NEW R, Walk(p, h, R)
    PROVE  \A i \in 0..Len(p) : \A k \in R[i] : k \in Nat /\ k >= i - Count(Free(p), 1, i)
  <1>. DEFINE n == Len(p)
              A == Free(p)
              C(i) == Count(A, 1, i)
              Good(i) == \A k \in R[i] : k \in Nat /\ k >= i - C(i)
              T == {i \in 0..n : ~Good(i)}
  <1>1. n \in Nat /\ Len(h) \in Nat
    OBVIOUS
  <1>. SUFFICES ASSUME T # {} PROVE FALSE
    OBVIOUS
  <1>2. PICK i \in T : \A j \in T : i <= j
    <2>1. T \in SUBSET Nat
      BY <1>1
    <2>. HIDE DEF T
    <2>. QED  BY <2>1, LeastNumber
  <1>3. \A j \in 0..n : R[j] \in SUBSET (0..Len(h))
    BY WalkFacts
  <1>4. i # 0
    <2>1. R[0] = {0} /\ 1 \in Int /\ 0 \in Int /\ 1 > 0
      BY WalkFacts
    <2>2. C(0) = 0
      BY <2>1, CountFacts
    <2>. HIDE DEF C
    <2>. QED  BY <1>2, <2>1, <2>2
  <1>5. i \in 1..n /\ i - 1 \in 0..n /\ ~(i <= i - 1) /\ ~Good(i) /\ 1 \in Int /\ i \in Int /\ i - 1 \in Int
    BY <1>1, <1>4
  <1>6. Good(i - 1)
    BY <1>2, <1>5
  <1>7. /\ C(i) = C(i - 1) + (IF i \in A THEN 1 ELSE 0)
        /\ C(i) \in Nat /\ C(i - 1) \in Nat
    BY <1>5, CountFacts
  <1>8. R[i] = After(p, h, R, i)
    BY <1>5, WalkFacts
  <1>9. ASSUME NEW k \in R[i] PROVE k \in Nat /\ k >= i - C(i)
    <2>1. k \in Nat
      BY <1>1, <1>3, <1>5
    <2>2. CASE p[i] = "*"
      <3>1. \E j \in R[i - 1] : j <= k
        BY <1>5, <1>8, <2>2 DEF After
      <3>2. i \in A
        BY <1>5, <2>2 DEF Free
      <3>. HIDE DEF C, A
      <3>. QED  BY <1>1, <1>5, <1>6, <1>7, <2>1, <3>1, <3>2
    <2>3. CASE p[i] # "*" /\ k \in 1..Len(h) /\ k - 1 \in R[i - 1]
      <3>. HIDE DEF C, A
      <3>. QED  BY <1>1, <1>5, <1>6, <1>7, <2>1, <2>3
    <2>4. CASE p[i] # "*" /\ ~(k \in 1..Len(h) /\ k - 1 \in R[i - 1])
      <3>1. p[i] = "." /\ i > 2 /\ p[i - 1] = "*" /\ p[i - 2] = "*" /\ k \in R[i - 3]
        BY <1>5, <1>8, <1>9, <2>4 DEF After
      <3>2. i \in A /\ i - 1 \in A /\ i - 2 \in A
        BY <1>1, <1>5, <3>1 DEF Free
      <3>3. /\ i - 3 \in 0..n /\ ~(i <= i - 3) /\ i - 1 \in Int /\ i - 2 \in Int /\ 1 <= i - 1 /\ 1 <= i - 2
            /\ (i - 1) - 1 = i - 2 /\ (i - 2) - 1 = i - 3 /\ i - 3 \in Int
        BY <1>1, <1>5, <3>1, SMTT(30)
      <3>4. Good(i - 3)
        BY <1>2, <3>3
      <3>5. /\ C(i - 1) = C((i - 1) - 1) + (IF i - 1 \in A THEN 1 ELSE 0)
            /\ C(i - 2) = C((i - 2) - 1) + (IF i - 2 \in A THEN 1 ELSE 0)
        BY <1>5, <3>3, CountFacts
      <3>6. C(i - 3) \in Nat
        BY <1>5, <3>3, CountFacts
      <3>7. C(i) = C(i - 3) + 3
        <4>. HIDE DEF C, A
        <4>1. C(i - 1) = C(i - 2) + 1 /\ C(i - 2) = C(i - 3) + 1
          BY <3>2, <3>3, <3>5
        <4>. QED  BY <1>7, <3>2, <3>6, <4>1
      <3>. HIDE DEF C, A
      <3>. QED  BY <1>5, <2>1, <3>1, <3>4, <3>6, <3>7
    <2>. QED  BY <2>2, <2>3, <2>4
  <1>. QED  BY <1>5, <1>9

\* Stars with no star beside them, by DEF SingleStars.
Singles(p) == {i \in 1..Len(p) : /\ p[i] = "*"
                                 /\ i > 1 => p[i - 1] # "*"
                                 /\ i < Len(p) => p[i + 1] # "*"}

\* x places are paid for by c pairs, u single stars and s.
Paid(x, c, u, s) == x <= 9 * c + 4 * u + s

\* More places, paid for by more stars.
LEMMA PaidOnward ==
    ASSUME NEW x \in Nat, NEW c \in Nat, NEW u \in Nat, NEW s \in Nat,
           NEW dx \in Nat, NEW dc \in Nat, NEW du \in Nat, NEW ds \in Nat,
           Paid(x, c, u, s), dx + s <= 9 * dc + 4 * du + ds
    PROVE  Paid(x + dx, c + dc, u + du, ds)
  BY DEF Paid

\* What can be passed is paid for: a pair of stars with 9, a single star with 4.
LEMMA FreeIsPaid ==
    ASSUME NEW S, NEW p \in Seq(S)
    PROVE  Count(Free(p), 1, Len(p)) <= 9 * DoubleStars(p) + 4 * SingleStars(p)
  <1>. DEFINE n == Len(p)
              A == Free(p)
              B == Singles(p)
              D == DoubleStarAt(p)
              a == [i \in 1..n + 1 |-> Count(A, i, n)]
              b == [i \in 1..n + 1 |-> Count(B, i, n)]
              slack == [i \in 1..n + 1 |->
                           IF i = 1 \/ p[i - 1] # "*" THEN 0
                           ELSE IF i <= n /\ p[i] = "*" THEN 2 ELSE 1]
  <1>1. n \in Nat
    OBVIOUS
  <1>2. PICK c \in [1..n + 1 -> Nat] :
            /\ DoubleStars(p) = c[1]
            /\ \A i \in 1..n : c[i] = IF i \in D THEN 1 + c[i + 2] ELSE c[i + 1]
    BY DoubleStarsFacts
  <1>3. \A i \in 1..n + 1 : i \in Int /\ n \in Int /\ (i <= n => i + 1 \in 1..n + 1)
    BY <1>1
  <1>4. /\ \A i \in 1..n + 1 : a[i] \in Nat /\ b[i] \in Nat
        /\ \A i \in 1..n : /\ a[i] = a[i + 1] + (IF i \in A THEN 1 ELSE 0)
                           /\ b[i] = b[i + 1] + (IF i \in B THEN 1 ELSE 0)
        /\ a[n + 1] = 0
    <2>1. ASSUME NEW i \in 1..n + 1
          PROVE  /\ a[i] = Count(A, i, n) /\ b[i] = Count(B, i, n) /\ a[i] \in Nat /\ b[i] \in Nat
      BY <1>3, CountFacts
    <2>2. ASSUME NEW i \in 1..n
          PROVE  /\ a[i] = a[i + 1] + (IF i \in A THEN 1 ELSE 0)
                 /\ b[i] = b[i + 1] + (IF i \in B THEN 1 ELSE 0)
      <3>1. i \in 1..n + 1 /\ i + 1 \in 1..n + 1 /\ i <= n
        BY <1>1
      <3>2. /\ Count(A, i, n) = Count(A, i + 1, n) + (IF i \in A THEN 1 ELSE 0)
            /\ Count(B, i, n) = Count(B, i + 1, n) + (IF i \in B THEN 1 ELSE 0)
        BY <1>3, <3>1, CountFacts
      <3>. HIDE DEF a, b, A, B, n
      <3>. QED  BY <2>1, <3>1, <3>2
    <2>3. a[n + 1] = 0
      <3>1. n + 1 \in 1..n + 1 /\ n + 1 > n
        BY <1>1
      <3>2. Count(A, n + 1, n) = 0
        BY <1>3, <3>1, CountFacts
      <3>. HIDE DEF a
      <3>. QED  BY <2>1, <3>1, <3>2
    <2>. HIDE DEF a, b, A, B, n
    <2>. QED  BY <2>1, <2>2, <2>3
  <1>5. \A i \in 1..n + 1 : /\ slack[i] \in 0..2
                            /\ i = 1 \/ p[i - 1] # "*" => slack[i] = 0
                            /\ i # 1 /\ p[i - 1] = "*" => slack[i] >= 1
                            /\ i # 1 /\ p[i - 1] = "*" /\ i <= n /\ p[i] = "*" => slack[i] = 2
                            /\ ~(i <= n /\ p[i] = "*") => slack[i] <= 1
    OBVIOUS
  <1>6. \A i \in 1..n : /\ i \in A <=> \/ p[i] = "*"
                                       \/ p[i] = "." /\ i > 2 /\ p[i - 1] = "*" /\ p[i - 2] = "*"
                        /\ i \in B <=> /\ p[i] = "*"
                                       /\ i > 1 => p[i - 1] # "*"
                                       /\ i < n => p[i + 1] # "*"
                        /\ i \in D <=> i < n /\ p[i] = "*" /\ p[i + 1] = "*"
    BY DEF Free, Singles, DoubleStarAt
  <1>7. b[1] = SingleStars(p)
    <2>1. 1 \in 1..n + 1 /\ B \cap (1..n) = B
      BY <1>1 DEF Singles
    <2>. QED  BY <2>1 DEF Count, Singles, SingleStars
  <1>8. a[1] = Count(Free(p), 1, Len(p)) /\ 1 \in 1..n + 1
    BY <1>1
  <1>. HIDE DEF a, b, slack, A, B, D, n
  <1>. DEFINE Good(i) == Paid(a[i], c[i], b[i], slack[i])
              T == {i \in 1..n + 1 : ~Good(i)}
  <1>9. T = {}
    <2>. SUFFICES ASSUME T # {} PROVE FALSE
      OBVIOUS
    <2>1. PICK i \in T : \A j \in T : j <= i
      <3>1. T \in SUBSET (0..n + 1) /\ n + 1 \in Nat
        BY <1>1
      <3>. HIDE DEF T
      <3>. QED  BY <3>1, GreatestNumber
    <2>2. i \in 1..n + 1 /\ ~Good(i) /\ c[i] \in Nat /\ a[i] \in Nat /\ b[i] \in Nat /\ slack[i] \in 0..2
      BY <1>4, <1>5
    <2>3. i # n + 1
      <3>. SUFFICES ASSUME i = n + 1 PROVE FALSE
        OBVIOUS
      <3>1. a[i] = 0
        BY <1>4
      <3>2. \A c0, b0, s0 \in Nat : Paid(0, c0, b0, s0)
        BY DEF Paid
      <3>3. c[i] \in Nat /\ b[i] \in Nat /\ slack[i] \in Nat
        BY <2>2
      <3>. HIDE DEF T
      <3>. QED  BY <2>2, <3>1, <3>2, <3>3
    <2>4. /\ i \in 1..n /\ i + 1 \in 1..n + 1 /\ c[i + 1] \in Nat /\ a[i + 1] \in Nat /\ b[i + 1] \in Nat
          /\ slack[i + 1] \in 0..2 /\ ~(i + 1 <= i) /\ (i + 1) - 1 = i /\ i + 1 # 1
      <3>1. i \in 1..n /\ i + 1 \in 1..n + 1 /\ ~(i + 1 <= i) /\ (i + 1) - 1 = i /\ i + 1 # 1
        BY <1>1, <2>2, <2>3
      <3>. QED  BY <1>4, <1>5, <3>1
    <2>5. Good(i + 1)
      BY <2>1, <2>4
    <2>6. /\ a[i] = a[i + 1] + (IF i \in A THEN 1 ELSE 0)
          /\ b[i] = b[i + 1] + (IF i \in B THEN 1 ELSE 0)
          /\ c[i] = IF i \in D THEN 1 + c[i + 2] ELSE c[i + 1]
      BY <1>2, <1>4, <2>4
    <2>. DEFINE da == IF i \in A THEN 1 ELSE 0
                db == IF i \in B THEN 1 ELSE 0
    <2>7. da \in 0..1 /\ db \in 0..1
      OBVIOUS
    <2>8. CASE i \notin D
      <3>1. da + slack[i + 1] <= 9 * 0 + 4 * db + slack[i]
        <4>1. CASE p[i] # "*"
          <5>1. db = 0 /\ slack[i + 1] = 0
            BY <1>5, <1>6, <2>4, <4>1
          <5>2. ASSUME i \in A PROVE slack[i] >= 1
            <6>1. i # 1 /\ p[i - 1] = "*"
              BY <1>6, <2>4, <4>1, <5>2
            <6>. QED  BY <1>5, <2>2, <6>1
          <5>. QED  BY <2>2, <5>1, <5>2
        <4>2. CASE p[i] = "*"
          <5>1. ~(i + 1 <= n /\ p[i + 1] = "*") /\ da = 1
            BY <1>1, <1>6, <2>4, <2>8, <4>2
          <5>2. slack[i + 1] <= 1
            BY <1>5, <2>4, <5>1
          <5>3. CASE i # 1 /\ p[i - 1] = "*"
            <6>1. slack[i] = 2
              BY <1>5, <2>2, <2>4, <4>2, <5>3
            <6>2. da = 1 /\ db \in Nat /\ slack[i + 1] \in Nat /\ slack[i + 1] <= 1
              BY <2>4, <2>7, <5>1, <5>2
            <6>. HIDE DEF da, db
            <6>. QED  BY <6>1, <6>2
          <5>4. CASE i = 1 \/ p[i - 1] # "*"
            <6>1. db = 1
              BY <1>1, <1>6, <2>4, <4>2, <5>1, <5>4, SMTT(30)
            <6>2. da = 1 /\ slack[i] \in Nat /\ slack[i + 1] \in Nat /\ slack[i + 1] <= 1
              BY <2>2, <2>4, <5>1, <5>2
            <6>. HIDE DEF da, db
            <6>. QED  BY <6>1, <6>2
          <5>. QED  BY <5>3, <5>4
        <4>. QED  BY <4>1, <4>2
      <3>. HIDE DEF da, db, Good
      <3>2. a[i] = a[i + 1] + da /\ b[i] = b[i + 1] + db /\ c[i] = c[i + 1] + 0
        BY <2>4, <2>6, <2>8 DEF da, db
      <3>3. Paid(a[i + 1] + da, c[i + 1] + 0, b[i + 1] + db, slack[i])
        <4>1. /\ da \in Nat /\ db \in Nat /\ 0 \in Nat /\ slack[i] \in Nat /\ slack[i + 1] \in Nat
              /\ Paid(a[i + 1], c[i + 1], b[i + 1], slack[i + 1])
          BY <2>2, <2>4, <2>5, <2>7 DEF Good
        <4>. QED  BY <2>4, <3>1, <4>1, PaidOnward
      <3>. QED  BY <2>2, <3>2, <3>3 DEF Good
    <2>9. CASE i \in D
      <3>1. i < n /\ p[i] = "*" /\ p[i + 1] = "*"
        BY <1>6, <2>4, <2>9
      <3>2. i + 1 \in 1..n /\ i + 2 \in 1..n + 1 /\ (i + 1) + 1 = i + 2 /\ ~(i + 2 <= i)
        BY <1>1, <2>4, <3>1
      <3>3. a[i + 2] \in Nat /\ b[i + 2] \in Nat /\ c[i + 2] \in Nat /\ slack[i + 2] \in 0..2
        BY <1>4, <1>5, <3>2
      <3>4. Good(i + 2)
        BY <2>1, <3>2
      <3>. DEFINE ea == IF i + 1 \in A THEN 1 ELSE 0
                  eb == IF i + 1 \in B THEN 1 ELSE 0
      <3>5. ea \in 0..1 /\ eb \in 0..1
        OBVIOUS
      <3>6. a[i + 1] = a[i + 2] + ea /\ b[i + 1] = b[i + 2] + eb
        <4>1. a[i + 1] = a[(i + 1) + 1] + ea /\ b[i + 1] = b[(i + 1) + 1] + eb
          BY <1>4, <3>2
        <4>. HIDE DEF ea, eb
        <4>. QED  BY <3>2, <4>1
      <3>. HIDE DEF da, db, ea, eb, Good
      <3>7. a[i] = a[i + 2] + (da + ea) /\ b[i] = b[i + 2] + (db + eb) /\ c[i] = c[i + 2] + 1
        <4>1. a[i] = a[i + 1] + da /\ b[i] = b[i + 1] + db /\ c[i] = 1 + c[i + 2]
          BY <2>6, <2>9 DEF da, db
        <4>2. \A x \in Nat : \A y, z \in 0..1 : (x + y) + z = x + (z + y)
          OBVIOUS
        <4>3. /\ (a[i + 2] + ea) + da = a[i + 2] + (da + ea)
              /\ (b[i + 2] + eb) + db = b[i + 2] + (db + eb)
          BY <2>7, <3>3, <3>5, <4>2, SMTT(30)
        <4>4. 1 + c[i + 2] = c[i + 2] + 1
          BY <3>3
        <4>. QED  BY <3>6, <4>1, <4>3, <4>4
      <3>8. Paid(a[i + 2] + (da + ea), c[i + 2] + 1, b[i + 2] + (db + eb), slack[i])
        <4>0. \A x, y, z, w \in 0..1, t, u \in 0..2 : x + y + t <= 9 * 1 + 4 * (z + w) + u
          OBVIOUS
        <4>1. /\ da + ea \in Nat /\ db + eb \in Nat /\ 1 \in Nat /\ slack[i] \in Nat /\ slack[i + 2] \in Nat
              /\ da + ea + slack[i + 2] <= 9 * 1 + 4 * (db + eb) + slack[i]
          <5>1. da + ea \in Nat /\ db + eb \in Nat /\ 1 \in Nat
            BY <2>7, <3>5
          <5>2. slack[i] \in Nat /\ slack[i + 2] \in Nat
            BY <2>2, <3>3, SMTT(30)
          <5>. QED  BY <2>2, <2>7, <3>3, <3>5, <4>0, <5>1, <5>2
        <4>2. Paid(a[i + 2], c[i + 2], b[i + 2], slack[i + 2])
          BY <3>4 DEF Good
        <4>. QED  BY <3>3, <4>1, <4>2, PaidOnward
      <3>. QED  BY <2>2, <3>7, <3>8 DEF Good
    <2>. QED  BY <2>8, <2>9
  <1>10. Good(1) /\ slack[1] = 0
    BY <1>5, <1>8, <1>9
  <1>11. a[1] \in Nat /\ b[1] \in Nat /\ c[1] \in Nat
    BY <1>4, <1>8
  <1>. QED  BY <1>2, <1>7, <1>8, <1>10, <1>11 DEF Paid

\* A name without stars scores its length.
LEMMA ScoreWithoutStars ==
    ASSUME NEW S, NEW s \in Seq(S), ~HasStar(s)
    PROVE  CalculatePatternScore(s) = Len(s)
  <1>. DEFINE n == Len(s)
  <1>1. n \in Nat /\ \A i \in 1..n : s[i] # "*"
    BY DEF HasStar
  <1>2. DoubleStarAt(s) = {}
    BY <1>1 DEF DoubleStarAt
  <1>3. SingleStars(s) = 0
    <2>1. SingleStars(s) = Cardinality({})
      BY <1>1 DEF SingleStars
    <2>. QED  BY <2>1, FS_EmptySet
  <1>4. PICK c \in [1..Len(s) + 1 -> Nat] :
            /\ DoubleStars(s) = c[1] /\ c[Len(s) + 1] = 0
            /\ \A i \in 1..Len(s) : c[i] = IF i \in DoubleStarAt(s) THEN 1 + c[i + 2] ELSE c[i + 1]
    BY DoubleStarsFacts
  <1>5. \A i \in 1..n : c[i] = c[i + 1]
    BY <1>2, <1>4
  <1>. DEFINE T == {i \in 1..n + 1 : c[i] # 0}
  <1>6. T = {}
    <2>. SUFFICES ASSUME T # {} PROVE FALSE
      OBVIOUS
    <2>1. PICK i \in T : \A j \in T : j <= i
      <3>1. T \in SUBSET (0..n + 1) /\ n + 1 \in Nat
        BY <1>1
      <3>. HIDE DEF T
      <3>. QED  BY <3>1, GreatestNumber
    <2>2. i \in 1..n
      BY <1>1, <1>4
    <2>3. i + 1 \in 1..n + 1 /\ ~(i + 1 <= i)
      BY <1>1, <2>2
    <2>4. c[i + 1] # 0
      BY <1>5, <2>2
    <2>. QED  BY <2>1, <2>3, <2>4
  <1>7. DoubleStars(s) = 0
    <2>1. 1 \in 1..n + 1
      BY <1>1
    <2>. QED  BY <1>4, <1>6, <2>1
  <1>. QED  BY <1>1, <1>3, <1>7 DEF CalculatePatternScore

\* Lower case changes no count of stars.
LEMMA ScoreOfLowered ==
    ASSUME NEW s \in Seq(Chars)
    PROVE  DoubleStars(Lowered(s)) = DoubleStars(s) /\ SingleStars(Lowered(s)) = SingleStars(s)
  <1>1. /\ Len(Lowered(s)) = Len(s) /\ Len(s) \in Nat /\ DoubleStarAt(Lowered(s)) = DoubleStarAt(s)
        /\ \A i \in 1..Len(s) : Lowered(s)[i] = "*" <=> s[i] = "*"
    BY LoweredFacts
  <1>2. DoubleStars(Lowered(s)) = DoubleStars(s)
    BY <1>1 DEF DoubleStars
  <1>3. Singles(Lowered(s)) = Singles(s)
    <2>1. \A i \in 1..Len(s) : (i > 1 => i - 1 \in 1..Len(s)) /\ (i < Len(s) => i + 1 \in 1..Len(s))
      BY <1>1
    <2>. QED  BY <1>1, <2>1 DEF Singles
  <1>. QED  BY <1>2, <1>3 DEF Singles, SingleStars

\* wildcard_matcher.c 289-318: a name scores more than any pattern with a star
\* that matches it.
THEOREM ExactScores ==
    ASSUME NEW p \in Seq(Chars), NEW h \in Seq(Chars), Len(p) <= MaxLength, Len(h) <= MaxLength,
           WildcardMatch(p, h), ~SameName(p, h), ~HasStar(h)
    PROVE  CalculatePatternScore(p) < CalculatePatternScore(h)
  <1>. DEFINE q == Lowered(p)
              g == Lowered(h)
              n == Len(p)
              m == Len(h)
              A == Free(q)
              d == DoubleStars(p)
              s == SingleStars(p)
              f == Count(A, 1, n)
  <1>1. n \in Nat /\ m \in Nat /\ q \in Seq(Chars) /\ g \in Seq(Chars) /\ Len(q) = n /\ Len(g) = m
    BY LoweredFacts
  <1>2. HasStar(q)
    <2>1. HasStar(p)
      BY DEF WildcardMatch
    <2>. QED  BY <2>1, LoweredFacts
  <1>3. PICK R : Walk(q, g, R) /\ Reached(q, g) = R[Len(q)]
    BY <1>1, ReachedIsWalk
  <1>4. m \in R[n]
    <2>1. Denotes(p, h)
      BY MatchIsDenoted
    <2>2. Len(g) \in Reached(q, g)
      BY <2>1, DenotesIsReached
    <2>. QED  BY <1>1, <1>3, <2>2
  <1>5. f <= 9 * d + 4 * s
    <2>1. Count(Free(q), 1, Len(q)) <= 9 * DoubleStars(q) + 4 * SingleStars(q)
      BY <1>1, FreeIsPaid
    <2>2. DoubleStars(q) = d /\ SingleStars(q) = s
      BY ScoreOfLowered
    <2>. QED  BY <1>1, <2>1, <2>2
  <1>6. d \in Nat /\ s \in Nat
    <2>1. PICK c \in [1..n + 1 -> Nat] : d = c[1]
      BY DoubleStarsFacts
    <2>2. 1 \in 1..n + 1
      BY <1>1
    <2>3. s \in Nat
      <3>1. IsFiniteSet(1..Len(p))
        BY FS_Interval
      <3>. QED  BY <3>1, FS_Subset, FS_CardinalityType DEF SingleStars
    <2>. QED  BY <2>1, <2>2, <2>3
  <1>7. f \in Nat /\ f >= 1
    <2>1. PICK i \in 1..Len(q) : q[i] = "*"
      BY <1>2 DEF HasStar
    <2>2. i \in A \cap (1..n)
      BY <1>1, <2>1 DEF Free
    <2>3. IsFiniteSet(A \cap (1..n))
      <3>1. IsFiniteSet(1..n)
        BY <1>1, FS_Interval
      <3>. QED  BY <3>1, FS_Subset
    <2>4. f \in Nat /\ f # 0
      <3>. HIDE DEF A
      <3>1. f = Cardinality(A \cap (1..n))
        BY DEF Count
      <3>2. A \cap (1..n) # {}
        BY <2>2
      <3>. QED  BY <2>3, <3>1, <3>2, FS_EmptySet, FS_CardinalityType
    <2>. QED  BY <2>4
  <1>8. m >= n - f
    <2>1. n \in 0..Len(q)
      BY <1>1
    <2>. QED  BY <1>1, <1>3, <1>4, <2>1, WalkIsLong
  <1>9. CalculatePatternScore(h) = m
    BY ScoreWithoutStars
  <1>10. CalculatePatternScore(p) = n - 10 * d - 5 * s
    BY DEF CalculatePatternScore
  <1>. HIDE DEF n, m, d, s, f, A, q, g
  <1>11. d + s >= 1
    BY <1>5, <1>6, <1>7
  <1>12. n - 10 * d - 5 * s < m
    BY <1>1, <1>5, <1>6, <1>7, <1>8, <1>11
  <1>. QED  BY <1>9, <1>10, <1>12

-------------------------------------------------------------------------------
(* A single "**" for whole labels: what is denoted is matched. *)

\* c characters of s after a are those of t after b.
Agree(s, a, t, b, c) == \A d \in 1..c : s[a + d] = t[b + d]

\* Pieces with the same characters are equal.
LEMMA EqualPieces ==
    ASSUME NEW S, NEW s \in Seq(S), NEW t \in Seq(S), NEW a \in Nat, NEW b \in Nat, NEW c \in Nat,
           a + c <= Len(s), b + c <= Len(t), Agree(s, a, t, b, c)
    PROVE  /\ SubSeq(s, a + 1, a + c) \in Seq(S) /\ Len(SubSeq(s, a + 1, a + c)) = c
           /\ SubSeq(s, a + 1, a + c) = SubSeq(t, b + 1, b + c)
  <1>. DEFINE u == SubSeq(s, a + 1, a + c)
              v == SubSeq(t, b + 1, b + c)
  <1>1. u \in Seq(S) /\ Len(u) = c /\ \A d \in 1..c : u[d] = s[a + d]
    <2>1. /\ a + 1 \in 1..Len(s) + 1 /\ a + c \in (a + 1) - 1..Len(s) /\ (a + c) - (a + 1) + 1 = c
          /\ \A d \in 1..c : (a + 1) + d - 1 = a + d
      OBVIOUS
    <2>. QED  BY <2>1, Pieces
  <1>2. v \in Seq(S) /\ Len(v) = c /\ \A d \in 1..c : v[d] = t[b + d]
    <2>1. /\ b + 1 \in 1..Len(t) + 1 /\ b + c \in (b + 1) - 1..Len(t) /\ (b + c) - (b + 1) + 1 = c
          /\ \A d \in 1..c : (b + 1) + d - 1 = b + d
      OBVIOUS
    <2>. QED  BY <2>1, Pieces
  <1>. HIDE DEF u, v
  <1>3. \A d \in 1..Len(u) : u[d] = v[d]
    BY <1>1, <1>2 DEF Agree
  <1>4. u = v
    BY <1>1, <1>2, <1>3, SeqEqual
  <1>. QED  BY <1>1, <1>4 DEF u, v

\* A name without a star matches itself.
LEMMA LiteralMatches ==
    ASSUME NEW S, NEW p \in Seq(S), ~HasStar(p)
    PROVE  MatchSingleLevelRecursive(p, p)
  <1>1. DoubleStarAt(p) = {}
    <2>1. \A i \in 1..Len(p) - 1 : i \in 1..Len(p)
      OBVIOUS
    <2>. QED  BY <2>1 DEF DoubleStarAt, HasStar
  <1>2. PICK R : Walk(p, p, R) /\ Reached(p, p) = R[Len(p)]
    BY ReachedIsWalk
  <1>3. WalkClosed(p, p, R) /\ 0 \in R[0]
    BY <1>2, WalkIsClosed, WalkFacts
  <1>4. Len(p) \in R[Len(p)]
    BY <1>3, LiteralIsClosed
  <1>. QED  BY <1>1, <1>2, <1>4, SearchIsComplete

\* What a name that is reached has around a single pair of stars, which stands
\* at s and has whole labels on both sides.
Around(p, h, s) ==
    LET x == Len(p) - (s + 1)
        m == Len(h)
    IN /\ s - 1 <= m /\ Agree(h, 0, p, 0, s - 1)
       /\ \/ (s - 1) + x <= m /\ Agree(h, m - x, p, s + 1, x)
          \/ x > 0 /\ m = (s - 1) + (x - 1) /\ Agree(h, s - 1, p, s + 2, x - 1)

\* Whatever is reached has that shape.
LEMMA AroundPair ==
    ASSUME NEW S, NEW p \in Seq(S), NEW h \in Seq(S), NEW R, Walk(p, h, R), Len(h) \in R[Len(p)],
           NEW s, FirstStar(p, s), LastStar(p, s + 1)
    PROVE  Around(p, h, s)
  <1>. DEFINE n == Len(p)
              m == Len(h)
              l == s + 1
              x == n - l
  <1>1. /\ n \in Nat /\ m \in Nat /\ s \in 1..n /\ s + 1 \in 1..n
        /\ \A i \in 1..s - 1 : p[i] # "*"
    BY DEF FirstStar, LastStar
  <1>2. \A i \in s - 1..n : \A k \in R[i] : s - 1 <= k /\ k <= m /\ \A d \in 1..s - 1 : h[d] = p[d]
    BY WalkAfterPrefix, SMTT(30)
  <1>3. \/ m - (n - l) \in R[l] /\ \A d \in 1..n - l : h[m - (n - l) + d] = p[l + d]
        \/ /\ n > l /\ p[l + 1] = "." /\ l > 1 /\ p[l - 1] = "*"
           /\ m - (n - l - 1) \in R[l - 2]
           /\ \A d \in 2..n - l : h[m - (n - l) + d] = p[l + d]
    <2>1. \A i \in l..n : \A k \in R[i] :
             \/ k - (i - l) \in R[l] /\ \A d \in 1..i - l : h[k - (i - l) + d] = p[l + d]
             \/ /\ i > l /\ p[l + 1] = "." /\ l > 1 /\ p[l - 1] = "*"
                /\ k - (i - l - 1) \in R[l - 2]
                /\ \A d \in 2..i - l : h[k - (i - l) + d] = p[l + d]
      BY WalkThroughSuffix, SMTT(30)
    <2>2. n \in l..n
      BY <1>1
    <2>. QED  BY <2>1, <2>2
  <1>4. s - 1 <= m /\ Agree(h, 0, p, 0, s - 1)
    <2>1. n \in s - 1..n /\ \A d \in 1..s - 1 : 0 + d = d
      BY <1>1
    <2>2. s - 1 <= m /\ \A d \in 1..s - 1 : h[d] = p[d]
      BY <1>2, <2>1
    <2>. QED  BY <2>1, <2>2 DEF Agree
  <1>5. CASE m - (n - l) \in R[l] /\ \A d \in 1..n - l : h[m - (n - l) + d] = p[l + d]
    <2>1. l \in s - 1..n
      BY <1>1
    <2>2. s - 1 <= m - (n - l)
      BY <1>2, <1>5, <2>1
    <2>3. (s - 1) + x <= m /\ Agree(h, m - x, p, s + 1, x)
      BY <1>1, <1>5, <2>2 DEF Agree
    <2>. QED  BY <1>4, <2>3 DEF Around
  <1>6. CASE /\ n > l /\ p[l + 1] = "." /\ l > 1 /\ p[l - 1] = "*"
             /\ m - (n - l - 1) \in R[l - 2]
             /\ \A d \in 2..n - l : h[m - (n - l) + d] = p[l + d]
    <2>1. s - 1 \in 0..s - 1 /\ s - 1 \in 0..Len(p) /\ l - 2 = s - 1
      BY <1>1
    <2>2. m - (n - l - 1) = s - 1
      <3>1. Literal(p, s - 1)
        BY <1>1 DEF Literal
      <3>2. \A i \in 0..s - 1 : \A k \in R[i] : k = i
        BY <2>1, <3>1, LiteralWalk
      <3>. QED  BY <1>6, <2>1, <3>2
    <2>3. x > 0 /\ m = (s - 1) + (x - 1)
      BY <1>1, <1>6, <2>2
    <2>4. ASSUME NEW d \in 1..x - 1 PROVE h[(s - 1) + d] = p[(s + 2) + d]
      <3>0. n \in Nat /\ m \in Nat /\ l \in Nat /\ s \in Nat /\ d \in Nat /\ d <= n - l - 1 /\ d >= 1
        BY <1>1
      <3>1. d + 1 \in 2..n - l /\ m - (n - l) + (d + 1) = (s - 1) + d /\ l + (d + 1) = (s + 2) + d
        <4>1. m = (s - 1) + (n - l - 1) /\ l = s + 1
          BY <2>3
        <4>. HIDE DEF n, m, l, x
        <4>. QED  BY <3>0, <4>1
      <3>. QED  BY <1>6, <3>1
    <2>. QED  BY <1>4, <2>3, <2>4 DEF Around, Agree
  <1>. QED  BY <1>3, <1>5, <1>6

\* wildcard_matcher.c 144-165: two stars at the front, nothing but one label
\* after another behind them.
LEMMA LeadingIsComplete ==
    ASSUME NEW S, NEW p \in Seq(S), NEW h \in Seq(S), Around(p, h, 1), LastStar(p, 2),
           2 < Len(p) => p[3] = "."
    PROVE  MatchLeading(From(p, 3), h)
  <1>. DEFINE n == Len(p)
              m == Len(h)
              x == n - 2
              suffix == From(p, 3)
  <1>. SUFFICES MatchLeading(suffix, h)
    OBVIOUS
  <1>1. n \in Nat /\ m \in Nat /\ x \in Nat /\ 2 <= n /\ \A i \in 3..n : p[i] # "*"
    BY DEF LastStar
  <1>2. /\ suffix \in Seq(S) /\ Len(suffix) = x /\ suffix = SubSeq(p, 3, n)
        /\ \A i \in 1..x : suffix[i] = p[2 + i]
    <2>1. 3 \in 1..Len(p) + 1 /\ Len(p) - 3 + 1 = x /\ \A i \in 1..x : 3 + i - 1 = 2 + i
      BY <1>1
    <2>2. /\ suffix \in Seq(S) /\ Len(suffix) = Len(p) - 3 + 1
          /\ \A i \in 1..Len(p) - 3 + 1 : suffix[i] = p[3 + i - 1]
      BY <2>1, FromFacts
    <2>. QED  BY <2>1, <2>2 DEF From
  <1>. HIDE DEF suffix
  <1>3. CASE x = 0
    <2>1. suffix = <<>>
      <3>. HIDE DEF x
      <3>. QED  BY <1>2, <1>3
    <2>. QED  BY <2>1 DEF MatchLeading
  <1>4. CASE x > 0
    <2>1. p[3] = "." /\ suffix # <<>> /\ Head(suffix) = "."
      <3>1. p[3] = "." /\ 2 + 1 = 3 /\ 1 \in 1..x
        BY <1>1, <1>4
      <3>2. suffix[1] = p[2 + 1]
        BY <1>2, <3>1
      <3>. HIDE DEF x
      <3>3. suffix # <<>>
        BY <1>2, <1>4, SMTT(30)
      <3>. QED  BY <1>2, <3>1, <3>2, <3>3
    <2>2. /\ Tail(suffix) \in Seq(S) /\ Len(Tail(suffix)) = x - 1
          /\ \A i \in 1..x - 1 : Tail(suffix)[i] = p[3 + i]
      <3>1. /\ Tail(suffix) \in Seq(S) /\ Len(Tail(suffix)) = Len(suffix) - 1
            /\ \A i \in 1..Len(suffix) - 1 : Tail(suffix)[i] = suffix[i + 1]
        BY <1>2, <2>1, HeadTailProperties
      <3>2. \A i \in 1..x - 1 : i + 1 \in 1..x /\ 2 + (i + 1) = 3 + i
        BY <1>1
      <3>. QED  BY <1>2, <3>1, <3>2
    <2>3. ~HasStar(Tail(suffix))
      <3>1. \A i \in 1..x - 1 : 3 + i \in 3..n
        BY <1>1
      <3>. QED  BY <1>1, <2>2, <3>1 DEF HasStar
    <2>4. h = Tail(suffix) \/ EndsWith(h, suffix)
      <3>1. \/ x <= m /\ Agree(h, m - x, p, 2, x)
            \/ m = x - 1 /\ Agree(h, 0, p, 3, x - 1)
        <4>1. Len(p) - (1 + 1) = x /\ 1 - 1 = 0 /\ 1 + 1 = 2 /\ 1 + 2 = 3 /\ 0 + x = x /\ 0 + (x - 1) = x - 1
          BY <1>1
        <4>2. \/ (1 - 1) + x <= m /\ Agree(h, m - x, p, 1 + 1, x)
              \/ x > 0 /\ m = (1 - 1) + (x - 1) /\ Agree(h, 1 - 1, p, 1 + 2, x - 1)
          BY <4>1 DEF Around
        <4>. QED  BY <4>1, <4>2
      <3>2. CASE x <= m /\ Agree(h, m - x, p, 2, x)
        <4>1. /\ m - x \in Nat /\ 2 \in Nat /\ x \in Nat /\ (m - x) + x = m /\ 2 + x = n /\ 2 + 1 = 3
          BY <1>1, <3>2
        <4>. HIDE DEF n, m, x
        <4>2. SubSeq(h, (m - x) + 1, (m - x) + x) = SubSeq(p, 2 + 1, 2 + x)
          <5>1. (m - x) + x <= Len(h) /\ 2 + x <= Len(p)
            BY <4>1, <1>1 DEF n, m
          <5>. DEFINE a == m - x
          <5>2. a \in Nat /\ a + x <= Len(h) /\ Agree(h, a, p, 2, x)
            BY <3>2, <4>1, <5>1
          <5>. HIDE DEF a
          <5>3. SubSeq(h, a + 1, a + x) = SubSeq(p, 2 + 1, 2 + x)
            BY <4>1, <5>1, <5>2, EqualPieces
          <5>. QED  BY <5>3 DEF a
        <4>3. SubSeq(h, m - x + 1, m) = suffix
          BY <1>2, <4>1, <4>2
        <4>. QED  BY <1>2, <3>2, <4>3 DEF EndsWith, From, SameName, m
      <3>3. CASE m = x - 1 /\ Agree(h, 0, p, 3, x - 1)
        <4>1. \A i \in 1..m : h[i] = Tail(suffix)[i]
          <5>1. \A i \in 1..m : i \in 1..x - 1 /\ 0 + i = i
            BY <1>1, <3>3
          <5>2. \A i \in 1..x - 1 : h[0 + i] = p[3 + i]
            BY <3>3 DEF Agree
          <5>. HIDE DEF x, m
          <5>. QED  BY <2>2, <5>1, <5>2
        <4>2. Len(h) = Len(Tail(suffix))
          BY <2>2, <3>3
        <4>. QED  BY <2>2, <4>1, <4>2, SeqEqual
      <3>. QED  BY <3>1, <3>2, <3>3
    <2>. QED  BY <2>1, <2>3, <2>4 DEF MatchLeading
  <1>. HIDE DEF x
  <1>. QED  BY <1>1, <1>3, <1>4

\* wildcard_matcher.c 167-218: the same behind a prefix.
LEMMA BetweenIsComplete ==
    ASSUME NEW S, NEW p \in Seq(S), NEW h \in Seq(S), Len(p) <= MaxLength,
           NEW s, s > 1, FirstStar(p, s), LastStar(p, s + 1), Around(p, h, s),
           s + 1 < Len(p) => p[s + 2] = "."
    PROVE  MatchBetween(SubSeq(p, 1, s - 1), From(p, s + 2), h)
  <1>. DEFINE n == Len(p)
              m == Len(h)
              x == n - (s + 1)
              prefix == SubSeq(p, 1, s - 1)
              suffix == From(p, s + 2)
  <1>. SUFFICES MatchBetween(prefix, suffix, h)
    OBVIOUS
  <1>1. /\ n \in Nat /\ m \in Nat /\ x \in Nat /\ s \in Nat /\ s >= 1 /\ s + 1 <= n /\ n = (s + 1) + x
        /\ \A i \in 1..s - 1 : i \in 1..n /\ p[i] # "*"
        /\ \A i \in s + 2..n : i \in 1..n /\ p[i] # "*"
    BY DEF FirstStar, LastStar
  <1>2. /\ suffix \in Seq(S) /\ Len(suffix) = x /\ suffix = SubSeq(p, (s + 1) + 1, (s + 1) + x)
        /\ \A i \in 1..x : suffix[i] = p[(s + 1) + i]
    <2>1. /\ s + 2 \in 1..Len(p) + 1 /\ Len(p) - (s + 2) + 1 = x /\ s + 2 = (s + 1) + 1
          /\ \A i \in 1..x : (s + 2) + i - 1 = (s + 1) + i
      BY <1>1
    <2>2. /\ suffix \in Seq(S) /\ Len(suffix) = Len(p) - (s + 2) + 1
          /\ \A i \in 1..Len(p) - (s + 2) + 1 : suffix[i] = p[(s + 2) + i - 1]
      BY <2>1, FromFacts
    <2>3. suffix = SubSeq(p, s + 2, n)
      BY DEF From
    <2>. HIDE DEF suffix
    <2>. QED  BY <1>1, <2>1, <2>2, <2>3
  <1>3. /\ prefix \in Seq(S) /\ Len(prefix) = s - 1 /\ \A i \in 1..s - 1 : prefix[i] = p[i]
    <2>1. /\ 1 \in 1..Len(p) + 1 /\ s - 1 \in 1 - 1..Len(p) /\ (s - 1) - 1 + 1 = s - 1
          /\ \A i \in 1..s - 1 : 1 + i - 1 = i
      BY <1>1
    <2>. QED  BY <2>1, Pieces
  <1>4. s - 1 <= m /\ SubSeq(h, 1, s - 1) = prefix
    <2>1. s - 1 <= m /\ Agree(h, 0, p, 0, s - 1)
      BY DEF Around
    <2>2. /\ 0 \in Nat /\ s - 1 \in Nat /\ 0 + (s - 1) <= Len(h) /\ 0 + (s - 1) <= Len(p)
          /\ 0 + 1 = 1 /\ 0 + (s - 1) = s - 1
      BY <1>1, <2>1
    <2>3. SubSeq(h, 0 + 1, 0 + (s - 1)) = SubSeq(p, 0 + 1, 0 + (s - 1))
      BY <2>1, <2>2, EqualPieces
    <2>. QED  BY <2>1, <2>2, <2>3
  <1>5. \/ (s - 1) + x <= m /\ Agree(h, m - x, p, s + 1, x)
        \/ x > 0 /\ m = (s - 1) + (x - 1) /\ Agree(h, s - 1, p, s + 2, x - 1)
    BY DEF Around
  <1>. HIDE DEF prefix, suffix, n, m, x
  <1>6. MatchPrefixPattern(prefix, h) = s - 1 /\ s - 1 # NoMatch
    <2>1. ~HasStar(prefix)
      BY <1>1, <1>3 DEF HasStar
    <2>2. prefix # <<>>
      BY <1>1, <1>3
    <2>. QED  BY <1>1, <1>3, <1>4, <2>1, <2>2 DEF MatchPrefixPattern, NoMatch, m
  <1>7. CASE x = 0
    <2>1. suffix = <<>>
      BY <1>2, <1>7
    <2>. QED  BY <1>6, <2>1 DEF MatchBetween
  <1>8. CASE x > 0
    <2>1. suffix # <<>> /\ Head(suffix) = "."
      <3>1. 1 \in 1..x /\ (s + 1) + 1 = s + 2 /\ s + 1 < n
        BY <1>1, <1>8
      <3>2. suffix[1] = "."
        BY <1>2, <3>1 DEF n
      <3>3. suffix # <<>>
        <4>1. x # 0
          BY <1>1, <1>8
        <4>2. Len(suffix) # 0
          BY <1>2, <4>1
        <4>. QED  BY <4>2
      <3>. QED  BY <1>2, <3>2, <3>3
    <2>2. ~HasStar(suffix)
      <3>1. \A i \in 1..x : (s + 1) + i \in s + 2..n
        BY <1>1
      <3>. QED  BY <1>1, <1>2, <3>1 DEF HasStar
    <2>3. CASE (s - 1) + x <= m /\ Agree(h, m - x, p, s + 1, x)
      <3>. DEFINE t == From(h, (s - 1) + 1)
                  e == Len(t) - x
      <3>1. /\ t \in Seq(S) /\ Len(t) = m - (s - 1) /\ e \in Nat /\ e + x = Len(t)
            /\ \A i \in 1..Len(t) : t[i] = h[(s - 1) + i]
        <4>1. /\ (s - 1) + 1 \in 1..Len(h) + 1 /\ Len(h) - ((s - 1) + 1) + 1 = m - (s - 1)
              /\ \A i \in 1..m - (s - 1) : ((s - 1) + 1) + i - 1 = (s - 1) + i
          BY <1>1, <1>4 DEF m
        <4>2. /\ t \in Seq(S) /\ Len(t) = Len(h) - ((s - 1) + 1) + 1
              /\ \A i \in 1..Len(h) - ((s - 1) + 1) + 1 : t[i] = h[((s - 1) + 1) + i - 1]
          BY <4>1, FromFacts
        <4>. HIDE DEF t
        <4>3. /\ t \in Seq(S) /\ Len(t) = m - (s - 1)
              /\ \A i \in 1..Len(t) : t[i] = h[(s - 1) + i]
          BY <4>1, <4>2
        <4>. QED  BY <1>1, <2>3, <4>3
      <3>. HIDE DEF t
      <3>2. Agree(t, e, p, s + 1, x)
        <4>. SUFFICES ASSUME NEW d \in 1..x PROVE t[e + d] = p[(s + 1) + d]
          BY DEF Agree
        <4>1. e + d \in 1..Len(t) /\ (s - 1) + (e + d) = (m - x) + d
          BY <1>1, <2>3, <3>1
        <4>. HIDE DEF e
        <4>. QED  BY <2>3, <3>1, <4>1 DEF Agree
      <3>3. SubSeq(t, e + 1, e + x) = suffix
        <4>1. s + 1 \in Nat /\ (s + 1) + x <= Len(p) /\ e + x <= Len(t)
          BY <1>1, <3>1, SMTT(30) DEF n
        <4>. HIDE DEF e
        <4>2. SubSeq(t, e + 1, e + x) = SubSeq(p, (s + 1) + 1, (s + 1) + x)
          <5>. DEFINE r == s + 1
          <5>1. /\ e \in Nat /\ x \in Nat /\ r \in Nat /\ t \in Seq(S) /\ Agree(t, e, p, r, x)
                /\ r + x <= Len(p) /\ e + x <= Len(t)
            BY <1>1, <3>1, <3>2, <4>1
          <5>. HIDE DEF r
          <5>2. SubSeq(t, e + 1, e + x) = SubSeq(p, r + 1, r + x)
            BY <5>1, EqualPieces
          <5>. QED  BY <5>2 DEF r
        <4>. QED  BY <1>2, <4>2
      <3>4. From(t, Len(t) - Len(suffix) + 1) = suffix /\ Len(suffix) <= Len(t)
        <4>1. Len(t) - x + 1 = e + 1 /\ x <= Len(t)
          BY <1>1, <3>1
        <4>. HIDE DEF e
        <4>. QED  BY <1>2, <3>1, <3>3, <4>1 DEF From
      <3>5. MatchSuffixPattern(suffix, t) = x /\ x # NoMatch
        BY <1>1, <1>2, <2>1, <2>2, <3>4 DEF MatchSuffixPattern, NoMatch
      <3>. QED  BY <1>6, <2>1, <3>5 DEF MatchBetween, t
    <2>4. CASE m = (s - 1) + (x - 1) /\ Agree(h, s - 1, p, s + 2, x - 1)
      <3>. DEFINE u == prefix \o Tail(suffix)
      <3>1. /\ Tail(suffix) \in Seq(S) /\ Len(Tail(suffix)) = x - 1
            /\ \A i \in 1..x - 1 : Tail(suffix)[i] = p[(s + 2) + i]
        <4>1. /\ Tail(suffix) \in Seq(S) /\ Len(Tail(suffix)) = Len(suffix) - 1
              /\ \A i \in 1..Len(suffix) - 1 : Tail(suffix)[i] = suffix[i + 1]
          BY <1>2, <2>1, HeadTailProperties
        <4>2. \A i \in 1..x - 1 : i + 1 \in 1..x /\ (s + 1) + (i + 1) = (s + 2) + i
          BY <1>1
        <4>. QED  BY <1>2, <4>1, <4>2
      <3>2. /\ u \in Seq(S) /\ Len(u) = m
            /\ \A i \in 1..m : u[i] = IF i <= s - 1 THEN prefix[i] ELSE Tail(suffix)[i - (s - 1)]
        <4>1. /\ u \in Seq(S) /\ Len(u) = Len(prefix) + Len(Tail(suffix))
              /\ \A i \in 1..Len(prefix) + Len(Tail(suffix)) :
                     u[i] = IF i <= Len(prefix) THEN prefix[i] ELSE Tail(suffix)[i - Len(prefix)]
          BY <1>3, <3>1, ConcatProperties
        <4>. HIDE DEF u
        <4>. QED  BY <1>3, <2>4, <3>1, <4>1
      <3>. HIDE DEF u
      <3>3. ASSUME NEW i \in 1..m PROVE u[i] = h[i] /\ u[i] # "*"
        <4>1. CASE i <= s - 1
          <5>1. i \in 1..s - 1 /\ 0 + i = i
            BY <1>1, <4>1
          <5>2. Agree(h, 0, p, 0, s - 1)
            BY DEF Around
          <5>3. h[i] = p[i]
            <6>1. h[0 + i] = p[0 + i]
              BY <5>1, <5>2 DEF Agree
            <6>. QED  BY <5>1, <6>1
          <5>. QED  BY <1>1, <1>3, <3>2, <4>1, <5>1, <5>3
        <4>2. CASE ~(i <= s - 1)
          <5>. DEFINE d == i - (s - 1)
          <5>1. d \in 1..x - 1 /\ (s - 1) + d = i /\ (s + 2) + d \in s + 2..n
            BY <1>1, <2>4, <4>2
          <5>2. u[i] = Tail(suffix)[d]
            BY <3>2, <4>2
          <5>. HIDE DEF d
          <5>3. u[i] = p[(s + 2) + d] /\ h[i] = p[(s + 2) + d]
            BY <2>4, <3>1, <5>1, <5>2 DEF Agree
          <5>. QED  BY <1>1, <5>1, <5>3
        <4>. QED  BY <4>1, <4>2
      <3>4. u = h /\ ~HasStar(u)
        <4>1. u = h
          <5>1. Len(u) = Len(h) /\ \A i \in 1..Len(u) : u[i] = h[i]
            BY <3>2, <3>3 DEF m
          <5>. QED  BY <3>2, <5>1, SeqEqual
        <4>. QED  BY <3>2, <3>3, <4>1 DEF HasStar
      <3>5. Cut(u) = u
        <4>1. Len(u) <= MaxLength /\ MaxLength \in Nat /\ Len(u) \in Nat
          BY <1>1, <2>4, <3>2, MaxLengthAssumption DEF n
        <4>2. (IF Len(u) < MaxLength THEN Len(u) ELSE MaxLength) = Len(u)
          BY <4>1
        <4>. QED  BY <3>2, <4>2, WholePieces DEF Cut
      <3>6. MatchSingleLevelRecursive(Cut(prefix \o Tail(suffix)), h)
        <4>1. MatchSingleLevelRecursive(u, u)
          BY <3>2, <3>4, LiteralMatches
        <4>. QED  BY <3>4, <3>5, <4>1 DEF u
      <3>. QED  BY <2>1, <3>6 DEF MatchBetween
    <2>. QED  BY <1>5, <2>3, <2>4
  <1>. QED  BY <1>1, <1>7, <1>8

\* Two stars side by side and no others are the first and the last star.
LEMMA PairOfStars ==
    ASSUME NEW S, NEW p \in Seq(S), Cardinality(Stars(p)) = 2, NEW s \in DoubleStarAt(p)
    PROVE  FirstStar(p, s) /\ LastStar(p, s + 1)
  <1>1. /\ Len(p) \in Nat /\ s \in 1..Len(p) /\ s + 1 \in 1..Len(p) /\ s # s + 1
        /\ p[s] = "*" /\ p[s + 1] = "*"
    BY DEF DoubleStarAt
  <1>2. IsFiniteSet(Stars(p))
    <2>1. IsFiniteSet(1..Len(p))
      BY <1>1, FS_Interval
    <2>. QED  BY <2>1, FS_Subset DEF Stars
  <1>3. Cardinality({s, s + 1}) = 2
    <2>1. IsFiniteSet({s}) /\ Cardinality({s}) = 1
      BY FS_Singleton
    <2>2. Cardinality({s} \cup {s + 1}) = 1 + 1
      <3>1. s + 1 \notin {s}
        BY <1>1
      <3>. QED  BY <2>1, <3>1, FS_AddElement
    <2>3. {s} \cup {s + 1} = {s, s + 1}
      OBVIOUS
    <2>. QED  BY <2>2, <2>3
  <1>4. {s, s + 1} \in SUBSET Stars(p)
    BY <1>1 DEF Stars
  <1>5. Stars(p) = {s, s + 1}
    BY <1>2, <1>3, <1>4, FS_Subset
  <1>6. \A i \in 1..Len(p) : p[i] = "*" => i = s \/ i = s + 1
    BY <1>5 DEF Stars
  <1>. QED  BY <1>1, <1>6 DEF FirstStar, LastStar

\* wildcard_matcher.c 167-218: a single "**" that stands for whole labels matches
\* every name that it denotes.
THEOREM WholeLabelsMatch ==
    ASSUME NEW p \in Seq(Chars), NEW h \in Seq(Chars), Len(p) <= MaxLength, Len(h) <= MaxLength,
           Cardinality(Stars(p)) = 2, DoubleStarAt(p) # {},
           LET i == Least(DoubleStarAt(p))
           IN (i > 1 => p[i - 1] = ".") /\ (i + 2 <= Len(p) => p[i + 2] = "."),
           Denotes(p, h)
    PROVE  WildcardMatch(p, h)
  <1>. DEFINE q == Lowered(p)
              g == Lowered(h)
              s == Least(DoubleStarAt(p))
  <1>1. /\ Len(p) \in Nat /\ q \in Seq(Chars) /\ g \in Seq(Chars) /\ Len(q) = Len(p) /\ Len(g) = Len(h)
        /\ \A i \in 1..Len(p) : (q[i] = "*" <=> p[i] = "*") /\ (q[i] = "." <=> p[i] = ".")
        /\ DoubleStarAt(q) = DoubleStarAt(p)
    BY LoweredFacts
  <1>2. s \in DoubleStarAt(p) /\ s \in DoubleStarAt(q) /\ s = Least(DoubleStarAt(q))
    BY <1>1, LeastDoubleStar
  <1>3. s \in Nat /\ s >= 1 /\ s + 1 <= Len(p) /\ (s + 1 < Len(q) => q[s + 2] = ".") /\ HasStar(p)
    <2>1. s \in 1..Len(p) - 1 /\ p[s] = "*"
      BY <1>2 DEF DoubleStarAt
    <2>2. s \in 1..Len(p)
      BY <1>1, <2>1
    <2>3. HasStar(p)
      BY <2>1, <2>2 DEF HasStar
    <2>4. s + 1 < Len(p) => s + 2 \in 1..Len(p) /\ p[s + 2] = "."
      BY <1>1, <2>1
    <2>. HIDE DEF s, q
    <2>. QED  BY <1>1, <2>1, <2>2, <2>3, <2>4
  <1>4. FirstStar(q, s) /\ LastStar(q, s + 1)
    <2>1. Stars(q) = Stars(p)
      BY <1>1 DEF Stars
    <2>2. Cardinality(Stars(q)) = 2
      BY <2>1
    <2>. HIDE DEF s, q
    <2>. QED  BY <1>1, <1>2, <2>2, PairOfStars
  <1>5. Around(q, g, s)
    <2>1. PICK R : Walk(q, g, R) /\ Reached(q, g) = R[Len(q)]
      BY <1>1, ReachedIsWalk
    <2>2. Len(g) \in R[Len(q)]
      BY <2>1, DenotesIsReached
    <2>. HIDE DEF s, q, g
    <2>. QED  BY <1>1, <1>4, <2>1, <2>2, AroundPair
  <1>. DEFINE prefix == SubSeq(q, 1, s - 1)
              suffix == From(q, s + 2)
  <1>6. CASE s = 1
    <2>1. prefix = <<>>
      BY <1>6
    <2>2. MatchLeading(suffix, g)
      <3>1. Around(q, g, 1) /\ LastStar(q, 2) /\ (2 < Len(q) => q[3] = ".") /\ s + 2 = 3
        <4>1. 1 + 1 = 2 /\ 1 + 2 = 3
          OBVIOUS
        <4>. HIDE DEF s, q, g
        <4>. QED  BY <1>3, <1>4, <1>5, <1>6, <4>1
      <3>. HIDE DEF s, q, g
      <3>2. MatchLeading(From(q, 3), g)
        BY <1>1, <3>1, LeadingIsComplete
      <3>. QED  BY <3>1, <3>2
    <2>. QED  BY <1>2, <1>3, <2>1, <2>2 DEF WildcardMatch, MatchMultiLevelWildcard
  <1>7. CASE s > 1
    <2>1. prefix # <<>>
      <3>1. /\ 1 \in 1..Len(q) + 1 /\ s - 1 \in 1 - 1..Len(q) /\ (s - 1) - 1 + 1 = s - 1 /\ s - 1 # 0
        BY <1>1, <1>3, <1>7
      <3>. HIDE DEF s, q
      <3>2. prefix \in Seq(Chars) /\ Len(prefix) = s - 1
        BY <1>1, <3>1, Pieces
      <3>. HIDE DEF prefix
      <3>. QED  BY <3>1, <3>2
    <2>2. MatchBetween(prefix, suffix, g)
      <3>. HIDE DEF s, q, g
      <3>. QED  BY <1>1, <1>3, <1>4, <1>5, <1>7, BetweenIsComplete
    <2>. QED  BY <1>2, <1>3, <2>1, <2>2 DEF WildcardMatch, MatchMultiLevelWildcard
  <1>. HIDE DEF s
  <1>. QED  BY <1>3, <1>6, <1>7

-------------------------------------------------------------------------------
(* The choice of the best pattern. *)

\* The choice before any pattern is looked at.
Nothing == [index |-> 0, score |-> -1]

\* The best of the first i candidates: M are those that match, sc their scores.
Ranked(b, i, M, sc) ==
    LET eligible == {j \in 1..i : j \in M /\ sc[j] >= 0}
    IN \/ b = Nothing /\ eligible = {}
       \/ /\ b.index \in eligible /\ b.score = sc[b.index]
          /\ \A j \in eligible : sc[j] < b.score \/ (sc[j] = b.score /\ b.index <= j)

\* One more pattern keeps the choice the first of the highest.
LEMMA RankStep ==
    ASSUME NEW i \in Nat, NEW M, NEW n \in Nat, i < n, NEW sc \in [1..n -> Int], NEW b, NEW c,
           b \in [index : Nat, score : Int], Ranked(b, i, M, sc),
           c = IF i + 1 \in M /\ sc[i + 1] > b.score
               THEN [index |-> i + 1, score |-> sc[i + 1]] ELSE b
    PROVE  Ranked(c, i + 1, M, sc)
  <1>. DEFINE E(k) == {j \in 1..k : j \in M /\ sc[j] >= 0}
  <1>1. \A j : j \in E(i + 1) <=> j \in E(i) \/ (j = i + 1 /\ i + 1 \in M /\ sc[i + 1] >= 0)
    OBVIOUS
  <1>2. i + 1 \in 1..n /\ sc[i + 1] \in Int /\ i + 1 \notin E(i)
        /\ \A j \in E(i) : j \in 1..n /\ j < i + 1 /\ sc[j] \in Int
    OBVIOUS
  <1>3. \/ b = Nothing /\ E(i) = {}
        \/ /\ b.index \in E(i) /\ b.score = sc[b.index]
           /\ \A j \in E(i) : sc[j] < b.score \/ (sc[j] = b.score /\ b.index <= j)
    BY DEF Ranked
  <1>4. b.score \in Int /\ b.index \in Nat /\ (b = Nothing => b.score = -1)
    BY DEF Nothing
  <1>5. \A j \in E(i) : sc[j] >= 0
    OBVIOUS
  <1>. HIDE DEF E
  <1>6. CASE i + 1 \in M /\ sc[i + 1] > b.score
    <2>1. c.index = i + 1 /\ c.score = sc[i + 1]
      BY <1>6
    <2>2. sc[i + 1] >= 0
      BY <1>2, <1>3, <1>4, <1>5, <1>6
    <2>3. c.index \in E(i + 1)
      BY <1>1, <1>6, <2>1, <2>2
    <2>4. \A j \in E(i) : sc[j] < c.score
      BY <1>2, <1>3, <1>4, <1>6, <2>1
    <2>5. \A j \in E(i + 1) : sc[j] < c.score \/ (sc[j] = c.score /\ c.index <= j)
      BY <1>1, <2>1, <2>4
    <2>. QED  BY <2>1, <2>3, <2>5 DEF Ranked, E
  <1>7. CASE ~(i + 1 \in M /\ sc[i + 1] > b.score)
    <2>1. c = b
      BY <1>7
    <2>2. CASE b = Nothing /\ E(i) = {}
      <3>1. E(i + 1) = {}
        BY <1>1, <1>2, <1>4, <1>7, <2>2
      <3>. QED  BY <2>1, <2>2, <3>1 DEF Ranked, E
    <2>3. CASE /\ b.index \in E(i) /\ b.score = sc[b.index]
               /\ \A j \in E(i) : sc[j] < b.score \/ (sc[j] = b.score /\ b.index <= j)
      <3>1. b.index \in E(i + 1)
        BY <1>1, <2>3
      <3>2. \A j \in E(i + 1) : sc[j] < b.score \/ (sc[j] = b.score /\ b.index <= j)
        BY <1>1, <1>2, <1>4, <1>7, <2>3
      <3>. QED  BY <2>1, <2>3, <3>1, <3>2 DEF Ranked, E
    <2>. QED  BY <1>3, <2>2, <2>3
  <1>. QED  BY <1>6, <1>7

\* A scan that keeps the best so far.
Scan(st, n, M, sc) ==
    st = [i \in 0..n |-> IF i = 0 THEN Nothing
                         ELSE IF i \in M /\ sc[i] > st[i - 1].score
                         THEN [index |-> i, score |-> sc[i]] ELSE st[i - 1]]

\* What it has kept at the end.
LEMMA ScanRanks ==
    ASSUME NEW n \in Nat, NEW M, NEW sc \in [1..n -> Int], NEW st, Scan(st, n, M, sc)
    PROVE  \A i \in 0..n : st[i] \in [index : Nat, score : Int] /\ Ranked(st[i], i, M, sc)
  <1>. DEFINE Good(i) == st[i] \in [index : Nat, score : Int] /\ Ranked(st[i], i, M, sc)
              T == {i \in 0..n : ~Good(i)}
  <1>0. /\ 0 \in 0..n => st[0] = Nothing
        /\ \A i \in 1..n : st[i] = IF i \in M /\ sc[i] > st[i - 1].score
                                    THEN [index |-> i, score |-> sc[i]] ELSE st[i - 1]
    <2>1. \A i \in 0..n : st[i] = IF i = 0 THEN Nothing
                                  ELSE IF i \in M /\ sc[i] > st[i - 1].score
                                  THEN [index |-> i, score |-> sc[i]] ELSE st[i - 1]
      BY DEF Scan
    <2>2. \A i \in 1..n : i \in 0..n /\ i # 0
      OBVIOUS
    <2>. QED  BY <2>1, <2>2
  <1>. SUFFICES ASSUME T # {} PROVE FALSE
    OBVIOUS
  <1>1. PICK k \in T : \A j \in T : k <= j
    <2>1. T \in SUBSET Nat
      OBVIOUS
    <2>. HIDE DEF T
    <2>. QED  BY <2>1, LeastNumber
  <1>2. Good(0)
    <2>1. st[0] = Nothing
      BY <1>0
    <2>2. Nothing \in [index : Nat, score : Int]
      BY DEF Nothing
    <2>3. {j \in 1..0 : j \in M /\ sc[j] >= 0} = {}
      OBVIOUS
    <2>. QED  BY <2>1, <2>2, <2>3 DEF Ranked
  <1>3. k \in 1..n /\ ~Good(k)
    BY <1>2
  <1>4. k - 1 \in 0..n /\ Good(k - 1)
    <2>1. k - 1 \in 0..n /\ ~(k <= k - 1)
      BY <1>3
    <2>. QED  BY <1>1, <2>1
  <1>5. st[k] = IF k \in M /\ sc[k] > st[k - 1].score
                THEN [index |-> k, score |-> sc[k]] ELSE st[k - 1]
    BY <1>0, <1>3
  <1>6. st[k] \in [index : Nat, score : Int]
    BY <1>3, <1>4, <1>5
  <1>7. Ranked(st[k], k, M, sc)
    <2>. DEFINE i == k - 1
                b == st[i]
                c == st[k]
    <2>1. i \in Nat /\ i < n /\ i + 1 = k /\ b \in [index : Nat, score : Int] /\ Ranked(b, i, M, sc)
      BY <1>3, <1>4
    <2>2. c = IF i + 1 \in M /\ sc[i + 1] > b.score
              THEN [index |-> i + 1, score |-> sc[i + 1]] ELSE b
      BY <1>5, <2>1
    <2>. HIDE DEF i, b, c, Good, T
    <2>3. Ranked(c, i + 1, M, sc)
      BY <2>1, <2>2, RankStep
    <2>. QED  BY <2>1, <2>3 DEF c
  <1>. QED  BY <1>3, <1>6, <1>7

\* There is such a scan.
LEMMA ScanExists ==
    ASSUME NEW n \in Nat, NEW M, NEW sc \in [1..n -> Int]
    PROVE  \E st : Scan(st, n, M, sc)
  <1>. DEFINE V == [index : Nat, score : Int]
              G == [i \in 0..n |-> [f \in [0..n -> V] |->
                       IF i = 0 THEN Nothing
                       ELSE IF i \in M /\ sc[i] > f[i - 1].score
                       THEN [index |-> i, score |-> sc[i]] ELSE f[i - 1]]]
  <1>1. Nothing \in V
    BY DEF Nothing
  <1>4. \A i \in 0..n : \A f \in [0..n -> V] :
            G[i][f] = IF i = 0 THEN Nothing
                      ELSE IF i \in M /\ sc[i] > f[i - 1].score
                      THEN [index |-> i, score |-> sc[i]] ELSE f[i - 1]
    <2>. HIDE DEF V
    <2>. QED  OBVIOUS
  <1>. HIDE DEF G
  <1>2. \A i \in 0..n : \A f \in [0..n -> V] : G[i][f] \in V
    <2>. SUFFICES ASSUME NEW i \in 0..n, NEW f \in [0..n -> V] PROVE G[i][f] \in V
      OBVIOUS
    <2>1. CASE i = 0
      BY <1>1, <1>4, <2>1
    <2>2. CASE i # 0
      <3>1. i \in 1..n /\ i - 1 \in 0..n
        BY <2>2
      <3>2. f[i - 1] \in V /\ [index |-> i, score |-> sc[i]] \in V
        BY <3>1
      <3>. HIDE DEF V
      <3>. QED  BY <1>4, <2>2, <3>2
    <2>. QED  BY <2>1, <2>2
  <1>3. \A i \in 0..n : \A f, g \in [0..n -> V] :
            (\A j \in 0..i - 1 : f[j] = g[j]) => G[i][f] = G[i][g]
    <2>. SUFFICES ASSUME NEW i \in 0..n, NEW f \in [0..n -> V], NEW g \in [0..n -> V],
                         \A j \in 0..i - 1 : f[j] = g[j]
                  PROVE  G[i][f] = G[i][g]
      OBVIOUS
    <2>. HIDE DEF V
    <2>1. i # 0 => f[i - 1] = g[i - 1]
      OBVIOUS
    <2>. QED  BY <1>4, <2>1
  <1>5. Causal(G, n, V)
    BY <1>1, <1>2, <1>3 DEF Causal
  <1>6. PICK f \in [0..n -> V] : \A i \in 0..n : f[i] = G[i][f]
    <2>. HIDE DEF V
    <2>. QED  BY <1>5, Recursion
  <1>7. \A i \in 0..n : f[i] = IF i = 0 THEN Nothing
                               ELSE IF i \in M /\ sc[i] > f[i - 1].score
                               THEN [index |-> i, score |-> sc[i]] ELSE f[i - 1]
    BY <1>4, <1>6
  <1>. QED  BY <1>7 DEF Scan

\* wildcard_matcher.c 320-335: of any patterns, the choice is the first of those
\* that match with the highest score of at least 0, or none.
THEOREM BestOfPatterns ==
    ASSUME NEW S, NEW patterns \in Seq(Seq(S)), NEW h
    PROVE  LET best == FindBestWildcardMatch(h, patterns)
               Score(i) == CalculatePatternScore(patterns[i])
               eligible == {i \in 1..Len(patterns) : WildcardMatch(patterns[i], h) /\ Score(i) >= 0}
           IN IF eligible = {} THEN best = 0
              ELSE /\ best \in eligible
                   /\ \A i \in eligible : Score(i) < Score(best) \/ (Score(i) = Score(best) /\ best <= i)
  <1>. DEFINE n == Len(patterns)
              Score(i) == CalculatePatternScore(patterns[i])
              Match(i) == WildcardMatch(patterns[i], h)
              M == {i \in 1..n : Match(i)}
              sc == [i \in 1..n |-> Score(i)]
              st == CHOOSE step : step = [i \in 0..n |->
                        IF i = 0 THEN Nothing
                        ELSE IF Match(i) /\ Score(i) > step[i - 1].score
                             THEN [index |-> i, score |-> Score(i)] ELSE step[i - 1]]
  <1>1. n \in Nat /\ \A i \in 1..n : Score(i) \in Int
    BY ScoreType
  <1>2. FindBestWildcardMatch(h, patterns) = st[n].index
    BY DEF FindBestWildcardMatch, Nothing
  <1>3. sc \in [1..n -> Int]
    BY <1>1
  <1>4. /\ \A i \in 1..n : sc[i] = Score(i) /\ (i \in M <=> Match(i))
        /\ \A i \in 0..n : i # 0 => i \in 1..n
    BY <1>1
  <1>. HIDE DEF n, Score, Match, M, sc
  <1>5. PICK f : Scan(f, n, M, sc)
    BY <1>1, <1>3, ScanExists
  <1>6. f = [i \in 0..n |-> IF i = 0 THEN Nothing
                            ELSE IF Match(i) /\ Score(i) > f[i - 1].score
                            THEN [index |-> i, score |-> Score(i)] ELSE f[i - 1]]
    BY <1>4, <1>5 DEF Scan
  <1>7. st = [i \in 0..n |-> IF i = 0 THEN Nothing
                             ELSE IF Match(i) /\ Score(i) > st[i - 1].score
                             THEN [index |-> i, score |-> Score(i)] ELSE st[i - 1]]
    BY <1>6
  <1>. HIDE DEF st
  <1>8. Scan(st, n, M, sc)
    BY <1>4, <1>7 DEF Scan
  <1>9. Ranked(st[n], n, M, sc)
    BY <1>1, <1>3, <1>8, ScanRanks
  <1>. DEFINE E == {i \in 1..n : Match(i) /\ Score(i) >= 0}
  <1>10. \/ st[n].index = 0 /\ E = {}
         \/ /\ st[n].index \in E
            /\ \A i \in E : Score(i) < Score(st[n].index) \/ (Score(i) = Score(st[n].index) /\ st[n].index <= i)
    BY <1>4, <1>9 DEF Ranked, Nothing
  <1>. QED  BY <1>2, <1>10 DEF n, Score, Match
==============================================================================
