-------------------------- MODULE LuaStringsProofs --------------------------
(***************************************************************************)
(* Proofs about the functions of LuaStrings, for strings, packets and      *)
(* texts of any length: trim takes all blanks away and nothing else, a     *)
(* replacement is undone by the opposite one, decoding inverts encoding,   *)
(* and the checksum of a packet verifies.                                  *)
(*                                                                         *)
(* The lemmas about recursive functions and sequences come first; other    *)
(* proofs cite them too.                                                   *)
(***************************************************************************)
EXTENDS LuaStrings, FiniteSetTheorems, SequenceTheorems, TLAPS

(* Least numbers, and functions defined from smaller arguments. *)

\* A set of numbers has a least one.
LEMMA LeastNumber ==
    ASSUME NEW T \in SUBSET Nat, T # {}
    PROVE  \E m \in T : \A k \in T : m <= k
  <1>1. PICK m \in T : \A k \in T : ~(<<k, m>> \in OpToRel(<, Nat))
    BY NatLessThanWellFounded, WFMin
  <1>2. \A k \in T : k \in Nat /\ m \in Nat /\ ~(k < m)
    BY <1>1 DEF OpToRel
  <1>. QED  BY <1>2

\* A bounded set of numbers has a greatest one.
LEMMA GreatestNumber ==
    ASSUME NEW n \in Nat, NEW T \in SUBSET (0..n), T # {}
    PROVE  \E m \in T : \A k \in T : k <= m
  <1>. DEFINE U == {j \in 0..n : n - j \in T}
  <1>1. U \in SUBSET Nat /\ U # {}
    <2>1. PICK k \in T : TRUE
      OBVIOUS
    <2>2. n - k \in 0..n /\ n - (n - k) = k
      OBVIOUS
    <2>3. n - k \in U
      BY <2>2
    <2>4. U \in SUBSET Nat
      OBVIOUS
    <2>. QED  BY <2>3, <2>4
  <1>2. PICK u \in U : \A k \in U : u <= k
    <2>. HIDE DEF U
    <2>. QED  BY <1>1, LeastNumber
  <1>3. ASSUME NEW k \in T PROVE k <= n - u
    <2>1. n - k \in U
      BY n - (n - k) = k
    <2>. QED  BY <1>2, <2>1
  <1>. QED  BY <1>3

\* A function can be defined from its values at smaller arguments: G gives the
\* value at i, from a function of which it looks at nothing from i on.
Causal(G, n, V) ==
    /\ V # {}
    /\ \A i \in 0..n : \A f \in [0..n -> V] : G[i][f] \in V
    /\ \A i \in 0..n : \A f, g \in [0..n -> V] :
          (\A j \in 0..i - 1 : f[j] = g[j]) => G[i][f] = G[i][g]

\* Such a function exists.
LEMMA Recursion ==
    ASSUME NEW n \in Nat, NEW V, NEW G, Causal(G, n, V)
    PROVE  \E f \in [0..n -> V] : \A i \in 0..n : f[i] = G[i][f]
  <1>. DEFINE Upto(k) == \E f \in [0..n -> V] : \A i \in 0..k - 1 : f[i] = G[i][f]
              T == {k \in 0..n + 1 : ~Upto(k)}
  <1>. SUFFICES ASSUME T # {} PROVE FALSE
    <2>1. n + 1 \in 0..n + 1 /\ (n + 1) - 1 = n
      OBVIOUS
    <2>2. n + 1 \notin T => Upto(n + 1)
      BY <2>1
    <2>. QED  BY <2>1, <2>2
  <1>1. PICK k \in T : \A j \in T : k <= j
    <2>1. T \in SUBSET Nat
      OBVIOUS
    <2>. HIDE DEF T
    <2>. QED  BY <2>1, LeastNumber
  <1>2. k # 0
    <2>1. PICK v \in V : TRUE
      BY DEF Causal
    <2>2. [i \in 0..n |-> v] \in [0..n -> V] /\ 0..0 - 1 = {}
      OBVIOUS
    <2>3. Upto(0)
      BY <2>2
    <2>. QED  BY <1>1, <2>3
  <1>3. k - 1 \in 0..n /\ k \in 1..n + 1 /\ k - 1 \notin T
    <2>1. k \in 0..n + 1
      OBVIOUS
    <2>2. k - 1 \in T => k <= k - 1
      BY <1>1
    <2>. HIDE DEF T
    <2>. QED  BY <1>2, <2>1, <2>2
  <1>4. PICK f \in [0..n -> V] : \A i \in 0..(k - 1) - 1 : f[i] = G[i][f]
    <2>1. k - 1 \in 0..n + 1
      BY <1>3
    <2>. QED  BY <1>3, <2>1
  <1>. DEFINE g == [f EXCEPT ![k - 1] = G[k - 1][f]]
  <1>5. g \in [0..n -> V] /\ g[k - 1] = G[k - 1][f] /\ \A i \in 0..k - 2 : g[i] = f[i]
    BY <1>3 DEF Causal
  <1>. HIDE DEF g
  <1>6. ASSUME NEW i \in 0..k - 1 PROVE g[i] = G[i][g]
    <2>1. \A j \in 0..i - 1 : f[j] = g[j]
      BY <1>3, <1>5
    <2>2. G[i][f] = G[i][g]
      <3>1. i \in 0..n
        BY <1>3
      <3>. QED  BY <1>5, <2>1, <3>1 DEF Causal
    <2>3. CASE i = k - 1
      BY <1>5, <2>2, <2>3
    <2>4. CASE i # k - 1
      <3>1. i \in 0..(k - 1) - 1 /\ i \in 0..k - 2
        BY <1>3, <2>4
      <3>. QED  BY <1>4, <1>5, <2>2, <3>1
    <2>. QED  BY <2>3, <2>4
  <1>7. Upto(k)
    BY <1>5, <1>6
  <1>. QED  BY <1>1, <1>7

\* The same from the other end: G looks at nothing up to i.
CausalDown(G, n, V) ==
    /\ V # {}
    /\ \A i \in 1..n + 1 : \A f \in [1..n + 1 -> V] : G[i][f] \in V
    /\ \A i \in 1..n + 1 : \A f, g \in [1..n + 1 -> V] :
          (\A j \in i + 1..n + 1 : f[j] = g[j]) => G[i][f] = G[i][g]

\* Such a definition has a function.
LEMMA RecursionDown ==
    ASSUME NEW n \in Nat, NEW V, NEW G, CausalDown(G, n, V)
    PROVE  \E f \in [1..n + 1 -> V] : \A i \in 1..n + 1 : f[i] = G[i][f]
  <1>. DEFINE Turned(f) == [i \in 1..n + 1 |-> f[n + 1 - i]]
              H == [k \in 0..n |-> [f \in [0..n -> V] |-> G[n + 1 - k][Turned(f)]]]
  <1>1. \A k \in 0..n : n + 1 - k \in 1..n + 1 /\ n + 1 - (n + 1 - k) = k
    OBVIOUS
  <1>2. \A i \in 1..n + 1 : n + 1 - i \in 0..n /\ n + 1 - (n + 1 - i) = i
    OBVIOUS
  <1>3. \A f \in [0..n -> V] : Turned(f) \in [1..n + 1 -> V]
    BY <1>2
  <1>4. \A k \in 0..n : \A f \in [0..n -> V] : H[k][f] = G[n + 1 - k][Turned(f)]
    OBVIOUS
  <1>5. \A f \in [0..n -> V] : \A i \in 1..n + 1 : Turned(f)[i] = f[n + 1 - i]
    OBVIOUS
  <1>. HIDE DEF H, Turned
  <1>6. Causal(H, n, V)
    <2>1. \A k \in 0..n : \A f \in [0..n -> V] : H[k][f] \in V
      BY <1>1, <1>3, <1>4 DEF CausalDown
    <2>2. ASSUME NEW k \in 0..n, NEW f \in [0..n -> V], NEW g \in [0..n -> V],
                 \A j \in 0..k - 1 : f[j] = g[j]
          PROVE  H[k][f] = H[k][g]
      <3>1. \A j \in (n + 1 - k) + 1..n + 1 : Turned(f)[j] = Turned(g)[j]
        <4>. SUFFICES ASSUME NEW j \in (n + 1 - k) + 1..n + 1 PROVE Turned(f)[j] = Turned(g)[j]
          OBVIOUS
        <4>1. j \in 1..n + 1 /\ n + 1 - j \in 0..k - 1
          OBVIOUS
        <4>. QED  BY <1>5, <2>2, <4>1
      <3>2. G[n + 1 - k][Turned(f)] = G[n + 1 - k][Turned(g)]
        BY <1>1, <1>3, <3>1 DEF CausalDown
      <3>. QED  BY <1>4, <3>2
    <2>. QED  BY <2>1, <2>2 DEF Causal, CausalDown
  <1>7. PICK f \in [0..n -> V] : \A k \in 0..n : f[k] = H[k][f]
    BY <1>6, Recursion
  <1>8. ASSUME NEW i \in 1..n + 1 PROVE Turned(f)[i] = G[i][Turned(f)]
    <2>1. Turned(f)[i] = f[n + 1 - i] /\ n + 1 - i \in 0..n /\ n + 1 - (n + 1 - i) = i
      BY <1>2, <1>5
    <2>. QED  BY <1>4, <1>7, <2>1
  <1>. QED  BY <1>3, <1>8

\* What is kept from each place to the next holds of all places.
LEMMA UpTo ==
    ASSUME NEW n \in Nat, NEW T, 0 \in T, \A i \in 1..n : i - 1 \in T => i \in T
    PROVE  \A i \in 0..n : i \in T
  <1>. DEFINE U == {i \in 0..n : i \notin T}
  <1>. SUFFICES ASSUME U # {} PROVE FALSE
    OBVIOUS
  <1>1. PICK k \in U : \A j \in U : k <= j
    <2>1. U \in SUBSET Nat
      OBVIOUS
    <2>. HIDE DEF U
    <2>. QED  BY <2>1, LeastNumber
  <1>2. k \in 1..n /\ k \notin T /\ k - 1 \in 0..n /\ ~(k <= k - 1)
    <2>1. k \in 0..n /\ k \notin T
      OBVIOUS
    <2>2. k # 0
      BY <2>1
    <2>. QED  BY <2>1, <2>2
  <1>3. k - 1 \in T
    BY <1>1, <1>2
  <1>. QED  BY <1>2, <1>3

\* What holds of a place when it holds of all later ones holds of all places.
LEMMA DownFrom ==
    ASSUME NEW n \in Nat, NEW T, \A i \in 1..n + 1 : (\A j \in i + 1..n + 1 : j \in T) => i \in T
    PROVE  \A i \in 1..n + 1 : i \in T
  <1>. DEFINE U == {i \in 0..n + 1 : i # 0 /\ i \notin T}
  <1>. SUFFICES ASSUME U # {} PROVE FALSE
    <2>1. \A i \in 1..n + 1 : i \in 0..n + 1 /\ i # 0
      OBVIOUS
    <2>. QED  BY <2>1
  <1>1. PICK k \in U : \A j \in U : j <= k
    <2>1. U \in SUBSET (0..n + 1) /\ n + 1 \in Nat
      OBVIOUS
    <2>. HIDE DEF U
    <2>. QED  BY <2>1, GreatestNumber
  <1>2. k \in 1..n + 1 /\ k \notin T
    OBVIOUS
  <1>3. \A j \in k + 1..n + 1 : j \in T
    <2>. SUFFICES ASSUME NEW j \in k + 1..n + 1, j \notin T PROVE FALSE
      OBVIOUS
    <2>1. j \in 0..n + 1 /\ j # 0 /\ ~(j <= k)
      BY <1>2
    <2>2. j \in U
      BY <2>1
    <2>. QED  BY <1>1, <2>1, <2>2
  <1>. QED  BY <1>2, <1>3

-------------------------------------------------------------------------------
(* Sequences. *)

\* A piece of a sequence.
LEMMA Pieces ==
    ASSUME NEW S, NEW s \in Seq(S), NEW a \in 1..Len(s) + 1, NEW e \in a - 1..Len(s)
    PROVE  /\ SubSeq(s, a, e) \in Seq(S) /\ Len(SubSeq(s, a, e)) = e - a + 1
           /\ \A i \in 1..e - a + 1 : SubSeq(s, a, e)[i] = s[a + i - 1]
  <1>1. \A i \in a..e : s[i] \in S
    OBVIOUS
  <1>2. a \in Int /\ e \in Int /\ (IF a <= e THEN e - a + 1 ELSE 0) = e - a + 1
    OBVIOUS
  <1>. QED  BY <1>1, <1>2, SubSeqProperties

\* Two sequences one after the other.
LEMMA Joined ==
    ASSUME NEW S, NEW x \in Seq(S), NEW y \in Seq(S)
    PROVE  /\ x \o y \in Seq(S) /\ Len(x \o y) = Len(x) + Len(y)
           /\ \A i \in 1..Len(x) : (x \o y)[i] = x[i]
           /\ \A j \in 1..Len(y) : (x \o y)[Len(x) + j] = y[j]
  <1>1. /\ x \o y \in Seq(S) /\ Len(x \o y) = Len(x) + Len(y)
        /\ \A i \in 1..Len(x) + Len(y) : (x \o y)[i] = IF i <= Len(x) THEN x[i] ELSE y[i - Len(x)]
    BY ConcatProperties
  <1>2. Len(x) \in Nat /\ Len(y) \in Nat
    OBVIOUS
  <1>3. \A i \in 1..Len(x) : i \in 1..Len(x) + Len(y) /\ i <= Len(x)
    BY <1>2
  <1>4. \A j \in 1..Len(y) : /\ Len(x) + j \in 1..Len(x) + Len(y) /\ ~(Len(x) + j <= Len(x))
                             /\ Len(x) + j - Len(x) = j
    BY <1>2
  <1>. QED  BY <1>1, <1>3, <1>4

\* The middle of three sequences.
LEMMA Middle ==
    ASSUME NEW S, NEW x \in Seq(S), NEW y \in Seq(S), NEW z \in Seq(S)
    PROVE  SubSeq(x \o (y \o z), Len(x) + 1, Len(x) + Len(y)) = y
  <1>. DEFINE w == x \o (y \o z)
              a == Len(x)
              b == Len(y)
              r == SubSeq(w, a + 1, a + b)
  <1>1. /\ w \in Seq(S) /\ Len(w) = a + Len(y \o z) /\ \A j \in 1..Len(y \o z) : w[a + j] = (y \o z)[j]
        /\ y \o z \in Seq(S) /\ Len(y \o z) = b + Len(z) /\ \A j \in 1..b : (y \o z)[j] = y[j]
    <2>1. y \o z \in Seq(S) /\ Len(y \o z) = b + Len(z) /\ \A j \in 1..b : (y \o z)[j] = y[j]
      BY Joined
    <2>. QED  BY <2>1, Joined
  <1>2. a \in Nat /\ b \in Nat /\ Len(z) \in Nat
    OBVIOUS
  <1>. HIDE DEF w, a, b
  <1>3. /\ a + 1 \in 1..Len(w) + 1 /\ a + b \in (a + 1) - 1..Len(w) /\ (a + b) - (a + 1) + 1 = b
        /\ \A j \in 1..b : (a + 1) + j - 1 = a + j
    BY <1>1, <1>2
  <1>4. /\ r \in Seq(S) /\ Len(r) = (a + b) - (a + 1) + 1
        /\ \A j \in 1..(a + b) - (a + 1) + 1 : r[j] = w[(a + 1) + j - 1]
    <2>1. w \in Seq(S) /\ a + 1 \in 1..Len(w) + 1 /\ a + b \in (a + 1) - 1..Len(w)
      BY <1>1, <1>3
    <2>. HIDE DEF r
    <2>. QED  BY <2>1, Pieces DEF r
  <1>. HIDE DEF r
  <1>5. \A j \in 1..b : r[j] = y[j]
    <2>1. \A j \in 1..b : r[j] = w[a + j]
      BY <1>3, <1>4
    <2>2. \A j \in 1..b : j \in 1..Len(y \o z)
      BY <1>1, <1>2
    <2>. QED  BY <1>1, <2>1, <2>2
  <1>6. r = y
    <2>1. r \in Seq(S) /\ Len(r) = Len(y) /\ \A j \in 1..Len(r) : r[j] = y[j]
      BY <1>3, <1>4, <1>5 DEF b
    <2>. QED  BY <2>1, SeqEqual
  <1>. QED  BY <1>6 DEF r, w, a, b

\* The second of two sequences.
LEMMA Second ==
    ASSUME NEW S, NEW x \in Seq(S), NEW y \in Seq(S)
    PROVE  SubSeq(x \o y, Len(x) + 1, Len(x) + Len(y)) = y
  <1>1. <<>> \in Seq(S) /\ y \o <<>> = y
    BY ConcatEmptySeq, EmptySeq
  <1>. QED  BY <1>1, Middle

-------------------------------------------------------------------------------
(* caplua.c: trim. *)

\* caplua.c 77-90: what is cut off are blanks, and what is left has none at
\* its ends.
THEOREM TrimOfAny ==
    ASSUME NEW S, NEW s \in Seq(S)
    PROVE  LET r == StrTrim(s)
           IN /\ r # <<>> => r[1] # Space /\ r[Len(r)] # Space
              /\ \E i \in 0..Len(s), k \in 0..Len(s) :
                   /\ i + Len(r) + k = Len(s)
                   /\ SubSeq(s, i + 1, i + Len(r)) = r
                   /\ \A m \in 1..Len(s) : m <= i \/ m > Len(s) - k => s[m] = Space
  <1>. DEFINE n == Len(s)
              r == StrTrim(s)
              inside == {i \in 1..n : s[i] # Space}
              first == CHOOSE i \in inside : \A j \in inside : i <= j
              last == CHOOSE i \in inside : \A j \in inside : j <= i
  <1>1. n \in Nat /\ inside \in SUBSET (0..n) /\ inside \in SUBSET Nat
    <2>1. n \in Nat
      OBVIOUS
    <2>. HIDE DEF n
    <2>. QED  BY <2>1
  <1>2. r = IF inside = {} THEN <<>> ELSE SubSeq(s, first, last)
    BY DEF StrTrim
  <1>. HIDE DEF r
  <1>3. CASE inside = {}
    <2>1. r = <<>> /\ Len(r) = 0
      BY <1>2, <1>3
    <2>2. SubSeq(s, n + 1, n) = <<>>
      <3>1. n + 1 \in Int /\ n \in Int /\ n < n + 1
        BY <1>1
      <3>. HIDE DEF n
      <3>. QED  BY <3>1, SubSeqEmpty
    <2>3. \A m \in 1..n : s[m] = Space
      BY <1>3
    <2>. HIDE DEF inside, n, first, last
    <2>4. /\ n \in 0..n /\ 0 \in 0..n /\ n + Len(r) + 0 = n /\ n + Len(r) = n
      BY <1>1, <2>1
    <2>5. \E i \in 0..n, k \in 0..n :
             /\ i + Len(r) + k = n
             /\ SubSeq(s, i + 1, i + Len(r)) = r
             /\ \A m \in 1..n : m <= i \/ m > n - k => s[m] = Space
      <3>1. /\ n + Len(r) + 0 = n
            /\ SubSeq(s, n + 1, n + Len(r)) = r
            /\ \A m \in 1..n : m <= n \/ m > n - 0 => s[m] = Space
        BY <2>1, <2>2, <2>3, <2>4
      <3>. QED  BY <2>4, <3>1
    <2>. QED  BY <2>1, <2>5 DEF r, n
  <1>4. CASE inside # {}
    <2>1. first \in inside /\ \A j \in inside : first <= j
      <3>. HIDE DEF inside
      <3>1. \E i \in inside : \A j \in inside : i <= j
        BY <1>1, <1>4, LeastNumber
      <3>. QED  BY <3>1
    <2>2. last \in inside /\ \A j \in inside : j <= last
      <3>. HIDE DEF inside
      <3>1. \E i \in inside : \A j \in inside : j <= i
        BY <1>1, <1>4, GreatestNumber
      <3>. QED  BY <3>1
    <2>. HIDE DEF first, last
    <2>3. /\ first \in 1..n /\ last \in first..n /\ s[first] # Space /\ s[last] # Space
          /\ \A m \in 1..n : m < first \/ m > last => s[m] = Space
      <3>1. first \in 1..n /\ last \in 1..n /\ s[first] # Space /\ s[last] # Space
        BY <2>1, <2>2
      <3>2. \A m \in 1..n : s[m] # Space => first <= m /\ m <= last
        BY <2>1, <2>2
      <3>. HIDE DEF inside, n
      <3>. QED  BY <1>1, <2>1, <2>2, <3>1, <3>2
    <2>. HIDE DEF inside, n
    <2>4. /\ r = SubSeq(s, first, last) /\ Len(r) = last - first + 1
          /\ \A i \in 1..last - first + 1 : r[i] = s[first + i - 1]
      <3>1. first \in 1..Len(s) + 1 /\ last \in first - 1..Len(s)
        BY <1>1, <2>3 DEF n
      <3>. QED  BY <1>2, <1>4, <3>1, Pieces
    <2>5. /\ 1 \in 1..last - first + 1 /\ last - first + 1 \in 1..last - first + 1
          /\ first + 1 - 1 = first /\ first + (last - first + 1) - 1 = last
      BY <1>1, <2>3
    <2>6. r[1] # Space /\ r[Len(r)] # Space
      BY <2>3, <2>4, <2>5
    <2>7. \E i \in 0..n, k \in 0..n :
             /\ i + Len(r) + k = n
             /\ SubSeq(s, i + 1, i + Len(r)) = r
             /\ \A m \in 1..n : m <= i \/ m > n - k => s[m] = Space
      <3>. DEFINE i == first - 1
                  k == n - last
      <3>1. /\ i \in 0..n /\ k \in 0..n /\ i + 1 = first /\ i + (last - first + 1) = last
            /\ last + k = n /\ n - k = last
        BY <1>1, <2>3
      <3>2. \A m \in 1..n : m <= i \/ m > n - k => m < first \/ m > last
        BY <1>1, <2>3
      <3>. HIDE DEF i, k
      <3>3. i + Len(r) = last /\ SubSeq(s, i + 1, i + Len(r)) = r
        BY <2>4, <3>1
      <3>4. \A m \in 1..n : m <= i \/ m > n - k => s[m] = Space
        BY <2>3, <3>2
      <3>5. i + Len(r) + k = n
        BY <3>1, <3>3
      <3>. QED  BY <3>1, <3>3, <3>4, <3>5
    <2>. QED  BY <2>6, <2>7 DEF r, n
  <1>. QED  BY <1>3, <1>4

-------------------------------------------------------------------------------
(* caplua.c: lmemfind. *)

\* p stands in s from place k on.
At(s, k, p) ==
    /\ 1 <= k /\ k + Len(p) - 1 <= Len(s)
    /\ \A j \in 1..Len(p) : s[k + j - 1] = p[j]

\* What lmemfind compares is that.
LEMMA AtIsSubSeq ==
    ASSUME NEW S, NEW s \in Seq(S), NEW p \in Seq(S), p # <<>>, NEW i \in 1..Len(s) + 1, NEW k \in Int
    PROVE  /\ k \in i..Len(s) - Len(p) + 1 /\ SubSeq(s, k, k + Len(p) - 1) = p
              <=> i <= k /\ At(s, k, p)
           /\ At(s, k, p) => k \in 1..Len(s) /\ k + Len(p) \in k + 1..Len(s) + 1
  <1>. DEFINE n == Len(s)
              l == Len(p)
  <1>1. n \in Nat /\ l \in Nat /\ l > 0 /\ i \in 1..n + 1
    BY EmptySeq
  <1>2. At(s, k, p) <=> 1 <= k /\ k + l - 1 <= n /\ \A j \in 1..l : s[k + j - 1] = p[j]
    BY DEF At
  <1>3. ASSUME 1 <= k, k + l - 1 <= n
        PROVE  SubSeq(s, k, k + l - 1) = p <=> \A j \in 1..l : s[k + j - 1] = p[j]
    <2>. DEFINE e == k + l - 1
                r == SubSeq(s, k, e)
    <2>1. k \in 1..Len(s) + 1 /\ e \in k - 1..Len(s) /\ e - k + 1 = l
      <3>. HIDE DEF l
      <3>. QED  BY <1>1, <1>3
    <2>. HIDE DEF e
    <2>2. r \in Seq(S) /\ Len(r) = e - k + 1 /\ \A j \in 1..e - k + 1 : r[j] = s[k + j - 1]
      BY <2>1, Pieces
    <2>. HIDE DEF r
    <2>3. Len(r) = l /\ \A j \in 1..l : r[j] = s[k + j - 1]
      BY <2>1, <2>2
    <2>4. r = p <=> \A j \in 1..l : r[j] = p[j]
      BY <2>2, <2>3, SeqEqual
    <2>5. r = p <=> \A j \in 1..l : s[k + j - 1] = p[j]
      BY <2>3, <2>4
    <2>. QED  BY <2>5 DEF r, e
  <1>4. k \in i..n - l + 1 <=> i <= k /\ k + l - 1 <= n
    <2>. HIDE DEF n, l
    <2>. QED  BY <1>1
  <1>5. i <= k => 1 <= k
    BY <1>1
  <1>6. 1 <= k /\ k + l - 1 <= n => k \in 1..n /\ k + l \in k + 1..n + 1
    <2>. HIDE DEF n, l
    <2>. QED  BY <1>1
  <1>. HIDE DEF n, l
  <1>. QED  BY <1>2, <1>3, <1>4, <1>5, <1>6 DEF n, l

\* caplua.c 92-111: the first place of p from i on, or none.
LEMMA PlaceFound ==
    ASSUME NEW S, NEW s \in Seq(S), NEW p \in Seq(S), p # <<>>, NEW i \in 1..Len(s) + 1
    PROVE  LET k == LMemFind(s, i, p)
           IN \/ k = 0 /\ \A m \in i..Len(s) : ~At(s, m, p)
              \/ /\ k \in i..Len(s) /\ k + Len(p) \in k + 1..Len(s) + 1 /\ At(s, k, p)
                 /\ \A m \in i..k - 1 : ~At(s, m, p)
  <1>. DEFINE n == Len(s)
              k == LMemFind(s, i, p)
              places == {m \in i..n - Len(p) + 1 : SubSeq(s, m, m + Len(p) - 1) = p}
  <1>1. n \in Nat /\ i \in 1..n + 1 /\ Len(p) \in Nat
    OBVIOUS
  <1>2. \A m \in Int : m \in places <=> i <= m /\ At(s, m, p)
    BY AtIsSubSeq
  <1>3. k = IF places = {} THEN 0 ELSE CHOOSE m \in places : \A q \in places : m <= q
    BY DEF LMemFind
  <1>4. places \in SUBSET Nat
    <2>. HIDE DEF n
    <2>1. \A m \in i..n - Len(p) + 1 : m \in Nat
      BY <1>1
    <2>. QED  BY <2>1
  <1>. HIDE DEF k, places
  <1>5. CASE places = {}
    <2>1. \A m \in i..n : ~At(s, m, p)
      BY <1>1, <1>2, <1>5
    <2>. QED  BY <1>3, <1>5, <2>1 DEF k, n
  <1>6. CASE places # {}
    <2>1. k \in places /\ \A q \in places : k <= q
      <3>1. \E m \in places : \A q \in places : m <= q
        BY <1>4, <1>6, LeastNumber
      <3>. QED  BY <1>3, <1>6, <3>1
    <2>2. k \in Int /\ i <= k /\ At(s, k, p)
      BY <1>2, <1>4, <2>1
    <2>3. k \in i..n /\ k + Len(p) \in k + 1..n + 1
      BY <1>1, <2>2, AtIsSubSeq
    <2>4. \A m \in i..k - 1 : ~At(s, m, p)
      BY <1>1, <1>2, <2>1, <2>3
    <2>. QED  BY <2>2, <2>3, <2>4 DEF k, n
  <1>. QED  BY <1>5, <1>6

\* A place with none before it is found.
LEMMA FoundAt ==
    ASSUME NEW S, NEW s \in Seq(S), NEW p \in Seq(S), p # <<>>, NEW i \in 1..Len(s) + 1,
           NEW k \in i..Len(s), At(s, k, p), \A m \in i..k - 1 : ~At(s, m, p)
    PROVE  LMemFind(s, i, p) = k
  <1>. DEFINE r == LMemFind(s, i, p)
  <1>1. \/ r = 0 /\ \A m \in i..Len(s) : ~At(s, m, p)
        \/ /\ r \in i..Len(s) /\ At(s, r, p)
           /\ \A m \in i..r - 1 : ~At(s, m, p)
    BY PlaceFound
  <1>. HIDE DEF r
  <1>2. r \in i..Len(s) /\ At(s, r, p) /\ \A m \in i..r - 1 : ~At(s, m, p)
    BY <1>1
  <1>3. ~(r < k) /\ ~(k < r)
    <2>1. r < k => r \in i..k - 1
      BY <1>2
    <2>2. k < r => k \in i..r - 1
      BY <1>2
    <2>. QED  BY <1>2, <2>1, <2>2
  <1>. QED  BY <1>2, <1>3 DEF r

\* Where it is at no place from i on, none is found.
LEMMA FoundNowhere ==
    ASSUME NEW S, NEW s \in Seq(S), NEW p \in Seq(S), p # <<>>, NEW i \in 1..Len(s) + 1,
           \A m \in i..Len(s) : ~At(s, m, p)
    PROVE  LMemFind(s, i, p) = 0
  BY PlaceFound

-------------------------------------------------------------------------------
(* caplua.c: replace. *)

\* What the loop of str_replace does from place i on, when it does what F says
\* from later places on.
ReplaceFrom(s, p, by, F, i) ==
    LET k == LMemFind(s, i, p)
    IN IF k = 0 THEN [text |-> SubSeq(s, i, Len(s)), n |-> 0]
       ELSE LET rest == F[k + Len(p)]
            IN [text |-> SubSeq(s, i, k - 1) \o by \o rest.text, n |-> rest.n + 1]

\* F gives what is replaced from every place on.
Replaces(s, p, by, F) == F = [i \in 1..Len(s) + 1 |-> ReplaceFrom(s, p, by, F, i)]

\* What a replacement gives: a text, and how often.
Replaced(S) == [text : Seq(S), n : Nat]

\* A step has the type of a result.
LEMMA ReplaceStepType ==
    ASSUME NEW S, NEW s \in Seq(S), NEW p \in Seq(S), p # <<>>, NEW by \in Seq(S), NEW F,
           NEW i \in 1..Len(s) + 1, \A j \in i + 1..Len(s) + 1 : F[j] \in Replaced(S)
    PROVE  ReplaceFrom(s, p, by, F, i) \in Replaced(S)
  <1>. DEFINE k == LMemFind(s, i, p)
              n == Len(s)
  <1>1. n \in Nat /\ i \in 1..Len(s) + 1
    OBVIOUS
  <1>2. CASE k = 0 /\ ReplaceFrom(s, p, by, F, i) = [text |-> SubSeq(s, i, Len(s)), n |-> 0]
    <2>1. n \in i - 1..Len(s)
      BY <1>1
    <2>2. SubSeq(s, i, n) \in Seq(S)
      <3>. HIDE DEF n
      <3>. QED  BY <2>1, Pieces
    <2>. QED  BY <1>2, <2>2 DEF Replaced
  <1>3. CASE /\ k \in i..Len(s) /\ k + Len(p) \in k + 1..Len(s) + 1
             /\ ReplaceFrom(s, p, by, F, i)
                       = [text |-> SubSeq(s, i, k - 1) \o by \o F[k + Len(p)].text,
                          n |-> F[k + Len(p)].n + 1]
    <2>1. k - 1 \in i - 1..Len(s) /\ k + Len(p) \in i + 1..Len(s) + 1
      <3>. HIDE DEF k
      <3>. QED  BY <1>1, <1>3
    <2>2. SubSeq(s, i, k - 1) \in Seq(S)
      <3>. HIDE DEF k
      <3>. QED  BY <2>1, Pieces
    <2>3. F[k + Len(p)] \in Replaced(S)
      <3>. HIDE DEF k
      <3>. QED  BY <2>1
    <2>4. F[k + Len(p)].text \in Seq(S) /\ F[k + Len(p)].n + 1 \in Nat
      <3>. HIDE DEF k
      <3>. QED  BY <2>3 DEF Replaced
    <2>5. SubSeq(s, i, k - 1) \o by \o F[k + Len(p)].text \in Seq(S)
      <3>. HIDE DEF k
      <3>1. SubSeq(s, i, k - 1) \o by \in Seq(S)
        BY <2>2, Joined
      <3>. QED  BY <2>4, <3>1, Joined
    <2>. HIDE DEF k
    <2>. QED  BY <1>3, <2>4, <2>5 DEF Replaced
  <1>4. \/ k = 0 /\ ReplaceFrom(s, p, by, F, i) = [text |-> SubSeq(s, i, Len(s)), n |-> 0]
        \/ /\ k \in i..Len(s) /\ k + Len(p) \in k + 1..Len(s) + 1
           /\ ReplaceFrom(s, p, by, F, i)
                       = [text |-> SubSeq(s, i, k - 1) \o by \o F[k + Len(p)].text,
                          n |-> F[k + Len(p)].n + 1]
    <2>1. k = 0 \/ (k \in i..Len(s) /\ k + Len(p) \in k + 1..Len(s) + 1)
      BY PlaceFound
    <2>2. /\ k = 0 => ReplaceFrom(s, p, by, F, i) = [text |-> SubSeq(s, i, Len(s)), n |-> 0]
          /\ k # 0 => ReplaceFrom(s, p, by, F, i)
                       = [text |-> SubSeq(s, i, k - 1) \o by \o F[k + Len(p)].text,
                          n |-> F[k + Len(p)].n + 1]
      BY DEF ReplaceFrom
    <2>3. k \in i..Len(s) => k # 0
      OBVIOUS
    <2>. HIDE DEF k
    <2>. QED  BY <2>1, <2>2, <2>3
  <1>. HIDE DEF k
  <1>. QED  BY <1>2, <1>3, <1>4

\* Such a function exists, its values are results, and str_replace gives one.
LEMMA ReplacesExists ==
    ASSUME NEW S, NEW s \in Seq(S), NEW p \in Seq(S), p # <<>>, NEW by \in Seq(S)
    PROVE  \E F : Replaces(s, p, by, F)
  <1>. DEFINE n == Len(s)
              V == Replaced(S)
              G == [i \in 1..n + 1 |-> [f \in [1..n + 1 -> V] |-> ReplaceFrom(s, p, by, f, i)]]
  <1>1. n \in Nat
    OBVIOUS
  <1>2. CausalDown(G, n, V)
    <2>1. V # {}
      <3>1. [text |-> <<>>, n |-> 0] \in V
        BY EmptySeq DEF Replaced
      <3>. QED  BY <3>1
    <2>2. ASSUME NEW i \in 1..n + 1, NEW f \in [1..n + 1 -> V]
          PROVE  G[i][f] = ReplaceFrom(s, p, by, f, i)
      BY <2>2
    <2>3. ASSUME NEW i \in 1..n + 1, NEW f \in [1..n + 1 -> V]
          PROVE  ReplaceFrom(s, p, by, f, i) \in V
      <3>1. \A j \in i + 1..n + 1 : f[j] \in V
        BY <1>1, <2>3
      <3>. HIDE DEF V, G
      <3>. QED  BY <3>1, ReplaceStepType DEF V
    <2>4. ASSUME NEW i \in 1..n + 1, NEW f \in [1..n + 1 -> V], NEW g \in [1..n + 1 -> V],
                 \A j \in i + 1..n + 1 : f[j] = g[j]
          PROVE  ReplaceFrom(s, p, by, f, i) = ReplaceFrom(s, p, by, g, i)
      <3>. DEFINE k == LMemFind(s, i, p)
      <3>1. k = 0 \/ k + Len(p) \in i + 1..n + 1
        <4>1. k = 0 \/ (k \in i..n /\ k + Len(p) \in k + 1..n + 1)
          BY PlaceFound
        <4>. HIDE DEF k, n
        <4>. QED  BY <1>1, <2>4, <4>1
      <3>2. k = 0 \/ f[k + Len(p)] = g[k + Len(p)]
        <4>. HIDE DEF k, n, V
        <4>. QED  BY <2>4, <3>1
      <3>. QED  BY <3>2 DEF ReplaceFrom
    <2>. HIDE DEF G, V, n
    <2>5. \A i \in 1..n + 1 : \A f \in [1..n + 1 -> V] : G[i][f] \in V
      BY <2>2, <2>3
    <2>6. ASSUME NEW i \in 1..n + 1, NEW f \in [1..n + 1 -> V], NEW g \in [1..n + 1 -> V],
                 \A j \in i + 1..n + 1 : f[j] = g[j]
          PROVE  G[i][f] = G[i][g]
      <3>1. ReplaceFrom(s, p, by, f, i) = ReplaceFrom(s, p, by, g, i)
        BY <2>4, <2>6
      <3>. QED  BY <2>2, <3>1
    <2>. QED  BY <2>1, <2>5, <2>6 DEF CausalDown
  <1>3. PICK f \in [1..n + 1 -> V] : \A i \in 1..n + 1 : f[i] = G[i][f]
    <2>. HIDE DEF n, G, V
    <2>. QED  BY <1>1, <1>2, RecursionDown
  <1>4. \A i \in 1..n + 1 : f[i] = ReplaceFrom(s, p, by, f, i)
    BY <1>3
  <1>5. f = [i \in 1..n + 1 |-> ReplaceFrom(s, p, by, f, i)]
    <2>. HIDE DEF n, V
    <2>. QED  BY <1>3, <1>4
  <1>. QED  BY <1>5 DEF Replaces

\* Such a function has results as values, each made by a step.
LEMMA ReplacesType ==
    ASSUME NEW S, NEW s \in Seq(S), NEW p \in Seq(S), p # <<>>, NEW by \in Seq(S), NEW F,
           Replaces(s, p, by, F)
    PROVE  \A i \in 1..Len(s) + 1 : F[i] \in Replaced(S) /\ F[i] = ReplaceFrom(s, p, by, F, i)
  <1>. DEFINE T == {i \in 1..Len(s) + 1 : F[i] \in Replaced(S)}
              n == Len(s)
  <1>1. \A i \in 1..n + 1 : F[i] = ReplaceFrom(s, p, by, F, i)
    BY DEF Replaces
  <1>2. ASSUME NEW i \in 1..n + 1, \A j \in i + 1..n + 1 : j \in T
        PROVE  i \in T
    <2>1. \A j \in i + 1..n + 1 : F[j] \in Replaced(S)
      BY <1>2
    <2>2. ReplaceFrom(s, p, by, F, i) \in Replaced(S)
      BY <2>1, ReplaceStepType
    <2>. QED  BY <1>1, <2>2
  <1>3. \A i \in 1..n + 1 : i \in T
    <2>1. n \in Nat
      OBVIOUS
    <2>. HIDE DEF n, T
    <2>. QED  BY <1>2, <2>1, DownFrom
  <1>. QED  BY <1>1, <1>3

\* str_replace gives what one of them gives at the first place.
LEMMA ReplaceIsReplaces ==
    ASSUME NEW S, NEW s \in Seq(S), NEW p \in Seq(S), p # <<>>, NEW by \in Seq(S)
    PROVE  \E F : Replaces(s, p, by, F) /\ StrReplace(s, p, by) = F[1]
  <1>. DEFINE R == CHOOSE from : from = [i \in 1..Len(s) + 1 |-> ReplaceFrom(s, p, by, from, i)]
  <1>1. StrReplace(s, p, by) = R[1]
    BY DEF StrReplace, ReplaceFrom
  <1>2. Replaces(s, p, by, R)
    <2>1. \E F : F = [i \in 1..Len(s) + 1 |-> ReplaceFrom(s, p, by, F, i)]
      BY ReplacesExists DEF Replaces
    <2>2. R = [i \in 1..Len(s) + 1 |-> ReplaceFrom(s, p, by, R, i)]
      BY <2>1
    <2>. HIDE DEF R
    <2>. QED  BY <2>2 DEF Replaces
  <1>. QED  BY <1>1, <1>2

\* What is left from place i on has no needle, or begins with a piece before
\* the needle at k.
IsLast(s, p, F, i) ==
    /\ \A m \in i..Len(s) : ~At(s, m, p)
    /\ F[i].text = SubSeq(s, i, Len(s)) /\ F[i].n = 0

IsPiece(s, p, by, F, i, k) ==
    /\ k \in i..Len(s) /\ k + Len(p) \in k + 1..Len(s) + 1 /\ At(s, k, p)
    /\ \A m \in i..k - 1 : ~At(s, m, p)
    /\ F[i].text = SubSeq(s, i, k - 1) \o by \o F[k + Len(p)].text
    /\ F[i].n = F[k + Len(p)].n + 1

\* No other case: the one where no needle is found, and the one where it is.
LEMMA ReplaceCases ==
    ASSUME NEW S, NEW s \in Seq(S), NEW p \in Seq(S), p # <<>>, NEW by \in Seq(S), NEW F,
           Replaces(s, p, by, F), NEW i \in 1..Len(s) + 1
    PROVE  \/ LMemFind(s, i, p) = 0 /\ IsLast(s, p, F, i)
           \/ LMemFind(s, i, p) # 0 /\ IsPiece(s, p, by, F, i, LMemFind(s, i, p))
  <1>. DEFINE k == LMemFind(s, i, p)
  <1>1. \/ k = 0 /\ \A m \in i..Len(s) : ~At(s, m, p)
        \/ /\ k \in i..Len(s) /\ k + Len(p) \in k + 1..Len(s) + 1 /\ At(s, k, p)
           /\ \A m \in i..k - 1 : ~At(s, m, p)
    BY PlaceFound
  <1>2. F[i] = ReplaceFrom(s, p, by, F, i)
    BY DEF Replaces
  <1>3. /\ k = 0 => F[i].text = SubSeq(s, i, Len(s)) /\ F[i].n = 0
        /\ k # 0 => /\ F[i].text = SubSeq(s, i, k - 1) \o by \o F[k + Len(p)].text
                    /\ F[i].n = F[k + Len(p)].n + 1
    <2>1. CASE k = 0
      <3>1. F[i] = [text |-> SubSeq(s, i, Len(s)), n |-> 0]
        BY <1>2, <2>1 DEF ReplaceFrom
      <3>. HIDE DEF k
      <3>. QED  BY <2>1, <3>1
    <2>2. CASE k # 0
      <3>. DEFINE text == SubSeq(s, i, k - 1) \o by \o F[k + Len(p)].text
                  times == F[k + Len(p)].n + 1
      <3>1. F[i] = [text |-> text, n |-> times]
        BY <1>2, <2>2 DEF ReplaceFrom
      <3>2. F[i].text = text /\ F[i].n = times
        <4>. HIDE DEF text, times
        <4>. QED  BY <3>1
      <3>. HIDE DEF k
      <3>. QED  BY <2>2, <3>2, Zenon
    <2>. QED  BY <2>1, <2>2
  <1>4. k \in i..Len(s) => k # 0
    OBVIOUS
  <1>. HIDE DEF k
  <1>. QED  BY <1>1, <1>3, <1>4 DEF IsLast, IsPiece, k

\* If no character of t is one of s, t does not stand where a letter of s does.
LEMMA NotAtStranger ==
    ASSUME NEW t, NEW s, Strange(t, s), Len(t) \in Nat, Len(t) > 0,
           NEW w, NEW m \in Int, NEW j \in 1..Len(s), w[m] = s[j]
    PROVE  ~At(w, m, t)
  <1>1. 1 \in 1..Len(t) /\ m + 1 - 1 = m
    OBVIOUS
  <1>2. At(w, m, t) => w[m] = t[1]
    BY <1>1 DEF At
  <1>. QED  BY <1>1, <1>2 DEF Strange

\* The parts of the text from place i on: what precedes the needle, the
\* substitute, and the rest.
HasParts(S, s, by, i, k, t, rest) ==
    LET A == SubSeq(s, i, k - 1)
    IN /\ A \in Seq(S) /\ Len(A) = k - i /\ rest \in Seq(S) /\ t \in Seq(S)
       /\ t = A \o by \o rest /\ Len(t) = (k - i) + Len(by) + Len(rest)
       /\ \A j \in 1..k - i : t[j] = s[i + j - 1]
       /\ \A j \in 1..Len(by) : t[(k - i) + j] = by[j]
       /\ \A j \in 1..Len(rest) : t[(k - i) + Len(by) + j] = rest[j]

\* The text of a piece has these parts.
LEMMA PartsOfPiece ==
    ASSUME NEW S, NEW s \in Seq(S), NEW p \in Seq(S), p # <<>>, NEW by \in Seq(S), NEW F,
           Replaces(s, p, by, F), NEW i \in 1..Len(s) + 1, NEW k, IsPiece(s, p, by, F, i, k)
    PROVE  HasParts(S, s, by, i, k, F[i].text, F[k + Len(p)].text)
  <1>. DEFINE A == SubSeq(s, i, k - 1)
              t == F[i].text
              rest == F[k + Len(p)].text
              a == k - i
              B == A \o by
  <1>1. k \in i..Len(s) /\ k + Len(p) \in 1..Len(s) + 1 /\ t = A \o by \o rest
    <2>1. /\ k \in i..Len(s) /\ k + Len(p) \in k + 1..Len(s) + 1 /\ t = A \o by \o rest
      BY DEF IsPiece
    <2>2. k + Len(p) \in 1..Len(s) + 1
      BY <2>1
    <2>. QED  BY <2>1, <2>2
  <1>2. rest \in Seq(S) /\ t \in Seq(S)
    <2>1. F[i] \in Replaced(S) /\ F[k + Len(p)] \in Replaced(S)
      BY <1>1, ReplacesType
    <2>. QED  BY <2>1 DEF Replaced
  <1>3. /\ A \in Seq(S) /\ Len(A) = a /\ a \in Nat
        /\ \A j \in 1..a : A[j] = s[i + j - 1]
    <2>1. k - 1 \in i - 1..Len(s) /\ (k - 1) - i + 1 = a /\ a \in Nat
      BY <1>1
    <2>2. /\ A \in Seq(S) /\ Len(A) = (k - 1) - i + 1
          /\ \A j \in 1..(k - 1) - i + 1 : A[j] = s[i + j - 1]
      BY <2>1, Pieces
    <2>. HIDE DEF A, a
    <2>. QED  BY <2>1, <2>2
  <1>. HIDE DEF A, t, rest, a
  <1>4. /\ B \in Seq(S) /\ Len(B) = a + Len(by)
        /\ \A j \in 1..a : B[j] = A[j]
        /\ \A j \in 1..Len(by) : B[a + j] = by[j]
    <2>1. /\ B \in Seq(S) /\ Len(B) = Len(A) + Len(by)
          /\ \A j \in 1..Len(A) : B[j] = A[j]
          /\ \A j \in 1..Len(by) : B[Len(A) + j] = by[j]
      <3>1. A \in Seq(S)
        BY <1>3
      <3>. QED  BY <3>1, Joined
    <2>. HIDE DEF B
    <2>. QED  BY <1>3, <2>1
  <1>5. t = B \o rest
    BY <1>1
  <1>. HIDE DEF B
  <1>6. /\ Len(t) = Len(B) + Len(rest)
        /\ \A j \in 1..Len(B) : t[j] = B[j]
        /\ \A j \in 1..Len(rest) : t[Len(B) + j] = rest[j]
    <2>1. B \in Seq(S) /\ rest \in Seq(S)
      BY <1>2, <1>4
    <2>2. /\ Len(B \o rest) = Len(B) + Len(rest)
          /\ \A j \in 1..Len(B) : (B \o rest)[j] = B[j]
          /\ \A j \in 1..Len(rest) : (B \o rest)[Len(B) + j] = rest[j]
      BY <2>1, Joined
    <2>. QED  BY <1>5, <2>2
  <1>7. Len(by) \in Nat /\ Len(rest) \in Nat
    BY <1>2
  <1>8. /\ \A j \in 1..a : j \in 1..Len(B)
        /\ \A j \in 1..Len(by) : a + j \in 1..Len(B)
    BY <1>3, <1>4, <1>7
  <1>9. Len(t) = a + Len(by) + Len(rest)
    BY <1>4, <1>6, <1>7
  <1>10. \A j \in 1..a : t[j] = s[i + j - 1]
    BY <1>3, <1>4, <1>6, <1>8
  <1>11. \A j \in 1..Len(by) : t[a + j] = by[j]
    BY <1>4, <1>6, <1>8
  <1>12. \A j \in 1..Len(rest) : t[a + Len(by) + j] = rest[j]
    BY <1>4, <1>6
  <1>13. HasParts(S, s, by, i, k, t, rest)
    BY <1>1, <1>2, <1>3, <1>9, <1>10, <1>11, <1>12 DEF HasParts, A, a
  <1>. QED  BY <1>13 DEF t, rest

\* The needle is left nowhere.
LEMMA NeedleGone ==
    ASSUME NEW S, NEW s \in Seq(S), NEW p \in Seq(S), p # <<>>, NEW by \in Seq(S), by # <<>>,
           Strange(by, s), NEW F, Replaces(s, p, by, F)
    PROVE  \A i \in 1..Len(s) + 1 : \A m \in Int : ~At(F[i].text, m, p)
  <1>. DEFINE n == Len(s)
              T == {i \in 1..n + 1 : \A m \in Int : ~At(F[i].text, m, p)}
  <1>1. n \in Nat /\ Len(p) \in Nat /\ Len(p) > 0 /\ Len(by) \in Nat /\ Len(by) > 0
    BY EmptySeq
  <1>2. ASSUME NEW i \in 1..n + 1, \A j \in i + 1..n + 1 : j \in T, NEW m \in Int, At(F[i].text, m, p)
        PROVE  FALSE
    <2>. DEFINE t == F[i].text
                l == Len(p)
    <2>1. /\ 1 <= m /\ m + l - 1 <= Len(t)
          /\ \A j \in 1..l : t[m + j - 1] = p[j]
      BY <1>2 DEF At
    <2>2. CASE IsLast(s, p, F, i)
      <3>1. t = SubSeq(s, i, n) /\ \A q \in i..n : ~At(s, q, p)
        BY <2>2 DEF IsLast
      <3>2. Len(t) = n - i + 1 /\ \A j \in 1..n - i + 1 : t[j] = s[i + j - 1]
        <4>1. n \in i - 1..Len(s) /\ i \in 1..Len(s) + 1
          BY <1>1
        <4>2. /\ Len(SubSeq(s, i, n)) = n - i + 1
              /\ \A j \in 1..n - i + 1 : SubSeq(s, i, n)[j] = s[i + j - 1]
          <5>. HIDE DEF n
          <5>. QED  BY <4>1, Pieces
        <4>. QED  BY <3>1, <4>2
      <3>. HIDE DEF t, n, l
      <3>. DEFINE q == i + m - 1
      <3>3. /\ q \in i..n /\ q + l - 1 <= n /\ 1 <= q
            /\ \A j \in 1..l : m + j - 1 \in 1..n - i + 1 /\ i + (m + j - 1) - 1 = q + j - 1
        BY <1>1, <2>1, <3>2 DEF l
      <3>4. \A j \in 1..l : s[q + j - 1] = p[j]
        BY <2>1, <3>2, <3>3
      <3>. HIDE DEF q
      <3>5. At(s, q, p)
        BY <3>3, <3>4 DEF At, l, n
      <3>. QED  BY <3>1, <3>3, <3>5
    <2>3. ASSUME NEW k, IsPiece(s, p, by, F, i, k) PROVE FALSE
      <3>. DEFINE rest == F[k + Len(p)].text
                  a == k - i
                  b == Len(by)
      <3>1. /\ rest \in Seq(S) /\ Len(t) = a + b + Len(rest)
            /\ \A j \in 1..a : t[j] = s[i + j - 1]
            /\ \A j \in 1..b : t[a + j] = by[j]
            /\ \A j \in 1..Len(rest) : t[a + b + j] = rest[j]
        <4>1. HasParts(S, s, by, i, k, t, rest)
          BY <2>3, PartsOfPiece
        <4>. HIDE DEF t, rest
        <4>. QED  BY <4>1 DEF HasParts
      <3>2. /\ k \in i..n /\ k + l \in k + 1..n + 1 /\ At(s, k, p)
            /\ \A q \in i..k - 1 : ~At(s, q, p)
        BY <2>3 DEF IsPiece
      <3>3. Len(rest) \in Nat /\ a \in Nat /\ b \in Nat /\ b > 0 /\ l \in Nat /\ l > 0
        BY <1>1, <3>1, <3>2
      <3>4. \A j \in 1..l : s[k + j - 1] = p[j] /\ k + j - 1 \in 1..n
        <4>1. \A j \in 1..l : s[k + j - 1] = p[j]
          BY <3>2 DEF At
        <4>2. \A j \in 1..l : k + j - 1 \in 1..n
          <5>. HIDE DEF n, l
          <5>. QED  BY <1>1, <3>2, <3>3
        <4>. QED  BY <4>1, <4>2
      <3>5. k + l \in T
        <4>1. k + l \in i + 1..n + 1
          <5>. HIDE DEF n, l
          <5>. QED  BY <1>1, <3>2, <3>3
        <4>. QED  BY <1>2, <4>1
      <3>6. \A q \in Int : ~At(rest, q, p)
        BY <3>5
      <3>. HIDE DEF t, rest, a, b, l, n, T
      <3>7. CASE m + l - 1 <= a
        <4>. DEFINE q == i + m - 1
        <4>1. /\ q \in i..k - 1 /\ 1 <= q /\ q + l - 1 <= n
              /\ \A j \in 1..l : m + j - 1 \in 1..a /\ i + (m + j - 1) - 1 = q + j - 1
          BY <1>1, <2>1, <3>2, <3>3, <3>7 DEF a
        <4>2. \A j \in 1..l : s[q + j - 1] = p[j]
          BY <2>1, <3>1, <4>1
        <4>. HIDE DEF q
        <4>3. At(s, q, p)
          BY <4>1, <4>2 DEF At, l, n
        <4>. QED  BY <3>2, <4>1, <4>3
      <3>8. CASE m > a + b
        <4>. DEFINE q == m - (a + b)
        <4>1. /\ q \in Int /\ 1 <= q /\ q + l - 1 <= Len(rest)
              /\ \A j \in 1..l : q + j - 1 \in 1..Len(rest) /\ a + b + (q + j - 1) = m + j - 1
          <5>. DEFINE r == Len(rest)
          <5>1. r \in Nat /\ m + l - 1 <= a + b + r
            BY <2>1, <3>1, <3>3
          <5>. HIDE DEF r
          <5>2. q \in Int /\ 1 <= q /\ q + l - 1 <= r
            BY <3>3, <3>8, <5>1
          <5>3. \A j \in 1..l : q + j - 1 \in 1..r /\ a + b + (q + j - 1) = m + j - 1
            BY <3>3, <3>8, <5>1
          <5>. QED  BY <5>2, <5>3 DEF r
        <4>2. \A j \in 1..l : rest[q + j - 1] = p[j]
          BY <2>1, <3>1, <4>1
        <4>. HIDE DEF q
        <4>3. At(rest, q, p)
          BY <4>1, <4>2 DEF At, l
        <4>. QED  BY <3>6, <4>1, <4>3
      <3>9. CASE m + l - 1 > a /\ m <= a + b
        <4>1. \E q \in Int : q \in m..m + l - 1 /\ q \in a + 1..a + b
          <5>1. CASE m > a
            BY <3>3, <3>9, <5>1
          <5>2. CASE ~(m > a)
            <6>1. a + 1 \in m..m + l - 1 /\ a + 1 \in a + 1..a + b
              BY <3>3, <3>9, <5>2
            <6>. QED  BY <6>1
          <5>. QED  BY <5>1, <5>2
        <4>2. PICK q \in Int : q \in m..m + l - 1 /\ q \in a + 1..a + b
          BY <4>1
        <4>. DEFINE c == q - a
                    d == q - m + 1
        <4>3. c \in 1..b /\ a + c = q /\ d \in 1..l /\ m + d - 1 = q
          BY <3>3, <4>2
        <4>. HIDE DEF c, d
        <4>4. t[q] = by[c] /\ t[q] = p[d]
          BY <2>1, <3>1, <4>3
        <4>5. p[d] = s[k + d - 1] /\ k + d - 1 \in 1..n
          BY <3>4, <4>3
        <4>. QED  BY <4>3, <4>4, <4>5 DEF Strange, b, n
      <3>. QED  BY <3>3, <3>7, <3>8, <3>9
    <2>. QED  BY <2>2, <2>3, ReplaceCases
  <1>3. \A i \in 1..n + 1 : i \in T
    <2>1. \A i \in 1..n + 1 : (\A j \in i + 1..n + 1 : j \in T) => i \in T
      BY <1>2
    <2>. HIDE DEF n, T
    <2>. QED  BY <1>1, <2>1, DownFrom
  <1>. QED  BY <1>3

\* From place i on, the text that the first replacement leaves is turned back,
\* whatever precedes it.
UndoneFrom(S, s, p, by, F, i) ==
    \A x \in Seq(S) : \A G : Replaces(x \o F[i].text, by, p, G) =>
        G[Len(x) + 1] = [text |-> SubSeq(s, i, Len(s)), n |-> F[i].n]

\* What has no needle is left as it is, and has no substitute to turn back.
LEMMA UndoneLast ==
    ASSUME NEW S, NEW s \in Seq(S), NEW p \in Seq(S), p # <<>>, NEW by \in Seq(S), by # <<>>,
           Strange(by, s), NEW F, Replaces(s, p, by, F), NEW i \in 1..Len(s) + 1, IsLast(s, p, F, i)
    PROVE  UndoneFrom(S, s, p, by, F, i)
  <1>. DEFINE n == Len(s)
              t == SubSeq(s, i, n)
  <1>1. n \in Nat /\ i \in 1..n + 1 /\ Len(by) \in Nat /\ Len(by) > 0
    BY EmptySeq
  <1>2. t \in Seq(S) /\ Len(t) = n - i + 1 /\ \A j \in 1..n - i + 1 : t[j] = s[i + j - 1]
    <2>1. n \in i - 1..Len(s) /\ i \in 1..Len(s) + 1
      BY <1>1
    <2>. HIDE DEF n
    <2>. QED  BY <2>1, Pieces
  <1>3. F[i].text = t /\ F[i].n = 0
    BY DEF IsLast
  <1>. HIDE DEF t
  <1>. SUFFICES ASSUME NEW x \in Seq(S), NEW G, Replaces(x \o t, by, p, G)
                PROVE  G[Len(x) + 1] = [text |-> t, n |-> 0]
    BY <1>3 DEF UndoneFrom, t
  <1>. DEFINE w == x \o t
              a == Len(x)
  <1>4. /\ w \in Seq(S) /\ Len(w) = a + Len(t) /\ \A j \in 1..Len(t) : w[a + j] = t[j]
        /\ a \in Nat /\ SubSeq(w, a + 1, a + Len(t)) = t
    <2>1. t \in Seq(S)
      BY <1>2
    <2>2. w \in Seq(S) /\ Len(w) = a + Len(t) /\ \A j \in 1..Len(t) : w[a + j] = t[j]
      BY <2>1, Joined
    <2>3. SubSeq(w, a + 1, a + Len(t)) = t
      BY <2>1, Second
    <2>. QED  BY <2>2, <2>3
  <1>5. Replaces(w, by, p, G)
    OBVIOUS
  <1>. HIDE DEF w, a, n
  <1>6. a + 1 \in 1..Len(w) + 1
    BY <1>1, <1>2, <1>4
  <1>7. ASSUME NEW m \in a + 1..Len(w) PROVE ~At(w, m, by)
    <2>. DEFINE j == m - a
    <2>1. j \in 1..n - i + 1 /\ a + j = m /\ i + j - 1 \in 1..n /\ m \in Int
      BY <1>1, <1>2, <1>4
    <2>. HIDE DEF j
    <2>2. w[m] = s[i + j - 1] /\ i + j - 1 \in 1..Len(s)
      BY <1>2, <1>4, <2>1 DEF n
    <2>. QED  BY <1>1, <2>1, <2>2, NotAtStranger
  <1>8. LMemFind(w, a + 1, by) = 0
    BY <1>4, <1>6, <1>7, FoundNowhere
  <1>9. G[a + 1] = ReplaceFrom(w, by, p, G, a + 1)
    BY <1>5, <1>6 DEF Replaces
  <1>10. G[a + 1] = [text |-> SubSeq(w, a + 1, Len(w)), n |-> 0]
    BY <1>8, <1>9 DEF ReplaceFrom
  <1>. QED  BY <1>4, <1>10 DEF a

\* A text in four parts.
FourTogether(S, x, A, y, z, t, w) ==
    /\ t \in Seq(S) /\ w \in Seq(S)
    /\ Len(t) = Len(A) + Len(y) + Len(z) /\ Len(w) = Len(x) + Len(t)
    /\ \A j \in 1..Len(t) : w[Len(x) + j] = t[j]
    /\ SubSeq(w, Len(x) + 1, Len(x) + Len(A)) = A
    /\ (x \o (A \o y)) \o z = w
    /\ x \o (A \o y) \in Seq(S) /\ Len(x \o (A \o y)) = Len(x) + Len(A) + Len(y)

\* Three texts are put together in either order.
LEMMA ThreeJoined ==
    ASSUME NEW S, NEW x \in Seq(S), NEW y \in Seq(S), NEW z \in Seq(S)
    PROVE  (x \o y) \o z = x \o (y \o z)
  BY ConcatAssociative

\* What is said of four parts is so of any.
LEMMA FourParts ==
    ASSUME NEW S, NEW x \in Seq(S), NEW A \in Seq(S), NEW y \in Seq(S), NEW z \in Seq(S)
    PROVE  FourTogether(S, x, A, y, z, A \o y \o z, x \o (A \o y \o z))
  <1>. DEFINE B == A \o y
              t == B \o z
              w == x \o t
  <1>1. B \in Seq(S) /\ Len(B) = Len(A) + Len(y)
    BY Joined
  <1>. HIDE DEF B
  <1>2. t \in Seq(S) /\ Len(t) = Len(B) + Len(z)
    BY <1>1, Joined
  <1>3. x \o B \in Seq(S) /\ Len(x \o B) = Len(x) + Len(B) /\ (x \o B) \o z = x \o (B \o z)
    <2>1. B \in Seq(S)
      BY <1>1
    <2>2. x \o B \in Seq(S) /\ Len(x \o B) = Len(x) + Len(B)
      BY <2>1, Joined
    <2>3. (x \o B) \o z = x \o (B \o z)
      <3>1. \A b \in Seq(S) : (x \o b) \o z = x \o (b \o z)
        BY ThreeJoined, SMTT(30)
      <3>. QED  BY <2>1, <3>1, Zenon
    <2>. QED  BY <2>2, <2>3
  <1>4. y \o z \in Seq(S) /\ t = A \o (y \o z)
    <2>1. y \o z \in Seq(S)
      BY Joined
    <2>2. (A \o y) \o z = A \o (y \o z)
      BY ThreeJoined
    <2>. QED  BY <2>1, <2>2 DEF B
  <1>5. SubSeq(x \o (A \o (y \o z)), Len(x) + 1, Len(x) + Len(A)) = A
    BY <1>4, Middle
  <1>6. SubSeq(w, Len(x) + 1, Len(x) + Len(A)) = A /\ (x \o B) \o z = w
    BY <1>3, <1>4, <1>5
  <1>. HIDE DEF t
  <1>7. w \in Seq(S) /\ Len(w) = Len(x) + Len(t) /\ \A j \in 1..Len(t) : w[Len(x) + j] = t[j]
    <2>1. t \in Seq(S)
      BY <1>2
    <2>. QED  BY <2>1, Joined
  <1>. HIDE DEF w
  <1>8. Len(t) = Len(A) + Len(y) + Len(z) /\ Len(x \o B) = Len(x) + Len(A) + Len(y)
    BY <1>1, <1>2, <1>3
  <1>9. FourTogether(S, x, A, y, z, t, w)
    BY <1>2, <1>3, <1>6, <1>7, <1>8 DEF FourTogether, B
  <1>. QED  BY <1>9 DEF w, t, B

\* A piece is turned back when what follows it is.
LEMMA UndonePiece ==
    ASSUME NEW S, NEW s \in Seq(S), NEW p \in Seq(S), p # <<>>, NEW by \in Seq(S), by # <<>>,
           Strange(by, s), NEW F, Replaces(s, p, by, F), NEW i \in 1..Len(s) + 1,
           NEW k, IsPiece(s, p, by, F, i, k), UndoneFrom(S, s, p, by, F, k + Len(p))
    PROVE  UndoneFrom(S, s, p, by, F, i)
  <1>. DEFINE n == Len(s)
              l == Len(p)
              b == Len(by)
              c == k - i
              A == SubSeq(s, i, k - 1)
              t == F[i].text
              rest == F[k + l].text
              r == Len(rest)
  <1>1. /\ A \in Seq(S) /\ Len(A) = c /\ rest \in Seq(S) /\ t = A \o by \o rest
        /\ \A j \in 1..c : t[j] = s[i + j - 1]
        /\ \A j \in 1..b : t[c + j] = by[j]
    <2>1. /\ A \in Seq(S) /\ Len(A) = k - i /\ rest \in Seq(S) /\ t \in Seq(S)
          /\ t = A \o by \o rest /\ Len(t) = (k - i) + Len(by) + Len(rest)
          /\ \A j \in 1..k - i : t[j] = s[i + j - 1]
          /\ \A j \in 1..Len(by) : t[(k - i) + j] = by[j]
          /\ \A j \in 1..Len(rest) : t[(k - i) + Len(by) + j] = rest[j]
      <3>1. HasParts(S, s, by, i, k, t, rest)
        BY PartsOfPiece
      <3>. HIDE DEF t, rest
      <3>. QED  BY <3>1 DEF HasParts
    <2>. HIDE DEF A, t, rest
    <2>. QED  BY <2>1
  <1>2. /\ k \in i..n /\ k + l \in k + 1..n + 1 /\ At(s, k, p) /\ F[i].n = F[k + l].n + 1
    BY DEF IsPiece
  <1>3. /\ n \in Nat /\ l \in Nat /\ l > 0 /\ b \in Nat /\ b > 0 /\ c \in Nat /\ i \in 1..n + 1
        /\ r \in Nat
    <2>1. n \in Nat /\ l \in Nat /\ b \in Nat /\ i \in 1..n + 1
      OBVIOUS
    <2>2. l # 0 /\ b # 0
      BY EmptySeq
    <2>3. r \in Nat
      <3>1. rest \in Seq(S)
        BY <1>1
      <3>. HIDE DEF rest
      <3>. QED  BY <3>1
    <2>4. c \in Nat
      <3>1. k \in i..n
        BY <1>2
      <3>. HIDE DEF n
      <3>. QED  BY <2>1, <3>1
    <2>. HIDE DEF n, l, b, c, r
    <2>. QED  BY <2>1, <2>2, <2>3, <2>4
  <1>4. SubSeq(s, k, k + l - 1) = p
    <2>1. k \in Int /\ i <= k
      BY <1>2, <1>3
    <2>. QED  BY <1>2, <2>1, AtIsSubSeq
  <1>5. A \o p \o SubSeq(s, k + l, n) = SubSeq(s, i, n)
    <2>1. /\ i \in 1..Len(s) + 1 /\ k - 1 \in i - 1..Len(s) /\ k + l - 1 \in k - 1..Len(s)
          /\ (k - 1) + 1 = k /\ n \in k + l - 1..Len(s) /\ (k + l - 1) + 1 = k + l
          /\ k + l - 1 \in i - 1..Len(s)
      BY <1>2, <1>3
    <2>2. SubSeq(s, i, k - 1) \o SubSeq(s, (k - 1) + 1, k + l - 1) = SubSeq(s, i, k + l - 1)
      BY <2>1, ConcatAdjacentSubSeq
    <2>3. SubSeq(s, i, k + l - 1) \o SubSeq(s, (k + l - 1) + 1, n) = SubSeq(s, i, n)
      <3>. HIDE DEF n, l
      <3>. QED  BY <2>1, ConcatAdjacentSubSeq
    <2>. HIDE DEF n, l
    <2>. QED  BY <1>4, <2>1, <2>2, <2>3
  <1>. SUFFICES ASSUME NEW x \in Seq(S), NEW G, Replaces(x \o t, by, p, G)
                PROVE  G[Len(x) + 1] = [text |-> SubSeq(s, i, n), n |-> F[i].n]
    BY DEF UndoneFrom
  <1>. DEFINE w == x \o t
              a == Len(x)
              y == x \o (A \o by)
  <1>. HIDE DEF t, A, rest
  <1>6. /\ t \in Seq(S) /\ w \in Seq(S) /\ Len(t) = c + b + r /\ Len(w) = a + Len(t)
        /\ \A j \in 1..Len(t) : w[a + j] = t[j]
        /\ SubSeq(w, a + 1, a + c) = A
        /\ y \o rest = w /\ y \in Seq(S) /\ Len(y) = a + c + b
    <2>1. A \in Seq(S) /\ rest \in Seq(S) /\ t = A \o by \o rest /\ Len(A) = c
      BY <1>1
    <2>. HIDE DEF c, w, y
    <2>2. FourTogether(S, x, A, by, rest, A \o by \o rest, x \o (A \o by \o rest))
      BY <2>1, FourParts
    <2>3. FourTogether(S, x, A, by, rest, t, w)
      BY <2>1, <2>2 DEF w
    <2>. QED  BY <2>1, <2>3 DEF FourTogether, y
  <1>7. Replaces(w, by, p, G) /\ Replaces(y \o rest, by, p, G) /\ a \in Nat
    BY <1>6
  <1>. HIDE DEF w, a, y
  <1>8. G[Len(y) + 1] = [text |-> SubSeq(s, k + l, n), n |-> F[k + l].n]
    BY <1>6, <1>7 DEF UndoneFrom, rest
  <1>. DEFINE q == a + c + 1
              j1 == a + 1
  <1>. HIDE DEF n, l, b, r
  <1>9. /\ i + c = k /\ i \in Nat /\ i >= 1 /\ k <= n /\ k \in Nat
    BY <1>2, <1>3
  <1>. HIDE DEF c
  <1>10. Len(y) + 1 = q + b /\ q - 1 = a + c /\ q # 0
    <2>1. Len(y) = a + c + b
      BY <1>6
    <2>. HIDE DEF y
    <2>. QED  BY <1>3, <1>7, <2>1
  <1>11. /\ Len(w) = a + (c + b + r)
    BY <1>6
  <1>12. /\ j1 \in 1..Len(w) + 1 /\ q \in j1..Len(w) /\ 1 <= q /\ q + b - 1 <= Len(w)
    <2>1. a + (c + b + r) \in Nat /\ q <= a + (c + b + r) /\ q + b - 1 <= a + (c + b + r)
      BY <1>3, <1>7
    <2>2. j1 \in Nat /\ 1 <= j1 /\ j1 <= q /\ q \in Nat
      BY <1>3, <1>7
    <2>. HIDE DEF q, j1
    <2>. QED  BY <1>11, <2>1, <2>2
  <1>13. At(w, q, by)
    <2>1. ASSUME NEW j \in 1..b PROVE w[q + j - 1] = by[j]
      <3>1. /\ q + j - 1 = a + (c + j) /\ c + j \in 1..c + b + r
        BY <1>3, <1>7
      <3>2. t[c + j] = by[j]
        BY <1>1
      <3>. QED  BY <1>6, <3>1, <3>2
    <2>. HIDE DEF q
    <2>. QED  BY <1>12, <2>1 DEF At, b
  <1>14. ASSUME NEW m \in j1..q - 1 PROVE ~At(w, m, by)
    <2>. DEFINE j == m - a
    <2>1. j \in 1..c /\ a + j = m /\ i + j - 1 \in 1..n /\ m \in Int /\ j \in 1..c + b + r
      BY <1>3, <1>7, <1>9
    <2>. HIDE DEF j
    <2>2. w[m] = s[i + j - 1] /\ i + j - 1 \in 1..Len(s)
      BY <1>1, <1>6, <2>1 DEF n
    <2>3. Len(by) \in Nat /\ Len(by) > 0
      BY <1>3 DEF b
    <2>. QED  BY <2>1, <2>2, <2>3, NotAtStranger
  <1>. HIDE DEF q, j1
  <1>15. LMemFind(w, j1, by) = q
    BY <1>6, <1>12, <1>13, <1>14, FoundAt
  <1>16. G[j1] = ReplaceFrom(w, by, p, G, j1)
    BY <1>7, <1>12 DEF Replaces
  <1>17. G[j1] = [text |-> SubSeq(w, j1, q - 1) \o p \o G[q + b].text, n |-> G[q + b].n + 1]
    BY <1>10, <1>15, <1>16 DEF ReplaceFrom, b
  <1>18. G[q + b].text = SubSeq(s, k + l, n) /\ G[q + b].n = F[k + l].n
    BY <1>8, <1>10
  <1>19. SubSeq(w, j1, q - 1) = A
    BY <1>6, <1>10 DEF j1
  <1>20. G[j1] = [text |-> A \o p \o SubSeq(s, k + l, n), n |-> F[k + l].n + 1]
    BY <1>17, <1>18, <1>19, Zenon
  <1>. QED  BY <1>2, <1>5, <1>20, Zenon DEF a, j1

\* caplua.c 114-142: a substitute of other letters than the text has can be
\* replaced by the needle again, as often, and gives the text back; the needle
\* is left nowhere.
THEOREM ReplacementUndone ==
    ASSUME NEW S, NEW s \in Seq(S), NEW p \in Seq(S), p # <<>>, NEW by \in Seq(S), by # <<>>,
           Strange(by, s)
    PROVE  LET there == StrReplace(s, p, by)
               back == StrReplace(there.text, by, p)
           IN /\ back = [text |-> s, n |-> there.n]
              /\ LMemFind(there.text, 1, p) = 0
  <1>. DEFINE n == Len(s)
  <1>1. PICK F : Replaces(s, p, by, F) /\ StrReplace(s, p, by) = F[1]
    BY ReplaceIsReplaces
  <1>. DEFINE T == {i \in 1..n + 1 : UndoneFrom(S, s, p, by, F, i)}
              t == F[1].text
  <1>2. n \in Nat /\ 1 \in 1..n + 1 /\ n + 1 \in Nat
    OBVIOUS
  <1>3. \A i \in 1..n + 1 : i \in T
    <2>1. ASSUME NEW i \in 1..n + 1, \A j \in i + 1..n + 1 : j \in T PROVE i \in T
      <3>1. CASE IsLast(s, p, F, i)
        BY <1>1, <3>1, UndoneLast
      <3>2. ASSUME NEW k, IsPiece(s, p, by, F, i, k) PROVE i \in T
        <4>1. k \in i..n /\ k + Len(p) \in k + 1..n + 1
          BY <3>2 DEF IsPiece
        <4>2. k + Len(p) \in i + 1..n + 1
          <5>1. Len(p) \in Nat
            OBVIOUS
          <5>. HIDE DEF n
          <5>. QED  BY <1>2, <4>1, <5>1
        <4>3. UndoneFrom(S, s, p, by, F, k + Len(p))
          BY <2>1, <4>2
        <4>. QED  BY <1>1, <3>2, <4>3, UndonePiece
      <3>. QED  BY <1>1, <3>1, <3>2, ReplaceCases
    <2>. HIDE DEF n, T
    <2>. QED  BY <1>2, <2>1, DownFrom
  <1>4. t \in Seq(S)
    <2>1. F[1] \in Replaced(S)
      BY <1>1, <1>2, ReplacesType
    <2>. QED  BY <2>1 DEF Replaced
  <1>5. UndoneFrom(S, s, p, by, F, 1)
    BY <1>2, <1>3
  <1>. HIDE DEF t, T
  <1>6. PICK G : Replaces(t, by, p, G) /\ StrReplace(t, by, p) = G[1]
    BY <1>4, ReplaceIsReplaces
  <1>7. G[1] = [text |-> s, n |-> F[1].n]
    <2>1. <<>> \in Seq(S) /\ <<>> \o t = t /\ Len(<<>>) = 0
      BY <1>4, ConcatEmptySeq, EmptySeq
    <2>2. Replaces(<<>> \o t, by, p, G)
      BY <1>6, <2>1
    <2>3. G[Len(<<>>) + 1] = [text |-> SubSeq(s, 1, n), n |-> F[1].n]
      BY <1>5, <2>1, <2>2 DEF UndoneFrom, t
    <2>4. SubSeq(s, 1, n) = s
      BY SubSeqFull
    <2>. QED  BY <2>1, <2>3, <2>4
  <1>8. LMemFind(t, 1, p) = 0
    <2>1. \A m \in Int : ~At(t, m, p)
      BY <1>1, <1>2, NeedleGone DEF t
    <2>2. 1 \in 1..Len(t) + 1 /\ \A m \in 1..Len(t) : m \in Int
      BY <1>4
    <2>. QED  BY <1>4, <2>1, <2>2, FoundNowhere
  <1>. QED  BY <1>1, <1>6, <1>7, <1>8 DEF t

-------------------------------------------------------------------------------
(* lbase64.c: decoding one character. *)

\* What stands for six bits, and what a text can hold.
Digits == 0..63
Codes == -3..63

\* What Ldecode does from character i on, with the digits t of a tuple begun,
\* when it does what F says from the next one on.
DecodeFrom(s, F, i, t) ==
    CASE i > Len(s) -> [ok |-> TRUE, bytes |-> <<>>]
      [] i <= Len(s) /\ s[i] = Whitespace -> F[<<i + 1, t>>]
      [] i <= Len(s) /\ s[i] = Padding ->
            [ok |-> TRUE, bytes |-> IF t = <<>> THEN <<>> ELSE DecodeTuple(t, Len(t))]
      [] i <= Len(s) /\ s[i] = Foreign -> [ok |-> FALSE, bytes |-> <<>>]
      [] OTHER -> IF Len(t) < 3 THEN F[<<i + 1, Append(t, s[i])>>]
                  ELSE LET rest == F[<<i + 1, <<>>>>]
                       IN [rest EXCEPT !.bytes = DecodeTuple(Append(t, s[i]), 4) \o rest.bytes]

\* F gives what is read from every place on.
Reads(s, F) == \A i \in 1..Len(s) + 1, t \in Begun : F[<<i, t>>] = DecodeFrom(s, F, i, t)

\* The end of the text, and the four kinds of characters.
LEMMA ReadEnd ==
    ASSUME NEW s, NEW F, NEW i \in Int, NEW t, Len(s) \in Nat, i > Len(s)
    PROVE  DecodeFrom(s, F, i, t) = [ok |-> TRUE, bytes |-> <<>>]
  BY DEF DecodeFrom

\* Whitespace is skipped.
LEMMA ReadWhitespace ==
    ASSUME NEW s, NEW F, NEW i \in Int, NEW t, Len(s) \in Nat, i <= Len(s), s[i] = Whitespace
    PROVE  DecodeFrom(s, F, i, t) = F[<<i + 1, t>>]
  BY DEF DecodeFrom, Whitespace, Padding, Foreign

\* Padding ends the text.
LEMMA ReadPadding ==
    ASSUME NEW s, NEW F, NEW i \in Int, NEW t, Len(s) \in Nat, i <= Len(s), s[i] = Padding
    PROVE  DecodeFrom(s, F, i, t)
              = [ok |-> TRUE, bytes |-> IF t = <<>> THEN <<>> ELSE DecodeTuple(t, Len(t))]
  BY DEF DecodeFrom, Whitespace, Padding, Foreign

\* Any other character that is no digit is an error.
LEMMA ReadForeign ==
    ASSUME NEW s, NEW F, NEW i \in Int, NEW t, Len(s) \in Nat, i <= Len(s), s[i] = Foreign
    PROVE  DecodeFrom(s, F, i, t) = [ok |-> FALSE, bytes |-> <<>>]
  BY DEF DecodeFrom, Whitespace, Padding, Foreign

\* A digit is none of these.
LEMMA DigitIsNone ==
    ASSUME NEW c \in Digits
    PROVE  c # Whitespace /\ c # Padding /\ c # Foreign
  BY DEF Whitespace, Padding, Foreign, Digits

\* A digit is added to a tuple that is not complete with it.
LEMMA ReadDigit ==
    ASSUME NEW s, NEW F, NEW i \in Int, NEW t, Len(s) \in Nat, i <= Len(s), s[i] \in Digits, Len(t) < 3
    PROVE  DecodeFrom(s, F, i, t) = F[<<i + 1, Append(t, s[i])>>]
  <1>1. s[i] # Whitespace /\ s[i] # Padding /\ s[i] # Foreign /\ ~(i > Len(s))
    BY DigitIsNone
  <1>. QED  BY <1>1, Zenon DEF DecodeFrom

\* A tuple complete, and what is read after it.
Fourth(t, c, rest) == [rest EXCEPT !.bytes = DecodeTuple(Append(t, c), 4) \o rest.bytes]

\* The fourth digit completes it.
LEMMA ReadFourth ==
    ASSUME NEW s, NEW F, NEW i \in Int, NEW t, Len(s) \in Nat, i <= Len(s), s[i] \in Digits, ~(Len(t) < 3)
    PROVE  DecodeFrom(s, F, i, t) = Fourth(t, s[i], F[<<i + 1, <<>>>>])
  <1>1. s[i] # Whitespace /\ s[i] # Padding /\ s[i] # Foreign /\ ~(i > Len(s))
    BY DigitIsNone
  <1>. QED  BY <1>1, Zenon DEF DecodeFrom, Fourth

\* There are no other characters.
LEMMA CodeCases ==
    ASSUME NEW c \in Codes
    PROVE  c = Whitespace \/ c = Padding \/ c = Foreign \/ c \in Digits
  BY DEF Codes, Whitespace, Padding, Foreign, Digits

\* A digit more or a tuple complete; the first has none.
LEMMA BegunFacts ==
    /\ <<>> \in Begun /\ Len(<<>>) = 0
    /\ \A t \in Begun : t \in Seq(Digits) /\ Len(t) \in 0..3
    /\ \A t \in Begun, d \in Digits :
          /\ Append(t, d) \in Seq(Digits) /\ Len(Append(t, d)) = Len(t) + 1
          /\ Len(t) < 3 => Append(t, d) \in Begun
  <1>1. ASSUME NEW t \in Begun PROVE t \in Seq(Digits) /\ Len(t) \in 0..3
    <2>1. t \in Seq(Digits) /\ Len(t) < 4
      BY DEF Begun, Digits
    <2>2. Len(t) \in Nat
      BY <2>1
    <2>3. \A l \in Nat : l < 4 => l \in 0..3
      OBVIOUS
    <2>. QED  BY <2>1, <2>2, <2>3, Zenon
  <1>2. <<>> \in Begun /\ Len(<<>>) = 0
    BY EmptySeq DEF Begun
  <1>3. ASSUME NEW t \in Begun, NEW d \in Digits
        PROVE  /\ Append(t, d) \in Seq(Digits) /\ Len(Append(t, d)) = Len(t) + 1
               /\ Len(t) < 3 => Append(t, d) \in Begun
    <2>1. Append(t, d) \in Seq(Digits) /\ Len(Append(t, d)) = Len(t) + 1
      BY <1>1, <1>3, AppendProperties
    <2>2. Len(t) < 3 => Len(Append(t, d)) < 4
      BY <1>1, <2>1
    <2>. QED  BY <2>1, <2>2 DEF Begun, Digits
  <1>. QED  BY <1>1, <1>2, <1>3

\* What is decoded is a sequence of numbers.
LEMMA DecodeTupleType ==
    ASSUME NEW t \in Seq(Digits), NEW n \in 1..4
    PROVE  DecodeTuple(t, n) \in Seq(Int)
  <1>. DEFINE Digit(i) == IF i <= Len(t) THEN t[i] ELSE 0
              tuple == Digit(4) + 64 * (Digit(3) + 64 * (Digit(2) + 64 * Digit(1)))
              r == <<tuple \div 65536, (tuple \div 256) % 256, tuple % 256>>
  <1>1. ASSUME NEW i \in 1..4 PROVE Digit(i) \in Int
    <2>1. Len(t) \in Nat /\ Digits \subseteq Int
      BY DEF Digits
    <2>2. i <= Len(t) => i \in 1..Len(t)
      BY <2>1
    <2>3. i <= Len(t) => t[i] \in Digits
      BY <2>2, ElementOfSeq
    <2>4. i <= Len(t) => t[i] \in Int
      BY <2>1, <2>3
    <2>. QED  BY <2>4
  <1>2. tuple \in Int
    <2>. HIDE DEF Digit
    <2>. QED  BY <1>1
  <1>3. DecodeTuple(t, n) = SubSeq(r, 1, n - 1)
    BY DEF DecodeTuple
  <1>. HIDE DEF tuple
  <1>4. r \in Seq(Int) /\ Len(r) = 3
    BY <1>2
  <1>. HIDE DEF r
  <1>5. 1 \in 1..Len(r) + 1 /\ n - 1 \in 1 - 1..Len(r)
    BY <1>4
  <1>. QED  BY <1>3, <1>4, <1>5, Pieces

\* What decoding gives.
Decoded == [ok : BOOLEAN, bytes : Seq(Int)]

\* F gives such a result from the next place on.
NextTyped(s, F, i) == i <= Len(s) => \A u \in Begun : F[<<i + 1, u>>] \in Decoded

\* F and W give the same from the next places on.
NextSame(s, F, i, W, j) == i <= Len(s) => \A u \in Begun : F[<<i + 1, u>>] = W[<<j + 1, u>>]

\* A flag and some bytes are such a result.
LEMMA DecodedRecord ==
    ASSUME NEW b \in BOOLEAN, NEW y \in Seq(Int)
    PROVE  [ok |-> b, bytes |-> y] \in Decoded
  BY DEF Decoded

\* A step gives such a result when the next one does.
LEMMA DecodeStepType ==
    ASSUME NEW s \in Seq(Codes), NEW F, NEW i \in 1..Len(s) + 1, NEW t \in Begun, NextTyped(s, F, i)
    PROVE  DecodeFrom(s, F, i, t) \in Decoded
  <1>1. Len(s) \in Nat /\ i \in Int /\ t \in Seq(Digits) /\ Len(t) \in 0..3
    BY BegunFacts
  <1>2. <<>> \in Seq(Int) /\ <<>> \in Begun
    BY EmptySeq, BegunFacts
  <1>3. CASE i > Len(s)
    <2>1. DecodeFrom(s, F, i, t) = [ok |-> TRUE, bytes |-> <<>>]
      BY <1>1, <1>3, ReadEnd
    <2>. QED  BY <1>2, <2>1, DecodedRecord
  <1>4. CASE i <= Len(s)
    <2>1. s[i] \in Codes
      BY <1>1, <1>4
    <2>2. CASE s[i] = Whitespace
      <3>1. DecodeFrom(s, F, i, t) = F[<<i + 1, t>>]
        BY <1>1, <1>4, <2>2, ReadWhitespace
      <3>. QED  BY <1>4, <3>1 DEF NextTyped
    <2>3. CASE s[i] = Padding
      <3>1. t # <<>> => Len(t) \in 1..4
        BY <1>1, EmptySeq
      <3>2. (IF t = <<>> THEN <<>> ELSE DecodeTuple(t, Len(t))) \in Seq(Int)
        BY <1>1, <1>2, <3>1, DecodeTupleType
      <3>3. DecodeFrom(s, F, i, t)
               = [ok |-> TRUE, bytes |-> IF t = <<>> THEN <<>> ELSE DecodeTuple(t, Len(t))]
        BY <1>1, <1>4, <2>3, ReadPadding
      <3>. QED  BY <3>2, <3>3, DecodedRecord
    <2>4. CASE s[i] = Foreign
      <3>1. DecodeFrom(s, F, i, t) = [ok |-> FALSE, bytes |-> <<>>]
        BY <1>1, <1>4, <2>4, ReadForeign
      <3>. QED  BY <1>2, <3>1, DecodedRecord
    <2>5. CASE s[i] \in Digits
      <3>1. CASE Len(t) < 3
        <4>1. Append(t, s[i]) \in Begun
          BY <2>5, <3>1, BegunFacts
        <4>2. DecodeFrom(s, F, i, t) = F[<<i + 1, Append(t, s[i])>>]
          BY <1>1, <1>4, <2>5, <3>1, ReadDigit
        <4>. QED  BY <1>4, <4>1, <4>2 DEF NextTyped
      <3>2. CASE ~(Len(t) < 3)
        <4>. DEFINE rest == F[<<i + 1, <<>>>>]
                    d == DecodeTuple(Append(t, s[i]), 4)
        <4>1. rest \in Decoded
          BY <1>2, <1>4 DEF NextTyped
        <4>2. d \in Seq(Int)
          <5>1. Append(t, s[i]) \in Seq(Digits) /\ 4 \in 1..4
            BY <2>5, BegunFacts
          <5>. QED  BY <5>1, DecodeTupleType
        <4>3. DecodeFrom(s, F, i, t) = [rest EXCEPT !.bytes = d \o rest.bytes]
          <5>1. DecodeFrom(s, F, i, t) = Fourth(t, s[i], F[<<i + 1, <<>>>>])
            BY <1>1, <1>4, <2>5, <3>2, ReadFourth
          <5>. QED  BY <5>1, Zenon DEF Fourth
        <4>. HIDE DEF rest, d
        <4>4. rest.bytes \in Seq(Int)
          BY <4>1 DEF Decoded
        <4>5. d \o rest.bytes \in Seq(Int)
          BY <4>2, <4>4, Joined
        <4>. QED  BY <4>1, <4>3, <4>5 DEF Decoded
      <3>. QED  BY <3>1, <3>2
    <2>. QED  BY <2>1, <2>2, <2>3, <2>4, <2>5, CodeCases
  <1>. QED  BY <1>1, <1>3, <1>4

\* What is read at a place depends on the place and what is read from the next.
LEMMA DecodeStepSame ==
    ASSUME NEW s \in Seq(Codes), NEW w \in Seq(Codes), NEW F, NEW W, NEW t \in Begun,
           NEW i \in 1..Len(s) + 1, NEW j \in 1..Len(w) + 1,
           i > Len(s) <=> j > Len(w), i <= Len(s) => s[i] = w[j], NextSame(s, F, i, W, j)
    PROVE  DecodeFrom(s, F, i, t) = DecodeFrom(w, W, j, t)
  <1>1. Len(s) \in Nat /\ Len(w) \in Nat /\ i \in Int /\ j \in Int /\ <<>> \in Begun
    BY BegunFacts
  <1>2. CASE i > Len(s)
    BY <1>1, <1>2, ReadEnd
  <1>3. CASE i <= Len(s)
    <2>1. s[i] \in Codes /\ w[j] = s[i] /\ j <= Len(w)
      <3>1. i \in 1..Len(s)
        BY <1>1, <1>3
      <3>2. j <= Len(w)
        BY <1>1, <1>3
      <3>. QED  BY <1>3, <3>1, <3>2
    <2>2. CASE s[i] = Whitespace
      <3>1. DecodeFrom(s, F, i, t) = F[<<i + 1, t>>]
        BY <1>1, <1>3, <2>2, ReadWhitespace
      <3>2. w[j] = Whitespace
        BY <2>1, <2>2
      <3>3. DecodeFrom(w, W, j, t) = W[<<j + 1, t>>]
        BY <1>1, <2>1, <3>2, ReadWhitespace
      <3>. QED  BY <1>3, <3>1, <3>3 DEF NextSame
    <2>3. CASE s[i] = Padding
      <3>. DEFINE r == [ok |-> TRUE, bytes |-> IF t = <<>> THEN <<>> ELSE DecodeTuple(t, Len(t))]
      <3>1. DecodeFrom(s, F, i, t) = r
        BY <1>1, <1>3, <2>3, ReadPadding
      <3>2. w[j] = Padding
        BY <2>1, <2>3
      <3>3. DecodeFrom(w, W, j, t) = r
        BY <1>1, <2>1, <3>2, ReadPadding
      <3>. HIDE DEF r
      <3>. QED  BY <3>1, <3>3
    <2>4. CASE s[i] = Foreign
      <3>1. DecodeFrom(s, F, i, t) = [ok |-> FALSE, bytes |-> <<>>]
        BY <1>1, <1>3, <2>4, ReadForeign
      <3>2. w[j] = Foreign
        BY <2>1, <2>4
      <3>3. DecodeFrom(w, W, j, t) = [ok |-> FALSE, bytes |-> <<>>]
        BY <1>1, <2>1, <3>2, ReadForeign
      <3>. QED  BY <3>1, <3>3
    <2>5. CASE s[i] \in Digits
      <3>1. CASE Len(t) < 3
        <4>1. Append(t, s[i]) \in Begun
          BY <2>5, <3>1, BegunFacts
        <4>2. DecodeFrom(s, F, i, t) = F[<<i + 1, Append(t, s[i])>>]
          <5>1. i \in Int /\ Len(s) \in Nat
            BY <1>1
          <5>. QED  BY <1>3, <2>5, <3>1, <5>1, ReadDigit, Zenon
        <4>3. DecodeFrom(w, W, j, t) = W[<<j + 1, Append(t, w[j])>>]
          <5>1. w[j] \in Digits /\ j <= Len(w)
            BY <2>1, <2>5
          <5>2. j \in Int /\ Len(w) \in Nat
            BY <1>1
          <5>. QED  BY <3>1, <5>1, <5>2, ReadDigit, Zenon
        <4>4. F[<<i + 1, Append(t, s[i])>>] = W[<<j + 1, Append(t, s[i])>>]
          BY <1>3, <4>1 DEF NextSame
        <4>. QED  BY <2>1, <4>2, <4>3, <4>4
      <3>2. CASE ~(Len(t) < 3)
        <4>1. F[<<i + 1, <<>>>>] = W[<<j + 1, <<>>>>]
          BY <1>1, <1>3 DEF NextSame
        <4>2. DecodeFrom(s, F, i, t) = Fourth(t, s[i], F[<<i + 1, <<>>>>])
          BY <1>1, <1>3, <2>5, <3>2, ReadFourth
        <4>3. DecodeFrom(w, W, j, t) = Fourth(t, w[j], W[<<j + 1, <<>>>>])
          <5>1. w[j] \in Digits
            BY <2>1, <2>5
          <5>. QED  BY <1>1, <2>1, <5>1, <3>2, ReadFourth
        <4>. QED  BY <2>1, <4>1, <4>2, <4>3
      <3>. QED  BY <3>1, <3>2
    <2>. QED  BY <2>1, <2>2, <2>3, <2>4, <2>5, CodeCases
  <1>. QED  BY <1>1, <1>2, <1>3

\* There is a function that reads a text, and Ldecode gives what one reads.
LEMMA ReadsExists ==
    ASSUME NEW s \in Seq(Codes)
    PROVE  \E F : F = [at \in (1..Len(s) + 1) \X Begun |-> DecodeFrom(s, F, at[1], at[2])]
  <1>. DEFINE n == Len(s)
              V == [Begun -> Decoded]
              D == (1..n + 1) \X Begun
              Flat(f) == [at \in D |-> f[at[1]][at[2]]]
              G == [i \in 1..n + 1 |-> [f \in [1..n + 1 -> V] |->
                        [t \in Begun |-> DecodeFrom(s, Flat(f), i, t)]]]
  <1>1. n \in Nat
    OBVIOUS
  <1>. HIDE DEF n
  <1>2. \A f : \A i \in 1..n + 1, t \in Begun : Flat(f)[<<i, t>>] = f[i][t]
    OBVIOUS
  <1>3. \A i \in 1..n + 1 : \A f \in [1..n + 1 -> V] :
           G[i][f] = [t \in Begun |-> DecodeFrom(s, Flat(f), i, t)]
    <2>. HIDE DEF V, Flat
    <2>. QED  OBVIOUS
  <1>4. \A i \in 1..n + 1 : i <= n => i + 1 \in 1..n + 1
    BY <1>1
  <1>. HIDE DEF Flat, G
  <1>5. CausalDown(G, n, V)
    <2>1. V # {}
      <3>1. [ok |-> TRUE, bytes |-> <<>>] \in Decoded
        BY EmptySeq, DecodedRecord
      <3>2. [t \in Begun |-> [ok |-> TRUE, bytes |-> <<>>]] \in V
        BY <3>1
      <3>. QED  BY <3>2
    <2>2. ASSUME NEW i \in 1..n + 1, NEW f \in [1..n + 1 -> V] PROVE G[i][f] \in V
      <3>1. NextTyped(s, Flat(f), i)
        <4>. SUFFICES ASSUME i <= n, NEW u \in Begun PROVE Flat(f)[<<i + 1, u>>] \in Decoded
          BY DEF NextTyped, n
        <4>1. Flat(f)[<<i + 1, u>>] = f[i + 1][u] /\ i + 1 \in 1..n + 1
          BY <1>2, <1>4
        <4>2. f[i + 1] \in V
          <5>. HIDE DEF V
          <5>. QED  BY <4>1
        <4>. QED  BY <4>1, <4>2
      <3>2. \A t \in Begun : DecodeFrom(s, Flat(f), i, t) \in Decoded
        BY <2>2, <3>1, DecodeStepType DEF n
      <3>3. G[i][f] = [t \in Begun |-> DecodeFrom(s, Flat(f), i, t)]
        <4>. HIDE DEF V
        <4>. QED  BY <1>3
      <3>. QED  BY <3>2, <3>3
    <2>3. ASSUME NEW i \in 1..n + 1, NEW f \in [1..n + 1 -> V], NEW g \in [1..n + 1 -> V],
                 \A j \in i + 1..n + 1 : f[j] = g[j]
          PROVE  G[i][f] = G[i][g]
      <3>1. i <= n => f[i + 1] = g[i + 1]
        <4>1. i <= n => i + 1 \in i + 1..n + 1
          BY <1>1
        <4>2. \A j \in i + 1..n + 1 : f[j] = g[j]
          BY <2>3, Zenon
        <4>. QED  BY <4>1, <4>2, Zenon
      <3>2. NextSame(s, Flat(f), i, Flat(g), i)
        <4>. SUFFICES ASSUME i <= n, NEW u \in Begun
                      PROVE  Flat(f)[<<i + 1, u>>] = Flat(g)[<<i + 1, u>>]
          BY DEF NextSame, n
        <4>1. i + 1 \in 1..n + 1
          BY <1>4, Zenon
        <4>2. Flat(f)[<<i + 1, u>>] = f[i + 1][u] /\ Flat(g)[<<i + 1, u>>] = g[i + 1][u]
          BY <1>2, <4>1, Zenon
        <4>. QED  BY <3>1, <4>2, Zenon
      <3>3. \A t \in Begun : DecodeFrom(s, Flat(f), i, t) = DecodeFrom(s, Flat(g), i, t)
        <4>1. i \in 1..Len(s) + 1
          BY DEF n
        <4>. QED  BY <3>2, <4>1, DecodeStepSame
      <3>4. /\ G[i][f] = [t \in Begun |-> DecodeFrom(s, Flat(f), i, t)]
            /\ G[i][g] = [t \in Begun |-> DecodeFrom(s, Flat(g), i, t)]
        <4>. HIDE DEF V
        <4>. QED  BY <1>3
      <3>. QED  BY <3>3, <3>4
    <2>. HIDE DEF V
    <2>. QED  BY <2>1, <2>2, <2>3 DEF CausalDown
  <1>6. PICK f \in [1..n + 1 -> V] : \A i \in 1..n + 1 : f[i] = G[i][f]
    <2>. HIDE DEF V
    <2>. QED  BY <1>1, <1>5, RecursionDown
  <1>7. \A i \in 1..n + 1, t \in Begun : f[i][t] = DecodeFrom(s, Flat(f), i, t)
    <2>. SUFFICES ASSUME NEW i \in 1..n + 1, NEW t \in Begun
                  PROVE  f[i][t] = DecodeFrom(s, Flat(f), i, t)
      OBVIOUS
    <2>1. f[i] = [u \in Begun |-> DecodeFrom(s, Flat(f), i, u)]
      <3>. HIDE DEF V
      <3>. QED  BY <1>3, <1>6
    <2>. QED  BY <2>1
  <1>8. Flat(f) = [at \in D |-> DecodeFrom(s, Flat(f), at[1], at[2])]
    <2>1. \A at \in D : f[at[1]][at[2]] = DecodeFrom(s, Flat(f), at[1], at[2])
      BY <1>7
    <2>. QED  BY <2>1 DEF Flat
  <1>. QED  BY <1>8 DEF n

\* Ldecode reads from the first character on, with no tuple begun.
LEMMA DecodeReads ==
    ASSUME NEW s \in Seq(Codes)
    PROVE  \E F : Reads(s, F) /\ LDecode(s) = F[<<1, <<>>>>]
  <1>. DEFINE D == (1..Len(s) + 1) \X Begun
              R == CHOOSE from : from = [at \in D |-> DecodeFrom(s, from, at[1], at[2])]
  <1>1. LDecode(s) = R[<<1, <<>>>>]
    BY Zenon DEF LDecode, DecodeFrom
  <1>2. R = [at \in D |-> DecodeFrom(s, R, at[1], at[2])]
    <2>1. \E F : F = [at \in D |-> DecodeFrom(s, F, at[1], at[2])]
      BY ReadsExists
    <2>. HIDE DEF D
    <2>. QED  BY <2>1
  <1>. HIDE DEF R
  <1>3. Reads(s, R)
    <2>. SUFFICES ASSUME NEW i \in 1..Len(s) + 1, NEW t \in Begun
                  PROVE  R[<<i, t>>] = DecodeFrom(s, R, i, t)
      BY DEF Reads
    <2>1. <<i, t>> \in D /\ <<i, t>>[1] = i /\ <<i, t>>[2] = t
      OBVIOUS
    <2>. HIDE DEF D
    <2>. QED  BY <1>2, <2>1
  <1>. QED  BY <1>1, <1>3

\* A blank in a text changes nothing of what is read.
LEMMA WithBlank ==
    ASSUME NEW s \in Seq(Codes), NEW k \in 0..Len(s)
    PROVE  LET w == SubSeq(s, 1, k) \o <<Whitespace>> \o SubSeq(s, k + 1, Len(s))
           IN /\ w \in Seq(Codes) /\ Len(w) = Len(s) + 1 /\ w[k + 1] = Whitespace
              /\ \A j \in 1..k : w[j] = s[j]
              /\ \A j \in k + 1..Len(s) : w[j + 1] = s[j]
  <1>. DEFINE m == Len(s)
              x == SubSeq(s, 1, k)
              y == <<Whitespace>>
              z == SubSeq(s, k + 1, m)
              v == x \o y
              w == v \o z
  <1>1. m \in Nat /\ k \in 0..m
    OBVIOUS
  <1>2. x \in Seq(Codes) /\ Len(x) = k /\ \A j \in 1..k : x[j] = s[j]
    <2>1. 1 \in 1..Len(s) + 1 /\ k \in 1 - 1..Len(s) /\ k - 1 + 1 = k /\ \A j \in 1..k : 1 + j - 1 = j
      BY <1>1
    <2>2. /\ x \in Seq(Codes) /\ Len(x) = k - 1 + 1
          /\ \A j \in 1..k - 1 + 1 : x[j] = s[1 + j - 1]
      BY <2>1, Pieces
    <2>. HIDE DEF x
    <2>. QED  BY <2>1, <2>2
  <1>3. y \in Seq(Codes) /\ Len(y) = 1 /\ y[1] = Whitespace
    BY DEF Codes, Whitespace
  <1>4. z \in Seq(Codes) /\ Len(z) = m - k /\ \A j \in 1..m - k : z[j] = s[k + j]
    <2>1. /\ k + 1 \in 1..Len(s) + 1 /\ m \in (k + 1) - 1..Len(s) /\ m - (k + 1) + 1 = m - k
          /\ \A j \in 1..m - k : (k + 1) + j - 1 = k + j
      BY <1>1
    <2>2. /\ z \in Seq(Codes) /\ Len(z) = m - (k + 1) + 1
          /\ \A j \in 1..m - (k + 1) + 1 : z[j] = s[(k + 1) + j - 1]
      <3>. HIDE DEF m
      <3>. QED  BY <2>1, Pieces
    <2>. HIDE DEF z, m
    <2>. QED  BY <2>1, <2>2
  <1>. HIDE DEF m, x, y, z
  <1>5. /\ v \in Seq(Codes) /\ Len(v) = Len(x) + Len(y)
        /\ \A j \in 1..Len(x) : v[j] = x[j]
        /\ \A j \in 1..Len(y) : v[Len(x) + j] = y[j]
    <2>1. x \in Seq(Codes) /\ y \in Seq(Codes)
      BY <1>2, <1>3
    <2>. QED  BY <2>1, Joined
  <1>. HIDE DEF v
  <1>6. Len(v) = k + 1 /\ v[k + 1] = Whitespace /\ \A j \in 1..k : v[j] = s[j]
    <2>1. Len(v) = k + 1 /\ 1 \in 1..Len(y)
      BY <1>1, <1>2, <1>3, <1>5
    <2>. QED  BY <1>2, <1>3, <1>5, <2>1
  <1>7. /\ w \in Seq(Codes) /\ Len(w) = Len(v) + Len(z)
        /\ \A j \in 1..Len(v) : w[j] = v[j]
        /\ \A j \in 1..Len(z) : w[Len(v) + j] = z[j]
    <2>1. v \in Seq(Codes) /\ z \in Seq(Codes)
      BY <1>4, <1>5
    <2>. QED  BY <2>1, Joined
  <1>. HIDE DEF w
  <1>8. Len(w) = m + 1
    BY <1>1, <1>4, <1>6, <1>7
  <1>9. w[k + 1] = Whitespace /\ \A j \in 1..k : w[j] = s[j]
    <2>1. k + 1 \in 1..k + 1 /\ \A j \in 1..k : j \in 1..k + 1
      BY <1>1
    <2>. QED  BY <1>6, <1>7, <2>1
  <1>10. \A j \in k + 1..m : w[j + 1] = s[j]
    <2>1. \A j \in k + 1..m : /\ j - k \in 1..m - k /\ k + 1 + (j - k) = j + 1 /\ k + (j - k) = j
      BY <1>1
    <2>. QED  BY <1>4, <1>6, <1>7, <2>1
  <1>. QED  BY <1>7, <1>8, <1>9, <1>10 DEF w, v, x, y, z, m

\* A text with a blank put into it is read as it is without.
LEMMA SkipBlank ==
    ASSUME NEW s \in Seq(Codes), NEW k \in 0..Len(s), NEW w \in Seq(Codes), Len(w) = Len(s) + 1,
           w[k + 1] = Whitespace, \A j \in 1..k : w[j] = s[j],
           \A j \in k + 1..Len(s) : w[j + 1] = s[j],
           NEW F, Reads(w, F)
    PROVE  \E W : Reads(s, W) /\ W[<<1, <<>>>>] = F[<<1, <<>>>>]
  <1>. DEFINE m == Len(s)
              W == [at \in (1..m + 1) \X Begun |->
                       F[<<IF at[1] <= k + 1 THEN at[1] ELSE at[1] + 1, at[2]>>]]
  <1>1. m \in Nat /\ k \in 0..m /\ Len(w) = m + 1
    OBVIOUS
  <1>. HIDE DEF m
  <1>2. \A j \in 1..m + 1, t \in Begun : W[<<j, t>>] = F[<<IF j <= k + 1 THEN j ELSE j + 1, t>>]
    OBVIOUS
  <1>. HIDE DEF W
  <1>3. \A j \in 1..m + 2, t \in Begun : F[<<j, t>>] = DecodeFrom(w, F, j, t)
    <2>1. Len(w) + 1 = m + 2
      BY <1>1
    <2>. QED  BY <2>1 DEF Reads
  <1>4. \A t \in Begun : F[<<k + 1, t>>] = F[<<k + 2, t>>]
    <2>. TAKE t \in Begun
    <2>1. k + 1 \in 1..m + 2 /\ k + 1 <= Len(w) /\ k + 1 + 1 = k + 2 /\ k + 1 \in Int /\ Len(w) \in Nat
      BY <1>1
    <2>2. DecodeFrom(w, F, k + 1, t) = F[<<k + 1 + 1, t>>]
      BY <2>1, ReadWhitespace
    <2>. QED  BY <1>3, <2>1, <2>2
  <1>5. \A j \in 1..m + 1, t \in Begun : j <= k + 1 => W[<<j, t>>] = F[<<j, t>>]
    BY <1>2
  <1>6. \A j \in 1..m + 1, t \in Begun : j >= k + 1 => W[<<j, t>>] = F[<<j + 1, t>>]
    <2>. SUFFICES ASSUME NEW j \in 1..m + 1, NEW t \in Begun, j >= k + 1
                  PROVE  W[<<j, t>>] = F[<<j + 1, t>>]
      OBVIOUS
    <2>1. CASE j = k + 1
      <3>1. W[<<k + 1, t>>] = F[<<k + 1, t>>]
        BY <1>1, <1>5, <2>1
      <3>2. k + 1 + 1 = k + 2
        BY <1>1
      <3>. QED  BY <1>4, <2>1, <3>1, <3>2
    <2>2. CASE j # k + 1
      <3>1. ~(j <= k + 1)
        BY <1>1, <2>2
      <3>. QED  BY <1>2, <3>1
    <2>. QED  BY <2>1, <2>2
  <1>7. ASSUME NEW j \in 1..m + 1, NEW t \in Begun PROVE W[<<j, t>>] = DecodeFrom(s, W, j, t)
    <2>1. CASE j <= k
      <3>1. j \in 1..k /\ j + 1 \in 1..m + 1 /\ j + 1 <= k + 1 /\ j \in 1..m + 2 /\ ~(j > m) /\ ~(j > Len(w))
        BY <1>1, <2>1
      <3>2. NextSame(s, W, j, F, j)
        BY <1>5, <3>1 DEF NextSame
      <3>3. j \in 1..Len(s) + 1 /\ j \in 1..Len(w) + 1 /\ (j > Len(s) <=> j > Len(w)) /\ s[j] = w[j]
        <4>1. Len(w) + 1 = m + 2
          BY <1>1
        <4>. QED  BY <3>1, <4>1 DEF m
      <3>4. DecodeFrom(s, W, j, t) = DecodeFrom(w, F, j, t)
        BY <3>2, <3>3, DecodeStepSame
      <3>5. F[<<j, t>>] = DecodeFrom(w, F, j, t) /\ W[<<j, t>>] = F[<<j, t>>]
        <4>1. j <= k + 1
          BY <1>1, <2>1
        <4>. QED  BY <1>3, <1>5, <3>1, <4>1
      <3>. QED  BY <3>4, <3>5
    <2>2. CASE ~(j <= k)
      <3>1. /\ j >= k + 1 /\ j + 1 \in 1..m + 2 /\ (j > m <=> j + 1 > Len(w))
            /\ j <= m => j \in k + 1..m /\ j + 1 \in 1..m + 1 /\ j + 1 >= k + 1
        BY <1>1, <2>2
      <3>2. NextSame(s, W, j, F, j + 1)
        BY <1>6, <3>1 DEF NextSame, m
      <3>3. /\ j \in 1..Len(s) + 1 /\ j + 1 \in 1..Len(w) + 1 /\ (j > Len(s) <=> j + 1 > Len(w))
            /\ j <= Len(s) => s[j] = w[j + 1]
        <4>1. Len(w) + 1 = m + 2
          BY <1>1
        <4>. QED  BY <3>1, <4>1 DEF m
      <3>4. DecodeFrom(s, W, j, t) = DecodeFrom(w, F, j + 1, t)
        BY <3>2, <3>3, DecodeStepSame
      <3>5. F[<<j + 1, t>>] = DecodeFrom(w, F, j + 1, t) /\ W[<<j, t>>] = F[<<j + 1, t>>]
        BY <1>3, <1>6, <3>1
      <3>. QED  BY <3>4, <3>5
    <2>. QED  BY <2>1, <2>2
  <1>8. Reads(s, W)
    BY <1>7 DEF Reads, m
  <1>9. W[<<1, <<>>>>] = F[<<1, <<>>>>]
    <2>1. 1 \in 1..m + 1 /\ 1 <= k + 1 /\ <<>> \in Begun
      BY <1>1, BegunFacts
    <2>. QED  BY <1>5, <2>1
  <1>. QED  BY <1>8, <1>9

-------------------------------------------------------------------------------
(* lbase64.c: a tuple of three bytes is one of four digits. *)

\* The numbers of three bytes.
Triples == {x \in Nat : x < 16777216}

\* The number three bytes make, and its four digits.
Tuple(c1, c2, c3) == c3 + 256 * (c2 + 256 * c1)
DigitsOf(x) == <<x \div 262144, (x \div 4096) % 64, (x \div 64) % 64, x % 64>>

\* The number four digits make, and its three bytes.
Undigits(d1, d2, d3, d4) == d4 + 64 * (d3 + 64 * (d2 + 64 * d1))
BytesOf(x) == <<x \div 65536, (x \div 256) % 256, x % 256>>

\* The bytes are found again in the number they make.
LEMMA TupleOfBytes ==
    ASSUME NEW c1 \in Bytes, NEW c2 \in Bytes, NEW c3 \in Bytes
    PROVE  /\ Tuple(c1, c2, c3) \in Triples
           /\ BytesOf(Tuple(c1, c2, c3)) = <<c1, c2, c3>>
  <1>. DEFINE x == c3 + 256 * (c2 + 256 * c1)
  <1>1. /\ c1 \in Nat /\ c2 \in Nat /\ c3 \in Nat
        /\ c1 < 256 /\ c2 < 256 /\ c3 < 256
    BY DEF Bytes
  <1>2. x \in Nat /\ x < 16777216 /\ x \div 65536 = c1 /\ (x \div 256) % 256 = c2 /\ x % 256 = c3
    BY <1>1, SMT
  <1>. HIDE DEF x
  <1>3. BytesOf(x) = <<c1, c2, c3>>
    BY <1>2, SMT DEF BytesOf
  <1>4. x \in Triples /\ x = Tuple(c1, c2, c3)
    BY <1>2, SMT DEF Triples, Tuple, x
  <1>. QED  BY <1>3, <1>4, Zenon

\* The number is found again from its digits.
LEMMA TupleOfDigits ==
    ASSUME NEW x \in Triples
    PROVE  /\ \A i \in 1..4 : DigitsOf(x)[i] \in Digits
           /\ Undigits(DigitsOf(x)[1], DigitsOf(x)[2], DigitsOf(x)[3], DigitsOf(x)[4]) = x
  <1>. DEFINE d1 == x \div 262144
              d2 == (x \div 4096) % 64
              d3 == (x \div 64) % 64
              d4 == x % 64
  <1>1. d1 \in 0..63
    BY SMT DEF Triples
  <1>2. d2 \in 0..63 /\ d3 \in 0..63 /\ d4 \in 0..63
    BY SMT DEF Triples
  <1>3. d4 + 64 * (d3 + 64 * (d2 + 64 * d1)) = x
    BY SMT DEF Triples
  <1>4. DigitsOf(x) = <<d1, d2, d3, d4>>
    BY SMT DEF DigitsOf
  <1>. HIDE DEF d1, d2, d3, d4
  <1>5. /\ DigitsOf(x)[1] = d1 /\ DigitsOf(x)[2] = d2 /\ DigitsOf(x)[3] = d3 /\ DigitsOf(x)[4] = d4
    BY <1>4
  <1>6. \A i \in 1..4 : DigitsOf(x)[i] \in Digits
    <2>1. \A i \in 1..4 : i = 1 \/ i = 2 \/ i = 3 \/ i = 4
      OBVIOUS
    <2>2. d1 \in Digits /\ d2 \in Digits /\ d3 \in Digits /\ d4 \in Digits
      BY <1>1, <1>2, Zenon DEF Digits
    <2>. QED  BY <1>5, <2>1, <2>2, Zenon
  <1>7. Undigits(d1, d2, d3, d4) = x
    BY <1>3, Zenon DEF Undigits
  <1>. QED  BY <1>5, <1>6, <1>7, Zenon

\* What no byte adds to is zero.
LEMMA TupleOfTwo ==
    ASSUME NEW c1 \in Bytes, NEW c2 \in Bytes
    PROVE  DigitsOf(Tuple(c1, c2, 0))[4] = 0
  <1>. DEFINE x == 0 + 256 * (c2 + 256 * c1)
  <1>1. x % 64 = 0
    BY SMT DEF Bytes
  <1>. HIDE DEF x
  <1>2. DigitsOf(x)[4] = x % 64
    BY DEF DigitsOf
  <1>. QED  BY <1>1, <1>2, Zenon DEF Tuple, x

\* So are the last two digits of one byte.
LEMMA TupleOfOne ==
    ASSUME NEW c1 \in Bytes
    PROVE  DigitsOf(Tuple(c1, 0, 0))[3] = 0 /\ DigitsOf(Tuple(c1, 0, 0))[4] = 0
  <1>. DEFINE x == 0 + 256 * (0 + 256 * c1)
  <1>1. x % 64 = 0 /\ (x \div 64) % 64 = 0
    BY SMT DEF Bytes
  <1>. HIDE DEF x
  <1>2. DigitsOf(x)[3] = (x \div 64) % 64 /\ DigitsOf(x)[4] = x % 64
    BY DEF DigitsOf
  <1>. QED  BY <1>1, <1>2, Zenon DEF Tuple, x

\* Four characters of what a tuple of n bytes gives.
LEMMA EncodedTuple ==
    ASSUME NEW c1 \in Bytes, NEW c2 \in Bytes, NEW c3 \in Bytes, NEW n \in 1..3
    PROVE  LET e == EncodeTuple(c1, c2, c3, n)
               x == Tuple(c1, c2, c3)
           IN /\ e \in Seq(Codes) /\ Len(e) = 4
              /\ \A i \in 1..4 : i <= n + 1 => e[i] = DigitsOf(x)[i] /\ e[i] \in Digits
              /\ \A i \in 1..4 : i > n + 1 => e[i] = Padding
  <1>. DEFINE e == EncodeTuple(c1, c2, c3, n)
              x == Tuple(c1, c2, c3)
  <1>1. e = [i \in 1..4 |-> IF i > n + 1 THEN Padding ELSE DigitsOf(x)[i]]
    BY SMT DEF EncodeTuple, DigitsOf, Tuple
  <1>2. x \in Triples
    BY TupleOfBytes
  <1>. HIDE DEF e, x
  <1>3. \A i \in 1..4 : DigitsOf(x)[i] \in Digits
    BY <1>2, TupleOfDigits
  <1>4. \A i \in 1..4 : i > n + 1 => e[i] = Padding
    BY <1>1, Zenon
  <1>5. \A i \in 1..4 : i <= n + 1 => ~(i > n + 1)
    OBVIOUS
  <1>6. \A i \in 1..4 : i <= n + 1 => e[i] = DigitsOf(x)[i] /\ e[i] \in Digits
    BY <1>1, <1>3, <1>5, Zenon
  <1>7. \A i \in 1..4 : e[i] \in Codes
    <2>1. Padding \in Codes /\ Digits \subseteq Codes
      BY DEF Padding, Codes, Digits
    <2>2. \A i \in 1..4 : i <= n + 1 \/ i > n + 1
      OBVIOUS
    <2>. QED  BY <1>4, <1>6, <2>1, <2>2, Zenon
  <1>8. e \in [1..4 -> Codes]
    BY <1>1, <1>7, Zenon
  <1>9. e \in Seq(Codes) /\ Len(e) = 4
    <2>1. 4 \in Nat /\ e \in Seq(Codes)
      BY <1>8, SeqDef
    <2>2. Len(e) \in Nat /\ DOMAIN e = 1..Len(e) /\ DOMAIN e = 1..4
      BY <1>8, <2>1, LenProperties
    <2>3. \A l \in Nat : 1..l = 1..4 => l = 4
      <3>. TAKE l \in Nat
      <3>1. l < 4 => 4 \in 1..4 /\ 4 \notin 1..l
        OBVIOUS
      <3>2. l > 4 => l \in 1..l /\ l \notin 1..4
        OBVIOUS
      <3>. QED  BY <3>1, <3>2
    <2>. QED  BY <2>1, <2>2, <2>3
  <1>. QED  BY <1>4, <1>6, <1>9 DEF e, x

\* The first bytes of three.
LEMMA FirstBytes ==
    ASSUME NEW c1 \in Int, NEW c2 \in Int, NEW c3 \in Int
    PROVE  /\ SubSeq(<<c1, c2, c3>>, 1, 1) = <<c1>>
           /\ SubSeq(<<c1, c2, c3>>, 1, 2) = <<c1, c2>>
           /\ SubSeq(<<c1, c2, c3>>, 1, 3) = <<c1, c2, c3>>
  <1>. DEFINE s == <<c1, c2, c3>>
  <1>1. s \in Seq(Int) /\ Len(s) = 3 /\ s[1] = c1 /\ s[2] = c2 /\ s[3] = c3
    OBVIOUS
  <1>. HIDE DEF s
  <1>2. ASSUME NEW e \in 1..3
        PROVE  /\ SubSeq(s, 1, e) \in Seq(Int) /\ Len(SubSeq(s, 1, e)) = e
               /\ \A i \in 1..e : SubSeq(s, 1, e)[i] = s[i]
    <2>1. 1 \in 1..Len(s) + 1 /\ e \in 1 - 1..Len(s) /\ e - 1 + 1 = e /\ \A i \in 1..e : 1 + i - 1 = i
      BY <1>1
    <2>2. /\ SubSeq(s, 1, e) \in Seq(Int) /\ Len(SubSeq(s, 1, e)) = e - 1 + 1
          /\ \A i \in 1..e - 1 + 1 : SubSeq(s, 1, e)[i] = s[1 + i - 1]
      BY <1>1, <2>1, Pieces
    <2>. QED  BY <2>1, <2>2
  <1>3. SubSeq(s, 1, 1) = <<c1>>
    <2>1. <<c1>> \in Seq(Int) /\ Len(<<c1>>) = 1 /\ \A i \in 1..1 : <<c1>>[i] = s[i]
      BY <1>1
    <2>2. SubSeq(s, 1, 1) \in Seq(Int) /\ Len(SubSeq(s, 1, 1)) = 1 /\ \A i \in 1..1 : SubSeq(s, 1, 1)[i] = s[i]
      BY <1>2
    <2>. QED  BY <2>1, <2>2, SeqEqual
  <1>4. SubSeq(s, 1, 2) = <<c1, c2>>
    <2>1. <<c1, c2>> \in Seq(Int) /\ Len(<<c1, c2>>) = 2 /\ \A i \in 1..2 : <<c1, c2>>[i] = s[i]
      BY <1>1
    <2>2. SubSeq(s, 1, 2) \in Seq(Int) /\ Len(SubSeq(s, 1, 2)) = 2 /\ \A i \in 1..2 : SubSeq(s, 1, 2)[i] = s[i]
      BY <1>2
    <2>. QED  BY <2>1, <2>2, SeqEqual
  <1>5. SubSeq(s, 1, 3) = s
    <2>2. SubSeq(s, 1, 3) \in Seq(Int) /\ Len(SubSeq(s, 1, 3)) = 3 /\ \A i \in 1..3 : SubSeq(s, 1, 3)[i] = s[i]
      BY <1>2
    <2>. QED  BY <1>1, <2>2, SeqEqual
  <1>. QED  BY <1>3, <1>4, <1>5 DEF s

\* What a tuple of n digits, the first of those of x, is decoded to.
LEMMA DecodedDigits ==
    ASSUME NEW x \in Triples, NEW t, NEW n \in 2..4, Len(t) = n,
           \A i \in 1..n : t[i] = DigitsOf(x)[i], \A i \in 1..4 : i > n => DigitsOf(x)[i] = 0
    PROVE  DecodeTuple(t, n) = SubSeq(BytesOf(x), 1, n - 1)
  <1>. DEFINE Digit(i) == IF i <= Len(t) THEN t[i] ELSE 0
              tuple == Digit(4) + 64 * (Digit(3) + 64 * (Digit(2) + 64 * Digit(1)))
  <1>1. \A i \in 1..4 : Digit(i) = DigitsOf(x)[i]
    <2>1. \A i \in 1..4 : i <= n => i \in 1..n
      OBVIOUS
    <2>2. \A i \in 1..4 : ~(i <= n) => i > n
      OBVIOUS
    <2>. QED  BY <2>1, <2>2, Zenon
  <1>2. DecodeTuple(t, n) = SubSeq(BytesOf(tuple), 1, n - 1)
    BY SMT DEF DecodeTuple, BytesOf
  <1>3. tuple = Undigits(Digit(1), Digit(2), Digit(3), Digit(4))
    BY Zenon DEF Undigits
  <1>. HIDE DEF tuple, Digit
  <1>4. 1 \in 1..4 /\ 2 \in 1..4 /\ 3 \in 1..4 /\ 4 \in 1..4
    OBVIOUS
  <1>5. tuple = Undigits(DigitsOf(x)[1], DigitsOf(x)[2], DigitsOf(x)[3], DigitsOf(x)[4])
    BY <1>1, <1>3, <1>4, Zenon
  <1>6. tuple = x
    BY <1>5, TupleOfDigits
  <1>. QED  BY <1>2, <1>6, Zenon

\* With digit i, the tuple t begun is u.
Longer(w, W, i, t, u) ==
    /\ Len(u) = Len(t) + 1 /\ u[Len(t) + 1] = w[i]
    /\ \A j \in 1..Len(t) : u[j] = t[j]
    /\ W[<<i, t>>] = W[<<i + 1, u>>]

\* A digit makes a longer tuple of one that is not complete with it.
LEMMA ReadOne ==
    ASSUME NEW w \in Seq(Codes), NEW W, Reads(w, W), NEW i \in 1..Len(w), NEW t \in Begun, Len(t) < 3,
           w[i] \in Digits
    PROVE  \E u \in Begun : Longer(w, W, i, t, u)
  <1>. DEFINE u == Append(t, w[i])
  <1>1. t \in Seq(Digits) /\ u \in Begun /\ Len(u) = Len(t) + 1
    BY BegunFacts
  <1>2. \A j \in 1..Len(t) : u[j] = t[j]
    BY <1>1, AppendProperties
  <1>3. u[Len(t) + 1] = w[i]
    BY <1>1, AppendProperties
  <1>4. i \in Int /\ i <= Len(w) /\ Len(w) \in Nat /\ i \in 1..Len(w) + 1
    OBVIOUS
  <1>5. DecodeFrom(w, W, i, t) = W[<<i + 1, u>>]
    BY <1>4, ReadDigit
  <1>6. W[<<i, t>>] = DecodeFrom(w, W, i, t)
    BY <1>4 DEF Reads
  <1>7. Longer(w, W, i, t, u)
    <2>. HIDE DEF u
    <2>. QED  BY <1>1, <1>2, <1>3, <1>5, <1>6 DEF Longer
  <1>. QED  BY <1>1, <1>7

\* The first n digits after place p are t.
Read(w, W, p, n, t) ==
    /\ Len(t) = n
    /\ \A j \in 1..n : t[j] = w[p + j]
    /\ W[<<p + 1, <<>>>>] = W[<<p + n + 1, t>>]

\* No digits are read at first.
LEMMA ReadNone ==
    ASSUME NEW w, NEW W, NEW p \in Nat
    PROVE  <<>> \in Begun /\ Read(w, W, p, 0, <<>>)
  <1>1. <<>> \in Begun /\ Len(<<>>) = 0 /\ p + 0 + 1 = p + 1 /\ \A j \in 1..0 : FALSE
    BY BegunFacts
  <1>. QED  BY <1>1, Zenon DEF Read

\* One digit more is read.
LEMMA ReadMore ==
    ASSUME NEW w \in Seq(Codes), NEW W, Reads(w, W), NEW p \in Nat, NEW n \in 0..2, p + n + 1 <= Len(w),
           w[p + (n + 1)] \in Digits, NEW t \in Begun, Read(w, W, p, n, t)
    PROVE  \E u \in Begun : Read(w, W, p, n + 1, u)
  <1>1. /\ p + n + 1 \in 1..Len(w) /\ n < 3 /\ p + n + 1 = p + (n + 1)
        /\ \A j \in 1..n + 1 : j \in 1..n \/ j = n + 1
    OBVIOUS
  <1>2. Len(t) = n
    BY Zenon DEF Read
  <1>3. w[p + n + 1] \in Digits /\ Len(t) < 3
    BY <1>1, <1>2
  <1>4. PICK u \in Begun : Longer(w, W, p + n + 1, t, u)
    BY <1>1, <1>3, ReadOne
  <1>5. /\ Len(u) = n + 1 /\ u[n + 1] = w[p + n + 1] /\ \A j \in 1..n : u[j] = t[j]
        /\ W[<<p + n + 1, t>>] = W[<<p + n + 1 + 1, u>>]
    BY <1>2, <1>4, Zenon DEF Longer
  <1>6. \A j \in 1..n : t[j] = w[p + j]
    BY Zenon DEF Read
  <1>7. \A j \in 1..n + 1 : u[j] = w[p + j]
    BY <1>1, <1>5, <1>6, Zenon
  <1>8. W[<<p + 1, <<>>>>] = W[<<p + n + 1, t>>]
    BY Zenon DEF Read
  <1>9. W[<<p + 1, <<>>>>] = W[<<p + (n + 1) + 1, u>>]
    BY <1>1, <1>5, <1>8, Zenon
  <1>10. Read(w, W, p, n + 1, u)
    BY <1>5, <1>7, <1>9, Zenon DEF Read
  <1>. QED  BY <1>10

\* The first two digits of a tuple, and the first three.
LEMMA ReadTwo ==
    ASSUME NEW w \in Seq(Codes), NEW W, Reads(w, W), NEW p \in Nat, p + 2 <= Len(w),
           w[p + 1] \in Digits, w[p + 2] \in Digits
    PROVE  \E t \in Begun : Read(w, W, p, 2, t)
  <1>1. /\ p + 0 + 1 <= Len(w) /\ p + 1 + 1 <= Len(w) /\ 0 \in 0..2 /\ 1 \in 0..2
        /\ 0 + 1 = 1 /\ 1 + 1 = 2
    OBVIOUS
  <1>2. <<>> \in Begun /\ Read(w, W, p, 0, <<>>)
    BY ReadNone
  <1>3. \E u \in Begun : Read(w, W, p, 0 + 1, u)
    BY <1>1, <1>2, ReadMore
  <1>4. PICK u \in Begun : Read(w, W, p, 1, u)
    BY <1>1, <1>3, Zenon
  <1>5. \E t \in Begun : Read(w, W, p, 1 + 1, t)
    BY <1>1, <1>4, ReadMore
  <1>. QED  BY <1>1, <1>5, Zenon

\* Three digits are read one after the other.
LEMMA ReadThree ==
    ASSUME NEW w \in Seq(Codes), NEW W, Reads(w, W), NEW p \in Nat, p + 3 <= Len(w),
           w[p + 1] \in Digits, w[p + 2] \in Digits, w[p + 3] \in Digits
    PROVE  \E t \in Begun : Read(w, W, p, 3, t)
  <1>1. p + 2 <= Len(w) /\ p + 2 + 1 <= Len(w) /\ 2 \in 0..2 /\ 2 + 1 = 3
    OBVIOUS
  <1>2. PICK u \in Begun : Read(w, W, p, 2, u)
    BY <1>1, ReadTwo
  <1>3. \E t \in Begun : Read(w, W, p, 2 + 1, t)
    BY <1>1, <1>2, ReadMore
  <1>. QED  BY <1>1, <1>3, Zenon

\* The first n digits of x, and a result.
TextShows(t, x, n) == Len(t) = n /\ \A j \in 1..n : t[j] = DigitsOf(x)[j]
Success(y) == [ok |-> TRUE, bytes |-> y]

\* The digits after them are zero.
Rest(x, n) == \A j \in 1..4 : j > n => DigitsOf(x)[j] = 0

\* Padding after n digits of x: their bytes, and nothing after them.
LEMMA ReadPadded ==
    ASSUME NEW w \in Seq(Codes), NEW W, Reads(w, W), NEW i \in 1..Len(w), w[i] = Padding,
           NEW t \in Begun, NEW n \in 2..3, NEW x \in Triples, TextShows(t, x, n),
           Rest(x, n)
    PROVE  W[<<i, t>>] = Success(SubSeq(BytesOf(x), 1, n - 1))
  <1>0. Len(t) = n /\ \A j \in 1..n : t[j] = DigitsOf(x)[j]
    BY DEF TextShows
  <1>1. i \in Int /\ i <= Len(w) /\ Len(w) \in Nat /\ i \in 1..Len(w) + 1
    OBVIOUS
  <1>2. DecodeFrom(w, W, i, t)
              = [ok |-> TRUE, bytes |-> IF t = <<>> THEN <<>> ELSE DecodeTuple(t, Len(t))]
    BY <1>1, ReadPadding
  <1>3. t # <<>>
    <2>1. Len(<<>>) = 0 /\ n # 0
      BY BegunFacts
    <2>. QED  BY <1>0, <2>1
  <1>4. W[<<i, t>>] = DecodeFrom(w, W, i, t)
    BY <1>1 DEF Reads
  <1>5. DecodeTuple(t, n) = SubSeq(BytesOf(x), 1, n - 1)
    <2>1. n \in 2..4
      OBVIOUS
    <2>2. \A j \in 1..4 : j > n => DigitsOf(x)[j] = 0
      BY DEF Rest
    <2>. QED  BY <1>0, <2>1, <2>2, DecodedDigits
  <1>. QED  BY <1>0, <1>2, <1>3, <1>4, <1>5, Zenon DEF Success

\* More bytes before a result.
LEMMA GoodExcept ==
    ASSUME NEW y \in Seq(Int), NEW z \in Seq(Int)
    PROVE  [Success(y) EXCEPT !.bytes = z \o Success(y).bytes] = Success(z \o y)
  <1>1. Success(y).bytes = y
    BY DEF Success
  <1>2. ASSUME NEW v \in Seq(Int), NEW b \in BOOLEAN
        PROVE  [[ok |-> b, bytes |-> y] EXCEPT !.bytes = v] = [ok |-> b, bytes |-> v]
    BY SMT
  <1>3. z \o y \in Seq(Int)
    BY ConcatProperties
  <1>4. ASSUME NEW v \in Seq(Int) PROVE [Success(y) EXCEPT !.bytes = v] = Success(v)
    <2>1. TRUE \in BOOLEAN
      OBVIOUS
    <2>. QED  BY <1>2, <2>1, Zenon DEF Success
  <1>. QED  BY <1>1, <1>3, <1>4, Zenon

\* Three digits and a fourth.
LEMMA ShowsFour ==
    ASSUME NEW t \in Begun, NEW x \in Triples, TextShows(t, x, 3), NEW c \in Digits, c = DigitsOf(x)[4]
    PROVE  DecodeTuple(Append(t, c), 4) = SubSeq(BytesOf(x), 1, 3)
  <1>. DEFINE u == Append(t, c)
  <1>1. /\ Len(u) = 4 /\ u[4] = DigitsOf(x)[4] /\ \A j \in 1..3 : u[j] = DigitsOf(x)[j]
    <2>1. t \in Seq(Digits)
      BY BegunFacts
    <2>2. Len(u) = Len(t) + 1 /\ u[Len(t) + 1] = c /\ \A j \in 1..Len(t) : u[j] = t[j]
      BY <2>1, AppendProperties
    <2>3. Len(t) = 3 /\ \A j \in 1..3 : t[j] = DigitsOf(x)[j]
      BY DEF TextShows
    <2>. HIDE DEF u
    <2>4. Len(u) = 4 /\ u[4] = c
      BY <2>2, <2>3
    <2>. QED  BY <2>2, <2>3, <2>4
  <1>. HIDE DEF u
  <1>2. \A j \in 1..4 : j \in 1..3 \/ j = 4
    OBVIOUS
  <1>3. \A j \in 1..4 : u[j] = DigitsOf(x)[j]
    BY <1>1, <1>2, Zenon
  <1>4. 4 \in 2..4 /\ \A j \in 1..4 : ~(j > 4)
    OBVIOUS
  <1>5. DecodeTuple(u, 4) = SubSeq(BytesOf(x), 1, 4 - 1)
    BY <1>1, <1>3, <1>4, DecodedDigits
  <1>6. 4 - 1 = 3
    OBVIOUS
  <1>. QED  BY <1>5, <1>6, Zenon DEF u

\* The fourth digit of x: its three bytes, and what is read after them.
LEMMA ReadComplete ==
    ASSUME NEW w \in Seq(Codes), NEW W, Reads(w, W), NEW i \in 1..Len(w), w[i] \in Digits,
           NEW t \in Begun, NEW x \in Triples, TextShows(t, x, 3), w[i] = DigitsOf(x)[4],
           NEW y \in Seq(Int), W[<<i + 1, <<>>>>] = Success(y)
    PROVE  W[<<i, t>>] = Success(SubSeq(BytesOf(x), 1, 3) \o y)
  <1>1. i \in Int /\ i <= Len(w) /\ Len(w) \in Nat /\ i \in 1..Len(w) + 1
    OBVIOUS
  <1>2. ~(Len(t) < 3)
    BY DEF TextShows
  <1>3. DecodeFrom(w, W, i, t) = Fourth(t, w[i], W[<<i + 1, <<>>>>])
    BY <1>1, <1>2, ReadFourth
  <1>4. W[<<i, t>>] = DecodeFrom(w, W, i, t)
    BY <1>1, Zenon DEF Reads
  <1>5. DecodeTuple(Append(t, w[i]), 4) = SubSeq(BytesOf(x), 1, 3)
    BY ShowsFour
  <1>6. W[<<i, t>>] = [Success(y) EXCEPT !.bytes = SubSeq(BytesOf(x), 1, 3) \o Success(y).bytes]
    BY <1>3, <1>4, <1>5, Zenon DEF Fourth
  <1>7. SubSeq(BytesOf(x), 1, 3) \in Seq(Int)
    <2>1. Append(t, w[i]) \in Seq(Digits) /\ 4 \in 1..4
      BY BegunFacts
    <2>2. DecodeTuple(Append(t, w[i]), 4) \in Seq(Int)
      BY <2>1, DecodeTupleType
    <2>. QED  BY <1>5, <2>2
  <1>. QED  BY <1>6, <1>7, GoodExcept, Zenon

-------------------------------------------------------------------------------
(* lbase64.c: what encoding gives is read back. *)

\* Four elements come first.
LEMMA FourFirst ==
    ASSUME NEW S, NEW x \in Seq(S), NEW y \in Seq(S)
    PROVE  Len(x) = 4 => /\ x \o y \in Seq(S) /\ Len(x \o y) = 4 + Len(y)
                         /\ \A j \in 1..4 : (x \o y)[j] = x[j]
                         /\ \A j \in 1..Len(y) : (x \o y)[4 + j] = y[j]
  <1>1. /\ x \o y \in Seq(S) /\ Len(x \o y) = Len(x) + Len(y)
        /\ \A j \in 1..Len(x) : (x \o y)[j] = x[j]
        /\ \A j \in 1..Len(y) : (x \o y)[Len(x) + j] = y[j]
    BY Joined
  <1>. QED  BY <1>1, Zenon

\* Where the characters of a tuple are in a text.
LEMMA TupleInText ==
    ASSUME NEW x \in Seq(Codes), NEW e \in Seq(Codes), Len(e) = 4, NEW r \in Seq(Codes)
    PROVE  /\ x \o (e \o r) \in Seq(Codes) /\ Len(x) + 4 <= Len(x \o (e \o r))
           /\ \A j \in 1..4 : (x \o (e \o r))[Len(x) + j] = e[j]
  <1>. DEFINE v == e \o r
              w == x \o v
  <1>1. v \in Seq(Codes) /\ Len(v) = 4 + Len(r) /\ \A j \in 1..4 : v[j] = e[j]
    BY FourFirst
  <1>. HIDE DEF v
  <1>2. w \in Seq(Codes) /\ Len(w) = Len(x) + Len(v) /\ \A j \in 1..Len(v) : w[Len(x) + j] = v[j]
    <2>1. v \in Seq(Codes)
      BY <1>1
    <2>. QED  BY <2>1, Joined
  <1>. HIDE DEF w
  <1>3. Len(x) \in Nat /\ Len(r) \in Nat
    OBVIOUS
  <1>4. Len(x) + 4 <= Len(w) /\ \A j \in 1..4 : j \in 1..Len(v)
    <2>1. ASSUME NEW a \in Nat, NEW b \in Nat
          PROVE  a + 4 <= a + (4 + b) /\ \A j \in 1..4 : j \in 1..4 + b
      OBVIOUS
    <2>. QED  BY <1>1, <1>2, <1>3, <2>1, Zenon
  <1>5. \A j \in 1..4 : w[Len(x) + j] = e[j]
    BY <1>1, <1>2, <1>4, Zenon
  <1>. QED  BY <1>2, <1>4, <1>5 DEF v, w

\* The characters of e come after place p.
Has(w, p, e) == \A j \in 1..4 : w[p + j] = e[j]

\* A byte is a number.
LEMMA BytesAreInts ==
    0 \in Int /\ \A c \in Bytes : c \in Int
  BY DEF Bytes

\* Three bytes, and more after them.
LEMMA ReadBackFull ==
    ASSUME NEW c1 \in Bytes, NEW c2 \in Bytes, NEW c3 \in Bytes,
           NEW w \in Seq(Codes), NEW p \in Nat, p + 4 <= Len(w),
           Has(w, p, EncodeTuple(c1, c2, c3, 3)),
           NEW W, Reads(w, W), NEW y \in Seq(Int), W[<<p + 5, <<>>>>] = Success(y)
    PROVE  W[<<p + 1, <<>>>>] = Success(<<c1, c2, c3>> \o y)
  <1>. DEFINE X == Tuple(c1, c2, c3)
  <1>1. X \in Triples /\ BytesOf(X) = <<c1, c2, c3>>
    BY TupleOfBytes
  <1>2. \A i \in 1..4 : i <= 3 + 1 =>
            /\ EncodeTuple(c1, c2, c3, 3)[i] = DigitsOf(X)[i]
            /\ EncodeTuple(c1, c2, c3, 3)[i] \in Digits
    <2>1. 3 \in 1..3
      OBVIOUS
    <2>. QED  BY <2>1, EncodedTuple
  <1>. HIDE DEF X
  <1>3. \A j \in 1..4 : w[p + j] \in Digits /\ w[p + j] = DigitsOf(X)[j]
    <2>1. \A i \in 1..4 : i <= 3 + 1
      OBVIOUS
    <2>. QED  BY <1>2, <2>1, Zenon DEF Has
  <1>4. w[p + 1] \in Digits /\ w[p + 2] \in Digits /\ w[p + 3] \in Digits
        /\ w[p + 4] \in Digits /\ w[p + 4] = DigitsOf(X)[4]
    <2>1. 1 \in 1..4 /\ 2 \in 1..4 /\ 3 \in 1..4 /\ 4 \in 1..4
      OBVIOUS
    <2>. QED  BY <1>3, <2>1, Zenon
  <1>5. PICK t \in Begun : Read(w, W, p, 3, t)
    <2>1. p + 3 <= Len(w)
      OBVIOUS
    <2>. QED  BY <1>4, <2>1, ReadThree
  <1>6. TextShows(t, X, 3)
    <2>1. \A j \in 1..3 : j \in 1..4
      OBVIOUS
    <2>2. \A j \in 1..3 : t[j] = w[p + j]
      BY <1>5, Zenon DEF Read
    <2>3. Len(t) = 3
      BY <1>5, Zenon DEF Read
    <2>. QED  BY <1>3, <2>1, <2>2, <2>3, Zenon DEF TextShows
  <1>7. p + 4 \in 1..Len(w) /\ p + 4 + 1 = p + 5 /\ p + 3 + 1 = p + 4
    OBVIOUS
  <1>8. W[<<p + 4, t>>] = Success(SubSeq(BytesOf(X), 1, 3) \o y)
    <2>1. W[<<p + 4 + 1, <<>>>>] = Success(y)
      BY <1>7, Zenon
    <2>2. X \in Triples /\ p + 4 \in 1..Len(w) /\ w[p + 4] \in Digits /\ w[p + 4] = DigitsOf(X)[4]
      BY <1>1, <1>4, <1>7, Zenon
    <2>. QED  BY <1>6, <2>1, <2>2, ReadComplete
  <1>9. W[<<p + 1, <<>>>>] = W[<<p + 4, t>>]
    BY <1>5, <1>7, Zenon DEF Read
  <1>10. SubSeq(<<c1, c2, c3>>, 1, 3) = <<c1, c2, c3>>
    <2>1. c1 \in Int /\ c2 \in Int /\ c3 \in Int
      BY BytesAreInts, Zenon
    <2>. QED  BY <2>1, FirstBytes, Zenon
  <1>. QED  BY <1>1, <1>8, <1>9, <1>10, Zenon

\* The last two bytes.
LEMMA ReadBackTwo ==
    ASSUME NEW c1 \in Bytes, NEW c2 \in Bytes,
           NEW w \in Seq(Codes), NEW p \in Nat, p + 4 <= Len(w),
           Has(w, p, EncodeTuple(c1, c2, 0, 2)),
           NEW W, Reads(w, W)
    PROVE  W[<<p + 1, <<>>>>] = Success(<<c1, c2>>)
  <1>. DEFINE X == Tuple(c1, c2, 0)
  <1>0. 0 \in Bytes
    BY DEF Bytes
  <1>1. X \in Triples /\ BytesOf(X) = <<c1, c2, 0>>
    BY <1>0, TupleOfBytes
  <1>2. /\ \A i \in 1..4 : i <= 2 + 1 =>
            /\ EncodeTuple(c1, c2, 0, 2)[i] = DigitsOf(X)[i]
            /\ EncodeTuple(c1, c2, 0, 2)[i] \in Digits
        /\ \A i \in 1..4 : i > 2 + 1 => EncodeTuple(c1, c2, 0, 2)[i] = Padding
    <2>1. 2 \in 1..3
      OBVIOUS
    <2>. QED  BY <1>0, <2>1, EncodedTuple
  <1>3. DigitsOf(X)[4] = 0
    BY TupleOfTwo
  <1>. HIDE DEF X
  <1>4. \A j \in 1..3 : w[p + j] \in Digits /\ w[p + j] = DigitsOf(X)[j]
    <2>1. \A i \in 1..3 : i \in 1..4 /\ i <= 2 + 1
      OBVIOUS
    <2>. QED  BY <1>2, <2>1, Zenon DEF Has
  <1>5. w[p + 4] = Padding
    <2>1. 4 \in 1..4 /\ 4 > 2 + 1
      OBVIOUS
    <2>. QED  BY <1>2, <2>1, Zenon DEF Has
  <1>6. w[p + 1] \in Digits /\ w[p + 2] \in Digits /\ w[p + 3] \in Digits
    <2>1. 1 \in 1..3 /\ 2 \in 1..3 /\ 3 \in 1..3
      OBVIOUS
    <2>. QED  BY <1>4, <2>1, Zenon
  <1>7. PICK t \in Begun : Read(w, W, p, 3, t)
    <2>1. p + 3 <= Len(w)
      OBVIOUS
    <2>. QED  BY <1>6, <2>1, ReadThree
  <1>8. TextShows(t, X, 3)
    <2>1. \A j \in 1..3 : t[j] = w[p + j]
      BY <1>7, Zenon DEF Read
    <2>2. Len(t) = 3
      BY <1>7, Zenon DEF Read
    <2>. QED  BY <1>4, <2>1, <2>2, Zenon DEF TextShows
  <1>9. p + 4 \in 1..Len(w) /\ p + 3 + 1 = p + 4 /\ 3 \in 2..3 /\ 3 - 1 = 2
        /\ \A j \in 1..4 : j > 3 => j = 4
    OBVIOUS
  <1>10. W[<<p + 4, t>>] = Success(SubSeq(BytesOf(X), 1, 3 - 1))
    <2>1. Rest(X, 3)
      BY <1>3, <1>9, Zenon DEF Rest
    <2>2. X \in Triples /\ p + 4 \in 1..Len(w) /\ 3 \in 2..3
      BY <1>1, <1>9, Zenon
    <2>. QED  BY <1>5, <1>8, <2>1, <2>2, ReadPadded
  <1>11. W[<<p + 1, <<>>>>] = W[<<p + 4, t>>]
    BY <1>7, <1>9, Zenon DEF Read
  <1>12. SubSeq(<<c1, c2, 0>>, 1, 2) = <<c1, c2>>
    <2>1. c1 \in Int /\ c2 \in Int /\ 0 \in Int
      BY BytesAreInts, Zenon
    <2>. QED  BY <2>1, FirstBytes, Zenon
  <1>. QED  BY <1>1, <1>9, <1>10, <1>11, <1>12, Zenon

\* The last byte.
LEMMA ReadBackOne ==
    ASSUME NEW c1 \in Bytes,
           NEW w \in Seq(Codes), NEW p \in Nat, p + 4 <= Len(w),
           Has(w, p, EncodeTuple(c1, 0, 0, 1)),
           NEW W, Reads(w, W)
    PROVE  W[<<p + 1, <<>>>>] = Success(<<c1>>)
  <1>. DEFINE X == Tuple(c1, 0, 0)
  <1>0. 0 \in Bytes
    BY DEF Bytes
  <1>1. X \in Triples /\ BytesOf(X) = <<c1, 0, 0>>
    BY <1>0, TupleOfBytes
  <1>2. /\ \A i \in 1..4 : i <= 1 + 1 =>
            /\ EncodeTuple(c1, 0, 0, 1)[i] = DigitsOf(X)[i]
            /\ EncodeTuple(c1, 0, 0, 1)[i] \in Digits
        /\ \A i \in 1..4 : i > 1 + 1 => EncodeTuple(c1, 0, 0, 1)[i] = Padding
    <2>1. 1 \in 1..3
      OBVIOUS
    <2>. QED  BY <1>0, <2>1, EncodedTuple
  <1>3. DigitsOf(X)[3] = 0 /\ DigitsOf(X)[4] = 0
    BY TupleOfOne
  <1>. HIDE DEF X
  <1>4. \A j \in 1..2 : w[p + j] \in Digits /\ w[p + j] = DigitsOf(X)[j]
    <2>1. \A i \in 1..2 : i \in 1..4 /\ i <= 1 + 1
      OBVIOUS
    <2>. QED  BY <1>2, <2>1, Zenon DEF Has
  <1>5. w[p + 3] = Padding
    <2>1. 3 \in 1..4 /\ 3 > 1 + 1
      OBVIOUS
    <2>. QED  BY <1>2, <2>1, Zenon DEF Has
  <1>6. w[p + 1] \in Digits /\ w[p + 2] \in Digits
    <2>1. 1 \in 1..2 /\ 2 \in 1..2
      OBVIOUS
    <2>. QED  BY <1>4, <2>1, Zenon
  <1>7. PICK t \in Begun : Read(w, W, p, 2, t)
    <2>1. p + 2 <= Len(w)
      OBVIOUS
    <2>. QED  BY <1>6, <2>1, ReadTwo
  <1>8. TextShows(t, X, 2)
    <2>1. \A j \in 1..2 : t[j] = w[p + j]
      BY <1>7, Zenon DEF Read
    <2>2. Len(t) = 2
      BY <1>7, Zenon DEF Read
    <2>. QED  BY <1>4, <2>1, <2>2, Zenon DEF TextShows
  <1>9. p + 3 \in 1..Len(w) /\ p + 2 + 1 = p + 3 /\ 2 \in 2..3 /\ 2 - 1 = 1
        /\ \A j \in 1..4 : j > 2 => j = 3 \/ j = 4
    OBVIOUS
  <1>10. W[<<p + 3, t>>] = Success(SubSeq(BytesOf(X), 1, 2 - 1))
    <2>1. Rest(X, 2)
      BY <1>3, <1>9, Zenon DEF Rest
    <2>2. X \in Triples /\ p + 3 \in 1..Len(w) /\ 2 \in 2..3
      BY <1>1, <1>9, Zenon
    <2>. QED  BY <1>5, <1>8, <2>1, <2>2, ReadPadded
  <1>11. W[<<p + 1, <<>>>>] = W[<<p + 3, t>>]
    BY <1>7, <1>9, Zenon DEF Read
  <1>12. SubSeq(<<c1, 0, 0>>, 1, 1) = <<c1>>
    <2>1. c1 \in Int /\ 0 \in Int
      BY BytesAreInts, Zenon
    <2>. QED  BY <2>1, FirstBytes, Zenon
  <1>. QED  BY <1>1, <1>9, <1>10, <1>11, <1>12, Zenon

\* What Lencode does from byte i on, when it does what E says from later ones.
EncodeFrom(s, E, i) ==
    CASE i > Len(s) -> <<>>
      [] i = Len(s) -> EncodeTuple(s[i], 0, 0, 1)
      [] i + 1 = Len(s) -> EncodeTuple(s[i], s[i + 1], 0, 2)
      [] OTHER -> EncodeTuple(s[i], s[i + 1], s[i + 2], 3) \o E[i + 3]

\* The four cases.
LEMMA EncodeNone ==
    ASSUME NEW s, NEW E, NEW i \in Int, Len(s) \in Nat, i > Len(s)
    PROVE  EncodeFrom(s, E, i) = <<>>
  BY DEF EncodeFrom

\* One byte is left.
LEMMA EncodeOne ==
    ASSUME NEW s, NEW E, NEW i \in Int, Len(s) \in Nat, i = Len(s)
    PROVE  EncodeFrom(s, E, i) = EncodeTuple(s[i], 0, 0, 1)
  <1>1. ~(i > Len(s)) /\ ~(i + 1 = Len(s))
    OBVIOUS
  <1>. QED  BY <1>1, Zenon DEF EncodeFrom

\* Two bytes are left.
LEMMA EncodeTwo ==
    ASSUME NEW s, NEW E, NEW i \in Int, Len(s) \in Nat, i + 1 = Len(s)
    PROVE  EncodeFrom(s, E, i) = EncodeTuple(s[i], s[i + 1], 0, 2)
  <1>1. ~(i > Len(s)) /\ i # Len(s)
    OBVIOUS
  <1>. QED  BY <1>1, Zenon DEF EncodeFrom

\* Three bytes are a tuple, before the text of the others.
LEMMA EncodeThree ==
    ASSUME NEW s, NEW E, NEW i \in Int, Len(s) \in Nat, i + 2 <= Len(s)
    PROVE  EncodeFrom(s, E, i) = EncodeTuple(s[i], s[i + 1], s[i + 2], 3) \o E[i + 3]
  <1>1. ~(i > Len(s)) /\ i # Len(s) /\ i + 1 # Len(s)
    OBVIOUS
  <1>. QED  BY <1>1, Zenon DEF EncodeFrom

\* There are no others.
LEMMA EncodePlaces ==
    ASSUME NEW n \in Nat, NEW i \in 1..n + 1
    PROVE  /\ i \in Int /\ (i > n \/ i = n \/ i + 1 = n \/ i + 2 <= n)
           /\ i > n => i = n + 1
           /\ i <= n => i \in 1..n
           /\ i + 1 <= n => i + 1 \in 1..n
           /\ i + 2 <= n => i + 1 \in 1..n /\ i + 2 \in 1..n /\ i + 3 \in i + 1..n + 1 /\ i + 3 \in 1..n + 1
  OBVIOUS

\* A tuple of bytes is four characters.
LEMMA TupleEncoded ==
    ASSUME NEW c1 \in Bytes, NEW c2 \in Bytes, NEW c3 \in Bytes
    PROVE  /\ EncodeTuple(c1, 0, 0, 1) \in Seq(Codes) /\ Len(EncodeTuple(c1, 0, 0, 1)) = 4
           /\ EncodeTuple(c1, c2, 0, 2) \in Seq(Codes) /\ Len(EncodeTuple(c1, c2, 0, 2)) = 4
           /\ EncodeTuple(c1, c2, c3, 3) \in Seq(Codes) /\ Len(EncodeTuple(c1, c2, c3, 3)) = 4
  <1>1. 0 \in Bytes /\ 1 \in 1..3 /\ 2 \in 1..3 /\ 3 \in 1..3
    BY DEF Bytes
  <1>2. EncodeTuple(c1, 0, 0, 1) \in Seq(Codes) /\ Len(EncodeTuple(c1, 0, 0, 1)) = 4
    BY <1>1, EncodedTuple
  <1>3. EncodeTuple(c1, c2, 0, 2) \in Seq(Codes) /\ Len(EncodeTuple(c1, c2, 0, 2)) = 4
    BY <1>1, EncodedTuple
  <1>4. EncodeTuple(c1, c2, c3, 3) \in Seq(Codes) /\ Len(EncodeTuple(c1, c2, c3, 3)) = 4
    BY <1>1, EncodedTuple
  <1>. QED  BY <1>2, <1>3, <1>4, Zenon

\* A step gives a text.
LEMMA EncodeStepType ==
    ASSUME NEW s \in Seq(Bytes), NEW E, NEW i \in 1..Len(s) + 1,
           i + 3 \in 1..Len(s) + 1 => E[i + 3] \in Seq(Codes)
    PROVE  EncodeFrom(s, E, i) \in Seq(Codes)
  <1>. DEFINE n == Len(s)
  <1>1. n \in Nat /\ i \in 1..n + 1
    OBVIOUS
  <1>2. \A j \in 1..n : s[j] \in Bytes
    BY ElementOfSeq
  <1>3. /\ i \in Int /\ (i > n \/ i = n \/ i + 1 = n \/ i + 2 <= n)
        /\ i > n => i = n + 1
        /\ i <= n => i \in 1..n
        /\ i + 1 <= n => i + 1 \in 1..n
        /\ i + 2 <= n => i + 1 \in 1..n /\ i + 2 \in 1..n /\ i + 3 \in i + 1..n + 1 /\ i + 3 \in 1..n + 1
    <2>. HIDE DEF n
    <2>. QED  BY <1>1, EncodePlaces
  <1>4. CASE i > n
    BY <1>1, <1>3, <1>4, EncodeNone, EmptySeq
  <1>5. CASE i = n
    <2>1. n <= n
      BY <1>1
    <2>2. s[i] \in Bytes
      BY <1>2, <1>3, <1>5, <2>1, Zenon
    <2>3. EncodeTuple(s[i], 0, 0, 1) \in Seq(Codes)
      BY <2>2, TupleEncoded, Zenon
    <2>4. EncodeFrom(s, E, i) = EncodeTuple(s[i], 0, 0, 1)
      BY <1>1, <1>3, <1>5, EncodeOne
    <2>. QED  BY <2>3, <2>4, Zenon
  <1>6. CASE i + 1 = n
    <2>1. i <= n /\ i + 1 <= n
      BY <1>1, <1>6
    <2>2. s[i] \in Bytes /\ s[i + 1] \in Bytes
      BY <1>2, <1>3, <2>1, Zenon
    <2>3. EncodeTuple(s[i], s[i + 1], 0, 2) \in Seq(Codes)
      BY <2>2, TupleEncoded, Zenon
    <2>4. EncodeFrom(s, E, i) = EncodeTuple(s[i], s[i + 1], 0, 2)
      BY <1>1, <1>3, <1>6, EncodeTwo
    <2>. QED  BY <2>3, <2>4, Zenon
  <1>7. CASE i + 2 <= n
    <2>1. i <= n
      BY <1>1, <1>7
    <2>2. s[i] \in Bytes /\ s[i + 1] \in Bytes /\ s[i + 2] \in Bytes
      BY <1>2, <1>3, <1>7, <2>1, Zenon
    <2>3. EncodeTuple(s[i], s[i + 1], s[i + 2], 3) \in Seq(Codes)
      BY <2>2, TupleEncoded, Zenon
    <2>4. EncodeFrom(s, E, i) = EncodeTuple(s[i], s[i + 1], s[i + 2], 3) \o E[i + 3]
      BY <1>1, <1>3, <1>7, EncodeThree
    <2>5. E[i + 3] \in Seq(Codes)
      BY <1>3, <1>7, Zenon
    <2>6. EncodeTuple(s[i], s[i + 1], s[i + 2], 3) \o E[i + 3] \in Seq(Codes)
      BY <2>3, <2>5, ConcatProperties
    <2>. QED  BY <2>4, <2>6, Zenon
  <1>. QED  BY <1>3, <1>4, <1>5, <1>6, <1>7, Zenon

\* E gives the text from every byte on.
Encodes(s, E) == E = [i \in 1..Len(s) + 1 |-> EncodeFrom(s, E, i)]

\* Such a function exists, its values are texts, and Lencode gives one.
LEMMA EncodesExists ==
    ASSUME NEW s \in Seq(Bytes)
    PROVE  \E E : Encodes(s, E)
  <1>. DEFINE n == Len(s)
              V == Seq(Codes)
              G == [i \in 1..n + 1 |-> [f \in [1..n + 1 -> V] |-> EncodeFrom(s, f, i)]]
  <1>1. n \in Nat
    OBVIOUS
  <1>2. CausalDown(G, n, V)
    <2>1. V # {}
      BY EmptySeq
    <2>2. ASSUME NEW i \in 1..n + 1, NEW f \in [1..n + 1 -> V]
          PROVE  G[i][f] = EncodeFrom(s, f, i)
      BY <2>2
    <2>3. ASSUME NEW i \in 1..n + 1, NEW f \in [1..n + 1 -> V]
          PROVE  EncodeFrom(s, f, i) \in V
      <3>1. i + 3 \in 1..Len(s) + 1 => f[i + 3] \in Seq(Codes)
        OBVIOUS
      <3>. HIDE DEF G
      <3>. QED  BY <3>1, EncodeStepType
    <2>4. ASSUME NEW i \in 1..n + 1, NEW f \in [1..n + 1 -> V], NEW g \in [1..n + 1 -> V],
                 \A j \in i + 1..n + 1 : f[j] = g[j]
          PROVE  EncodeFrom(s, f, i) = EncodeFrom(s, g, i)
      <3>1. i + 2 <= n => f[i + 3] = g[i + 3]
        <4>1. i + 2 <= n => i + 3 \in i + 1..n + 1
          <5>. HIDE DEF n
          <5>. QED  BY <1>1
        <4>. HIDE DEF n, V, G
        <4>. QED  BY <2>4, <4>1, Zenon
      <3>2. i \in Int /\ (i > n \/ i = n \/ i + 1 = n \/ i + 2 <= n)
        <4>. HIDE DEF n, V, G
        <4>. QED  BY <1>1, EncodePlaces
      <3>. HIDE DEF V, G
      <3>3. CASE i > n
        BY <1>1, <3>2, <3>3, EncodeNone
      <3>4. CASE i = n
        BY <1>1, <3>2, <3>4, EncodeOne
      <3>5. CASE i + 1 = n
        BY <1>1, <3>2, <3>5, EncodeTwo
      <3>6. CASE i + 2 <= n
        <4>1. EncodeFrom(s, f, i) = EncodeTuple(s[i], s[i + 1], s[i + 2], 3) \o f[i + 3]
          BY <1>1, <3>2, <3>6, EncodeThree
        <4>2. EncodeFrom(s, g, i) = EncodeTuple(s[i], s[i + 1], s[i + 2], 3) \o g[i + 3]
          BY <1>1, <3>2, <3>6, EncodeThree
        <4>. QED  BY <3>1, <3>6, <4>1, <4>2, Zenon
      <3>. QED  BY <3>2, <3>3, <3>4, <3>5, <3>6, Zenon
    <2>. HIDE DEF G, V, n
    <2>5. \A i \in 1..n + 1 : \A f \in [1..n + 1 -> V] : G[i][f] \in V
      BY <2>2, <2>3
    <2>6. ASSUME NEW i \in 1..n + 1, NEW f \in [1..n + 1 -> V], NEW g \in [1..n + 1 -> V],
                 \A j \in i + 1..n + 1 : f[j] = g[j]
          PROVE  G[i][f] = G[i][g]
      <3>1. EncodeFrom(s, f, i) = EncodeFrom(s, g, i)
        BY <2>4, <2>6
      <3>. QED  BY <2>2, <3>1
    <2>. QED  BY <2>1, <2>5, <2>6 DEF CausalDown
  <1>3. PICK f \in [1..n + 1 -> V] : \A i \in 1..n + 1 : f[i] = G[i][f]
    <2>. HIDE DEF n, G, V
    <2>. QED  BY <1>1, <1>2, RecursionDown
  <1>4. \A i \in 1..n + 1 : f[i] = EncodeFrom(s, f, i)
    BY <1>3
  <1>5. f = [i \in 1..n + 1 |-> EncodeFrom(s, f, i)]
    <2>. HIDE DEF n, V, G
    <2>. QED  BY <1>3, <1>4
  <1>. QED  BY <1>5 DEF Encodes

\* Lencode gives its text from the first byte on.
LEMMA EncodeIsEncodes ==
    ASSUME NEW s \in Seq(Bytes)
    PROVE  \E E : /\ LEncode(s) = E[1]
                  /\ \A i \in 1..Len(s) + 1 : E[i] = EncodeFrom(s, E, i)
  <1>. DEFINE R == CHOOSE from : from = [i \in 1..Len(s) + 1 |-> EncodeFrom(s, from, i)]
  <1>1. LEncode(s) = R[1]
    BY Zenon DEF LEncode, EncodeFrom
  <1>2. R = [i \in 1..Len(s) + 1 |-> EncodeFrom(s, R, i)]
    <2>1. \E E : E = [i \in 1..Len(s) + 1 |-> EncodeFrom(s, E, i)]
      BY EncodesExists DEF Encodes
    <2>. QED  BY <2>1, Zenon
  <1>. HIDE DEF R
  <1>3. \A i \in 1..Len(s) + 1 : R[i] = EncodeFrom(s, R, i)
    BY <1>2, Zenon
  <1>. QED  BY <1>1, <1>3

\* Whatever comes before it, a text is read as the bytes y.
ReadAs(r, y) ==
    \A x \in Seq(Codes) : \A W : Reads(x \o r, W) => W[<<Len(x) + 1, <<>>>>] = Success(y)

\* E[i] is a text of complete tuples, and read as the bytes from i on.
ReadBack(s, E, i) ==
    /\ E[i] \in Seq(Codes)
    /\ Len(E[i]) % 4 = 0
    /\ ReadAs(E[i], SubSeq(s, i, Len(s)))

\* The empty text is read as no bytes.
LEMMA EmptyReadAs == ReadAs(<<>>, <<>>)
  <1>. SUFFICES ASSUME NEW x \in Seq(Codes), NEW W, Reads(x \o <<>>, W)
                PROVE  W[<<Len(x) + 1, <<>>>>] = Success(<<>>)
    BY DEF ReadAs
  <1>1. x \o <<>> = x
    BY ConcatEmptySeq
  <1>2. Reads(x, W)
    BY <1>1, Zenon
  <1>3. Len(x) \in Nat /\ Len(x) + 1 \in Int /\ Len(x) + 1 > Len(x) /\ Len(x) + 1 \in 1..Len(x) + 1
    OBVIOUS
  <1>4. <<>> \in Begun
    BY BegunFacts
  <1>5. W[<<Len(x) + 1, <<>>>>] = DecodeFrom(x, W, Len(x) + 1, <<>>)
    BY <1>2, <1>3, <1>4, Zenon DEF Reads
  <1>6. DecodeFrom(x, W, Len(x) + 1, <<>>) = [ok |-> TRUE, bytes |-> <<>>]
    BY <1>3, ReadEnd
  <1>. QED  BY <1>5, <1>6, Zenon DEF Success

\* A text of one tuple.
LEMMA TupleAtEnd ==
    ASSUME NEW e \in Seq(Codes), Len(e) = 4, NEW x \in Seq(Codes)
    PROVE  x \o e \in Seq(Codes) /\ Len(x) + 4 <= Len(x \o e) /\ Has(x \o e, Len(x), e)
  <1>1. <<>> \in Seq(Codes) /\ e \o <<>> = e
    BY ConcatEmptySeq, EmptySeq
  <1>2. /\ x \o (e \o <<>>) \in Seq(Codes) /\ Len(x) + 4 <= Len(x \o (e \o <<>>))
        /\ \A j \in 1..4 : (x \o (e \o <<>>))[Len(x) + j] = e[j]
    BY <1>1, TupleInText
  <1>. QED  BY <1>1, <1>2, Zenon DEF Has

\* The text of one byte is read as that byte.
LEMMA OneReadAs ==
    ASSUME NEW c1 \in Bytes
    PROVE  ReadAs(EncodeTuple(c1, 0, 0, 1), <<c1>>)
  <1>. DEFINE e == EncodeTuple(c1, 0, 0, 1)
  <1>. SUFFICES ASSUME NEW x \in Seq(Codes), NEW W, Reads(x \o e, W)
                PROVE  W[<<Len(x) + 1, <<>>>>] = Success(<<c1>>)
    BY Zenon DEF ReadAs
  <1>1. e \in Seq(Codes) /\ Len(e) = 4
    BY TupleEncoded, Zenon
  <1>2. x \o e \in Seq(Codes) /\ Len(x) + 4 <= Len(x \o e) /\ Has(x \o e, Len(x), e)
    BY <1>1, TupleAtEnd
  <1>3. Len(x) \in Nat
    OBVIOUS
  <1>. QED  BY <1>2, <1>3, ReadBackOne

\* The text of two bytes is read as them.
LEMMA TwoReadAs ==
    ASSUME NEW c1 \in Bytes, NEW c2 \in Bytes
    PROVE  ReadAs(EncodeTuple(c1, c2, 0, 2), <<c1, c2>>)
  <1>. DEFINE e == EncodeTuple(c1, c2, 0, 2)
  <1>. SUFFICES ASSUME NEW x \in Seq(Codes), NEW W, Reads(x \o e, W)
                PROVE  W[<<Len(x) + 1, <<>>>>] = Success(<<c1, c2>>)
    BY Zenon DEF ReadAs
  <1>1. e \in Seq(Codes) /\ Len(e) = 4
    BY TupleEncoded, Zenon
  <1>2. x \o e \in Seq(Codes) /\ Len(x) + 4 <= Len(x \o e) /\ Has(x \o e, Len(x), e)
    BY <1>1, TupleAtEnd
  <1>. DEFINE w == x \o e
              p == Len(x)
  <1>3. p \in Nat /\ w \in Seq(Codes) /\ p + 4 <= Len(w) /\ Reads(w, W)
    BY <1>2
  <1>4. Has(w, p, EncodeTuple(c1, c2, 0, 2))
    BY <1>2, Zenon
  <1>. HIDE DEF e, w, p
  <1>5. W[<<p + 1, <<>>>>] = Success(<<c1, c2>>)
    BY <1>3, <1>4, ReadBackTwo
  <1>. QED  BY <1>5, Zenon DEF p

\* Three bytes are read before those of the rest.
LEMMA ThreeReadAs ==
    ASSUME NEW c1 \in Bytes, NEW c2 \in Bytes, NEW c3 \in Bytes,
           NEW r \in Seq(Codes), NEW y \in Seq(Int), ReadAs(r, y)
    PROVE  ReadAs(EncodeTuple(c1, c2, c3, 3) \o r, <<c1, c2, c3>> \o y)
  <1>. DEFINE e == EncodeTuple(c1, c2, c3, 3)
  <1>. SUFFICES ASSUME NEW x \in Seq(Codes), NEW W, Reads(x \o (e \o r), W)
                PROVE  W[<<Len(x) + 1, <<>>>>] = Success(<<c1, c2, c3>> \o y)
    BY Zenon DEF ReadAs
  <1>1. e \in Seq(Codes) /\ Len(e) = 4
    BY TupleEncoded, Zenon
  <1>2. /\ x \o (e \o r) \in Seq(Codes) /\ Len(x) + 4 <= Len(x \o (e \o r))
        /\ \A j \in 1..4 : (x \o (e \o r))[Len(x) + j] = e[j]
    BY <1>1, TupleInText
  <1>3. Has(x \o (e \o r), Len(x), e)
    BY <1>2, Zenon DEF Has
  <1>4. Len(x) \in Nat /\ Len(x) + 4 + 1 = Len(x) + 5
    OBVIOUS
  <1>5. x \o e \in Seq(Codes) /\ Len(x \o e) = Len(x) + 4
    <2>1. x \o e \in Seq(Codes) /\ Len(x \o e) = Len(x) + Len(e)
      BY <1>1, Joined
    <2>. QED  BY <1>1, <2>1, Zenon
  <1>6. (x \o e) \o r = x \o (e \o r)
    BY <1>1, ConcatAssociative
  <1>7. Reads((x \o e) \o r, W)
    BY <1>6, Zenon
  <1>8. W[<<Len(x \o e) + 1, <<>>>>] = Success(y)
    BY <1>5, <1>7, Zenon DEF ReadAs
  <1>9. W[<<Len(x) + 5, <<>>>>] = Success(y)
    BY <1>4, <1>5, <1>8, Zenon
  <1>. DEFINE w == x \o (e \o r)
              p == Len(x)
  <1>10. p \in Nat /\ w \in Seq(Codes) /\ p + 4 <= Len(w) /\ Reads(w, W)
    BY <1>2, <1>4, Zenon
  <1>11. Has(w, p, EncodeTuple(c1, c2, c3, 3)) /\ W[<<p + 5, <<>>>>] = Success(y)
    BY <1>3, <1>9, Zenon
  <1>. HIDE DEF e, w, p
  <1>12. W[<<p + 1, <<>>>>] = Success(<<c1, c2, c3>> \o y)
    BY <1>10, <1>11, ReadBackFull
  <1>. QED  BY <1>12, Zenon DEF p

\* The bytes of a tuple, and those after them.
LEMMA NextBytes ==
    ASSUME NEW s \in Seq(Bytes), NEW i \in 1..Len(s)
    PROVE  /\ i = Len(s) => SubSeq(s, i, Len(s)) = <<s[i]>>
           /\ i + 1 = Len(s) => SubSeq(s, i, Len(s)) = <<s[i], s[i + 1]>>
           /\ i + 2 <= Len(s) =>
                 SubSeq(s, i, Len(s)) = <<s[i], s[i + 1], s[i + 2]>> \o SubSeq(s, i + 3, Len(s))
  <1>. DEFINE n == Len(s)
  <1>1. n \in Nat /\ i \in 1..n
    OBVIOUS
  <1>2. \A j \in 1..n : s[j] \in Bytes
    BY ElementOfSeq
  <1>3. ASSUME NEW b \in i..n, NEW l \in Nat, l = b - i + 1
        PROVE  /\ SubSeq(s, i, b) \in Seq(Bytes) /\ Len(SubSeq(s, i, b)) = l
               /\ l >= 1 => SubSeq(s, i, b)[1] = s[i]
               /\ l >= 2 => SubSeq(s, i, b)[2] = s[i + 1]
               /\ l >= 3 => SubSeq(s, i, b)[3] = s[i + 2]
    <2>1. /\ i \in 1..Len(s) + 1 /\ b \in i - 1..Len(s)
          /\ l >= 1 => 1 \in 1..l /\ i + 1 - 1 = i
          /\ l >= 2 => 2 \in 1..l /\ i + 2 - 1 = i + 1
          /\ l >= 3 => 3 \in 1..l /\ i + 3 - 1 = i + 2
      BY <1>1
    <2>2. /\ SubSeq(s, i, b) \in Seq(Bytes) /\ Len(SubSeq(s, i, b)) = b - i + 1
          /\ \A j \in 1..b - i + 1 : SubSeq(s, i, b)[j] = s[i + j - 1]
      BY <2>1, Pieces
    <2>3. /\ SubSeq(s, i, b) \in Seq(Bytes) /\ Len(SubSeq(s, i, b)) = l
          /\ \A j \in 1..l : SubSeq(s, i, b)[j] = s[i + j - 1]
      BY <1>3, <2>2, Zenon
    <2>. QED  BY <2>1, <2>3, Zenon
  <1>. HIDE DEF n
  <1>4. ASSUME i = n PROVE SubSeq(s, i, n) = <<s[i]>>
    <2>1. 1 = n - i + 1 /\ n \in i..n /\ 1 \in Nat /\ 1 >= 1
      BY <1>1, <1>4
    <2>2. SubSeq(s, i, n) \in Seq(Bytes) /\ Len(SubSeq(s, i, n)) = 1 /\ SubSeq(s, i, n)[1] = s[i]
      BY <1>3, <2>1, Zenon
    <2>3. s[i] \in Bytes
      BY <1>1, <1>2
    <2>4. <<s[i]>> \in Seq(Bytes) /\ Len(<<s[i]>>) = 1 /\ <<s[i]>>[1] = s[i]
      BY <2>3
    <2>5. \A j \in 1..1 : j = 1
      OBVIOUS
    <2>6. \A j \in 1..Len(SubSeq(s, i, n)) : SubSeq(s, i, n)[j] = <<s[i]>>[j]
      BY <2>2, <2>4, <2>5, Zenon
    <2>7. Len(SubSeq(s, i, n)) = Len(<<s[i]>>)
      BY <2>2, <2>4, Zenon
    <2>. QED  BY <2>2, <2>4, <2>6, <2>7, SeqEqual
  <1>5. ASSUME i + 1 = n PROVE SubSeq(s, i, n) = <<s[i], s[i + 1]>>
    <2>. DEFINE y == <<s[i], s[i + 1]>>
                z == SubSeq(s, i, n)
    <2>1. 2 = n - i + 1 /\ 2 \in Nat /\ 2 >= 1 /\ 2 >= 2 /\ n \in i..n /\ i + 1 \in 1..n
          /\ \A j \in 1..2 : j = 1 \/ j = 2
      BY <1>1, <1>5
    <2>2. z \in Seq(Bytes) /\ Len(z) = 2 /\ z[1] = s[i] /\ z[2] = s[i + 1]
      BY <1>3, <2>1, Zenon
    <2>3. s[i] \in Bytes /\ s[i + 1] \in Bytes
      BY <1>1, <1>2, <2>1, Zenon
    <2>4. y \in Seq(Bytes) /\ Len(y) = 2 /\ y[1] = s[i] /\ y[2] = s[i + 1]
      BY <2>3
    <2>. HIDE DEF y, z
    <2>5. Len(z) = Len(y) /\ \A j \in 1..Len(z) : z[j] = y[j]
      BY <2>1, <2>2, <2>4, Zenon
    <2>6. z = y
      BY <2>2, <2>4, <2>5, SeqEqual
    <2>. QED  BY <2>6 DEF y, z
  <1>6. ASSUME i + 2 <= n
        PROVE  SubSeq(s, i, n) = <<s[i], s[i + 1], s[i + 2]>> \o SubSeq(s, i + 3, n)
    <2>. DEFINE y == <<s[i], s[i + 1], s[i + 2]>>
                z == SubSeq(s, i, i + 2)
    <2>1. /\ 3 = (i + 2) - i + 1 /\ 3 \in Nat /\ 3 >= 1 /\ 3 >= 2 /\ 3 >= 3
          /\ i + 2 \in i..n /\ i + 1 \in 1..n /\ i + 2 \in 1..n
          /\ \A j \in 1..3 : j = 1 \/ j = 2 \/ j = 3
      BY <1>1, <1>6
    <2>2. z \in Seq(Bytes) /\ Len(z) = 3 /\ z[1] = s[i] /\ z[2] = s[i + 1] /\ z[3] = s[i + 2]
      BY <1>3, <2>1, Zenon
    <2>3. s[i] \in Bytes /\ s[i + 1] \in Bytes /\ s[i + 2] \in Bytes
      BY <1>1, <1>2, <2>1, Zenon
    <2>4. y \in Seq(Bytes) /\ Len(y) = 3 /\ y[1] = s[i] /\ y[2] = s[i + 1] /\ y[3] = s[i + 2]
      BY <2>3
    <2>. HIDE DEF y, z
    <2>5. Len(z) = Len(y) /\ \A j \in 1..Len(z) : z[j] = y[j]
      BY <2>1, <2>2, <2>4, Zenon
    <2>6. z = y
      BY <2>2, <2>4, <2>5, SeqEqual
    <2>7. z \o SubSeq(s, i + 3, n) = SubSeq(s, i, n)
      <3>1. i \in 1..Len(s) + 1 /\ i + 2 \in i - 1..Len(s) /\ n \in i + 2..Len(s) /\ (i + 2) + 1 = i + 3
        BY <1>1, <1>6 DEF n
      <3>2. SubSeq(s, i, i + 2) \o SubSeq(s, (i + 2) + 1, n) = SubSeq(s, i, n)
        BY <3>1, ConcatAdjacentSubSeq
      <3>. QED  BY <3>1, <3>2, Zenon DEF z
    <2>. QED  BY <2>6, <2>7, Zenon DEF y
  <1>. QED  BY <1>4, <1>5, <1>6, Zenon DEF n

\* Bytes are numbers.
LEMMA BytesAreNumbers ==
    ASSUME NEW s \in Seq(Bytes)
    PROVE  s \in Seq(Int)
  <1>1. Len(s) \in Nat /\ s \in [1..Len(s) -> Bytes]
    BY LenProperties
  <1>2. \A j \in 1..Len(s) : s[j] \in Int
    BY <1>1, BytesAreInts
  <1>3. s \in [1..Len(s) -> Int]
    BY <1>1, <1>2
  <1>. QED  BY <1>1, <1>3, SeqDef

\* A text of one tuple and others.
LEMMA MoreTuples ==
    ASSUME NEW e \in Seq(Codes), Len(e) = 4, NEW r \in Seq(Codes), Len(r) % 4 = 0
    PROVE  e \o r \in Seq(Codes) /\ Len(e \o r) % 4 = 0
  <1>1. e \o r \in Seq(Codes) /\ Len(e \o r) = Len(e) + Len(r)
    BY Joined
  <1>2. Len(r) \in Nat
    OBVIOUS
  <1>3. \A l \in Nat : l % 4 = 0 => (4 + l) % 4 = 0
    OBVIOUS
  <1>4. (4 + Len(r)) % 4 = 0
    BY <1>2, <1>3, Zenon
  <1>. QED  BY <1>1, <1>4, Zenon

\* What is encoded from byte i on, when that from byte i + 3 on is read back.
LEMMA ReadBackStep ==
    ASSUME NEW s \in Seq(Bytes), NEW E, NEW i \in 1..Len(s) + 1, E[i] = EncodeFrom(s, E, i),
           i + 3 \in i + 1..Len(s) + 1 => ReadBack(s, E, i + 3)
    PROVE  ReadBack(s, E, i)
  <1>. DEFINE n == Len(s)
  <1>1. n \in Nat /\ i \in 1..n + 1
    OBVIOUS
  <1>2. \A j \in 1..n : s[j] \in Bytes
    BY ElementOfSeq
  <1>3. /\ i \in Int /\ (i > n \/ i = n \/ i + 1 = n \/ i + 2 <= n)
        /\ i > n => i = n + 1
        /\ i <= n => i \in 1..n
        /\ i + 1 <= n => i + 1 \in 1..n
        /\ i + 2 <= n => i + 1 \in 1..n /\ i + 2 \in 1..n /\ i + 3 \in i + 1..n + 1 /\ i + 3 \in 1..n + 1
    <2>. HIDE DEF n
    <2>. QED  BY <1>1, EncodePlaces
  <1>4. 0 % 4 = 0 /\ 4 % 4 = 0
    OBVIOUS
  <1>. HIDE DEF n
  <1>5. CASE i > n
    <2>1. E[i] = <<>>
      BY <1>1, <1>3, <1>5, EncodeNone DEF n
    <2>2. SubSeq(s, i, n) = <<>>
      BY <1>1, <1>3, <1>5, SubSeqEmpty
    <2>3. <<>> \in Seq(Codes) /\ Len(<<>>) = 0
      BY EmptySeq
    <2>. QED  BY <1>4, <2>1, <2>2, <2>3, EmptyReadAs, Zenon DEF ReadBack, n
  <1>6. CASE i = n
    <2>1. i <= n
      BY <1>1, <1>6
    <2>2. i \in 1..n /\ s[i] \in Bytes
      BY <1>2, <1>3, <2>1, Zenon
    <2>3. EncodeTuple(s[i], 0, 0, 1) \in Seq(Codes) /\ Len(EncodeTuple(s[i], 0, 0, 1)) = 4
      BY <2>2, TupleEncoded, Zenon
    <2>4. E[i] = EncodeTuple(s[i], 0, 0, 1)
      BY <1>1, <1>3, <1>6, EncodeOne DEF n
    <2>5. SubSeq(s, i, n) = <<s[i]>>
      BY <1>6, <2>2, NextBytes, Zenon DEF n
    <2>6. ReadAs(EncodeTuple(s[i], 0, 0, 1), <<s[i]>>)
      BY <2>2, OneReadAs
    <2>. QED  BY <1>4, <2>3, <2>4, <2>5, <2>6, Zenon DEF ReadBack, n
  <1>7. CASE i + 1 = n
    <2>1. i <= n /\ i + 1 <= n
      BY <1>1, <1>7
    <2>2. i \in 1..n /\ s[i] \in Bytes /\ s[i + 1] \in Bytes
      BY <1>2, <1>3, <2>1, Zenon
    <2>3. EncodeTuple(s[i], s[i + 1], 0, 2) \in Seq(Codes) /\ Len(EncodeTuple(s[i], s[i + 1], 0, 2)) = 4
      BY <2>2, TupleEncoded, Zenon
    <2>4. E[i] = EncodeTuple(s[i], s[i + 1], 0, 2)
      BY <1>1, <1>3, <1>7, EncodeTwo DEF n
    <2>5. SubSeq(s, i, n) = <<s[i], s[i + 1]>>
      BY <1>7, <2>2, NextBytes, Zenon DEF n
    <2>6. ReadAs(EncodeTuple(s[i], s[i + 1], 0, 2), <<s[i], s[i + 1]>>)
      BY <2>2, TwoReadAs
    <2>. QED  BY <1>4, <2>3, <2>4, <2>5, <2>6, Zenon DEF ReadBack, n
  <1>8. CASE i + 2 <= n
    <2>. DEFINE e == EncodeTuple(s[i], s[i + 1], s[i + 2], 3)
                r == E[i + 3]
                y == SubSeq(s, i + 3, n)
    <2>1. i <= n
      BY <1>1, <1>8
    <2>2. i \in 1..n /\ s[i] \in Bytes /\ s[i + 1] \in Bytes /\ s[i + 2] \in Bytes
      BY <1>2, <1>3, <1>8, <2>1, Zenon
    <2>3. e \in Seq(Codes) /\ Len(e) = 4
      BY <2>2, TupleEncoded, Zenon
    <2>4. E[i] = e \o r
      BY <1>1, <1>3, <1>8, EncodeThree DEF n
    <2>5. SubSeq(s, i, n) = <<s[i], s[i + 1], s[i + 2]>> \o y
      BY <1>8, <2>2, NextBytes, Zenon DEF n
    <2>6. r \in Seq(Codes) /\ Len(r) % 4 = 0 /\ ReadAs(r, y)
      BY <1>3, <1>8, Zenon DEF ReadBack, n
    <2>7. y \in Seq(Int)
      <3>1. i + 3 \in 1..Len(s) + 1 /\ n \in (i + 3) - 1..Len(s)
        BY <1>1, <1>8 DEF n
      <3>2. s \in Seq(Int)
        BY BytesAreNumbers, Zenon
      <3>. QED  BY <3>1, <3>2, Pieces
    <2>. HIDE DEF r, y
    <2>8. ReadAs(e \o r, <<s[i], s[i + 1], s[i + 2]>> \o y)
      BY <2>2, <2>6, <2>7, ThreeReadAs
    <2>. HIDE DEF e
    <2>9. e \o r \in Seq(Codes) /\ Len(e \o r) % 4 = 0
      BY <2>3, <2>6, MoreTuples
    <2>. QED  BY <2>4, <2>5, <2>8, <2>9, Zenon DEF ReadBack, n
  <1>. QED  BY <1>3, <1>5, <1>6, <1>7, <1>8, Zenon

\* lbase64.c: the text encoded from any bytes is of complete tuples, and
\* Ldecode makes the same bytes of it.
LEMMA EncodedIsReadBack ==
    ASSUME NEW s \in Seq(Bytes)
    PROVE  LEncode(s) \in Seq(Codes) /\ Len(LEncode(s)) % 4 = 0 /\ ReadAs(LEncode(s), s)
  <1>. DEFINE n == Len(s)
  <1>1. PICK E : LEncode(s) = E[1] /\ \A i \in 1..n + 1 : E[i] = EncodeFrom(s, E, i)
    BY EncodeIsEncodes
  <1>. DEFINE T == {i \in 1..n + 1 : ReadBack(s, E, i)}
  <1>2. n \in Nat /\ 1 \in 1..n + 1
    OBVIOUS
  <1>3. ASSUME NEW i \in 1..n + 1, \A j \in i + 1..n + 1 : j \in T
        PROVE  i \in T
    <2>1. i + 3 \in i + 1..Len(s) + 1 => ReadBack(s, E, i + 3)
      <3>1. i + 3 \in i + 1..n + 1 => i + 3 \in T
        BY <1>3, Zenon
      <3>. QED  BY <3>1, Zenon
    <2>2. E[i] = EncodeFrom(s, E, i)
      BY <1>1
    <2>3. ReadBack(s, E, i)
      BY <2>1, <2>2, ReadBackStep
    <2>. QED  BY <2>3
  <1>4. \A i \in 1..n + 1 : i \in T
    <2>. HIDE DEF n, T
    <2>. QED  BY <1>2, <1>3, DownFrom
  <1>5. ReadBack(s, E, 1)
    BY <1>2, <1>4
  <1>6. SubSeq(s, 1, n) = s
    BY SubSeqFull
  <1>. QED  BY <1>1, <1>5, <1>6, Zenon DEF ReadBack

\* lbase64.c 31-110: what Lencode makes of any bytes has complete tuples, and
\* Ldecode makes the same bytes of it, wherever a blank is put into it.
THEOREM DecodingInvertsEncoding ==
    ASSUME NEW s \in Seq(Bytes), NEW k \in Nat
    PROVE  LET text == LEncode(s)
               b == IF k > Len(text) THEN Len(text) ELSE k
               broken == SubSeq(text, 1, b) \o <<Whitespace>> \o SubSeq(text, b + 1, Len(text))
           IN /\ LDecode(broken) = [ok |-> TRUE, bytes |-> s]
              /\ Len(text) % 4 = 0
  <1>. DEFINE text == LEncode(s)
              b == IF k > Len(text) THEN Len(text) ELSE k
              broken == SubSeq(text, 1, b) \o <<Whitespace>> \o SubSeq(text, b + 1, Len(text))
  <1>1. text \in Seq(Codes) /\ Len(text) % 4 = 0 /\ ReadAs(text, s)
    BY EncodedIsReadBack
  <1>. HIDE DEF text
  <1>2. b \in 0..Len(text)
    BY <1>1
  <1>. HIDE DEF b
  <1>3. /\ broken \in Seq(Codes) /\ Len(broken) = Len(text) + 1 /\ broken[b + 1] = Whitespace
        /\ \A j \in 1..b : broken[j] = text[j]
        /\ \A j \in b + 1..Len(text) : broken[j + 1] = text[j]
    BY <1>1, <1>2, WithBlank
  <1>. HIDE DEF broken
  <1>4. PICK F : Reads(broken, F) /\ LDecode(broken) = F[<<1, <<>>>>]
    BY <1>3, DecodeReads
  <1>5. PICK W : Reads(text, W) /\ W[<<1, <<>>>>] = F[<<1, <<>>>>]
    BY <1>1, <1>2, <1>3, <1>4, SkipBlank
  <1>6. <<>> \in Seq(Codes) /\ <<>> \o text = text /\ Len(<<>>) + 1 = 1
    <2>1. <<>> \in Seq(Codes) /\ <<>> \o text = text
      BY <1>1, ConcatEmptySeq, EmptySeq
    <2>. QED  BY <2>1
  <1>7. W[<<1, <<>>>>] = Success(s)
    BY <1>1, <1>5, <1>6, Zenon DEF ReadAs
  <1>8. LDecode(broken) = [ok |-> TRUE, bytes |-> s]
    BY <1>4, <1>5, <1>7, Zenon DEF Success
  <1>. QED  BY <1>1, <1>8, Zenon DEF broken, b, text

-------------------------------------------------------------------------------
(* icmp_sender.m: sums of words. *)

\* All bits of a word, a limit of what is folded, and its multiples.
Ones == 65535
FoldLimit == 4294967296
Multiples == {x \in Nat : \E q \in Nat : x = Ones * q}

\* Folding a sum into a word changes nothing but a multiple of Ones, and makes
\* zero of nothing but zero.
LEMMA FoldedFacts ==
    ASSUME NEW x \in Nat, x < FoldLimit
    PROVE  /\ Folded(x) \in Nat /\ Folded(x) <= Ones
           /\ \E q \in Nat : x = Folded(x) + Ones * q
           /\ x > 0 => Folded(x) > 0
  <1>. DEFINE h == x \div 65536
              l == x % 65536
              once == h + l
              g == once \div 65536
              f == (once + g) % 65536
  <1>1. h \in Nat /\ l \in Nat /\ x = 65536 * h + l /\ l <= 65535
    BY SMT
  <1>2. h <= 65535
    BY SMT DEF FoldLimit
  <1>. HIDE DEF h, l
  <1>3. once \in Nat /\ once <= 131070
    BY <1>1, <1>2, SMT
  <1>. HIDE DEF once
  <1>4. g \in Nat /\ (once < 65536 => g = 0) /\ (once >= 65536 => g = 1)
    BY <1>3, SMT
  <1>. HIDE DEF g
  <1>5. f \in Nat /\ (once < 65536 => f = once) /\ (once >= 65536 => f = once + 1 - 65536)
    BY <1>3, <1>4, SMT
  <1>. HIDE DEF f
  <1>6. f = once - 65535 * g /\ f <= 65535
    BY <1>3, <1>4, <1>5, SMT
  <1>7. x = f + 65535 * (h + g)
    BY <1>1, <1>3, <1>4, <1>6, SMT DEF once
  <1>8. x > 0 => f > 0
    BY <1>1, <1>3, <1>5, SMT DEF once
  <1>9. Folded(x) = f
    BY SMT DEF Folded, f, g, once, h, l
  <1>10. h + g \in Nat
    BY <1>1, <1>4, SMT
  <1>. QED  BY <1>5, <1>6, <1>7, <1>8, <1>9, <1>10, SMT DEF Ones

\* A multiple of Ones that is not zero folds to Ones.
LEMMA FoldedMultiple ==
    ASSUME NEW x \in Multiples, x < FoldLimit, x > 0
    PROVE  Folded(x) = Ones
  <1>. DEFINE f == Folded(x)
  <1>1. x \in Nat
    BY DEF Multiples
  <1>2. PICK p \in Nat : x = 65535 * p
    BY SMT DEF Multiples, Ones
  <1>3. f \in Nat /\ f <= Ones /\ f > 0
    BY <1>1, FoldedFacts
  <1>4. PICK q \in Nat : x = f + Ones * q
    BY <1>1, FoldedFacts
  <1>. HIDE DEF f
  <1>5. f = 65535 * (p - q)
    BY <1>1, <1>2, <1>3, <1>4, SMT DEF Ones
  <1>6. p - q = 1
    BY <1>3, <1>5, SMT DEF Ones
  <1>. QED  BY <1>5, <1>6, SMT DEF Ones, f

\* What a sum with its checksum is.
LEMMA ChecksumCompletes ==
    ASSUME NEW x \in Nat, x < FoldLimit
    PROVE  x + (Ones - Folded(x)) \in Multiples
  <1>. DEFINE f == Folded(x)
  <1>1. f \in Nat /\ f <= Ones
    BY FoldedFacts
  <1>2. PICK q \in Nat : x = f + Ones * q
    BY FoldedFacts
  <1>. HIDE DEF f
  <1>3. x + (Ones - f) = Ones * (q + 1)
    BY <1>1, <1>2, SMT DEF Ones
  <1>4. q + 1 \in Nat /\ x + (Ones - f) \in Nat
    BY <1>1, SMT DEF Ones
  <1>. QED  BY <1>3, <1>4, Zenon DEF Multiples, f

\* A sum of words is a multiple if it is one of the same words turned round.
LEMMA TurnedMultiple ==
    ASSUME NEW x \in Multiples, NEW y \in Nat, NEW q \in Nat, 256 * x = y + Ones * q
    PROVE  y \in Multiples
  <1>1. PICK p \in Nat : x = 65535 * p
    BY SMT DEF Multiples, Ones
  <1>2. y = 65535 * (256 * p - q)
    BY <1>1, SMT DEF Ones
  <1>3. 256 * p - q >= 0
    BY <1>2, SMT
  <1>4. 256 * p - q \in Nat /\ y = Ones * (256 * p - q)
    BY <1>2, <1>3, SMT DEF Ones
  <1>. QED  BY <1>4, Zenon DEF Multiples

\* What the loop of in_cksum adds at byte i: a word at each odd one.
ByteAt(b, i) == IF i > Len(b) THEN 0 ELSE b[i]
WordAt(b, first, i) ==
    IF i % 2 = 1 THEN first * ByteAt(b, i) + (256 \div first) * ByteAt(b, i + 1) ELSE 0

\* The sum after byte i.
SumStep(b, first, F, i) == IF i = 0 THEN 0 ELSE F[i - 1] + WordAt(b, first, i)

\* F gives the sum up to every byte.
WordSums(b, first, F) == F[0] = 0 /\ \A i \in 1..Len(b) : F[i] = F[i - 1] + WordAt(b, first, i)

\* A byte, or zero after the last one.
LEMMA ByteAtType ==
    ASSUME NEW b \in Seq(Bytes), NEW i \in Nat, i > 0
    PROVE  ByteAt(b, i) \in Nat /\ ByteAt(b, i) <= 255
  <1>1. CASE i > Len(b)
    BY <1>1 DEF ByteAt
  <1>2. CASE ~(i > Len(b))
    <2>1. i \in 1..Len(b)
      BY <1>2
    <2>2. b[i] \in Bytes /\ ByteAt(b, i) = b[i]
      BY <1>2, <2>1, ElementOfSeq DEF ByteAt
    <2>3. \A c \in Bytes : c \in Nat /\ c <= 255
      BY DEF Bytes
    <2>. QED  BY <2>2, <2>3, Zenon
  <1>. QED  BY <1>1, <1>2, Zenon

\* The two ways to read the bytes of a word.
LEMMA WordAtFacts ==
    ASSUME NEW b \in Seq(Bytes), NEW i \in Nat, i > 0
    PROVE  /\ WordAt(b, LittleEndian, i)
                 = IF i % 2 = 1 THEN ByteAt(b, i) + 256 * ByteAt(b, i + 1) ELSE 0
           /\ WordAt(b, BigEndian, i)
                 = IF i % 2 = 1 THEN 256 * ByteAt(b, i) + ByteAt(b, i + 1) ELSE 0
           /\ WordAt(b, LittleEndian, i) \in Nat /\ WordAt(b, LittleEndian, i) <= Ones
           /\ WordAt(b, BigEndian, i) \in Nat /\ WordAt(b, BigEndian, i) <= Ones
           /\ 256 * WordAt(b, LittleEndian, i)
                 = WordAt(b, BigEndian, i) + Ones * (IF i % 2 = 1 THEN ByteAt(b, i + 1) ELSE 0)
  <1>. DEFINE x == ByteAt(b, i)
              y == ByteAt(b, i + 1)
              odd == i % 2 = 1
              u == WordAt(b, LittleEndian, i)
              v == WordAt(b, BigEndian, i)
  <1>1. x \in Nat /\ x <= 255
    BY ByteAtType
  <1>2. y \in Nat /\ y <= 255
    <2>1. i + 1 \in Nat /\ i + 1 > 0
      OBVIOUS
    <2>. QED  BY <2>1, ByteAtType
  <1>3. u = IF odd THEN LittleEndian * x + (256 \div LittleEndian) * y ELSE 0
    BY Zenon DEF WordAt
  <1>4. v = IF odd THEN BigEndian * x + (256 \div BigEndian) * y ELSE 0
    BY Zenon DEF WordAt
  <1>. HIDE DEF x, y, u, v, odd
  <1>5. LittleEndian * x + (256 \div LittleEndian) * y = x + 256 * y
    BY <1>1, <1>2, SMT DEF LittleEndian
  <1>6. BigEndian * x + (256 \div BigEndian) * y = 256 * x + y
    BY <1>1, <1>2, SMT DEF BigEndian
  <1>7. u = (IF odd THEN x + 256 * y ELSE 0) /\ v = (IF odd THEN 256 * x + y ELSE 0)
    BY <1>3, <1>4, <1>5, <1>6, Zenon
  <1>8. u \in Nat /\ u <= Ones /\ v \in Nat /\ v <= Ones
    BY <1>1, <1>2, <1>7, SMT DEF Ones
  <1>9. 256 * u = v + Ones * (IF odd THEN y ELSE 0)
    BY <1>1, <1>2, <1>7, SMT DEF Ones
  <1>. QED  BY <1>7, <1>8, <1>9, Zenon DEF x, y, u, v, odd

\* Such a function exists, and in_cksum gives its last value.
LEMMA SumsExists ==
    ASSUME NEW b \in Seq(Bytes), NEW first, first = LittleEndian \/ first = BigEndian
    PROVE  \E F : F = [i \in 0..Len(b) |-> SumStep(b, first, F, i)]
  <1>. DEFINE n == Len(b)
              G == [i \in 0..n |-> [f \in [0..n -> Nat] |-> SumStep(b, first, f, i)]]
  <1>1. n \in Nat
    OBVIOUS
  <1>2. Causal(G, n, Nat)
    <2>1. ASSUME NEW i \in 0..n, NEW f \in [0..n -> Nat]
          PROVE  G[i][f] = SumStep(b, first, f, i)
      OBVIOUS
    <2>. HIDE DEF G
    <2>2. ASSUME NEW i \in 0..n, NEW f \in [0..n -> Nat]
          PROVE  SumStep(b, first, f, i) \in Nat
      <3>. HIDE DEF n
      <3>1. CASE i = 0
        BY <3>1 DEF SumStep
      <3>2. CASE i # 0
        <4>1. i \in Nat /\ i > 0 /\ i - 1 \in 0..n
          BY <1>1, <3>2
        <4>2. WordAt(b, first, i) \in Nat
          BY <4>1, WordAtFacts
        <4>3. f[i - 1] \in Nat
          BY <4>1
        <4>4. f[i - 1] + WordAt(b, first, i) \in Nat
          BY <4>2, <4>3
        <4>. QED  BY <3>2, <4>4, Zenon DEF SumStep
      <3>. QED  BY <3>1, <3>2, Zenon
    <2>3. ASSUME NEW i \in 0..n, NEW f \in [0..n -> Nat], NEW g \in [0..n -> Nat],
                 \A j \in 0..i - 1 : f[j] = g[j]
          PROVE  SumStep(b, first, f, i) = SumStep(b, first, g, i)
      <3>. HIDE DEF n
      <3>1. i # 0 => i - 1 \in 0..i - 1
        BY <1>1
      <3>2. i # 0 => f[i - 1] = g[i - 1]
        BY <2>3, <3>1, Zenon
      <3>. QED  BY <3>2, Zenon DEF SumStep
    <2>4. \A i \in 0..n : \A f \in [0..n -> Nat] : G[i][f] \in Nat
      BY <2>1, <2>2
    <2>5. ASSUME NEW i \in 0..n, NEW f \in [0..n -> Nat], NEW g \in [0..n -> Nat],
                 \A j \in 0..i - 1 : f[j] = g[j]
          PROVE  G[i][f] = G[i][g]
      <3>. HIDE DEF n
      <3>1. SumStep(b, first, f, i) = SumStep(b, first, g, i)
        BY <2>3, <2>5
      <3>2. G[i][f] = SumStep(b, first, f, i) /\ G[i][g] = SumStep(b, first, g, i)
        BY <2>1
      <3>. QED  BY <3>1, <3>2, Zenon
    <2>6. Nat # {}
      BY 0 \in Nat
    <2>. HIDE DEF n
    <2>. QED  BY <2>4, <2>5, <2>6, Zenon DEF Causal
  <1>3. PICK f \in [0..n -> Nat] : \A i \in 0..n : f[i] = G[i][f]
    <2>. HIDE DEF n, G
    <2>. QED  BY <1>1, <1>2, Recursion
  <1>4. \A i \in 0..n : f[i] = SumStep(b, first, f, i)
    BY <1>3
  <1>5. f = [i \in 0..n |-> SumStep(b, first, f, i)]
    <2>. HIDE DEF n, G
    <2>. QED  BY <1>3, <1>4
  <1>. QED  BY <1>5

\* in_cksum gives the sum after the last byte.
LEMMA WordSumIsLast ==
    ASSUME NEW b \in Seq(Bytes), NEW first, first = LittleEndian \/ first = BigEndian
    PROVE  \E F : WordSums(b, first, F) /\ WordSum(b, first) = F[Len(b)]
  <1>. DEFINE R == CHOOSE sum : sum = [i \in 0..Len(b) |-> SumStep(b, first, sum, i)]
  <1>1. WordSum(b, first) = R[Len(b)]
    BY Zenon DEF WordSum, SumStep, WordAt, ByteAt
  <1>2. R = [i \in 0..Len(b) |-> SumStep(b, first, R, i)]
    <2>1. \E F : F = [i \in 0..Len(b) |-> SumStep(b, first, F, i)]
      BY SumsExists
    <2>. QED  BY <2>1, Zenon
  <1>. HIDE DEF R
  <1>3. \A i \in 0..Len(b) : R[i] = SumStep(b, first, R, i)
    BY <1>2, Zenon
  <1>4. 0 \in 0..Len(b) /\ \A i \in 1..Len(b) : i \in 0..Len(b) /\ i # 0
    OBVIOUS
  <1>5. WordSums(b, first, R)
    BY <1>3, <1>4, Zenon DEF WordSums, SumStep
  <1>. QED  BY <1>1, <1>5

\* The sums of the same bytes read both ways, up to byte i.
Turned(b, L, B, i) ==
    /\ L[i] \in Nat /\ L[i] <= Ones * i
    /\ B[i] \in Nat /\ B[i] <= Ones * i
    /\ i > 0 => B[i] >= b[1] /\ L[i] >= b[1]
    /\ \E q \in Nat : 256 * L[i] = B[i] + Ones * q

\* A word turned around keeps the sums turned around.
LEMMA TurnedStep ==
    ASSUME NEW b \in Seq(Bytes), NEW L, NEW B, WordSums(b, LittleEndian, L), WordSums(b, BigEndian, B),
           NEW i \in 1..Len(b), Turned(b, L, B, i - 1)
    PROVE  Turned(b, L, B, i)
  <1>. DEFINE u == WordAt(b, LittleEndian, i)
              v == WordAt(b, BigEndian, i)
              l == L[i - 1]
              m == B[i - 1]
              z == IF i % 2 = 1 THEN ByteAt(b, i + 1) ELSE 0
  <1>1. L[i] = l + u /\ B[i] = m + v
    BY Zenon DEF WordSums
  <1>2. i \in Nat /\ i > 0 /\ i - 1 \in Nat /\ i + 1 \in Nat /\ i + 1 > 0
    OBVIOUS
  <1>3. u \in Nat /\ u <= Ones /\ v \in Nat /\ v <= Ones /\ 256 * u = v + Ones * z
    BY <1>2, WordAtFacts
  <1>4. z \in Nat
    <2>1. ByteAt(b, i + 1) \in Nat
      BY <1>2, ByteAtType
    <2>. QED  BY <2>1
  <1>5. l \in Nat /\ l <= Ones * (i - 1) /\ m \in Nat /\ m <= Ones * (i - 1)
    BY Zenon DEF Turned
  <1>6. i - 1 > 0 => m >= b[1] /\ l >= b[1]
    BY Zenon DEF Turned
  <1>7. PICK q \in Nat : 256 * l = m + Ones * q
    BY Zenon DEF Turned
  <1>8. i = 1 => u >= b[1] /\ v >= b[1]
    <2>1. ASSUME i = 1 PROVE u >= b[1] /\ v >= b[1]
      <3>1. i % 2 = 1 /\ ~(i > Len(b))
        BY <2>1
      <3>2. ByteAt(b, i) = b[1]
        BY <2>1, <3>1 DEF ByteAt
      <3>3. /\ u = ByteAt(b, i) + 256 * ByteAt(b, i + 1)
            /\ v = 256 * ByteAt(b, i) + ByteAt(b, i + 1)
        BY <1>2, <3>1, WordAtFacts
      <3>4. ByteAt(b, i) \in Nat /\ ByteAt(b, i + 1) \in Nat
        BY <1>2, ByteAtType
      <3>. HIDE DEF u, v
      <3>. QED  BY <3>2, <3>3, <3>4
    <2>. QED  BY <2>1
  <1>9. b[1] \in Nat
    <2>1. 1 \in 1..Len(b)
      BY <1>2
    <2>2. b[1] \in Bytes /\ \A c \in Bytes : c \in Nat
      BY <2>1, ElementOfSeq DEF Bytes
    <2>. QED  BY <2>2, Zenon
  <1>. HIDE DEF u, v, l, m, z
  <1>10. /\ l + u \in Nat /\ l + u <= Ones * i /\ m + v \in Nat /\ m + v <= Ones * i
         /\ m + v >= b[1] /\ l + u >= b[1]
    <2>1. i # 1 => i - 1 > 0
      BY <1>2
    <2>2. m + v >= b[1] /\ l + u >= b[1]
      BY <1>3, <1>5, <1>6, <1>8, <1>9, <2>1
    <2>3. l + u \in Nat /\ l + u <= Ones * i /\ m + v \in Nat /\ m + v <= Ones * i
      BY <1>2, <1>3, <1>5, SMT DEF Ones
    <2>. QED  BY <2>2, <2>3
  <1>11. 256 * (l + u) = (m + v) + Ones * (q + z) /\ q + z \in Nat
    BY <1>3, <1>4, <1>5, <1>7, SMT DEF Ones
  <1>. QED  BY <1>1, <1>10, <1>11, Zenon DEF Turned

\* Reading the words of a string both ways.
LEMMA SumsTurned ==
    ASSUME NEW b \in Seq(Bytes)
    PROVE  LET l == WordSum(b, LittleEndian)
               m == WordSum(b, BigEndian)
           IN /\ l \in Nat /\ l <= Ones * Len(b)
              /\ m \in Nat /\ m <= Ones * Len(b)
              /\ Len(b) > 0 => m >= b[1] /\ l >= b[1]
              /\ \E q \in Nat : 256 * l = m + Ones * q
  <1>1. PICK L : WordSums(b, LittleEndian, L) /\ WordSum(b, LittleEndian) = L[Len(b)]
    BY WordSumIsLast
  <1>2. PICK B : WordSums(b, BigEndian, B) /\ WordSum(b, BigEndian) = B[Len(b)]
    BY WordSumIsLast
  <1>. DEFINE n == Len(b)
              T == {i \in 0..n : Turned(b, L, B, i)}
  <1>3. n \in Nat /\ n \in 0..n /\ 0 \in 0..n
    OBVIOUS
  <1>4. 0 \in T
    <2>1. L[0] = 0 /\ B[0] = 0
      BY <1>1, <1>2, Zenon DEF WordSums
    <2>2. 0 \in Nat /\ 0 <= Ones * 0 /\ ~(0 > 0) /\ 256 * 0 = 0 + Ones * 0
      BY SMT DEF Ones
    <2>3. Turned(b, L, B, 0)
      BY <2>1, <2>2, Zenon DEF Turned
    <2>. QED  BY <1>3, <2>3
  <1>5. ASSUME NEW i \in 1..n, i - 1 \in T PROVE i \in T
    <2>1. Turned(b, L, B, i) /\ i \in 0..n
      BY <1>1, <1>2, <1>5, TurnedStep
    <2>. QED  BY <2>1
  <1>6. \A i \in 0..n : i \in T
    <2>. HIDE DEF n, T
    <2>. QED  BY <1>3, <1>4, <1>5, UpTo
  <1>7. Turned(b, L, B, n)
    BY <1>3, <1>6
  <1>. QED  BY <1>1, <1>2, <1>7, Zenon DEF Turned

\* Two strings that differ in the second word, which is zero in one of them.
SecondWord(b, a) ==
    /\ Len(b) = Len(a) /\ Len(a) >= 4
    /\ a[3] = 0 /\ a[4] = 0
    /\ \A j \in 1..Len(a) : j # 3 /\ j # 4 => b[j] = a[j]

\* They have the same bytes at other places.
LEMMA SameByteAt ==
    ASSUME NEW b \in Seq(Bytes), NEW a \in Seq(Bytes), SecondWord(b, a),
           NEW i \in Nat, i > 0, i # 3, i # 4
    PROVE  ByteAt(b, i) = ByteAt(a, i)
  <1>1. Len(b) = Len(a) /\ Len(a) \in Nat
    BY Zenon, LenProperties DEF SecondWord
  <1>2. CASE i > Len(a)
    BY <1>1, <1>2, Zenon DEF ByteAt
  <1>3. CASE ~(i > Len(a))
    <2>1. i \in 1..Len(a)
      BY <1>1, <1>3
    <2>2. b[i] = a[i]
      BY <2>1, Zenon DEF SecondWord
    <2>. QED  BY <1>1, <1>3, <2>2, Zenon DEF ByteAt
  <1>. QED  BY <1>2, <1>3

\* What each byte adds to the sum of the one and of the other.
LEMMA SecondWordAdds ==
    ASSUME NEW b \in Seq(Bytes), NEW a \in Seq(Bytes), SecondWord(b, a), NEW i \in 1..Len(a)
    PROVE  WordAt(b, LittleEndian, i) = WordAt(a, LittleEndian, i) + (IF i = 3 THEN b[3] + 256 * b[4] ELSE 0)
  <1>1. i \in Nat /\ i > 0 /\ i + 1 \in Nat /\ i + 1 > 0
    OBVIOUS
  <1>2. /\ WordAt(b, LittleEndian, i)
              = IF i % 2 = 1 THEN ByteAt(b, i) + 256 * ByteAt(b, i + 1) ELSE 0
        /\ WordAt(b, LittleEndian, i) \in Nat
    BY <1>1, WordAtFacts
  <1>3. /\ WordAt(a, LittleEndian, i)
              = IF i % 2 = 1 THEN ByteAt(a, i) + 256 * ByteAt(a, i + 1) ELSE 0
        /\ WordAt(a, LittleEndian, i) \in Nat
    BY <1>1, WordAtFacts
  <1>4. Len(b) = Len(a) /\ Len(a) \in Nat /\ Len(a) >= 4 /\ a[3] = 0 /\ a[4] = 0
    BY Zenon, LenProperties DEF SecondWord
  <1>5. CASE i = 3
    <2>1. ~(3 > Len(a)) /\ ~(4 > Len(a)) /\ 3 % 2 = 1 /\ 3 + 1 = 4
      BY <1>4
    <2>2. ByteAt(a, 3) = 0 /\ ByteAt(a, 4) = 0 /\ ByteAt(b, 3) = b[3] /\ ByteAt(b, 4) = b[4]
      BY <1>4, <2>1, Zenon DEF ByteAt
    <2>3. WordAt(b, LittleEndian, i) = b[3] + 256 * b[4]
      BY <1>2, <1>5, <2>1, <2>2, Zenon
    <2>4. WordAt(a, LittleEndian, i) = 0 + 256 * 0
      BY <1>3, <1>5, <2>1, <2>2, Zenon
    <2>. QED  BY <1>2, <1>5, <2>3, <2>4
  <1>6. CASE i # 3 /\ i % 2 = 1
    <2>1. i # 4 /\ i + 1 # 3 /\ i + 1 # 4
      BY <1>1, <1>6
    <2>2. ByteAt(b, i) = ByteAt(a, i)
      BY <1>1, <1>6, <2>1, SameByteAt
    <2>3. ByteAt(b, i + 1) = ByteAt(a, i + 1)
      BY <1>1, <2>1, SameByteAt
    <2>4. WordAt(b, LittleEndian, i) = WordAt(a, LittleEndian, i)
      BY <1>2, <1>3, <1>6, <2>2, <2>3, Zenon
    <2>. QED  BY <1>2, <1>6, <2>4
  <1>7. CASE i # 3 /\ ~(i % 2 = 1)
    <2>1. WordAt(b, LittleEndian, i) = 0 /\ WordAt(a, LittleEndian, i) = 0
      BY <1>2, <1>3, <1>7, Zenon
    <2>. QED  BY <1>7, <2>1
  <1>. QED  BY <1>5, <1>6, <1>7

\* The second word is added to the sum.
LEMMA SecondWordSum ==
    ASSUME NEW b \in Seq(Bytes), NEW a \in Seq(Bytes), SecondWord(b, a)
    PROVE  WordSum(b, LittleEndian) = WordSum(a, LittleEndian) + (b[3] + 256 * b[4])
  <1>1. PICK F : WordSums(b, LittleEndian, F) /\ WordSum(b, LittleEndian) = F[Len(b)]
    BY WordSumIsLast
  <1>2. PICK H : WordSums(a, LittleEndian, H) /\ WordSum(a, LittleEndian) = H[Len(a)]
    BY WordSumIsLast
  <1>3. Len(b) = Len(a) /\ Len(a) \in Nat /\ Len(a) >= 4
    BY Zenon, LenProperties DEF SecondWord
  <1>. DEFINE n == Len(a)
              c == b[3] + 256 * b[4]
              T == {i \in 0..n : H[i] \in Nat /\ F[i] = H[i] + (IF i >= 3 THEN c ELSE 0)}
  <1>4. n \in Nat /\ n \in 0..n /\ 0 \in 0..n /\ n >= 3
    BY <1>3
  <1>5. c \in Nat
    <2>1. 3 \in 1..Len(b) /\ 4 \in 1..Len(b)
      BY <1>3
    <2>2. b[3] \in Bytes /\ b[4] \in Bytes
      BY <2>1, ElementOfSeq
    <2>3. \A x, y \in Bytes : x + 256 * y \in Nat
      BY DEF Bytes
    <2>. QED  BY <2>2, <2>3
  <1>6. 0 \in T
    <2>1. F[0] = 0 /\ H[0] = 0
      BY <1>1, <1>2, Zenon DEF WordSums
    <2>. HIDE DEF c
    <2>2. 0 \in Nat /\ 0 = 0 + (IF 0 >= 3 THEN c ELSE 0)
      OBVIOUS
    <2>. QED  BY <1>4, <2>1, <2>2, Zenon
  <1>7. ASSUME NEW i \in 1..n, i - 1 \in T PROVE i \in T
    <2>. DEFINE u == WordAt(a, LittleEndian, i)
    <2>1. F[i] = F[i - 1] + WordAt(b, LittleEndian, i) /\ H[i] = H[i - 1] + u
      BY <1>1, <1>2, <1>3, Zenon DEF WordSums
    <2>2. u \in Nat
      <3>1. i \in Nat /\ i > 0
        OBVIOUS
      <3>. QED  BY <3>1, WordAtFacts
    <2>3. WordAt(b, LittleEndian, i) = u + (IF i = 3 THEN c ELSE 0)
      BY SecondWordAdds
    <2>4. H[i - 1] \in Nat /\ F[i - 1] = H[i - 1] + (IF i - 1 >= 3 THEN c ELSE 0)
      BY <1>7
    <2>. HIDE DEF u, c
    <2>5. i \in 0..n /\ i \in Nat
      OBVIOUS
    <2>6. H[i] \in Nat /\ F[i] = H[i] + (IF i >= 3 THEN c ELSE 0)
      <3>. DEFINE h == H[i - 1]
                  f == F[i - 1]
      <3>. HIDE DEF h, f, n, T
      <3>1. F[i] = f + (u + (IF i = 3 THEN c ELSE 0)) /\ H[i] = h + u
        BY <2>1, <2>3, Zenon DEF h, f
      <3>2. h \in Nat /\ f = h + (IF i - 1 >= 3 THEN c ELSE 0)
        BY <2>4, Zenon DEF h, f
      <3>. QED  BY <1>5, <2>2, <2>5, <3>1, <3>2
    <2>. QED  BY <2>5, <2>6
  <1>8. \A i \in 0..n : i \in T
    <2>. HIDE DEF n, T
    <2>. QED  BY <1>4, <1>6, <1>7, UpTo
  <1>9. F[n] = H[n] + c
    BY <1>4, <1>8
  <1>. QED  BY <1>1, <1>2, <1>3, <1>9, Zenon

\* The packet with any checksum in it.
PacketWith(c, identifier, sequence, data) ==
    <<8, 0>> \o Word(c) \o NetworkWord(identifier) \o NetworkWord(sequence) \o data

\* The words of 16 bits.
Words == {x \in Nat : x <= Ones}

\* A uint16_t is one of them.
LEMMA UInt16IsWord ==
    ASSUME NEW x \in UInt16
    PROVE  x \in Words
  BY SMT DEF Words, Ones, UInt16

\* The bytes of a word, in either order.
LEMMA WordFacts ==
    ASSUME NEW x \in Words
    PROVE  /\ x % 256 \in Bytes /\ x \div 256 \in Bytes /\ (x % 256) + 256 * (x \div 256) = x
           /\ Word(x) \in Seq(Bytes) /\ Len(Word(x)) = 2 /\ Word(x)[1] = x % 256 /\ Word(x)[2] = x \div 256
           /\ NetworkWord(x) \in Seq(Bytes) /\ Len(NetworkWord(x)) = 2
  <1>. DEFINE l == x % 256
              h == x \div 256
  <1>1. l \in Bytes /\ h \in Bytes /\ l + 256 * h = x
    BY SMT DEF Words, Ones, Bytes
  <1>. HIDE DEF l, h
  <1>2. <<l, h>> \in Seq(Bytes) /\ Len(<<l, h>>) = 2 /\ <<l, h>>[1] = l /\ <<l, h>>[2] = h
    BY <1>1
  <1>3. <<h, l>> \in Seq(Bytes) /\ Len(<<h, l>>) = 2
    BY <1>1
  <1>. QED  BY <1>1, <1>2, <1>3, Zenon DEF Word, NetworkWord, l, h

\* The first four bytes of a packet.
LEMMA FirstWords ==
    ASSUME NEW c \in Words
    PROVE  LET a == <<8, 0>> \o Word(c)
           IN /\ a \in Seq(Bytes) /\ Len(a) = 4
              /\ a[1] = 8 /\ a[2] = 0 /\ a[3] = c % 256 /\ a[4] = c \div 256
  <1>. DEFINE v == <<8, 0>>
              w == Word(c)
              a == v \o w
  <1>1. v \in Seq(Bytes) /\ Len(v) = 2 /\ v[1] = 8 /\ v[2] = 0
    BY DEF Bytes
  <1>2. w \in Seq(Bytes) /\ Len(w) = 2 /\ w[1] = c % 256 /\ w[2] = c \div 256
    BY WordFacts
  <1>. HIDE DEF v, w
  <1>3. /\ a \in Seq(Bytes) /\ Len(a) = Len(v) + Len(w)
        /\ \A i \in 1..Len(v) : a[i] = v[i]
        /\ \A i \in 1..Len(w) : a[Len(v) + i] = w[i]
    <2>1. v \in Seq(Bytes) /\ w \in Seq(Bytes)
      BY <1>1, <1>2
    <2>. QED  BY <2>1, Joined
  <1>. HIDE DEF a
  <1>4. 1 \in 1..2 /\ 2 \in 1..2 /\ 2 + 1 = 3 /\ 2 + 2 = 4
    OBVIOUS
  <1>5. Len(a) = 4 /\ a[1] = 8 /\ a[2] = 0
    <2>1. \A i \in 1..2 : a[i] = v[i]
      BY <1>1, <1>3, Zenon
    <2>2. Len(a) = 2 + 2
      BY <1>1, <1>2, <1>3, Zenon
    <2>. QED  BY <1>1, <1>4, <2>1, <2>2, Zenon
  <1>6. a[2 + 1] = w[1] /\ a[2 + 2] = w[2]
    <2>1. \A i \in 1..2 : a[2 + i] = w[i]
      BY <1>1, <1>2, <1>3, Zenon
    <2>. QED  BY <1>4, <2>1, Zenon
  <1>7. a[3] = c % 256 /\ a[4] = c \div 256
    BY <1>2, <1>4, <1>6, Zenon
  <1>. QED  BY <1>3, <1>5, <1>7, Zenon DEF a, v, w

\* The rest of it does not depend on the checksum.
LEMMA PacketParts ==
    ASSUME NEW c \in Words, NEW identifier \in Words, NEW sequence \in Words, NEW data \in Seq(Bytes)
    PROVE  LET r == (NetworkWord(identifier) \o NetworkWord(sequence)) \o data
           IN /\ r \in Seq(Bytes) /\ Len(r) = 4 + Len(data)
              /\ PacketWith(c, identifier, sequence, data) = (<<8, 0>> \o Word(c)) \o r
  <1>. DEFINE a == <<8, 0>> \o Word(c)
              x == NetworkWord(identifier)
              y == NetworkWord(sequence)
  <1>1. a \in Seq(Bytes)
    BY FirstWords
  <1>2. x \in Seq(Bytes) /\ Len(x) = 2 /\ y \in Seq(Bytes) /\ Len(y) = 2
    BY WordFacts
  <1>3. PacketWith(c, identifier, sequence, data) = ((a \o x) \o y) \o data
    BY Zenon DEF PacketWith
  <1>. HIDE DEF a, x, y
  <1>4. x \o y \in Seq(Bytes) /\ Len(x \o y) = Len(x) + Len(y)
    BY <1>2, Joined
  <1>5. (x \o y) \o data \in Seq(Bytes) /\ Len((x \o y) \o data) = Len(x \o y) + Len(data)
    BY <1>4, Joined
  <1>6. Len((x \o y) \o data) = 4 + Len(data)
    <2>1. 2 + 2 = 4
      OBVIOUS
    <2>. QED  BY <1>2, <1>4, <1>5, <2>1, Zenon
  <1>7. (a \o x) \o y = a \o (x \o y)
    <2>1. x \in Seq(Bytes) /\ y \in Seq(Bytes)
      BY <1>2
    <2>. QED  BY <1>1, <2>1, ConcatAssociative
  <1>8. (a \o (x \o y)) \o data = a \o ((x \o y) \o data)
    BY <1>1, <1>4, ConcatAssociative
  <1>. QED  BY <1>3, <1>5, <1>6, <1>7, <1>8, Zenon DEF a, x, y

\* A packet with a checksum and one with zero in its place.
LEMMA PacketFacts ==
    ASSUME NEW c \in Words, NEW identifier \in Words, NEW sequence \in Words, NEW data \in Seq(Bytes)
    PROVE  LET p == PacketWith(c, identifier, sequence, data)
               z == PacketWith(0, identifier, sequence, data)
           IN /\ p \in Seq(Bytes) /\ z \in Seq(Bytes) /\ Len(p) = 8 + Len(data) /\ Len(z) = 8 + Len(data)
              /\ p[1] = 8 /\ z[1] = 8 /\ p[3] + 256 * p[4] = c
              /\ SecondWord(p, z)
  <1>. DEFINE r == (NetworkWord(identifier) \o NetworkWord(sequence)) \o data
              p == PacketWith(c, identifier, sequence, data)
              z == PacketWith(0, identifier, sequence, data)
              a == <<8, 0>> \o Word(c)
              o == <<8, 0>> \o Word(0)
  <1>1. 0 \in Words
    BY SMT DEF Words, Ones
  <1>2. r \in Seq(Bytes) /\ Len(r) = 4 + Len(data) /\ p = a \o r
    BY PacketParts
  <1>3. z = o \o r
    BY <1>1, PacketParts
  <1>4. a \in Seq(Bytes) /\ Len(a) = 4 /\ a[1] = 8 /\ a[2] = 0 /\ a[3] = c % 256 /\ a[4] = c \div 256
    BY FirstWords
  <1>5. o \in Seq(Bytes) /\ Len(o) = 4 /\ o[1] = 8 /\ o[2] = 0 /\ o[3] = 0 /\ o[4] = 0
    <2>1. 0 % 256 = 0 /\ 0 \div 256 = 0
      BY SMT
    <2>2. o \in Seq(Bytes) /\ Len(o) = 4 /\ o[1] = 8 /\ o[2] = 0 /\ o[3] = 0 % 256 /\ o[4] = 0 \div 256
      BY <1>1, FirstWords
    <2>. QED  BY <2>1, <2>2, Zenon
  <1>6. (c % 256) + 256 * (c \div 256) = c
    BY WordFacts
  <1>. HIDE DEF r, p, z, a, o
  <1>7. /\ p \in Seq(Bytes) /\ Len(p) = 4 + Len(r)
        /\ \A i \in 1..4 : p[i] = a[i]
        /\ \A i \in 1..Len(r) : p[4 + i] = r[i]
    <2>1. a \in Seq(Bytes) /\ r \in Seq(Bytes) /\ Len(a) = 4
      BY <1>2, <1>4
    <2>2. p = a \o r
      BY <1>2
    <2>. QED  BY <2>1, <2>2, FourFirst
  <1>8. /\ z \in Seq(Bytes) /\ Len(z) = 4 + Len(r)
        /\ \A i \in 1..4 : z[i] = o[i]
        /\ \A i \in 1..Len(r) : z[4 + i] = r[i]
    <2>1. o \in Seq(Bytes) /\ r \in Seq(Bytes) /\ Len(o) = 4
      BY <1>2, <1>5
    <2>. QED  BY <1>3, <2>1, FourFirst
  <1>9. Len(data) \in Nat /\ Len(r) \in Nat /\ 1 \in 1..4 /\ 2 \in 1..4 /\ 3 \in 1..4 /\ 4 \in 1..4
    BY <1>2
  <1>10. Len(p) = 8 + Len(data) /\ Len(z) = 8 + Len(data) /\ Len(z) >= 4 /\ Len(z) = 4 + Len(r)
    <2>1. Len(r) = 4 + Len(data) /\ Len(p) = 4 + Len(r) /\ Len(z) = 4 + Len(r)
      BY <1>2, <1>7, <1>8, Zenon
    <2>2. \A n \in Nat : 4 + (4 + n) = 8 + n /\ 8 + n >= 4
      OBVIOUS
    <2>. QED  BY <1>9, <2>1, <2>2, Zenon
  <1>11. p[1] = 8 /\ z[1] = 8 /\ p[2] = 0 /\ z[2] = 0 /\ z[3] = 0 /\ z[4] = 0
    <2>1. p[1] = a[1] /\ p[2] = a[2]
      BY <1>7, <1>9, Zenon
    <2>2. z[1] = o[1] /\ z[2] = o[2] /\ z[3] = o[3] /\ z[4] = o[4]
      BY <1>8, <1>9, Zenon
    <2>. QED  BY <1>4, <1>5, <2>1, <2>2, Zenon
  <1>12. p[3] + 256 * p[4] = c
    <2>1. p[3] = a[3] /\ p[4] = a[4]
      BY <1>7, <1>9, Zenon
    <2>. QED  BY <1>4, <1>6, <2>1, Zenon
  <1>13. \A j \in 1..Len(z) : j # 3 /\ j # 4 => p[j] = z[j]
    <2>. SUFFICES ASSUME NEW j \in 1..Len(z), j # 3, j # 4 PROVE p[j] = z[j]
      OBVIOUS
    <2>1. j = 1 \/ j = 2 \/ (j - 4 \in 1..Len(r) /\ 4 + (j - 4) = j)
      BY <1>9, <1>10
    <2>2. CASE j - 4 \in 1..Len(r) /\ 4 + (j - 4) = j
      <3>1. p[4 + (j - 4)] = r[j - 4] /\ z[4 + (j - 4)] = r[j - 4]
        BY <1>7, <1>8, <2>2, Zenon
      <3>. QED  BY <2>2, <3>1, Zenon
    <2>. QED  BY <1>11, <2>1, <2>2, Zenon
  <1>14. SecondWord(p, z)
    BY <1>10, <1>11, <1>13, Zenon DEF SecondWord
  <1>. QED  BY <1>7, <1>8, <1>10, <1>11, <1>12, <1>14, Zenon DEF p, z

\* icmp_sender.m 77-115, 259-279: the words of a packet, read in network order
\* with the checksum among them, add up to all ones, whatever the identifier,
\* the sequence number and the payload are.
THEOREM PacketVerifies ==
    ASSUME NEW identifier \in UInt16, NEW sequence \in UInt16, NEW data \in Seq(Bytes),
           8 + Len(data) <= MaxSummed
    PROVE  Folded(WordSum(CreateIcmpPacket(identifier, sequence, data), BigEndian)) = 65535
  <1>. DEFINE z == PacketWith(0, identifier, sequence, data)
              s == WordSum(z, LittleEndian)
              c == Ones - Folded(s)
              p == PacketWith(c, identifier, sequence, data)
              n == 8 + Len(data)
              l == WordSum(p, LittleEndian)
              m == WordSum(p, BigEndian)
  <1>1. identifier \in Words /\ sequence \in Words
    BY UInt16IsWord
  <1>2. 0 \in Words
    BY SMT DEF Words, Ones
  <1>3. CreateIcmpPacket(identifier, sequence, data) = p
    BY SMT DEF CreateIcmpPacket, InCksum, PacketWith, Ones
  <1>4. z \in Seq(Bytes) /\ Len(z) = n /\ z[1] = 8
    BY <1>1, <1>2, PacketFacts
  <1>5. n \in Nat /\ n > 0
    OBVIOUS
  <1>6. n <= 65536
    BY SMT DEF MaxSummed
  <1>. HIDE DEF z, n
  <1>7. s \in Nat /\ s <= Ones * n
    BY <1>4, SumsTurned, Zenon
  <1>. HIDE DEF s
  <1>8. s < FoldLimit
    BY <1>5, <1>6, <1>7, SMT DEF Ones, FoldLimit
  <1>9. c \in Words
    <2>1. Folded(s) \in Nat /\ Folded(s) <= Ones
      BY <1>7, <1>8, FoldedFacts
    <2>. QED  BY <2>1, SMT DEF Words, Ones
  <1>10. s + c \in Multiples
    BY <1>7, <1>8, ChecksumCompletes
  <1>. HIDE DEF c
  <1>11. p \in Seq(Bytes) /\ Len(p) = n /\ p[1] = 8 /\ p[3] + 256 * p[4] = c /\ SecondWord(p, z)
    BY <1>1, <1>9, PacketFacts DEF n, z
  <1>. HIDE DEF p
  <1>12. l = s + (p[3] + 256 * p[4])
    BY <1>4, <1>11, SecondWordSum DEF s
  <1>13. l \in Multiples
    BY <1>10, <1>11, <1>12, Zenon
  <1>14. /\ m \in Nat /\ m <= Ones * n
         /\ n > 0 => m >= p[1]
         /\ \E q \in Nat : 256 * l = m + Ones * q
    BY <1>11, SumsTurned, Zenon
  <1>. HIDE DEF l, m
  <1>15. m \in Multiples
    <2>1. PICK q \in Nat : 256 * l = m + Ones * q
      BY <1>14
    <2>. QED  BY <1>13, <1>14, <2>1, TurnedMultiple
  <1>16. m < FoldLimit
    BY <1>5, <1>6, <1>14, SMT DEF Ones, FoldLimit
  <1>17. m > 0
    <2>1. m >= 8 /\ m \in Nat
      BY <1>5, <1>11, <1>14, Zenon
    <2>. QED  BY <2>1
  <1>18. Folded(m) = Ones
    BY <1>15, <1>16, <1>17, FoldedMultiple
  <1>. QED  BY <1>3, <1>18, SMT DEF m, Ones
==============================================================================
