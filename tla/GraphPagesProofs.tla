--------------------------- MODULE GraphPagesProofs ---------------------------
(***************************************************************************)
(* Proofs about GraphPages: a slice that is read to its last page is one   *)
(* graph, whatever changes in between.                                     *)
(***************************************************************************)
EXTENDS GraphPages, FiniteSetTheorems, TLAPS

-----------------------------------------------------------------------------
(* Induction                                                               *)

(* The natural numbers are well ordered.                                   *)
LEMMA LeastNatural ==
  ASSUME NEW T, T \subseteq Nat, T # {}
  PROVE  \E n \in T : \A m \in T : n <= m
<1> DEFINE Less == {pair \in Nat \X Nat : pair[1] < pair[2]}
<1>1. IsWellFoundedOn(Less, Nat)
  BY NatLessThanWellFounded DEF OpToRel
<1>2. PICK n \in T : \A m \in T : ~ (<<m, n>> \in Less)
  <2> HIDE DEF Less
  <2> QED  BY <1>1, WFMin
<1>3. \A m \in T : ~ (m < n)
  BY <1>2
<1> QED  BY <1>3

(* Induction, of a set: the theorems of the library take the predicate as  *)
(* an operator.                                                            *)
LEMMA SetInduction ==
  ASSUME NEW P, 0 \in P, \A n \in Nat : n \in P => n + 1 \in P
  PROVE  \A n \in Nat : n \in P
<1> DEFINE T == Nat \ P
<1> SUFFICES ASSUME T # {} PROVE FALSE
  OBVIOUS
<1>1. PICK n \in T : \A m \in T : n <= m
  <2> HIDE DEF T
  <2>1. T \subseteq Nat
    BY DEF T
  <2> QED  BY <2>1, LeastNatural
<1>2. n # 0
  OBVIOUS
<1>3. n - 1 \in Nat /\ n - 1 \notin T
  BY <1>1, <1>2
<1>4. n - 1 + 1 = n
  OBVIOUS
<1> QED  BY <1>3, <1>4

-----------------------------------------------------------------------------
(* The order of a slice                                                    *)

(* The sequence s holds each member of S once and nothing else.            *)
Enumerates(s, S) ==
  /\ s \in Seq(S)
  /\ \A n \in S : \E i \in 1..Len(s) : s[i] = n
  /\ \A i, j \in 1..Len(s) : s[i] = s[j] => i = j

(* A finite set of naturals can be listed in ascending order: its least    *)
(* member, and then the others.                                            *)
LEMMA AscendingExists ==
  ASSUME NEW S, S \subseteq Nat, IsFiniteSet(S)
  PROVE  \E s \in [1..Cardinality(S) -> S] :
           \A i, j \in 1..Cardinality(S) : i < j => s[i] < s[j]
<1> DEFINE Listed(R, c) == \E s \in [1..c -> R] : \A i, j \in 1..c : i < j => s[i] < s[j]
           P == {c \in Nat : \A R \in SUBSET Nat :
                               IsFiniteSet(R) /\ Cardinality(R) = c => Listed(R, c)}
<1>1. 0 \in P
  <2> SUFFICES ASSUME NEW R \in SUBSET Nat, IsFiniteSet(R), Cardinality(R) = 0
               PROVE  Listed(R, 0)
    OBVIOUS
  <2>1. 1..0 = {}
    OBVIOUS
  <2>2. [i \in 1..0 |-> 0] \in [1..0 -> R]
    BY <2>1
  <2> QED  BY <2>1, <2>2
<1>2. ASSUME NEW c \in Nat, c \in P
      PROVE  c + 1 \in P
  <2> SUFFICES ASSUME NEW R \in SUBSET Nat, IsFiniteSet(R), Cardinality(R) = c + 1
               PROVE  Listed(R, c + 1)
    OBVIOUS
  <2>1. R # {}
    BY FS_EmptySet
  <2>2. PICK n \in R : \A m \in R : n <= m
    BY <2>1, LeastNatural
  <2>3. /\ R \ {n} \in SUBSET Nat
        /\ IsFiniteSet(R \ {n}) /\ Cardinality(R \ {n}) = c
    <3>1. IsFiniteSet(R \ {n}) /\ Cardinality(R \ {n}) = Cardinality(R) - 1
      BY FS_RemoveElement
    <3> QED  BY <3>1
  <2>4. PICK s \in [1..c -> R \ {n}] : \A i, j \in 1..c : i < j => s[i] < s[j]
    BY <1>2, <2>3
  <2> DEFINE t == [i \in 1..(c + 1) |-> IF i = 1 THEN n ELSE s[i - 1]]
  <2>5. t \in [1..(c + 1) -> R]
    <3>1. \A i \in 1..(c + 1) : i # 1 => i - 1 \in 1..c
      OBVIOUS
    <3> QED  BY <2>4, <3>1
  <2>6. ASSUME NEW i \in 1..(c + 1), NEW j \in 1..(c + 1), i < j
        PROVE  t[i] < t[j]
    <3>1. j # 1 /\ j - 1 \in 1..c /\ t[j] = s[j - 1]
      BY <2>6
    <3>2. CASE i = 1
      <4>1. s[j - 1] \in R /\ s[j - 1] # n
        BY <2>4, <3>1
      <4>2. n \in Nat /\ s[j - 1] \in Nat /\ n <= s[j - 1]
        BY <2>2, <4>1
      <4> QED  BY <3>1, <3>2, <4>1, <4>2
    <3>3. CASE i # 1
      <4>1. i - 1 \in 1..c /\ t[i] = s[i - 1] /\ i - 1 < j - 1
        BY <2>6, <3>3
      <4> QED  BY <2>4, <3>1, <4>1
    <3> QED  BY <3>2, <3>3
  <2> HIDE DEF t
  <2> QED  BY <2>5, <2>6
<1>3. \A c \in Nat : c \in P
  <2> HIDE DEF P
  <2> QED  BY <1>1, <1>2, SetInduction
<1> QED  BY <1>3, FS_CardinalityType

LEMMA AscendingEnumerates ==
  ASSUME NEW S, S \subseteq Nat, IsFiniteSet(S)
  PROVE  Enumerates(Ascending(S), S)
<1> DEFINE s == Ascending(S)
           c == Cardinality(S)
<1>1. /\ s \in [1..c -> S]
      /\ \A i, j \in 1..c : i < j => s[i] < s[j]
  BY AscendingExists DEF Ascending
<1>2. c \in Nat
  BY FS_CardinalityType
<1> HIDE DEF s, c
<1>3. s \in Seq(S) /\ Len(s) = c
  BY <1>1, <1>2
<1>4. \A i, j \in 1..c : s[i] = s[j] => i = j
  <2> SUFFICES ASSUME NEW i \in 1..c, NEW j \in 1..c, s[i] = s[j] PROVE i = j
    OBVIOUS
  <2>1. s[i] \in Nat /\ s[j] \in Nat
    BY <1>1
  <2>2. ~ (i < j) /\ ~ (j < i)
    BY <1>1, <2>1
  <2> QED  BY <1>2, <2>2
<1>5. \A n \in S : \E i \in 1..c : s[i] = n
  <2>1. s \in Injection(1..c, S)
    BY <1>1, <1>4 DEF Injection, IsInjective
  <2>2. Cardinality(1..c) = Cardinality(S)
    BY <1>2, FS_Interval DEF c
  <2>3. s \in Surjection(1..c, S)
    BY <2>1, <2>2, FS_Injection
  <2> QED  BY <2>3 DEF Surjection
<1> QED  BY <1>3, <1>4, <1>5 DEF Enumerates, s

LEMMA ConcatEnumerates ==
  ASSUME NEW S, NEW T, NEW s, NEW t, Enumerates(s, S), Enumerates(t, T), S \cap T = {}
  PROVE  Enumerates(s \o t, S \cup T)
<1> DEFINE u == s \o t
<1>1. /\ s \in Seq(S \cup T) /\ t \in Seq(S \cup T)
      /\ \A i \in 1..Len(s) : s[i] \in S
      /\ \A i \in 1..Len(t) : t[i] \in T
  BY DEF Enumerates
<1>2. /\ u \in Seq(S \cup T) /\ Len(u) = Len(s) + Len(t)
      /\ \A i \in 1..Len(s) : u[i] = s[i]
      /\ \A i \in 1..Len(t) : u[Len(s) + i] = t[i]
  BY <1>1
<1>3. Len(s) \in Nat /\ Len(t) \in Nat
  BY <1>1
<1> HIDE DEF u
<1>4. \A i \in 1..Len(u) : \/ i \in 1..Len(s)
                           \/ i - Len(s) \in 1..Len(t) /\ i = Len(s) + (i - Len(s))
  BY <1>2, <1>3
<1>5. \A n \in S \cup T : \E i \in 1..Len(u) : u[i] = n
  <2>1. ASSUME NEW n \in S PROVE \E i \in 1..Len(u) : u[i] = n
    <3>1. PICK i \in 1..Len(s) : s[i] = n
      BY DEF Enumerates
    <3> QED  BY <3>1, <1>2, <1>3
  <2>2. ASSUME NEW n \in T PROVE \E i \in 1..Len(u) : u[i] = n
    <3>1. PICK i \in 1..Len(t) : t[i] = n
      BY DEF Enumerates
    <3>2. Len(s) + i \in 1..Len(u)
      BY <1>2, <1>3
    <3> QED  BY <3>1, <3>2, <1>2
  <2> QED  BY <2>1, <2>2
<1>6. ASSUME NEW i \in 1..Len(u), NEW j \in 1..Len(u), u[i] = u[j]
      PROVE  i = j
  <2>1. CASE i \in 1..Len(s) /\ j \in 1..Len(s)
    BY <1>2, <1>6, <2>1 DEF Enumerates
  <2>2. CASE i \in 1..Len(s) /\ j - Len(s) \in 1..Len(t)
    <3>1. u[i] \in S
      BY <1>1, <1>2, <2>2
    <3>2. u[j] \in T
      <4>1. u[j] = t[j - Len(s)]
        BY <1>2, <1>3, <2>2
      <4> QED  BY <1>1, <2>2, <4>1
    <3> QED  BY <1>6, <3>1, <3>2
  <2>3. CASE i - Len(s) \in 1..Len(t) /\ j \in 1..Len(s)
    <3>1. u[j] \in S
      BY <1>1, <1>2, <2>3
    <3>2. u[i] \in T
      <4>1. u[i] = t[i - Len(s)]
        BY <1>2, <1>3, <2>3
      <4> QED  BY <1>1, <2>3, <4>1
    <3> QED  BY <1>6, <3>1, <3>2
  <2>4. CASE i - Len(s) \in 1..Len(t) /\ j - Len(s) \in 1..Len(t)
    <3>1. t[i - Len(s)] = t[j - Len(s)]
      BY <1>2, <1>3, <1>6, <2>4
    <3>2. i - Len(s) = j - Len(s)
      BY <2>4, <3>1 DEF Enumerates
    <3> QED  BY <1>3, <3>2
  <2> QED  BY <1>4, <2>1, <2>2, <2>3, <2>4
<1> QED  BY <1>2, <1>5, <1>6 DEF Enumerates, u

-----------------------------------------------------------------------------
(* The rounds of expand                                                    *)

(* What the recursion of Rounds says is so: a function that satisfies it   *)
(* exists, for one more round each time, and Rounds is one.                *)
LEMMA RoundsStep ==
  ASSUME NEW g, NEW q, q.depth \in Nat
  PROVE  /\ Rounds(g, q)[0] = Roots(q)
         /\ \A k \in 1..q.depth : Rounds(g, q)[k] = Round(g, q, Rounds(g, q)[k - 1])
<1> DEFINE A(f, k) == IF k = 0 THEN Roots(q) ELSE Round(g, q, f[k - 1])
           P == {n \in Nat : \E f : f = [k \in 0..n |-> A(f, k)]}
<1>1. 0 \in P
  <2> DEFINE f == [k \in 0..0 |-> Roots(q)]
  <2>1. f = [k \in 0..0 |-> A(f, k)]
    <3>1. \A k \in 0..0 : A(f, k) = Roots(q)
      OBVIOUS
    <3> QED  BY <3>1
  <2> HIDE DEF f
  <2> QED  BY <2>1
<1>2. ASSUME NEW n \in Nat, n \in P
      PROVE  n + 1 \in P
  <2>1. PICK f : f = [k \in 0..n |-> A(f, k)]
    BY <1>2
  <2> DEFINE h == [k \in 0..(n + 1) |-> IF k = n + 1 THEN Round(g, q, f[n]) ELSE f[k]]
  <2>2. ASSUME NEW k \in 0..(n + 1)
        PROVE  h[k] = A(h, k)
    <3>1. CASE k = 0
      <4>1. h[0] = f[0]
        BY <3>1
      <4>2. f[0] = A(f, 0)
        <5>1. 0 \in 0..n
          OBVIOUS
        <5> HIDE DEF A
        <5> QED  BY <2>1, <5>1
      <4> QED  BY <3>1, <4>1, <4>2
    <3>2. CASE k = n + 1
      <4>1. h[k] = Round(g, q, f[n]) /\ h[k - 1] = f[n] /\ k # 0
        BY <3>2
      <4> QED  BY <4>1
    <3>3. CASE k \in 1..n
      <4>1. h[k] = f[k] /\ h[k - 1] = f[k - 1] /\ k # 0
        BY <3>3
      <4>2. f[k] = A(f, k)
        <5>1. k \in 0..n
          BY <3>3
        <5> HIDE DEF A
        <5> QED  BY <2>1, <5>1
      <4> QED  BY <4>1, <4>2
    <3> QED  BY <3>1, <3>2, <3>3
  <2>3. h = [k \in 0..(n + 1) |-> A(h, k)]
    <3> DEFINE b == [k \in 0..(n + 1) |-> A(h, k)]
    <3>1. \A k \in 0..(n + 1) : b[k] = A(h, k)
      OBVIOUS
    <3>2. DOMAIN b = 0..(n + 1) /\ DOMAIN h = 0..(n + 1)
      OBVIOUS
    <3>3. h = [k \in 0..(n + 1) |-> h[k]] /\ b = [k \in 0..(n + 1) |-> b[k]]
      OBVIOUS
    <3> HIDE DEF h, b, A
    <3>4. h = b
      BY <2>2, <3>1, <3>3
    <3> QED  BY <3>4 DEF b
  <2> HIDE DEF h
  <2> QED  BY <2>3
<1>3. \A n \in Nat : n \in P
  <2> HIDE DEF P
  <2> QED  BY <1>1, <1>2, SetInduction
<1>4. \E f : f = [k \in 0..q.depth |-> A(f, k)]
  BY <1>3
<1> DEFINE f == Rounds(g, q)
<1>5. f = CHOOSE r : r = [k \in 0..q.depth |-> A(r, k)]
  BY DEF Rounds
<1>6. f = [k \in 0..q.depth |-> A(f, k)]
  <2> HIDE DEF A, f
  <2> QED  BY <1>4, <1>5
<1>7. ASSUME NEW k \in 0..q.depth PROVE f[k] = A(f, k)
  <2> HIDE DEF A, f
  <2> QED  BY <1>6
<1>8. f[0] = Roots(q)
  <2>1. 0 \in 0..q.depth
    OBVIOUS
  <2>2. f[0] = A(f, 0)
    BY <2>1, <1>7
  <2> QED  BY <2>2
<1>9. ASSUME NEW k \in 1..q.depth PROVE f[k] = Round(g, q, f[k - 1])
  <2>1. k \in 0..q.depth /\ k # 0
    OBVIOUS
  <2>2. f[k] = A(f, k)
    BY <2>1, <1>7
  <2> QED  BY <2>1, <2>2
<1> QED  BY <1>8, <1>9

LEMMA NeighboursOneByOne ==
  ASSUME NEW g, NEW S, NEW d
  PROVE  /\ Neighbours(g, S, d) \subseteq Nodes
         /\ \A n : n \in Neighbours(g, S, d) <=> \E m \in S : n \in Neighbours(g, {m}, d)
BY DEF Neighbours

(* The ends of the walks of exactly k steps from a root.                   *)
Ends(g, q, k) ==
  {n \in Nodes : \E walk \in [0..k -> Nodes] :
     /\ walk[0] \in q.roots /\ walk[k] = n
     /\ \A i \in 1..k : walk[i] \in Neighbours(g, {walk[i - 1]}, q.direction)}

LEMMA EndsAreWithinDepth ==
  ASSUME NEW g, NEW q
  PROVE  \A n : n \in WithinDepth(g, q) <=> \E k \in 0..q.depth : n \in Ends(g, q, k)
BY DEF WithinDepth, Ends

LEMMA EndsAtRoots ==
  ASSUME NEW g, NEW q, q.roots \subseteq Nodes
  PROVE  Ends(g, q, 0) = q.roots
<1>1. ASSUME NEW n \in q.roots PROVE n \in Ends(g, q, 0)
  <2> DEFINE walk == [i \in 0..0 |-> n]
  <2>1. walk \in [0..0 -> Nodes] /\ walk[0] = n
    OBVIOUS
  <2>2. \A i \in 1..0 : walk[i] \in Neighbours(g, {walk[i - 1]}, q.direction)
    OBVIOUS
  <2> HIDE DEF walk
  <2> QED  BY <2>1, <2>2 DEF Ends
<1> QED  BY <1>1 DEF Ends

(* A walk that is one step longer ends at a neighbour of an end.           *)
LEMMA EndsStep ==
  ASSUME NEW g, NEW q, NEW k \in Nat
  PROVE  Ends(g, q, k + 1) = Neighbours(g, Ends(g, q, k), q.direction)
<1> DEFINE N(m) == Neighbours(g, {m}, q.direction)
           Goes(walk, j) == /\ walk[0] \in q.roots
                            /\ \A i \in 1..j : walk[i] \in N(walk[i - 1])
<1>1. \A j : \A n : n \in Ends(g, q, j) <=>
        n \in Nodes /\ \E walk \in [0..j -> Nodes] : Goes(walk, j) /\ walk[j] = n
  BY DEF Ends
<1>2. ASSUME NEW n \in Ends(g, q, k + 1)
      PROVE  \E m \in Ends(g, q, k) : n \in N(m)
  <2>1. PICK walk \in [0..(k + 1) -> Nodes] : Goes(walk, k + 1) /\ walk[k + 1] = n
    <3> HIDE DEF Goes
    <3> QED  BY <1>1
  <2> DEFINE before == [i \in 0..k |-> walk[i]]
  <2>2. before \in [0..k -> Nodes]
    OBVIOUS
  <2>3. Goes(before, k) /\ before[k] = walk[k]
    <3>1. \A i \in 0..k : before[i] = walk[i]
      OBVIOUS
    <3>2. 0 \in 0..k /\ k \in 0..k /\ (\A i \in 1..k : i \in 0..k /\ i - 1 \in 0..k /\ i \in 1..(k + 1))
      OBVIOUS
    <3> HIDE DEF before, N
    <3> QED  BY <2>1, <3>1, <3>2
  <2>4. walk[k] \in Nodes
    OBVIOUS
  <2>5. walk[k] \in Ends(g, q, k)
    <3> HIDE DEF Goes, before
    <3> QED  BY <1>1, <2>2, <2>3, <2>4
  <2>6. n \in N(walk[k])
    <3>1. k + 1 \in 1..(k + 1) /\ k + 1 - 1 = k
      OBVIOUS
    <3> HIDE DEF N
    <3> QED  BY <2>1, <3>1
  <2> QED  BY <2>5, <2>6
<1>3. ASSUME NEW m \in Ends(g, q, k), NEW n \in N(m)
      PROVE  n \in Ends(g, q, k + 1)
  <2>1. PICK walk \in [0..k -> Nodes] : Goes(walk, k) /\ walk[k] = m
    <3> HIDE DEF Goes, N
    <3> QED  BY <1>1
  <2>2. n \in Nodes
    BY NeighboursOneByOne
  <2> DEFINE after == [i \in 0..(k + 1) |-> IF i = k + 1 THEN n ELSE walk[i]]
  <2>3. after \in [0..(k + 1) -> Nodes]
    BY <2>2
  <2>4. after[k + 1] = n /\ \A i \in 0..k : after[i] = walk[i]
    OBVIOUS
  <2>5. Goes(after, k + 1)
    <3>1. after[0] \in q.roots
      <4>1. 0 \in 0..k
        OBVIOUS
      <4> HIDE DEF after
      <4> QED  BY <2>1, <2>4, <4>1
    <3>2. ASSUME NEW i \in 1..(k + 1) PROVE after[i] \in N(after[i - 1])
      <4>1. CASE i = k + 1
        <5>1. i - 1 = k /\ k \in 0..k
          BY <4>1
        <5> HIDE DEF after, N
        <5> QED  BY <1>3, <2>1, <2>4, <4>1, <5>1
      <4>2. CASE i \in 1..k
        <5>1. i \in 0..k /\ i - 1 \in 0..k
          BY <4>2
        <5> HIDE DEF after, N
        <5> QED  BY <2>1, <2>4, <4>2, <5>1
      <4> QED  BY <4>1, <4>2
    <3> HIDE DEF after, N
    <3> QED  BY <3>1, <3>2
  <2> HIDE DEF Goes, after
  <2> QED  BY <1>1, <2>2, <2>3, <2>4, <2>5
<1>4. \A n : n \in Neighbours(g, Ends(g, q, k), q.direction) <=> \E m \in Ends(g, q, k) : n \in N(m)
  BY NeighboursOneByOne
<1> HIDE DEF N, Goes
<1> QED  BY <1>2, <1>3, <1>4

(* What expand has after k rounds: a list without repetitions of the nodes *)
(* at the end of a walk of at most k steps; and the neighbours of all of   *)
(* them are either included or found in the next round.                    *)
RoundInv(g, q, k) ==
  LET was == Rounds(g, q)[k]
  IN /\ was.included \subseteq Nodes /\ was.frontier \subseteq was.included
     /\ Enumerates(was.ordered, was.included)
     /\ Neighbours(g, was.included, q.direction)
          \subseteq was.included \cup Neighbours(g, was.frontier, q.direction)
     /\ was.frontier \subseteq Ends(g, q, k)
     /\ \A n \in was.included : \E j \in 0..k : n \in Ends(g, q, j)
     /\ \A j \in 0..k : Ends(g, q, j) \subseteq was.included

LEMMA AnySetOfNodesIsListed ==
  ASSUME NEW S, S \subseteq Nodes
  PROVE  Enumerates(Ascending(S), S)
<1>1. Nodes \subseteq Nat /\ IsFiniteSet(Nodes) /\ S \in SUBSET Nodes
  BY GraphParameters
<1>2. IsFiniteSet(S)
  BY <1>1, FS_Subset
<1>3. S \subseteq Nat
  BY <1>1
<1> QED  BY <1>2, <1>3, AscendingEnumerates

LEMMA RootsListed ==
  ASSUME NEW g, NEW q \in AllRequests
  PROVE  RoundInv(g, q, 0)
<1>1. q.roots \subseteq Nodes /\ q.depth \in Nat
  BY GraphParameters
<1>2. /\ Rounds(g, q)[0].included = q.roots
      /\ Rounds(g, q)[0].frontier = q.roots
      /\ Rounds(g, q)[0].ordered = Ascending(q.roots)
  <2>1. Rounds(g, q)[0] = Roots(q)
    BY <1>1, RoundsStep
  <2> QED  BY <2>1 DEF Roots
<1>3. Enumerates(Ascending(q.roots), q.roots)
  BY <1>1, AnySetOfNodesIsListed
<1>4. Ends(g, q, 0) = q.roots
  BY <1>1, EndsAtRoots
<1>5. 0..0 = {0}
  OBVIOUS
<1> QED  BY <1>1, <1>2, <1>3, <1>4, <1>5 DEF RoundInv

LEMMA RoundKeepsList ==
  ASSUME NEW g, NEW q \in AllRequests,
         NEW k \in Nat, k + 1 <= q.depth, RoundInv(g, q, k)
  PROVE  RoundInv(g, q, k + 1)
<1> DEFINE N(S) == Neighbours(g, S, q.direction)
<1> PICK was, next, candidates :
      /\ was = Rounds(g, q)[k] /\ next = Rounds(g, q)[k + 1]
      /\ candidates = N(was.frontier) \ was.included
  OBVIOUS
<1>1. q.depth \in Nat
  BY GraphParameters
<1>2. next = Round(g, q, was)
  <2>1. k + 1 \in 1..q.depth /\ k + 1 - 1 = k
    BY <1>1
  <2> QED  BY <1>1, <2>1, RoundsStep
<1>3. /\ next.included = was.included \cup candidates
      /\ next.frontier = candidates
      /\ next.ordered = was.ordered \o Ascending(candidates)
  BY <1>2 DEF Round
<1>4. /\ \A S : N(S) \subseteq Nodes
      /\ \A S, T : N(S \cup T) = N(S) \cup N(T)
      /\ \A S, T : S \subseteq T => N(S) \subseteq N(T)
  <2>1. \A S : N(S) \subseteq Nodes
    BY NeighboursOneByOne
  <2> DEFINE Near(n, m) == n \in N({m})
  <2>2. \A S, n : n \in N(S) <=> \E m \in S : Near(n, m)
    BY NeighboursOneByOne
  <2> HIDE DEF N, Near
  <2>3. ASSUME NEW S, NEW T PROVE N(S \cup T) = N(S) \cup N(T)
    <3>1. \A n : n \in N(S \cup T) <=> n \in N(S) \/ n \in N(T)
      BY <2>2
    <3> QED  BY <3>1
  <2>4. ASSUME NEW S, NEW T, S \subseteq T PROVE N(S) \subseteq N(T)
    BY <2>2, <2>4
  <2> QED  BY <2>1, <2>3, <2>4
<1>5. Ends(g, q, k + 1) = N(Ends(g, q, k))
  BY EndsStep
<1>6. /\ was.included \subseteq Nodes /\ was.frontier \subseteq was.included
      /\ Enumerates(was.ordered, was.included)
      /\ N(was.included) \subseteq was.included \cup N(was.frontier)
      /\ was.frontier \subseteq Ends(g, q, k)
      /\ \A n \in was.included : \E j \in 0..k : n \in Ends(g, q, j)
      /\ \A j \in 0..k : Ends(g, q, j) \subseteq was.included
  BY DEF RoundInv
<1> HIDE DEF N
<1>7. candidates \subseteq Nodes /\ was.included \cap candidates = {}
  BY <1>4
<1>8. Enumerates(next.ordered, next.included)
  <2>1. Enumerates(Ascending(candidates), candidates)
    BY <1>7, AnySetOfNodesIsListed
  <2> QED  BY <1>3, <1>6, <1>7, <2>1, ConcatEnumerates
<1>9. N(next.included) \subseteq next.included \cup N(next.frontier)
  <2>1. N(next.included) = N(was.included) \cup N(candidates)
    BY <1>3, <1>4
  <2>2. N(was.included) \subseteq was.included \cup candidates
    BY <1>6
  <2> QED  BY <1>3, <2>1, <2>2
<1>10. candidates \subseteq Ends(g, q, k + 1)
  BY <1>4, <1>5, <1>6
<1>11. Ends(g, q, k + 1) \subseteq next.included
  <2>1. Ends(g, q, k) \subseteq was.included
    BY <1>6
  <2>2. Ends(g, q, k + 1) \subseteq N(was.included)
    BY <1>4, <1>5, <2>1
  <2> QED  BY <1>3, <1>6, <2>2
<1>12. 0..(k + 1) = 0..k \cup {k + 1}
  OBVIOUS
<1>13. \A n \in next.included : \E j \in 0..(k + 1) : n \in Ends(g, q, j)
  BY <1>3, <1>6, <1>10, <1>12
<1>14. \A j \in 0..(k + 1) : Ends(g, q, j) \subseteq next.included
  BY <1>3, <1>6, <1>11, <1>12
<1>15. /\ next.included \subseteq Nodes /\ next.frontier \subseteq next.included
       /\ next.frontier \subseteq Ends(g, q, k + 1)
  BY <1>3, <1>6, <1>7, <1>10
<1> QED  BY <1>8, <1>9, <1>13, <1>14, <1>15 DEF RoundInv, N

(* A slice is listed without repetition, and it is what the request        *)
(* reaches: expand, which knows only frontiers, finds the ends of all      *)
(* walks within the depth and nothing else.                                *)
THEOREM SlicesAreComplete ==
  ASSUME NEW g, NEW q \in AllRequests
  PROVE  Enumerates(Expand(g, q), WithinDepth(g, q))
<1> DEFINE P == {k \in Nat : k <= q.depth => RoundInv(g, q, k)}
<1>1. q.depth \in Nat
  BY GraphParameters
<1>2. 0 \in P
  BY RootsListed
<1>3. ASSUME NEW k \in Nat, k \in P PROVE k + 1 \in P
  <2> SUFFICES ASSUME k + 1 <= q.depth PROVE RoundInv(g, q, k + 1)
    OBVIOUS
  <2>1. RoundInv(g, q, k)
    BY <1>1, <1>3
  <2> QED  BY <2>1, RoundKeepsList
<1>4. \A k \in Nat : k \in P
  <2> HIDE DEF P
  <2> QED  BY <1>2, <1>3, SetInduction
<1>5. RoundInv(g, q, q.depth)
  BY <1>1, <1>4
<1> PICK last : last = Rounds(g, q)[q.depth]
  OBVIOUS
<1>6. Enumerates(last.ordered, last.included)
  BY <1>5 DEF RoundInv
<1>7. \A n : n \in last.included <=> \E k \in 0..q.depth : n \in Ends(g, q, k)
  BY <1>5 DEF RoundInv
<1>8. last.included = WithinDepth(g, q)
  <2>1. \A n : n \in last.included <=> n \in WithinDepth(g, q)
    BY <1>7, EndsAreWithinDepth
  <2> QED  BY <2>1
<1> QED  BY <1>6, <1>8 DEF Expand

-----------------------------------------------------------------------------
(* Pages                                                                   *)

(* What stands in s after the first a places, up to place b.               *)
Part(s, a, b) == {s[x] : x \in (a + 1)..b}

LEMMA PageContents ==
  ASSUME NEW g, NEW q \in AllRequests, NEW at \in 0..Len(Expand(g, q))
  PROVE  LET s == Expand(g, q)
             page == PageOf(g, q, at)
             owned == Part(s, at, page.end)
             slice == WithinDepth(g, q)
         IN /\ page.end \in at..Len(s) /\ page.end - at <= q.size
            /\ page.more <=> page.end < Len(s)
            /\ Range(page.nodes) = owned
            /\ Len(page.nodes) = page.end - at
            /\ Len(page.nodes) = Cardinality(owned)
            /\ page.edges = {e \in g : /\ e[1] \in owned /\ e[2] \in slice \cup {Outside}
                                       /\ e[1] # e[2]}
            /\ page.contexts = {c \in Contexts : OwnsAny(s, owned, c)}
<1> PICK s, page, slice : s = Expand(g, q) /\ page = PageOf(g, q, at) /\ slice = WithinDepth(g, q)
  OBVIOUS
<1>1. Enumerates(s, slice)
  BY SlicesAreComplete
<1>2. s \in Seq(slice) /\ Len(s) \in Nat /\ q.size \in Nat /\ at \in 0..Len(s)
  <2>1. q.size \in Nat
    <3>1. PICK n \in 1..4096 : q.size = n
      BY GraphParameters
    <3>2. n \in Nat
      OBVIOUS
    <3> QED  BY <3>1, <3>2
  <2>2. s \in Seq(slice) /\ at \in 0..Len(s)
    BY <1>1 DEF Enumerates
  <2> QED  BY <2>1, <2>2
<1>3. Range(s) = slice
  BY <1>1, <1>2 DEF Range, Enumerates
<1> DEFINE end == Lowest(at + q.size, Len(s))
           owned == {s[i] : i \in (at + 1)..end}
           nodes == SubSeq(s, at + 1, end)
           edges == {e \in g : /\ e[1] \in owned /\ e[2] \in Range(s) \cup {Outside}
                               /\ e[1] # e[2]}
           contexts == {c \in Contexts : OwnsAny(s, owned, c)}
<1>4. page = [nodes |-> nodes, edges |-> edges, contexts |-> contexts,
              end |-> end, more |-> end < Len(s)]
  BY DEF PageOf
<1>5. /\ page.nodes = nodes /\ page.edges = edges /\ page.contexts = contexts
      /\ page.end = end /\ page.more = (end < Len(s))
  <2> HIDE DEF nodes, edges, contexts, end
  <2> QED  BY <1>4
<1>6. owned = Part(s, at, page.end)
  BY <1>5 DEF Part
<1>7. /\ page.more <=> page.end < Len(s)
      /\ page.edges = {e \in g : /\ e[1] \in owned /\ e[2] \in slice \cup {Outside}
                                 /\ e[1] # e[2]}
      /\ page.contexts = {c \in Contexts : OwnsAny(s, owned, c)}
  <2>1. page.more <=> page.end < Len(s)
    <3> HIDE DEF end
    <3> QED  BY <1>5
  <2> HIDE DEF owned, end
  <2> QED  BY <1>3, <1>5, <2>1
<1>8. end \in at..Len(s) /\ end - at <= q.size
  BY <1>2 DEF Lowest
<1>9. page.nodes = nodes
  BY <1>5
<1> HIDE DEF end
<1>10. Len(nodes) = end - at /\ \A i \in 1..(end - at) : nodes[i] = s[at + i]
  BY <1>2, <1>8
<1>11. nodes \in [1..(end - at) -> owned]
  <2>1. nodes \in Seq(slice)
    BY <1>2, <1>8
  <2>2. DOMAIN nodes = 1..(end - at) /\ nodes = [i \in 1..(end - at) |-> nodes[i]]
    BY <1>10, <2>1
  <2>3. ASSUME NEW i \in 1..(end - at) PROVE nodes[i] \in owned
    <3>1. at + i \in (at + 1)..end
      BY <1>2, <1>8
    <3>2. nodes[i] = s[at + i]
      BY <1>10
    <3> QED  BY <3>1, <3>2
  <2> HIDE DEF nodes, owned
  <2> QED  BY <2>2, <2>3
<1>12. \A n \in owned : \E i \in 1..(end - at) : nodes[i] = n
  <2> SUFFICES ASSUME NEW x \in (at + 1)..end PROVE \E i \in 1..(end - at) : nodes[i] = s[x]
    OBVIOUS
  <2>1. x - at \in 1..(end - at) /\ at + (x - at) = x
    BY <1>2, <1>8
  <2>2. nodes[x - at] = s[at + (x - at)]
    BY <1>10, <2>1
  <2> QED  BY <2>1, <2>2
<1>13. \A i, j \in 1..(end - at) : nodes[i] = nodes[j] => i = j
  <2> SUFFICES ASSUME NEW i \in 1..(end - at), NEW j \in 1..(end - at), nodes[i] = nodes[j]
               PROVE  i = j
    OBVIOUS
  <2>1. at + i \in 1..Len(s) /\ at + j \in 1..Len(s)
    BY <1>2, <1>8
  <2>2. s[at + i] = s[at + j]
    BY <1>10
  <2>3. at + i = at + j
    BY <1>1, <2>1, <2>2 DEF Enumerates
  <2> QED  BY <1>2, <2>3
<1> HIDE DEF nodes, owned
<1>14. Range(nodes) = owned
  BY <1>11, <1>12 DEF Range
<1>15. Cardinality(owned) = end - at
  <2>1. nodes \in Bijection(1..(end - at), owned)
    BY <1>11, <1>12, <1>13 DEF Bijection, Injection, Surjection, IsInjective
  <2>2. ExistsBijection(1..(end - at), owned) /\ end - at \in Nat
    BY <1>2, <1>8, <2>1 DEF ExistsBijection
  <2> QED  BY <2>2, FS_CountingElements
<1> QED  BY <1>5, <1>6, <1>7, <1>8, <1>9, <1>10, <1>14, <1>15

(* Where a page begins: where the page before it ended.                    *)
StartOf(ps, i) == IF i = 1 THEN 0 ELSE ps[i - 1].end

(* The pages ps are the first pages of the slice of g that q asks for:     *)
(* each begins where the last one ended, and together they leave nothing   *)
(* out.                                                                    *)
Paged(ps, g, q) ==
  /\ ps \in Seq({PageOf(g, q, at) : at \in 0..Len(Expand(g, q))})
  /\ \A i \in 1..Len(ps) : /\ StartOf(ps, i) \in 0..Len(Expand(g, q))
                           /\ ps[i] = PageOf(g, q, StartOf(ps, i))
  /\ \A i, j \in 1..Len(ps) : i < j => ps[i].end <= StartOf(ps, j)
  /\ StartOf(ps, Len(ps) + 1) \in 0..Len(Expand(g, q))
  /\ \A x \in 1..StartOf(ps, Len(ps) + 1) :
       \E i \in 1..Len(ps) : x \in (StartOf(ps, i) + 1)..ps[i].end

LEMMA NoPagesYet ==
  ASSUME NEW g, NEW q \in AllRequests
  PROVE  Paged(<<>>, g, q) /\ StartOf(<<>>, Len(<<>>) + 1) = 0
<1>1. Len(<<>>) = 0 /\ 1..0 = {}
  OBVIOUS
<1>2. StartOf(<<>>, 1) = 0
  BY DEF StartOf
<1>3. Len(Expand(g, q)) \in Nat
  BY SlicesAreComplete DEF Enumerates
<1> QED  BY <1>1, <1>2, <1>3 DEF Paged

LEMMA OnePageMore ==
  ASSUME NEW g, NEW q \in AllRequests, NEW ps, Paged(ps, g, q)
  PROVE  LET at == StartOf(ps, Len(ps) + 1)
             page == PageOf(g, q, at)
             more == Append(ps, page)
         IN /\ Paged(more, g, q)
            /\ StartOf(more, Len(more) + 1) = page.end
            /\ page.more <=> page.end < Len(Expand(g, q))
            /\ page.end \in 0..Len(Expand(g, q))
<1> PICK s, at, page, more, n :
      /\ s = Expand(g, q) /\ at = StartOf(ps, Len(ps) + 1) /\ page = PageOf(g, q, at)
      /\ more = Append(ps, page) /\ n = Len(ps)
  OBVIOUS
<1> DEFINE Page == {PageOf(g, q, x) : x \in 0..Len(s)}
<1>1. /\ ps \in Seq(Page)
      /\ \A i \in 1..n : StartOf(ps, i) \in 0..Len(s) /\ ps[i] = PageOf(g, q, StartOf(ps, i))
      /\ \A i, j \in 1..n : i < j => ps[i].end <= StartOf(ps, j)
      /\ at \in 0..Len(s)
      /\ \A x \in 1..at : \E i \in 1..n : x \in (StartOf(ps, i) + 1)..ps[i].end
  BY DEF Paged
<1>2. page \in Page
  BY <1>1
<1>3. /\ page.end \in at..Len(s)
      /\ page.more <=> page.end < Len(s)
  BY <1>1, PageContents
<1>4. Len(s) \in Nat /\ at \in Nat /\ page.end \in Nat
  <2>1. Len(s) \in Nat
    BY SlicesAreComplete DEF Enumerates
  <2> QED  BY <1>1, <1>3, <2>1
<1> HIDE DEF Page
<1>5. /\ more \in Seq(Page) /\ Len(more) = n + 1 /\ n \in Nat
      /\ \A i \in 1..n : more[i] = ps[i]
      /\ more[n + 1] = page
  BY <1>1, <1>2
<1>6. \A i \in 1..(n + 1) : StartOf(more, i) = StartOf(ps, i)
  <2> SUFFICES ASSUME NEW i \in 1..(n + 1) PROVE StartOf(more, i) = StartOf(ps, i)
    OBVIOUS
  <2>1. CASE i = 1
    BY <2>1 DEF StartOf
  <2>2. CASE i # 1
    <3>1. i - 1 \in 1..n
      BY <1>5, <2>2
    <3> QED  BY <1>5, <2>2, <3>1 DEF StartOf
  <2> QED  BY <2>1, <2>2
<1>7. StartOf(more, n + 1) = at
  BY <1>5, <1>6
<1>8. StartOf(more, n + 2) = page.end
  <2>1. n + 2 # 1 /\ n + 2 - 1 = n + 1
    BY <1>5
  <2> QED  BY <1>5, <2>1 DEF StartOf
<1>9. \A i \in 1..(n + 1) : \/ i \in 1..n
                            \/ i = n + 1
  BY <1>5
<1>10. \A i \in 1..n : i \in 1..(n + 1)
  BY <1>5
<1>11. \A i \in 1..(n + 1) : /\ StartOf(more, i) \in 0..Len(s)
                             /\ more[i] = PageOf(g, q, StartOf(more, i))
  BY <1>1, <1>5, <1>6, <1>7, <1>9, <1>10
<1>12. ASSUME NEW i \in 1..(n + 1), NEW j \in 1..(n + 1), i < j
       PROVE  more[i].end <= StartOf(more, j)
  <2>1. i \in 1..n
    BY <1>5, <1>12
  <2>2. CASE j \in 1..n
    BY <1>1, <1>5, <1>6, <1>12, <2>1, <2>2
  <2>3. CASE j = n + 1
    <3>1. CASE i = n
      <4>1. StartOf(ps, n + 1) = ps[n].end
        <5>1. n + 1 # 1 /\ n + 1 - 1 = n
          BY <1>5, <2>1
        <5> QED  BY <5>1 DEF StartOf
      <4>2. StartOf(more, j) = more[i].end /\ more[i].end = at
        BY <1>5, <1>7, <2>1, <2>3, <3>1, <4>1
      <4> QED  BY <1>4, <4>2
    <3>2. CASE i < n
      <4>1. n \in 1..n
        BY <1>5, <2>1
      <4>2. ps[i].end <= StartOf(ps, n)
        BY <1>1, <2>1, <3>2, <4>1
      <4>3. /\ StartOf(ps, n) \in 0..Len(s)
            /\ ps[n] = PageOf(g, q, StartOf(ps, n))
        BY <1>1, <4>1
      <4>4. ps[n].end \in StartOf(ps, n)..Len(s)
        BY <4>3, PageContents
      <4>5. StartOf(ps, n + 1) = ps[n].end
        <5>1. n + 1 # 1 /\ n + 1 - 1 = n
          BY <1>5, <2>1
        <5> QED  BY <5>1 DEF StartOf
      <4>6. ps[i].end \in Int
        <5>1. /\ StartOf(ps, i) \in 0..Len(s)
              /\ ps[i] = PageOf(g, q, StartOf(ps, i))
          BY <1>1, <2>1
        <5>2. ps[i].end \in StartOf(ps, i)..Len(s)
          BY <5>1, PageContents
        <5> QED  BY <1>4, <5>1, <5>2
      <4>7. ps[i].end <= ps[n].end
        BY <1>4, <4>2, <4>3, <4>4, <4>6
      <4> QED  BY <1>5, <1>7, <2>1, <2>3, <4>5, <4>7
    <3> QED  BY <1>5, <2>1, <3>1, <3>2
  <2> QED  BY <1>9, <2>2, <2>3
<1>13. ASSUME NEW x \in 1..page.end
       PROVE  \E i \in 1..(n + 1) : x \in (StartOf(more, i) + 1)..more[i].end
  <2>1. CASE x \in 1..at
    <3>1. PICK i \in 1..n : x \in (StartOf(ps, i) + 1)..ps[i].end
      BY <1>1, <2>1
    <3>2. i \in 1..(n + 1) /\ StartOf(more, i) = StartOf(ps, i) /\ more[i] = ps[i]
      BY <1>5, <1>6, <1>10
    <3> QED  BY <3>1, <3>2
  <2>2. CASE x \in (at + 1)..page.end
    <3>1. n + 1 \in 1..(n + 1)
      BY <1>5
    <3> QED  BY <1>5, <1>7, <2>2, <3>1
  <2> QED  BY <1>4, <2>1, <2>2
<1>14. page.end \in 0..Len(s)
  BY <1>3, <1>4
<1>15. Len(more) + 1 = n + 2
  BY <1>5
<1>16. Paged(more, g, q)
  BY <1>5, <1>8, <1>11, <1>12, <1>13, <1>14, <1>15 DEF Paged, Page
<1> QED  BY <1>3, <1>8, <1>14, <1>15, <1>16

-----------------------------------------------------------------------------
(* What the pages of a slice hold together                                 *)

(* The nodes of page i.                                                    *)
NodesOn(ps, g, q, i) == Part(Expand(g, q), StartOf(ps, i), ps[i].end)

LEMMA PagesHold ==
  ASSUME NEW g, NEW q \in AllRequests, NEW ps, Paged(ps, g, q), NEW i \in 1..Len(ps)
  PROVE  LET owned == NodesOn(ps, g, q, i)
             slice == WithinDepth(g, q)
         IN /\ Len(ps[i].nodes) <= q.size
            /\ Len(ps[i].nodes) = Cardinality(owned)
            /\ Range(ps[i].nodes) = owned
            /\ ps[i].edges = {e \in g : /\ e[1] \in owned /\ e[2] \in slice \cup {Outside}
                                        /\ e[1] # e[2]}
            /\ ps[i].contexts = {c \in Contexts : OwnsAny(Expand(g, q), owned, c)}
            /\ StartOf(ps, i) \in Nat /\ ps[i].end \in StartOf(ps, i)..Len(Expand(g, q))
<1> PICK at : at = StartOf(ps, i)
  OBVIOUS
<1>1. at \in 0..Len(Expand(g, q)) /\ ps[i] = PageOf(g, q, at)
  BY DEF Paged
<1> QED  BY <1>1, PageContents DEF NodesOn

(* No node is on two pages.                                                *)
LEMMA PagesAreApart ==
  ASSUME NEW g, NEW q \in AllRequests, NEW ps, Paged(ps, g, q),
         NEW i \in 1..Len(ps), NEW j \in 1..Len(ps), i # j
  PROVE  NodesOn(ps, g, q, i) \cap NodesOn(ps, g, q, j) = {}
<1> PICK s : s = Expand(g, q)
  OBVIOUS
<1>1. \A a, b \in 1..Len(s) : s[a] = s[b] => a = b
  BY SlicesAreComplete DEF Enumerates
<1>2. Len(s) \in Nat /\ Len(ps) \in Nat
  BY SlicesAreComplete DEF Enumerates, Paged
<1>3. ASSUME NEW a \in 1..Len(ps), NEW b \in 1..Len(ps), a < b
      PROVE  NodesOn(ps, g, q, a) \cap NodesOn(ps, g, q, b) = {}
  <2>1. ps[a].end <= StartOf(ps, b)
    BY <1>3 DEF Paged
  <2>2. /\ StartOf(ps, a) \in Nat /\ ps[a].end \in StartOf(ps, a)..Len(s)
        /\ StartOf(ps, b) \in Nat /\ ps[b].end \in StartOf(ps, b)..Len(s)
    BY PagesHold
  <2>3. ASSUME NEW x \in (StartOf(ps, a) + 1)..ps[a].end,
               NEW y \in (StartOf(ps, b) + 1)..ps[b].end, s[x] = s[y]
        PROVE  FALSE
    <3>1. x \in 1..Len(s) /\ y \in 1..Len(s)
      BY <1>2, <2>2
    <3>2. x = y
      BY <1>1, <2>3, <3>1
    <3> QED  BY <1>2, <2>1, <2>2, <3>2
  <2> QED  BY <2>3 DEF NodesOn, Part
<1> QED  BY <1>2, <1>3

(* The first of the nodes of a context in the order of the slice is on     *)
(* only one page.                                                          *)
LEMMA ContextsAreApart ==
  ASSUME NEW g, NEW q \in AllRequests, NEW ps, Paged(ps, g, q),
         NEW i \in 1..Len(ps), NEW j \in 1..Len(ps), i # j
  PROVE  ps[i].contexts \cap ps[j].contexts = {}
<1> PICK s : s = Expand(g, q)
  OBVIOUS
<1>1. SUFFICES ASSUME NEW c, OwnsAny(s, NodesOn(ps, g, q, i), c),
                      OwnsAny(s, NodesOn(ps, g, q, j), c)
               PROVE  FALSE
  BY PagesHold
<1>2. DOMAIN s = 1..Len(s) /\ Len(s) \in Nat
  BY SlicesAreComplete DEF Enumerates
<1>3. PICK a \in 1..Len(s) : /\ s[a] \in c \cap NodesOn(ps, g, q, i)
                             /\ \A b \in 1..(a - 1) : s[b] \notin c
  BY <1>1, <1>2 DEF OwnsAny
<1>4. PICK b \in 1..Len(s) : /\ s[b] \in c \cap NodesOn(ps, g, q, j)
                             /\ \A d \in 1..(b - 1) : s[d] \notin c
  BY <1>1, <1>2 DEF OwnsAny
<1>5. a = b
  <2>1. ~ (a < b)
    <3> SUFFICES ASSUME a < b PROVE FALSE
      OBVIOUS
    <3>1. a \in 1..(b - 1)
      BY <1>2
    <3> QED  BY <1>3, <1>4, <3>1
  <2>2. ~ (b < a)
    <3> SUFFICES ASSUME b < a PROVE FALSE
      OBVIOUS
    <3>1. b \in 1..(a - 1)
      BY <1>2
    <3> QED  BY <1>3, <1>4, <3>1
  <2> QED  BY <1>2, <2>1, <2>2
<1> QED  BY <1>3, <1>4, <1>5, PagesAreApart

(* When the last page ends where the slice ends, every node of the slice   *)
(* is on a page,                                                           *)
LEMMA NodesAreAllThere ==
  ASSUME NEW g, NEW q \in AllRequests, NEW ps, Paged(ps, g, q),
         StartOf(ps, Len(ps) + 1) = Len(Expand(g, q))
  PROVE  \A n : n \in WithinDepth(g, q) <=> \E i \in 1..Len(ps) : n \in NodesOn(ps, g, q, i)
<1> PICK s : s = Expand(g, q)
  OBVIOUS
<1>1. Enumerates(s, WithinDepth(g, q))
  BY SlicesAreComplete
<1>2. ASSUME NEW n \in WithinDepth(g, q)
      PROVE  \E i \in 1..Len(ps) : n \in NodesOn(ps, g, q, i)
  <2>1. PICK x \in 1..Len(s) : s[x] = n
    BY <1>1 DEF Enumerates
  <2>2. PICK i \in 1..Len(ps) : x \in (StartOf(ps, i) + 1)..ps[i].end
    BY DEF Paged
  <2> QED  BY <2>1, <2>2 DEF NodesOn, Part
<1>3. ASSUME NEW i \in 1..Len(ps), NEW n \in NodesOn(ps, g, q, i)
      PROVE  n \in WithinDepth(g, q)
  <2>1. StartOf(ps, i) \in Nat /\ ps[i].end \in StartOf(ps, i)..Len(s)
    BY PagesHold
  <2>2. PICK x \in (StartOf(ps, i) + 1)..ps[i].end : n = s[x]
    BY DEF NodesOn, Part
  <2>3. s \in Seq(WithinDepth(g, q)) /\ Len(s) \in Nat
    BY <1>1 DEF Enumerates
  <2>4. x \in 1..Len(s)
    BY <2>1, <2>3
  <2> QED  BY <2>2, <2>3, <2>4
<1> QED  BY <1>2, <1>3

(* and every context that has a node in the slice.                         *)
LEMMA ContextsAreAllThere ==
  ASSUME NEW g, NEW q \in AllRequests, NEW ps, Paged(ps, g, q),
         StartOf(ps, Len(ps) + 1) = Len(Expand(g, q)), NEW c \in Contexts
  PROVE  c \cap WithinDepth(g, q) # {} <=> \E i \in 1..Len(ps) : c \in ps[i].contexts
<1> PICK s : s = Expand(g, q)
  OBVIOUS
<1>1. Enumerates(s, WithinDepth(g, q))
  BY SlicesAreComplete
<1>2. s \in Seq(WithinDepth(g, q)) /\ DOMAIN s = 1..Len(s) /\ Len(s) \in Nat
  BY <1>1 DEF Enumerates
<1>3. \A i \in 1..Len(ps) : c \in ps[i].contexts <=> OwnsAny(s, NodesOn(ps, g, q, i), c)
  BY PagesHold
<1>4. ASSUME NEW i \in 1..Len(ps), OwnsAny(s, NodesOn(ps, g, q, i), c)
      PROVE  c \cap WithinDepth(g, q) # {}
  <2>1. PICK x \in 1..Len(s) : s[x] \in c
    BY <1>2, <1>4 DEF OwnsAny
  <2> QED  BY <1>2, <2>1
<1>5. ASSUME NEW n \in c \cap WithinDepth(g, q)
      PROVE  \E i \in 1..Len(ps) : OwnsAny(s, NodesOn(ps, g, q, i), c)
  <2> DEFINE T == {x \in 1..Len(s) : s[x] \in c}
  <2>1. T # {} /\ T \subseteq Nat
    BY <1>1 DEF Enumerates
  <2>2. PICK x \in T : \A y \in T : x <= y
    <3> HIDE DEF T
    <3> QED  BY <2>1, LeastNatural
  <2>3. x \in 1..Len(s) /\ s[x] \in c
    OBVIOUS
  <2>4. \A y \in 1..(x - 1) : s[y] \notin c
    <3> SUFFICES ASSUME NEW y \in 1..(x - 1), s[y] \in c PROVE FALSE
      OBVIOUS
    <3>1. y \in T /\ y < x
      BY <1>2, <2>3
    <3>2. x <= y
      <4> HIDE DEF T
      <4> QED  BY <2>2, <3>1
    <3> QED  BY <1>2, <2>3, <3>1, <3>2
  <2>5. s[x] \in WithinDepth(g, q)
    BY <1>2, <2>3
  <2>6. PICK i \in 1..Len(ps) : s[x] \in NodesOn(ps, g, q, i)
    BY <2>5, NodesAreAllThere
  <2>7. OwnsAny(s, NodesOn(ps, g, q, i), c)
    <3> HIDE DEF T
    <3> QED  BY <1>2, <2>3, <2>4, <2>6 DEF OwnsAny
  <2> QED  BY <2>7
<1> QED  BY <1>3, <1>4, <1>5

(* The property, said of the pages of one slice.                           *)
MakeOneGraph(ps, g, q, whole) ==
  LET slice == WithinDepth(g, q)
      nodesOf == [i \in DOMAIN ps |-> Range(ps[i].nodes)]
      edgesOf == [i \in DOMAIN ps |-> ps[i].edges]
      contextsOf == [i \in DOMAIN ps |-> ps[i].contexts]
  IN /\ \A i, j \in DOMAIN ps : i # j => nodesOf[i] \cap nodesOf[j] = {}
     /\ \A i, j \in DOMAIN ps : i # j => edgesOf[i] \cap edgesOf[j] = {}
     /\ \A i, j \in DOMAIN ps : i # j => contextsOf[i] \cap contextsOf[j] = {}
     /\ \A i \in DOMAIN ps : /\ Len(ps[i].nodes) <= q.size
                             /\ Len(ps[i].nodes) = Cardinality(nodesOf[i])
     /\ whole =>
          /\ UNION Range(nodesOf) = slice
          /\ UNION Range(edgesOf) = {e \in g : /\ e[1] # e[2] /\ e[1] \in slice
                                               /\ e[2] \in slice \cup {Outside}}
          /\ UNION Range(contextsOf) = {c \in Contexts : c \cap slice # {}}

LEMMA UnionOfRange ==
  ASSUME NEW f, NEW x
  PROVE  x \in UNION Range(f) <=> \E i \in DOMAIN f : x \in f[i]
BY DEF Range

LEMMA PagedMakeOneGraph ==
  ASSUME NEW g, NEW q \in AllRequests, NEW ps, Paged(ps, g, q),
         NEW whole, whole => StartOf(ps, Len(ps) + 1) = Len(Expand(g, q))
  PROVE  MakeOneGraph(ps, g, q, whole)
<1> PICK slice, n : slice = WithinDepth(g, q) /\ n = Len(ps)
  OBVIOUS
<1> DEFINE On(i) == NodesOn(ps, g, q, i)
           nodesOf == [i \in DOMAIN ps |-> Range(ps[i].nodes)]
           edgesOf == [i \in DOMAIN ps |-> ps[i].edges]
           contextsOf == [i \in DOMAIN ps |-> ps[i].contexts]
<1>1. DOMAIN ps = 1..n
  BY DEF Paged
<1>2. \A i \in 1..n : /\ Len(ps[i].nodes) <= q.size
                      /\ Len(ps[i].nodes) = Cardinality(On(i))
                      /\ Range(ps[i].nodes) = On(i)
                      /\ ps[i].edges = {e \in g : /\ e[1] \in On(i)
                                                  /\ e[2] \in slice \cup {Outside}
                                                  /\ e[1] # e[2]}
  BY PagesHold
<1>3. /\ DOMAIN nodesOf = 1..n /\ DOMAIN edgesOf = 1..n /\ DOMAIN contextsOf = 1..n
      /\ \A i \in 1..n : /\ nodesOf[i] = On(i)
                         /\ edgesOf[i] = ps[i].edges /\ contextsOf[i] = ps[i].contexts
  <2> HIDE DEF On
  <2> QED  BY <1>1, <1>2
<1> HIDE DEF nodesOf, edgesOf, contextsOf
<1>4. \A i, j \in 1..n : i # j => On(i) \cap On(j) = {}
  BY PagesAreApart
<1>5. \A i, j \in 1..n : i # j => ps[i].edges \cap ps[j].edges = {}
  <2> HIDE DEF On
  <2> QED  BY <1>2, <1>4
<1>6. \A i, j \in 1..n : i # j => ps[i].contexts \cap ps[j].contexts = {}
  BY ContextsAreApart
<1>7. ASSUME whole
      PROVE  /\ UNION Range(nodesOf) = slice
             /\ UNION Range(edgesOf) = {e \in g : /\ e[1] # e[2] /\ e[1] \in slice
                                                  /\ e[2] \in slice \cup {Outside}}
             /\ UNION Range(contextsOf) = {c \in Contexts : c \cap slice # {}}
  <2>1. \A x : x \in slice <=> \E i \in 1..n : x \in On(i)
    BY <1>7, NodesAreAllThere
  <2> HIDE DEF On
  <2>2. \A x : x \in UNION Range(nodesOf) <=> x \in slice
    <3>1. \A x : x \in UNION Range(nodesOf) <=> \E i \in 1..n : x \in nodesOf[i]
      BY <1>3, UnionOfRange
    <3>2. \A i \in 1..n : nodesOf[i] = On(i)
      BY <1>3
    <3>3. \A x : (\E i \in 1..n : x \in nodesOf[i]) <=> (\E i \in 1..n : x \in On(i))
      BY <3>2
    <3> QED  BY <2>1, <3>1, <3>3
  <2>3. \A e : e \in UNION Range(edgesOf) <=>
          e \in g /\ e[1] # e[2] /\ e[1] \in slice /\ e[2] \in slice \cup {Outside}
    <3>1. \A e : e \in UNION Range(edgesOf) <=> \E i \in 1..n : e \in ps[i].edges
      <4>1. \A e : e \in UNION Range(edgesOf) <=> \E i \in 1..n : e \in edgesOf[i]
        BY <1>3, UnionOfRange
      <4> QED  BY <1>3, <4>1
    <3>2. \A e : \A i \in 1..n : e \in ps[i].edges <=>
            e \in g /\ e[1] \in On(i) /\ e[2] \in slice \cup {Outside} /\ e[1] # e[2]
      BY <1>2
    <3> QED  BY <2>1, <3>1, <3>2
  <2>4. \A c : c \in UNION Range(contextsOf) <=> c \in Contexts /\ c \cap slice # {}
    <3>1. \A c : c \in UNION Range(contextsOf) <=> \E i \in 1..n : c \in ps[i].contexts
      <4>1. \A c : c \in UNION Range(contextsOf) <=> \E i \in 1..n : c \in contextsOf[i]
        BY <1>3, UnionOfRange
      <4> QED  BY <1>3, <4>1
    <3>2. \A i \in 1..n : ps[i].contexts \subseteq Contexts
      BY PagesHold
    <3>3. \A c \in Contexts : c \cap slice # {} <=> \E i \in 1..n : c \in ps[i].contexts
      BY <1>7, ContextsAreAllThere
    <3> QED  BY <3>1, <3>2, <3>3
  <2>5. UNION Range(nodesOf) = slice
    BY <2>2
  <2>6. UNION Range(edgesOf) = {e \in g : /\ e[1] # e[2] /\ e[1] \in slice
                                          /\ e[2] \in slice \cup {Outside}}
    BY <2>3
  <2>7. UNION Range(contextsOf) = {c \in Contexts : c \cap slice # {}}
    BY <2>4
  <2> QED  BY <2>5, <2>6, <2>7
<1>8. \A i, j \in 1..n : i # j => /\ nodesOf[i] \cap nodesOf[j] = {}
                                  /\ edgesOf[i] \cap edgesOf[j] = {}
                                  /\ contextsOf[i] \cap contextsOf[j] = {}
  <2> HIDE DEF On
  <2> QED  BY <1>3, <1>4, <1>5, <1>6
<1>9. \A i \in 1..n : Len(ps[i].nodes) <= q.size /\ Len(ps[i].nodes) = Cardinality(nodesOf[i])
  <2> HIDE DEF On
  <2> QED  BY <1>2, <1>3
<1> QED  BY <1>1, <1>7, <1>8, <1>9 DEF MakeOneGraph, nodesOf, edgesOf, contextsOf

-----------------------------------------------------------------------------
(* The invariant                                                           *)

(* What a reader has is the first pages of the graph and request of its    *)
(* first page; its cursor names that graph, that request and the end of    *)
(* the last page; and at the end the slice has ended too.                  *)
ReadingInv ==
  /\ inquiry \in AllRequests
  /\ reading \in {"asking", "reading", "refused", "done"}
  /\ reading = "asking" => pages = <<>>
  /\ reading \in {"reading", "done"} =>
       origin.inquiry \in AllRequests /\ Paged(pages, origin.graph, origin.inquiry)
  /\ reading = "reading" =>
       cursor = [graph |-> origin.graph, inquiry |-> origin.inquiry,
                 at |-> StartOf(pages, Len(pages) + 1)]
  /\ reading = "done" =>
       StartOf(pages, Len(pages) + 1) = Len(Expand(origin.graph, origin.inquiry))

(* A page is delivered of the graph and the request of the page before it. *)
LEMMA DeliveryKeepsReading ==
  ASSUME NEW at, Paged(pages, graph, inquiry), inquiry \in AllRequests,
         at = StartOf(pages, Len(pages) + 1), Deliver(at), inquiry' = inquiry, graph' = graph,
         origin'.graph = graph, origin'.inquiry = inquiry
  PROVE  ReadingInv'
<1> PICK page, s : page = PageOf(graph, inquiry, at) /\ s = Expand(graph, inquiry)
  OBVIOUS
<1>1. /\ pages' = Append(pages, page)
      /\ reading' = IF page.more THEN "reading" ELSE "done"
      /\ cursor' = IF page.more
                   THEN [graph |-> graph, inquiry |-> inquiry, at |-> page.end] ELSE NoCursor
  BY DEF Deliver
<1>2. /\ Paged(pages', graph, inquiry)
      /\ StartOf(pages', Len(pages') + 1) = page.end
      /\ page.more <=> page.end < Len(s)
      /\ page.end \in 0..Len(s)
  BY <1>1, OnePageMore
<1>3. Len(s) \in Nat
  BY SlicesAreComplete DEF Enumerates
<1>4. CASE page.more
  BY <1>1, <1>2, <1>4 DEF ReadingInv
<1>5. CASE ~ page.more
  <2>1. page.end = Len(s)
    BY <1>2, <1>3, <1>5
  <2> QED  BY <1>1, <1>2, <1>5, <2>1 DEF ReadingInv
<1> QED  BY <1>4, <1>5

LEMMA ReadingStarts == PagesInit => ReadingInv
BY DEF PagesInit, ReadingInv

LEMMA ReadingStep == ReadingInv /\ [PagesNext]_pageVars => ReadingInv'
<1> SUFFICES ASSUME ReadingInv, [PagesNext]_pageVars PROVE ReadingInv'
  OBVIOUS
<1>1. CASE FirstPage
  <2>1. /\ reading = "asking" /\ Deliver(0) /\ inquiry' = inquiry /\ graph' = graph
        /\ origin'.graph = graph /\ origin'.inquiry = inquiry
    BY <1>1 DEF FirstPage
  <2>2. inquiry \in AllRequests /\ pages = <<>>
    BY <2>1 DEF ReadingInv
  <2>3. Paged(pages, graph, inquiry) /\ StartOf(pages, Len(pages) + 1) = 0
    BY <2>2, NoPagesYet
  <2> QED  BY <2>1, <2>2, <2>3, DeliveryKeepsReading
<1>2. CASE NextPage
  <2>1. /\ reading = "reading" /\ cursor.graph = graph /\ cursor.inquiry = inquiry
        /\ Deliver(cursor.at) /\ inquiry' = inquiry /\ graph' = graph /\ origin' = origin
    BY <1>2 DEF NextPage, Fresh
  <2>2. /\ inquiry \in AllRequests
        /\ Paged(pages, origin.graph, origin.inquiry)
        /\ cursor = [graph |-> origin.graph, inquiry |-> origin.inquiry,
                     at |-> StartOf(pages, Len(pages) + 1)]
    BY <2>1 DEF ReadingInv
  <2>3. /\ origin'.graph = graph /\ origin'.inquiry = inquiry
        /\ origin.graph = graph /\ origin.inquiry = inquiry
        /\ cursor.at = StartOf(pages, Len(pages) + 1)
    BY <2>1, <2>2
  <2>4. Paged(pages, graph, inquiry)
    BY <2>2, <2>3
  <2> QED  BY <2>1, <2>2, <2>3, <2>4, DeliveryKeepsReading
<1>3. CASE RefusePage
  BY <1>3 DEF RefusePage, ReadingInv
<1>4. CASE StartOver
  BY <1>4 DEF StartOver, ReadingInv
<1>5. CASE ChangeSource
  BY <1>5 DEF ChangeSource, ReadingInv
<1>6. CASE ChangeRequest
  BY <1>6 DEF ChangeRequest, ReadingInv
<1>7. CASE UNCHANGED pageVars
  BY <1>7 DEF pageVars, ReadingInv
<1> QED  BY <1>1, <1>2, <1>3, <1>4, <1>5, <1>6, <1>7 DEF PagesNext

(* Whoever reads pages has the first pages of one slice of one graph.      *)
THEOREM Invariant == PagesSpec => []ReadingInv
BY ReadingStarts, ReadingStep, PTL DEF PagesSpec

(* PagesMakeOneGraph: every node that the request reaches, every edge and  *)
(* every context of theirs is on exactly one page, though each page is     *)
(* made by a command of its own and the source changes in between.         *)
THEOREM SlicesAreOneGraph == PagesSpec => []PagesMakeOneGraph
<1>1. ReadingInv => PagesMakeOneGraph
  <2> SUFFICES ASSUME ReadingInv, reading \in {"reading", "done"}
               PROVE  MakeOneGraph(pages, origin.graph, origin.inquiry, reading = "done")
    BY DEF PagesMakeOneGraph, MakeOneGraph, Disjoint
  <2>1. /\ origin.inquiry \in AllRequests /\ Paged(pages, origin.graph, origin.inquiry)
        /\ reading = "done" =>
             StartOf(pages, Len(pages) + 1) = Len(Expand(origin.graph, origin.inquiry))
    BY DEF ReadingInv
  <2> QED  BY <2>1, PagedMakeOneGraph
<1> QED  BY <1>1, Invariant, PTL

-----------------------------------------------------------------------------
(* The length of a reading                                                 *)

LEMMA SliceLength ==
  ASSUME NEW g, NEW q \in AllRequests
  PROVE  Len(Expand(g, q)) \in Nat /\ Len(Expand(g, q)) = Cardinality(WithinDepth(g, q))
<1> PICK s, S : s = Expand(g, q) /\ S = WithinDepth(g, q)
  OBVIOUS
<1>1. /\ s \in Seq(S)
      /\ \A n \in S : \E i \in 1..Len(s) : s[i] = n
      /\ \A i, j \in 1..Len(s) : s[i] = s[j] => i = j
  BY SlicesAreComplete DEF Enumerates
<1>2. Len(s) \in Nat /\ s \in [1..Len(s) -> S]
  BY <1>1
<1>3. s \in Bijection(1..Len(s), S)
  BY <1>1, <1>2 DEF Bijection, Injection, Surjection, IsInjective
<1>4. ExistsBijection(1..Len(s), S)
  BY <1>3 DEF ExistsBijection
<1> QED  BY <1>2, <1>4, FS_CountingElements

(* A page that leaves more is full, and the next one is not empty.         *)
LEMMA PagesAdvance ==
  ASSUME NEW g, NEW q \in AllRequests, NEW at \in 0..Len(Expand(g, q))
  PROVE  LET page == PageOf(g, q, at)
         IN /\ page.more => page.end \in Nat /\ page.end >= at + 1
            /\ at < Len(Expand(g, q)) => page.end >= at + 1
<1>1. PICK length \in Nat : length = Len(Expand(g, q))
  BY SliceLength
<1>2. PICK size \in 1..4096 : q.size = size
  BY GraphParameters
<1>3. PICK place \in 0..length : place = at
  BY <1>1
<1> PICK page, end : page = PageOf(g, q, place) /\ end = Lowest(place + size, length)
  OBVIOUS
<1>4. page.end = end /\ (page.more <=> end < length)
  BY <1>1, <1>2 DEF PageOf
<1>5. /\ end \in Nat
      /\ end < length => end >= place + 1
      /\ place < length => end >= place + 1
  <2> HIDE <1>1, <1>2, <1>3
  <2> QED  BY DEF Lowest
<1> QED  BY <1>1, <1>3, <1>4, <1>5

(* A reader that goes on has at least a node of every page, and one left   *)
(* to read.                                                                *)
ShortInv ==
  /\ ReadingInv
  /\ reading = "reading" =>
       /\ Len(pages) <= StartOf(pages, Len(pages) + 1)
       /\ StartOf(pages, Len(pages) + 1) < Len(Expand(origin.graph, origin.inquiry))
  /\ reading = "done" =>
       \/ Len(pages) = 1
       \/ Len(pages) <= Len(Expand(origin.graph, origin.inquiry))

LEMMA DeliveryIsShort ==
  ASSUME NEW at, Paged(pages, graph, inquiry), inquiry \in AllRequests,
         at = StartOf(pages, Len(pages) + 1), Deliver(at),
         origin'.graph = graph, origin'.inquiry = inquiry, ReadingInv',
         \/ pages = <<>>
         \/ Len(pages) <= at /\ at < Len(Expand(graph, inquiry))
  PROVE  ShortInv'
<1> PICK page, length, count :
      page = PageOf(graph, inquiry, at) /\ length = Len(Expand(graph, inquiry))
      /\ count = Len(pages)
  OBVIOUS
<1>1. /\ pages' = Append(pages, page)
      /\ reading' = IF page.more THEN "reading" ELSE "done"
  BY DEF Deliver
<1>2. /\ StartOf(pages', Len(pages') + 1) = page.end
      /\ page.more <=> page.end < length
      /\ page.end \in 0..length
  BY <1>1, OnePageMore
<1>3. at \in 0..length /\ length \in Nat
  BY SliceLength DEF Paged
<1>4. count \in Nat /\ Len(pages') = count + 1 /\ (pages = <<>> => count = 0)
  BY <1>1 DEF Paged
<1>5. /\ page.more => page.end >= at + 1
      /\ at < length => page.end >= at + 1
  BY <1>3, PagesAdvance
<1>6. page.more => count + 1 <= page.end /\ page.end < length
  BY <1>2, <1>3, <1>4, <1>5
<1>7. count + 1 = 1 \/ count + 1 <= length
  BY <1>2, <1>3, <1>4, <1>5
<1> QED  BY <1>1, <1>2, <1>4, <1>6, <1>7 DEF ShortInv

LEMMA ShortStep == ShortInv /\ [PagesNext]_pageVars => ShortInv'
<1> SUFFICES ASSUME ShortInv, [PagesNext]_pageVars PROVE ShortInv'
  OBVIOUS
<1>0. ReadingInv /\ ReadingInv'
  BY ReadingStep DEF ShortInv
<1>1. CASE FirstPage
  <2>1. /\ Deliver(0) /\ origin'.graph = graph /\ origin'.inquiry = inquiry
        /\ inquiry \in AllRequests /\ pages = <<>>
    BY <1>0, <1>1 DEF FirstPage, ReadingInv
  <2>2. Paged(pages, graph, inquiry) /\ StartOf(pages, Len(pages) + 1) = 0
    BY <2>1, NoPagesYet
  <2> QED  BY <1>0, <2>1, <2>2, DeliveryIsShort
<1>2. CASE NextPage
  <2>1. /\ reading = "reading" /\ cursor.graph = graph /\ cursor.inquiry = inquiry
        /\ Deliver(cursor.at) /\ origin' = origin
    BY <1>2 DEF NextPage, Fresh
  <2>2. /\ inquiry \in AllRequests
        /\ Paged(pages, origin.graph, origin.inquiry)
        /\ cursor = [graph |-> origin.graph, inquiry |-> origin.inquiry,
                     at |-> StartOf(pages, Len(pages) + 1)]
    BY <1>0, <2>1 DEF ReadingInv
  <2>3. /\ origin'.graph = graph /\ origin'.inquiry = inquiry
        /\ origin.graph = graph /\ origin.inquiry = inquiry
        /\ cursor.at = StartOf(pages, Len(pages) + 1)
    BY <2>1, <2>2
  <2>4. /\ Paged(pages, graph, inquiry)
        /\ Len(pages) <= cursor.at /\ cursor.at < Len(Expand(graph, inquiry))
    BY <2>1, <2>2, <2>3 DEF ShortInv
  <2> QED  BY <1>0, <2>1, <2>2, <2>3, <2>4, DeliveryIsShort
<1>3. CASE RefusePage \/ StartOver
  BY <1>0, <1>3 DEF RefusePage, StartOver, ShortInv
<1>4. CASE ChangeSource \/ ChangeRequest
  BY <1>0, <1>4 DEF ChangeSource, ChangeRequest, ShortInv
<1>5. CASE UNCHANGED pageVars
  BY <1>0, <1>5 DEF pageVars, ShortInv
<1> QED  BY <1>1, <1>2, <1>3, <1>4, <1>5 DEF PagesNext

(* Every page but an only one brings a node: whoever reads a slice has     *)
(* read it, or been refused, after as many pages as it has nodes.          *)
ReadingIsShort ==
  reading \in {"reading", "done"} =>
    Len(pages) <= 1 \/ Len(pages) <= Cardinality(WithinDepth(origin.graph, origin.inquiry))

THEOREM ReadingsAreShort == PagesSpec => []ReadingIsShort
<1>1. PagesInit => ShortInv
  BY ReadingStarts DEF PagesInit, ShortInv
<1>2. ShortInv => ReadingIsShort
  <2> SUFFICES ASSUME ShortInv, reading \in {"reading", "done"} PROVE ReadingIsShort
    BY DEF ReadingIsShort
  <2>1. origin.inquiry \in AllRequests /\ Paged(pages, origin.graph, origin.inquiry)
    BY DEF ShortInv, ReadingInv
  <2> PICK g, q, length, at, count :
        /\ g = origin.graph /\ q = origin.inquiry /\ length = Len(Expand(g, q))
        /\ at = StartOf(pages, Len(pages) + 1) /\ count = Len(pages)
    OBVIOUS
  <2>2. length \in Nat /\ length = Cardinality(WithinDepth(g, q))
    BY <2>1, SliceLength
  <2>3. at \in 0..length /\ count \in Nat
    BY <2>1 DEF Paged
  <2>4. count <= 1 \/ count <= length
    BY <2>2, <2>3 DEF ShortInv
  <2> QED  BY <2>2, <2>4 DEF ReadingIsShort
<1> QED  BY <1>1, <1>2, ShortStep, PTL DEF PagesSpec
=============================================================================
