----------------------- MODULE ProfileCompilerProofs -----------------------
(***************************************************************************)
(* Proofs about the profile compiler, for every set of contracts: any      *)
(* intent, any number of risk flags, any order of the overlays.            *)
(*                                                                         *)
(* The properties are about Ancestors, a recursive function.  It is shown  *)
(* to be the least set that has a node's dependencies and those of its     *)
(* members, by an induction over sets of numbers that rests on finite      *)
(* subsets being well-founded; what the stages do to a graph is then       *)
(* argued with that characterisation alone.  The catalogue's fragments are *)
(* lines of nodes with branches beside them, and what no stage takes out   *)
(* of a fragment (Core) keeps its writers in line.                         *)
(***************************************************************************)
EXTENDS ProfileCompiler, FiniteSetTheorems, WellFoundedInduction, TLAPS

(* What Ancestors computes: induction over numbers, and the recursive function in it.       *)

\* A set of numbers that is not empty has a least member: the intervals 0..t are ordered by strict
\* inclusion, which is well-founded on finite sets.
LEMMA LeastNumber ==
  ASSUME NEW T \in SUBSET Nat, T # {}
  PROVE  \E m \in T : \A k \in T : m <= k
<1> DEFINE U == {0..t : t \in T}
           R == StrictSubsetOrdering(Nat)
<1>1. U \subseteq FiniteSubsetsOf(Nat) /\ U # {}
  <2>1. \A t \in T : IsFiniteSet(0..t)
    BY FS_Interval
  <2>2. \A t \in T : 0..t \in FiniteSubsetsOf(Nat)
    BY <2>1 DEF FiniteSubsetsOf
  <2> QED BY <2>2
<1>2. IsWellFoundedOn(R, FiniteSubsetsOf(Nat))
  BY FS_StrictSubsetOrderingWellFounded
<1> HIDE DEF U, R
<1>3. PICK x \in U : \A y \in U : ~(<<y, x>> \in R)
  BY <1>1, <1>2, WFMin
<1> USE DEF U, R
<1>4. PICK m \in T : x = 0..m
  BY <1>3
<1>5. ASSUME NEW k \in T, k < m PROVE FALSE
  <2>1. 0..k \in U /\ 0..k \subseteq 0..m /\ 0..k # 0..m
    <3>1. m \in 0..m /\ m \notin 0..k /\ 0..k \subseteq 0..m
      BY <1>5
    <3> QED BY <3>1
  <2>2. IsFiniteSet(0..k) /\ IsFiniteSet(0..m)
    BY FS_Interval
  <2>3. <<0..k, 0..m>> \in R
    BY <2>1, <2>2 DEF StrictSubsetOrdering, FiniteSubsetsOf
  <2> QED BY <1>3, <1>4, <2>1, <2>3
<1> QED BY <1>5

\* Induction over numbers, for a set.
LEMMA Induction ==
  ASSUME NEW S \in SUBSET Nat, 0 \in S, \A k \in S : k + 1 \in S
  PROVE  S = Nat
<1> SUFFICES ASSUME Nat \ S # {} PROVE FALSE
  OBVIOUS
<1>1. PICK m \in Nat \ S : \A k \in Nat \ S : m <= k
  BY LeastNumber
<1>2. m # 0 /\ m - 1 \in Nat /\ ~(m <= m - 1)
  OBVIOUS
<1>3. m - 1 \in S
  BY <1>1, <1>2
<1>4. (m - 1) + 1 \in S
  BY <1>3
<1> QED BY <1>1, <1>4

\* What node n depends on and the graph has.
Base(g, n) == g[n] \cap DOMAIN g

\* One more step up the dependencies.
Step(g, near) == near \cup UNION {g[m] \cap DOMAIN g : m \in near}

\* f lists what n reaches in up to k + 1 steps, for every k up to N.
Lists(f, g, n, N) ==
  /\ f \in [0..N -> SUBSET DOMAIN g]
  /\ f[0] = Base(g, n)
  /\ \A k \in 1..N : f[k] = Step(g, f[k - 1])

\* Steps stay in the graph.
LEMMA StepType == ASSUME NEW g, NEW A \in SUBSET DOMAIN g PROVE Step(g, A) \in SUBSET DOMAIN g
BY DEF Step

\* There is such a list, of any length.
LEMMA ListExists == ASSUME NEW g, NEW n PROVE \A N \in Nat : \E f : Lists(f, g, n, N)
<1> DEFINE S == {N \in Nat : \E f : Lists(f, g, n, N)}
<1>1. 0 \in S
  <2>1. Lists([k \in 0..0 |-> Base(g, n)], g, n, 0)
    BY DEF Lists, Base
  <2> QED BY <2>1
<1>2. ASSUME NEW N \in S PROVE N + 1 \in S
  <2>1. PICK f : Lists(f, g, n, N)
    BY <1>2
  <2> DEFINE h == [k \in 0..(N + 1) |-> IF k = N + 1 THEN Step(g, f[N]) ELSE f[k]]
  <2>2. f[N] \in SUBSET DOMAIN g /\ N \in Nat /\ f \in [0..N -> SUBSET DOMAIN g]
    BY <2>1 DEF Lists
  <2>3. h \in [0..(N + 1) -> SUBSET DOMAIN g]
    <3>1. \A k \in 0..(N + 1) : k # N + 1 => k \in 0..N
      BY <2>2
    <3> QED BY <2>2, <3>1, StepType
  <2>4. \A k \in 1..(N + 1) : h[k] = Step(g, h[k - 1])
    <3> TAKE k \in 1..(N + 1)
    <3>1. CASE k = N + 1
      <4>1. k - 1 = N /\ N \in 0..(N + 1) /\ k \in 0..(N + 1) /\ N # N + 1
        BY <2>2, <3>1
      <4> QED BY <3>1, <4>1
    <3>2. CASE k # N + 1
      <4>1. k \in 1..N /\ k \in 0..(N + 1) /\ k - 1 \in 0..(N + 1) /\ k - 1 # N + 1
        BY <2>2, <3>2
      <4>2. f[k] = Step(g, f[k - 1])
        BY <2>1, <4>1 DEF Lists
      <4> QED BY <3>2, <4>1, <4>2
    <3> QED BY <3>1, <3>2
  <2>5. h[0] = Base(g, n)
    BY <2>1, <2>2 DEF Lists
  <2> HIDE DEF h
  <2>6. Lists(h, g, n, N + 1)
    BY <2>3, <2>4, <2>5 DEF Lists
  <2> QED BY <2>2, <2>6
<1> HIDE DEF S
<1>3. S = Nat
  <2>1. S \subseteq Nat BY DEF S
  <2> QED BY <1>1, <1>2, <2>1, Induction
<1> QED BY <1>3 DEF S

\* Ancestors is the last element of such a list.
LEMMA AncestorsListed ==
  ASSUME NEW g, NEW n, IsFiniteSet(DOMAIN g)
  PROVE  \E f : /\ Lists(f, g, n, Cardinality(DOMAIN g))
                /\ Ancestors(g, n) = f[Cardinality(DOMAIN g)]
<1> DEFINE N == Cardinality(DOMAIN g)
           Fits(f) == f = [k \in 0..N |-> IF k = 0 THEN g[n] \cap DOMAIN g
                                         ELSE LET near == f[k - 1]
                                              IN near \cup UNION {g[m] \cap DOMAIN g : m \in near}]
           up == CHOOSE f : Fits(f)
<1>1. N \in Nat
  BY FS_CardinalityType
<1>2. Ancestors(g, n) = up[N]
  BY DEF Ancestors
<1>3. ASSUME NEW f, Lists(f, g, n, N) PROVE Fits(f)
  <2> HIDE DEF N
  <2> DEFINE h == [k \in 0..N |-> IF k = 0 THEN g[n] \cap DOMAIN g
                                         ELSE LET near == f[k - 1]
                                              IN near \cup UNION {g[m] \cap DOMAIN g : m \in near}]
  <2>1. f \in [0..N -> SUBSET DOMAIN g] /\ f[0] = Base(g, n)
    BY <1>3 DEF Lists
  <2>2. \A k \in 0..N : f[k] = h[k]
    <3> TAKE k \in 0..N
    <3>1. CASE k = 0 BY <2>1, <3>1 DEF Base
    <3>2. CASE k # 0
      <4>1. k \in 1..N BY <1>1, <3>2
      <4>2. f[k] = Step(g, f[k - 1]) BY <1>3, <4>1 DEF Lists
      <4> QED BY <3>2, <4>2 DEF Step
    <3> QED BY <3>1, <3>2
  <2>3. f = [k \in 0..N |-> f[k]] /\ h = [k \in 0..N |-> h[k]]
    BY <2>1
  <2> HIDE DEF h
  <2>4. f = h
    BY <2>2, <2>3
  <2> QED BY <2>4 DEF h
<1>4. \E f : Fits(f)
  BY <1>1, <1>3, ListExists
<1>5. Fits(up)
  <2> HIDE DEF Fits
  <2> QED BY <1>4
<1>6. Lists(up, g, n, N)
  <2>1. up = [k \in 0..N |-> IF k = 0 THEN g[n] \cap DOMAIN g
                             ELSE LET near == up[k - 1]
                                  IN  near \cup UNION {g[m] \cap DOMAIN g : m \in near}]
    BY <1>5
  <2> HIDE DEF N, up
  <2>2. up[0] = Base(g, n) /\ \A k \in 1..N : up[k] = Step(g, up[k - 1])
    <3>1. 0 \in 0..N /\ \A k \in 1..N : k \in 0..N /\ k # 0
      BY <1>1
    <3> QED BY <2>1, <3>1 DEF Base, Step
  <2> DEFINE S == {k \in Nat : k <= N => up[k] \in SUBSET DOMAIN g}
  <2>3. 0 \in S
    BY <2>2 DEF Base
  <2>4. ASSUME NEW k \in S PROVE k + 1 \in S
    <3> SUFFICES ASSUME k + 1 <= N PROVE up[k + 1] \in SUBSET DOMAIN g
      OBVIOUS
    <3>1. k + 1 \in 1..N /\ (k + 1) - 1 = k /\ k <= N
      BY <1>1
    <3>2. up[k + 1] = Step(g, up[k])
      BY <2>2, <3>1
    <3> QED BY <3>1, <3>2, StepType
  <2> HIDE DEF S
  <2>5. S = Nat
    <3>1. S \subseteq Nat BY DEF S
    <3> QED BY <2>3, <2>4, <3>1, Induction
  <2>6. \A k \in 0..N : up[k] \in SUBSET DOMAIN g
    BY <1>1, <2>5 DEF S
  <2>7. up \in [0..N -> SUBSET DOMAIN g]
    BY <2>1, <2>6
  <2> QED BY <2>2, <2>7 DEF Lists
<1> QED BY <1>2, <1>6

\* What is listed is in every set that is closed.
LEMMA ListInClosed ==
  ASSUME NEW g, NEW n, NEW N \in Nat, NEW f, Lists(f, g, n, N), NEW C, Base(g, n) \subseteq C,
         \A m \in C \cap DOMAIN g : Base(g, m) \subseteq C
  PROVE  \A k \in 0..N : f[k] \subseteq C
<1> DEFINE S == {k \in Nat : k <= N => f[k] \subseteq C}
<1>1. 0 \in S
  BY DEF Lists
<1>2. ASSUME NEW k \in S PROVE k + 1 \in S
  <2> SUFFICES ASSUME k + 1 <= N PROVE f[k + 1] \subseteq C
    OBVIOUS
  <2>1. k + 1 \in 1..N /\ (k + 1) - 1 = k /\ k <= N /\ k \in 0..N
    OBVIOUS
  <2>2. f[k + 1] = Step(g, f[k]) /\ f[k] \in SUBSET DOMAIN g
    BY <2>1 DEF Lists
  <2> QED BY <2>1, <2>2 DEF Step, Base
<1> HIDE DEF S
<1>3. S = Nat
  <2>1. S \subseteq Nat BY DEF S
  <2> QED BY <1>1, <1>2, <2>1, Induction
<1> QED BY <1>3 DEF S

\* A list grows, by at least one at a time until it stops.
LEMMA ListGrows ==
  ASSUME NEW g, NEW n, IsFiniteSet(DOMAIN g), NEW N \in Nat, NEW f, Lists(f, g, n, N)
  PROVE  \A k \in 0..N : /\ f[0] \subseteq f[k]
                         /\ Step(g, f[k]) = f[k] \/ Cardinality(f[k]) >= k
<1> DEFINE S == {k \in Nat : k <= N => /\ f[0] \subseteq f[k]
                                       /\ Step(g, f[k]) = f[k] \/ Cardinality(f[k]) >= k}
<1>1. 0 \in S
  <2>1. f[0] \in SUBSET DOMAIN g
    BY DEF Lists
  <2>2. Cardinality(f[0]) \in Nat
    BY <2>1, FS_Subset, FS_CardinalityType
  <2> QED BY <2>2
<1>2. ASSUME NEW k \in S PROVE k + 1 \in S
  <2> SUFFICES ASSUME k + 1 <= N
               PROVE  /\ f[0] \subseteq f[k + 1]
                      /\ Step(g, f[k + 1]) = f[k + 1] \/ Cardinality(f[k + 1]) >= k + 1
    OBVIOUS
  <2>1. k \in Nat /\ k + 1 \in 1..N /\ (k + 1) - 1 = k /\ k <= N /\ k \in 0..N /\ k + 1 \in 0..N
    OBVIOUS
  <2>2. f[k + 1] = Step(g, f[k]) /\ f[k] \in SUBSET DOMAIN g /\ f[k + 1] \in SUBSET DOMAIN g
    BY <2>1 DEF Lists
  <2>3. f[0] \subseteq f[k] /\ (Step(g, f[k]) = f[k] \/ Cardinality(f[k]) >= k)
    BY <2>1
  <2>4. f[k] \subseteq f[k + 1]
    BY <2>2 DEF Step
  <2>5. CASE f[k] = f[k + 1]
    BY <2>2, <2>3, <2>5
  <2>6. CASE f[k] # f[k + 1]
    <3>1. Cardinality(f[k]) >= k
      BY <2>2, <2>3, <2>6
    <3>2. IsFiniteSet(f[k + 1]) /\ IsFiniteSet(f[k])
      BY <2>2, FS_Subset
    <3>3. /\ Cardinality(f[k]) <= Cardinality(f[k + 1])
          /\ Cardinality(f[k]) # Cardinality(f[k + 1])
      BY <2>4, <2>6, <3>2, FS_Subset
    <3>4. Cardinality(f[k]) \in Nat /\ Cardinality(f[k + 1]) \in Nat
      BY <3>2, FS_CardinalityType
    <3>5. Cardinality(f[k + 1]) >= k + 1
      BY <2>1, <3>1, <3>3, <3>4
    <3> QED BY <2>3, <2>4, <3>5
  <2> QED BY <2>5, <2>6
<1> HIDE DEF S
<1>3. S = Nat
  <2>1. S \subseteq Nat BY DEF S
  <2> QED BY <1>1, <1>2, <2>1, Induction
<1> QED BY <1>3 DEF S

\* Ancestors is the least set of nodes with the dependencies of n and those of its members.
LEMMA AncestorsLeast ==
  ASSUME NEW g, NEW n, IsFiniteSet(DOMAIN g)
  PROVE  /\ Ancestors(g, n) \subseteq DOMAIN g
         /\ Base(g, n) \subseteq Ancestors(g, n)
         /\ \A m \in Ancestors(g, n) : Base(g, m) \subseteq Ancestors(g, n)
         /\ \A C : Base(g, n) \subseteq C /\ (\A m \in C \cap DOMAIN g : Base(g, m) \subseteq C)
                  => Ancestors(g, n) \subseteq C
<1> DEFINE N == Cardinality(DOMAIN g)
<1>1. N \in Nat /\ N \in 0..N /\ 0 \in 0..N
  BY FS_CardinalityType
<1> HIDE DEF N
<1>2. PICK f : Lists(f, g, n, N) /\ Ancestors(g, n) = f[N]
  BY AncestorsListed DEF N
<1>3. f[N] \in SUBSET DOMAIN g /\ f[0] = Base(g, n)
  BY <1>1, <1>2 DEF Lists
<1>4. f[0] \subseteq f[N] /\ (Step(g, f[N]) = f[N] \/ Cardinality(f[N]) >= N)
  BY <1>1, <1>2, ListGrows
<1>5. Step(g, f[N]) = f[N]
  <2>1. CASE Cardinality(f[N]) >= N
    <3>1. Cardinality(f[N]) <= N /\ Cardinality(f[N]) \in Nat
      BY <1>3, FS_Subset, FS_CardinalityType DEF N
    <3>2. f[N] = DOMAIN g
      BY <1>1, <1>3, <2>1, <3>1, FS_Subset DEF N
    <3> QED BY <3>2 DEF Step
  <2> QED BY <1>4, <2>1
<1>6. \A m \in f[N] : Base(g, m) \subseteq f[N]
  BY <1>5 DEF Step, Base
<1>7. ASSUME NEW C, Base(g, n) \subseteq C, \A m \in C \cap DOMAIN g : Base(g, m) \subseteq C
      PROVE  f[N] \subseteq C
  BY <1>1, <1>2, <1>7, ListInClosed
<1> QED BY <1>2, <1>3, <1>4, <1>6, <1>7

-----------------------------------------------------------------------------
(* Paths.                                                                                   *)

\* A dependency of an ancestor is an ancestor, however far.
LEMMA AncestorsTransitive ==
  ASSUME NEW g, IsFiniteSet(DOMAIN g), NEW n, NEW k \in Ancestors(g, n)
  PROVE  Ancestors(g, k) \subseteq Ancestors(g, n)
BY AncestorsLeast

\* Nodes and dependencies that are added take no ancestor away.
LEMMA AncestorsGrow ==
  ASSUME NEW g, NEW h, IsFiniteSet(DOMAIN g), IsFiniteSet(DOMAIN h), NEW n \in DOMAIN g,
         DOMAIN g \subseteq DOMAIN h, \A m \in DOMAIN g : Base(g, m) \subseteq h[m]
  PROVE  Ancestors(g, n) \subseteq Ancestors(h, n)
<1>1. \A m \in DOMAIN g : Base(g, m) \subseteq Base(h, m)
  BY DEF Base
<1>2. /\ Base(h, n) \subseteq Ancestors(h, n)
      /\ \A m \in Ancestors(h, n) : Base(h, m) \subseteq Ancestors(h, n)
  BY AncestorsLeast
<1>3. \A C : Base(g, n) \subseteq C /\ (\A m \in C \cap DOMAIN g : Base(g, m) \subseteq C)
                  => Ancestors(g, n) \subseteq C
  BY AncestorsLeast
<1> QED BY <1>1, <1>2, <1>3

\* An ancestor is a dependency, or an ancestor of one.
LEMMA AncestorsSplit ==
  ASSUME NEW g, IsFiniteSet(DOMAIN g), NEW n, NEW w \in Ancestors(g, n)
  PROVE  w \in Base(g, n) \/ \E k \in Base(g, n) : w \in Ancestors(g, k)
<1> DEFINE C == Base(g, n) \cup UNION {Ancestors(g, k) : k \in Base(g, n)}
<1>1. \A m \in C : Base(g, m) \subseteq C
  <2>1. \A k : Base(g, k) \subseteq Ancestors(g, k)
               /\ \A m \in Ancestors(g, k) : Base(g, m) \subseteq Ancestors(g, k)
    BY AncestorsLeast
  <2> QED BY <2>1
<1>2. Ancestors(g, n) \subseteq C
  <2> HIDE DEF C
  <2>1. Base(g, n) \subseteq C BY DEF C
  <2>2. \A D : Base(g, n) \subseteq D /\ (\A m \in D \cap DOMAIN g : Base(g, m) \subseteq D)
                  => Ancestors(g, n) \subseteq D
    BY AncestorsLeast
  <2> QED BY <1>1, <2>1, <2>2
<1> QED BY <1>2

\* The graph has the nodes of places i to j, each with the one before as a dependency.
Along(g, ids, i, j) ==
  /\ \A k \in i..j : ids[k] \in DOMAIN g
  /\ \A k \in i..(j - 1) : ids[k] \in g[ids[k + 1]]

\* The node at the first place is an ancestor of those at the others.
LEMMA AlongAncestors ==
  ASSUME NEW g, IsFiniteSet(DOMAIN g), NEW ids, NEW i \in Nat, NEW j \in Nat, Along(g, ids, i, j)
  PROVE  \A k \in (i + 1)..j : ids[i] \in Ancestors(g, ids[k])
<1> DEFINE S == {k \in Nat : (i + 1) + k <= j => ids[i] \in Ancestors(g, ids[(i + 1) + k])}
<1>1. 0 \in S
  <2> SUFFICES ASSUME i + 1 <= j PROVE ids[i] \in Ancestors(g, ids[i + 1])
    OBVIOUS
  <2>1. i \in i..(j - 1) /\ i \in i..j
    OBVIOUS
  <2>2. ids[i] \in Base(g, ids[i + 1])
    BY <2>1 DEF Along, Base
  <2> QED BY <2>2, AncestorsLeast
<1>2. ASSUME NEW k \in S PROVE k + 1 \in S
  <2> DEFINE l == (i + 1) + k
  <2> SUFFICES ASSUME l + 1 <= j PROVE ids[i] \in Ancestors(g, ids[l + 1])
    <3>1. (i + 1) + (k + 1) = l + 1 OBVIOUS
    <3> QED BY <3>1
  <2>1. l \in i..(j - 1) /\ l \in i..j /\ l <= j
    OBVIOUS
  <2>2. ids[i] \in Ancestors(g, ids[l])
    BY <2>1
  <2> HIDE DEF l
  <2>3. ids[l] \in Base(g, ids[l + 1])
    BY <2>1 DEF Along, Base
  <2>4. ids[l] \in Ancestors(g, ids[l + 1])
    BY <2>3, AncestorsLeast
  <2> QED BY <2>2, <2>4, AncestorsTransitive
<1> HIDE DEF S
<1>3. S = Nat
  <2>1. S \subseteq Nat BY DEF S
  <2> QED BY <1>1, <1>2, <2>1, Induction
<1> TAKE k \in (i + 1)..j
<1>4. k - (i + 1) \in Nat /\ (i + 1) + (k - (i + 1)) = k /\ k <= j
  OBVIOUS
<1> QED BY <1>3, <1>4 DEF S

\* Domains and dependencies of the operations.
LEMMA MergeIs ==
  ASSUME NEW g, NEW h
  PROVE  /\ DOMAIN Merge(g, h) = DOMAIN g \cup DOMAIN h
         /\ \A n \in DOMAIN g : g[n] \subseteq Merge(g, h)[n]
         /\ \A n \in DOMAIN h : h[n] \subseteq Merge(g, h)[n]
         /\ \A n \in DOMAIN g \ DOMAIN h : Merge(g, h)[n] = g[n]
         /\ \A n \in DOMAIN h \ DOMAIN g : Merge(g, h)[n] = h[n]
BY DEF Merge

\* A merge of finite graphs is finite.
LEMMA MergeFinite ==
  ASSUME NEW g, NEW h, IsFiniteSet(DOMAIN g), IsFiniteSet(DOMAIN h)
  PROVE  IsFiniteSet(DOMAIN Merge(g, h))
<1>1. IsFiniteSet(DOMAIN g \cup DOMAIN h)
  BY FS_Union
<1> QED BY <1>1, MergeIs

\* The sequence has N elements.
Long(ids, N) == N \in Nat /\ DOMAIN ids = 1..N /\ Len(ids) = N

\* A chain has the nodes of its sequence, each depending on the one before.
LEMMA ChainIs ==
  ASSUME NEW ids, NEW N, Long(ids, N)
  PROVE  /\ DOMAIN Chain(ids) = {ids[k] : k \in 1..N}
         /\ IsFiniteSet(DOMAIN Chain(ids))
         /\ Along(Chain(ids), ids, 1, N)
<1>1. DOMAIN Chain(ids) = {ids[k] : k \in 1..N} /\ N \in Nat
  BY DEF Chain, Long
<1>2. IsFiniteSet(DOMAIN Chain(ids))
  <2> DEFINE D == {ids[k] : k \in 1..N}
             f == [k \in 1..N |-> ids[k]]
  <2>1. f \in Surjection(1..N, D)
    BY DEF Surjection
  <2>2. IsFiniteSet(1..N)
    BY <1>1, FS_Interval
  <2> HIDE DEF f
  <2>3. IsFiniteSet(D)
    <3> HIDE DEF D
    <3> QED BY <2>1, <2>2, FS_Surjection
  <2> QED BY <1>1, <2>3
<1>3. \A k \in 1..(N - 1) : ids[k + 1] \in DOMAIN Chain(ids) /\ ids[k] \in Chain(ids)[ids[k + 1]]
  <2> TAKE k \in 1..(N - 1)
  <2>1. k + 1 \in 1..N /\ k \in {j \in 1..(Len(ids) - 1) : ids[j + 1] = ids[k + 1]}
    BY <1>1 DEF Long
  <2>2. ids[k + 1] \in {ids[l] : l \in DOMAIN ids}
    BY <2>1 DEF Long
  <2> QED BY <2>1, <2>2 DEF Chain
<1> QED BY <1>1, <1>2, <1>3 DEF Along

-----------------------------------------------------------------------------
(* Work and reviews on a graph.                                                             *)

\* The writers whose result is reviewed.
Work == {"implementer", "spec-author"}

\* A graph in which every review waits for the work.
Reviewed(g) ==
  /\ IsFiniteSet(DOMAIN g) /\ "acceptance" \in DOMAIN g
  /\ \A r \in Reviews \cap DOMAIN g : Work \cap DOMAIN g \subseteq Ancestors(g, r)

\* What a later stage may take out of a fragment, beside the writers.
Droppable == Skipped \cup {"planner", "plan-critic", "spec-consistency"} \cup Investigators

\* What every later stage leaves of fragment f.
Core(f) ==
  [n \in DOMAIN f \ (Droppable \cup {"spec-author"}) |->
     IF n = "implementer" THEN {} ELSE f[n] \cap DOMAIN f]

\* A fragment in which writers are in line, by dependencies that no stage takes out.
Lined(f) ==
  \A v, w \in Writers \cap DOMAIN f :
    v # w => /\ {v, w} = {"implementer", "repair-implementer"}
             /\ "implementer" \in Ancestors(Core(f), "repair-implementer")

\* The core of a finite fragment is finite.
LEMMA CoreFinite == ASSUME NEW f, IsFiniteSet(DOMAIN f) PROVE IsFiniteSet(DOMAIN Core(f))
<1>1. DOMAIN Core(f) \in SUBSET DOMAIN f
  BY DEF Core
<1> QED BY <1>1, FS_Subset

\* One line of nodes up to acceptance, with at most one writer, before any review.
LEMMA OneLine ==
  ASSUME NEW ids, NEW N, Long(ids, N), N > 0, ids[N] = "acceptance", NEW i \in 1..N,
         \A k \in 1..N : ids[k] \in Work => k = i,
         \A k \in 1..i : ids[k] \notin Reviews
  PROVE  Reviewed(Chain(ids))
<1> DEFINE g == Chain(ids)
<1>1. DOMAIN g = {ids[k] : k \in 1..N} /\ IsFiniteSet(DOMAIN g) /\ Along(g, ids, 1, N) /\ N \in Nat
  BY ChainIs DEF Long
<1> HIDE DEF g
<1>2. Along(g, ids, i, N)
  BY <1>1 DEF Along
<1>3. \A k \in (i + 1)..N : ids[i] \in Ancestors(g, ids[k])
  BY <1>1, <1>2, AlongAncestors
<1>4. ASSUME NEW r \in Reviews \cap DOMAIN g, NEW w \in Work \cap DOMAIN g PROVE w \in Ancestors(g, r)
  <2>1. PICK k \in 1..N : r = ids[k]
    BY <1>1
  <2>2. PICK l \in 1..N : w = ids[l]
    BY <1>1
  <2>3. l = i /\ k \notin 1..i
    BY <2>1, <2>2
  <2>4. k \in (i + 1)..N
    BY <1>1, <2>3
  <2> QED BY <1>3, <2>1, <2>2, <2>3, <2>4
<1>5. "acceptance" \in DOMAIN g
  BY <1>1
<1> QED BY <1>1, <1>4, <1>5 DEF Reviewed, g

\* Nodes beside the line, neither work nor reviews.
LEMMA BesideLine ==
  ASSUME NEW g, NEW h, Reviewed(g), IsFiniteSet(DOMAIN h),
         (Reviews \cup Work) \cap DOMAIN h \subseteq DOMAIN g
  PROVE  Reviewed(Merge(g, h))
<1> DEFINE m == Merge(g, h)
<1>1. DOMAIN m = DOMAIN g \cup DOMAIN h /\ IsFiniteSet(DOMAIN m) /\ \A n \in DOMAIN g : g[n] \subseteq m[n]
  BY MergeIs, MergeFinite DEF Reviewed
<1> HIDE DEF m
<1>2. \A n \in DOMAIN g : Ancestors(g, n) \subseteq Ancestors(m, n)
  BY <1>1, AncestorsGrow DEF Reviewed, Base
<1> QED BY <1>1, <1>2 DEF Reviewed, m

\* A repair at the end of the line from the writer to its review.
LEMMA RepairLine ==
  ASSUME NEW f, IsFiniteSet(DOMAIN f), NEW ids, NEW i \in Nat, NEW j \in Nat, Along(f, ids, i, j), i < j,
         ids[i] = "implementer", \A k \in (i + 1)..j : ids[k] # "implementer",
         \A k \in i..j : ids[k] \notin Droppable \cup {"spec-author"},
         "repair-implementer" \in DOMAIN f, ids[j] \in f["repair-implementer"],
         "spec-author" \notin DOMAIN f
  PROVE  Lined(f) /\ \A k \in (i + 1)..j : "implementer" \in Ancestors(Core(f), ids[k])
<1> DEFINE c == Core(f)
<1>1. IsFiniteSet(DOMAIN c)
  BY CoreFinite
<1>2. \A k \in i..j : ids[k] \in DOMAIN c /\ ids[k] \in DOMAIN f
  BY DEF Along, Core
<1>3. \A k \in i..(j - 1) : ids[k] \in c[ids[k + 1]]
  <2> TAKE k \in i..(j - 1)
  <2>1. k \in i..j /\ k + 1 \in (i + 1)..j /\ k + 1 \in i..j
    OBVIOUS
  <2> QED BY <1>2, <2>1 DEF Core, Along
<1>4. "repair-implementer" \in DOMAIN c /\ ids[j] \in c["repair-implementer"]
  <2>1. j \in i..j OBVIOUS
  <2> QED BY <1>2, <2>1 DEF Core, Droppable, Skipped, Investigators
<1> HIDE DEF c
<1>5. Along(c, ids, i, j)
  BY <1>2, <1>3 DEF Along
<1>6. \A k \in (i + 1)..j : "implementer" \in Ancestors(c, ids[k])
  BY <1>1, <1>5, AlongAncestors
<1>7. "implementer" \in Ancestors(c, "repair-implementer")
  <2>1. ids[j] \in Base(c, "repair-implementer") /\ j \in (i + 1)..j
    BY <1>2, <1>4 DEF Base
  <2>2. ids[j] \in Ancestors(c, "repair-implementer")
    BY <1>1, <2>1, AncestorsLeast
  <2> QED BY <1>1, <1>6, <2>1, <2>2, AncestorsTransitive
<1>8. \A v, w \in Writers \cap DOMAIN f : v # w => {v, w} = {"implementer", "repair-implementer"}
  BY DEF Writers
<1> QED BY <1>6, <1>7, <1>8 DEF Lined, c

-----------------------------------------------------------------------------
(* The catalogue of fragments.                                                              *)

\* The line of a fragment: up to acceptance, with at most one writer, at place i, before any review.
Line(ids, N, i) ==
  /\ Long(ids, N) /\ N > 0 /\ ids[N] = "acceptance" /\ i \in 1..N
  /\ \A k \in 1..N : (ids[k] \in Work => k = i) /\ ids[k] # "repair-implementer"
  /\ \A k \in 1..i : ids[k] \notin Reviews

\* What every fragment of the catalogue is: its reviews wait for its work, its writers are in line.
Fit(f) == Reviewed(f) /\ Lined(f)

\* A fragment of one line.
LEMMA LineFits == ASSUME NEW ids, NEW N, NEW i, Line(ids, N, i) PROVE Fit(Chain(ids))
<1>1. Reviewed(Chain(ids))
  BY OneLine DEF Line
<1>2. \A v, w \in Writers \cap DOMAIN Chain(ids) : v = w
  <2>1. DOMAIN Chain(ids) = {ids[k] : k \in 1..N}
    BY ChainIs DEF Line
  <2> QED BY <2>1 DEF Line, Writers, Work
<1> QED BY <1>1, <1>2 DEF Lined, Fit

\* A line with nodes beside it that neither write nor review.
LEMMA BesideFits ==
  ASSUME NEW g, NEW h, Fit(g), \A v, w \in Writers \cap DOMAIN g : v = w,
         IsFiniteSet(DOMAIN h), (Reviews \cup Writers) \cap DOMAIN h \subseteq DOMAIN g
  PROVE  Fit(Merge(g, h)) /\ Writers \cap DOMAIN Merge(g, h) = Writers \cap DOMAIN g
<1>1. Reviewed(Merge(g, h))
  BY BesideLine DEF Fit, Work, Writers
<1>2. Writers \cap DOMAIN Merge(g, h) = Writers \cap DOMAIN g
  BY MergeIs
<1> QED BY <1>1, <1>2 DEF Fit, Lined

\* A line of a writer and a review at place j, with the tail that repairs.
LEMMA RepairFits ==
  ASSUME NEW ids, NEW N, NEW i, Line(ids, N, i), NEW j \in (i + 1)..N, ids[i] = "implementer",
         \A k \in i..j : ids[k] \notin Droppable, 
         NEW g, Fit(g), \A v \in Writers \cap DOMAIN g : v = "implementer", Along(g, ids, 1, N)
  PROVE  LET f == Merge(g, writeRepairTail(ids[j]))
         IN  /\ Fit(f)
             /\ \A k \in (i + 1)..j : "implementer" \in Ancestors(Core(f), ids[k])
<1> DEFINE tail == <<ids[j], "repair-implementer", "fresh-reviewer">>
           f == Merge(g, Chain(tail))
<1>1. Long(tail, 3) /\ tail[1] = ids[j] /\ tail[2] = "repair-implementer" /\ tail[3] = "fresh-reviewer"
  BY DEF Long
<1> HIDE DEF tail
<1>2. /\ DOMAIN Chain(tail) = {tail[k] : k \in 1..3} /\ IsFiniteSet(DOMAIN Chain(tail))
      /\ Along(Chain(tail), tail, 1, 3)
  BY <1>1, ChainIs
<1>3. DOMAIN Chain(tail) = {ids[j], "repair-implementer", "fresh-reviewer"}
  BY <1>1, <1>2
<1>4. ids[j] \in Chain(tail)["repair-implementer"]
  BY <1>1, <1>2 DEF Along
<1>5. N \in Nat /\ i \in Nat /\ j \in Nat /\ i \in 1..N /\ j \in 1..N
  BY DEF Line, Long
<1>6. ids[j] \in DOMAIN g
  BY <1>5 DEF Along
<1>7. Reviewed(f)
  BY <1>2, <1>3, <1>6, BesideLine DEF Fit, Reviews, Work
<1>8. /\ DOMAIN f = DOMAIN g \cup DOMAIN Chain(tail) /\ IsFiniteSet(DOMAIN f)
      /\ \A n \in DOMAIN g : g[n] \subseteq f[n]
      /\ \A n \in DOMAIN Chain(tail) : Chain(tail)[n] \subseteq f[n]
  BY <1>7, MergeIs DEF Reviewed
<1> HIDE DEF f
<1>9. Along(f, ids, i, j)
  <2>1. \A k \in i..j : k \in 1..N
    BY <1>5
  <2>2. \A k \in i..(j - 1) : k \in 1..(N - 1) /\ k + 1 \in 1..N
    BY <1>5
  <2> QED BY <1>8, <2>1, <2>2 DEF Along
<1>10. \A k \in (i + 1)..j : ids[k] # "implementer"
  BY <1>5 DEF Line, Work
<1>11. \A k \in i..j : ids[k] # "spec-author"
  BY <1>5 DEF Line, Work
<1>12. "spec-author" \notin DOMAIN f
  <2>1. "spec-author" \notin DOMAIN g
    BY DEF Writers
  <2>2. ids[j] # "spec-author"
    BY <1>5, <1>11
  <2> QED BY <1>3, <1>8, <2>1, <2>2
<1>13. "repair-implementer" \in DOMAIN f /\ ids[j] \in f["repair-implementer"]
  BY <1>3, <1>4, <1>8
<1>14. Lined(f) /\ \A k \in (i + 1)..j : "implementer" \in Ancestors(Core(f), ids[k])
  BY <1>5, <1>8, <1>9, <1>10, <1>11, <1>12, <1>13, RepairLine
<1> QED BY <1>7, <1>14 DEF Fit, f, tail, writeRepairTail

\* A fragment of one line with the tail that repairs.
LEMMA RepairedLineFits ==
  ASSUME NEW ids, NEW N, NEW i, Line(ids, N, i), NEW j \in (i + 1)..N, ids[i] = "implementer",
         \A k \in i..j : ids[k] \notin Droppable
  PROVE  LET f == Merge(Chain(ids), writeRepairTail(ids[j]))
         IN  /\ Fit(f)
             /\ \A k \in (i + 1)..j : "implementer" \in Ancestors(Core(f), ids[k])
<1>1. DOMAIN Chain(ids) = {ids[k] : k \in 1..N} /\ Along(Chain(ids), ids, 1, N)
  BY ChainIs DEF Line
<1>2. \A v \in Writers \cap DOMAIN Chain(ids) : v = "implementer"
  BY <1>1 DEF Line, Writers, Work
<1>3. Fit(Chain(ids))
  BY LineFits
<1> QED BY <1>1, <1>2, <1>3, RepairFits

\* The bugfix fragment, whose reviews wait for the work by dependencies that even the fast budget
\* leaves.
LEMMA BugfixFits ==
  /\ Fit(loadFragment["bugfix"])
  /\ \A r \in {"reviewer", "acceptance"} : "implementer" \in Ancestors(Core(loadFragment["bugfix"]), r)
  /\ Reviews \cap DOMAIN loadFragment["bugfix"] = {"reviewer", "acceptance"}
<1> DEFINE ids == <<"analyst", "reproduction-investigator", "root-cause-investigator", "planner",
                    "implementer", "regression-verification", "reviewer", "acceptance">>
           f == loadFragment["bugfix"]
<1>1. Line(ids, 8, 5) /\ ids[5] = "implementer" /\ ids[7] = "reviewer" /\ ids[8] = "acceptance"
  BY DEF Line, Long, Work, Reviews
<1>2. \A k \in 5..7 : ids[k] \notin Droppable
  BY DEF Droppable, Investigators, Skipped
<1>3. f = Merge(Chain(ids), writeRepairTail(ids[7])) /\ 7 \in (5 + 1)..8
  BY DEF loadFragment, PrimaryIntents, BUGFIX_PROFILE
<1>4. Reviews \cap {ids[k] : k \in 1..8} = {"reviewer", "acceptance"}
  BY DEF Reviews
<1> HIDE DEF ids, f
<1>5. Fit(f) /\ \A k \in (5 + 1)..7 : "implementer" \in Ancestors(Core(f), ids[k])
  BY <1>1, <1>2, <1>3, RepairedLineFits
<1>6. "implementer" \in Ancestors(Core(f), "reviewer")
  BY <1>1, <1>5
<1>7. DOMAIN Chain(ids) = {ids[k] : k \in 1..8} /\ Along(Chain(ids), ids, 1, 8)
  BY <1>1, ChainIs DEF Line
<1>8. /\ DOMAIN f = DOMAIN Chain(ids) \cup DOMAIN writeRepairTail("reviewer")
      /\ \A n \in DOMAIN Chain(ids) : Chain(ids)[n] \subseteq f[n]
  <2>1. LET m == Merge(Chain(ids), writeRepairTail(ids[7]))
        IN  /\ DOMAIN m = DOMAIN Chain(ids) \cup DOMAIN writeRepairTail(ids[7])
            /\ \A n \in DOMAIN Chain(ids) : Chain(ids)[n] \subseteq m[n]
    BY MergeIs
  <2> QED BY <1>1, <1>3, <2>1
<1>9. "reviewer" \in f["acceptance"] /\ {"reviewer", "acceptance"} \subseteq DOMAIN f
  <2>1. ids[7] \in Chain(ids)[ids[7 + 1]] /\ ids[7] \in DOMAIN Chain(ids) /\ ids[8] \in DOMAIN Chain(ids)
    BY <1>7 DEF Along
  <2> QED BY <1>1, <1>8, <2>1
<1>10. "reviewer" \in Base(Core(f), "acceptance")
  BY <1>9 DEF Base, Core, Droppable, Investigators, Skipped
<1>11. "implementer" \in Ancestors(Core(f), "acceptance")
  <2>1. IsFiniteSet(DOMAIN Core(f))
    BY <1>5, CoreFinite DEF Fit, Reviewed
  <2>2. "reviewer" \in Ancestors(Core(f), "acceptance")
    BY <1>10, <2>1, AncestorsLeast
  <2> QED BY <1>6, <2>1, <2>2, AncestorsTransitive
<1>12. Reviews \cap DOMAIN f = {"reviewer", "acceptance"}
  <2>1. DOMAIN writeRepairTail("reviewer") = {"reviewer", "repair-implementer", "fresh-reviewer"}
    <3> DEFINE tail == <<"reviewer", "repair-implementer", "fresh-reviewer">>
    <3>1. Long(tail, 3) /\ {tail[k] : k \in 1..3} = {"reviewer", "repair-implementer", "fresh-reviewer"}
      BY DEF Long
    <3> HIDE DEF tail
    <3>2. DOMAIN Chain(tail) = {tail[k] : k \in 1..3}
      BY <3>1, ChainIs
    <3> QED BY <3>1, <3>2 DEF writeRepairTail, tail
  <2> QED BY <1>4, <1>7, <1>8, <2>1 DEF Reviews
<1> QED BY <1>5, <1>6, <1>11, <1>12 DEF f

\* The feature fragment, which has a gate.
LEMMA FeatureFits == Fit(loadFragment["feature"]) /\ "spec-consistency" \in DOMAIN loadFragment["feature"]
<1> DEFINE ids == <<"analyst", "code-investigator", "planner", "implementer", "integration",
                    "verification", "reviewer", "spec-consistency", "acceptance">>
           side == <<"analyst", "spec-investigator", "planner">>
           g == Merge(Chain(ids), Chain(side))
<1>1. Line(ids, 9, 4) /\ ids[4] = "implementer" /\ ids[7] = "reviewer" /\ ids[8] = "spec-consistency"
  BY DEF Line, Long, Work, Reviews
<1>2. \A k \in 4..7 : ids[k] \notin Droppable
  BY DEF Droppable, Investigators, Skipped
<1>3. \A v \in Writers \cap {ids[k] : k \in 1..9} : v = "implementer"
  BY DEF Writers
<1>4. Long(side, 3) /\ (Reviews \cup Writers) \cap {side[k] : k \in 1..3} = {}
  BY DEF Long, Reviews, Writers
<1>5. loadFragment["feature"] = Merge(g, writeRepairTail(ids[7])) /\ 7 \in (4 + 1)..9
  BY DEF loadFragment, PrimaryIntents, FEATURE_PROFILE
<1> HIDE DEF ids, side
<1>6. DOMAIN Chain(ids) = {ids[k] : k \in 1..9} /\ Along(Chain(ids), ids, 1, 9) /\ Fit(Chain(ids))
  BY <1>1, ChainIs, LineFits DEF Line
<1>7. DOMAIN Chain(side) = {side[k] : k \in 1..3} /\ IsFiniteSet(DOMAIN Chain(side))
  BY <1>4, ChainIs
<1>8. Fit(g) /\ Writers \cap DOMAIN g = Writers \cap DOMAIN Chain(ids)
  BY <1>3, <1>4, <1>6, <1>7, BesideFits
<1>9. /\ DOMAIN Chain(ids) \subseteq DOMAIN g
      /\ \A n \in DOMAIN Chain(ids) : Chain(ids)[n] \subseteq g[n]
  BY MergeIs
<1> HIDE DEF g
<1>10. Along(g, ids, 1, 9)
  <2>1. \A k \in 1..(9 - 1) : k + 1 \in 1..9
    OBVIOUS
  <2> QED BY <1>6, <1>9, <2>1 DEF Along
<1>11. Fit(loadFragment["feature"])
  BY <1>1, <1>2, <1>3, <1>5, <1>6, <1>8, <1>10, RepairFits
<1>12. "spec-consistency" \in DOMAIN g
  BY <1>1, <1>10 DEF Along
<1>13. DOMAIN Merge(g, writeRepairTail(ids[7])) = DOMAIN g \cup DOMAIN writeRepairTail(ids[7])
  BY MergeIs
<1> QED BY <1>5, <1>11, <1>12, <1>13

\* The fragments that are analysis only have no writer.
LEMMA ResearchFits ==
  \A intent \in {"research", "diagnosis"} :
    Fit(loadFragment[intent]) /\ Writers \cap DOMAIN loadFragment[intent] = {}
<1>1. Fit(loadFragment["research"]) /\ Writers \cap DOMAIN loadFragment["research"] = {}
  <2> DEFINE ids == <<"analyst", "code-investigator", "contradiction-finder", "synthesizer",
                      "evidence-completeness", "acceptance">>
             a == <<"analyst", "spec-investigator", "contradiction-finder">>
             b == <<"analyst", "history-investigator", "contradiction-finder">>
             c == <<"analyst", "external-investigator">>
  <2>1. Line(ids, 6, 1) /\ Writers \cap {ids[k] : k \in 1..6} = {}
    BY DEF Line, Long, Work, Reviews, Writers
  <2>2. /\ Long(a, 3) /\ (Reviews \cup Writers) \cap {a[k] : k \in 1..3} = {}
        /\ Long(b, 3) /\ (Reviews \cup Writers) \cap {b[k] : k \in 1..3} = {}
        /\ Long(c, 2) /\ (Reviews \cup Writers) \cap {c[k] : k \in 1..2} = {}
    BY DEF Long, Reviews, Writers
  <2>3. loadFragment["research"] = Merge(Merge(Chain(ids), Chain(a)), Merge(Chain(b), Chain(c)))
    BY DEF loadFragment, PrimaryIntents, RESEARCH_PROFILE
  <2> HIDE DEF ids, a, b, c
  <2>4. Fit(Chain(ids)) /\ Writers \cap DOMAIN Chain(ids) = {}
    BY <2>1, LineFits, ChainIs DEF Line
  <2>5. /\ (Reviews \cup Writers) \cap DOMAIN Chain(a) = {} /\ IsFiniteSet(DOMAIN Chain(a))
        /\ (Reviews \cup Writers) \cap DOMAIN Chain(b) = {} /\ IsFiniteSet(DOMAIN Chain(b))
        /\ (Reviews \cup Writers) \cap DOMAIN Chain(c) = {} /\ IsFiniteSet(DOMAIN Chain(c))
    BY <2>2, ChainIs
  <2>6. Fit(Merge(Chain(ids), Chain(a))) /\ Writers \cap DOMAIN Merge(Chain(ids), Chain(a)) = {}
    BY <2>4, <2>5, BesideFits
  <2>7. /\ (Reviews \cup Writers) \cap DOMAIN Merge(Chain(b), Chain(c)) = {}
        /\ IsFiniteSet(DOMAIN Merge(Chain(b), Chain(c)))
    <3>1. DOMAIN Merge(Chain(b), Chain(c)) = DOMAIN Chain(b) \cup DOMAIN Chain(c)
      BY MergeIs
    <3>2. IsFiniteSet(DOMAIN Merge(Chain(b), Chain(c)))
      BY <2>5, MergeFinite
    <3> QED BY <2>5, <3>1, <3>2
  <2> QED BY <2>3, <2>6, <2>7, BesideFits
<1>2. Fit(loadFragment["diagnosis"]) /\ Writers \cap DOMAIN loadFragment["diagnosis"] = {}
  <2> DEFINE ids == <<"analyst", "reproduction-investigator", "root-cause-investigator",
                      "blast-radius-investigator", "synthesizer", "evidence-completeness", "acceptance">>
  <2>1. Line(ids, 7, 1) /\ Writers \cap {ids[k] : k \in 1..7} = {}
    BY DEF Line, Long, Work, Reviews, Writers
  <2>2. loadFragment["diagnosis"] = Chain(ids)
    BY DEF loadFragment, PrimaryIntents
  <2> HIDE DEF ids
  <2> QED BY <2>1, <2>2, LineFits, ChainIs DEF Line
<1> QED BY <1>1, <1>2

\* The fragment that only writes a specification.
LEMMA SpecificationFits ==
  \A intent \in {"specification", "requirements"} : Fit(loadFragment[intent])
<1> DEFINE ids == <<"analyst", "behavior-investigator", "spec-author", "spec-reviewer",
                    "consistency-gate", "acceptance">>
           side == <<"analyst", "constraint-investigator", "spec-author">>
<1>1. /\ Line(ids, 6, 3) /\ ids[3] = "spec-author"
      /\ \A v, w \in Writers \cap {ids[k] : k \in 1..6} : v = w
  BY DEF Line, Long, Work, Reviews, Writers
<1>2. Long(side, 3) /\ (Reviews \cup Writers) \cap {side[k] : k \in 1..3} = {"spec-author"}
  BY DEF Long, Reviews, Writers
<1>3. \A intent \in {"specification", "requirements"} :
        loadFragment[intent] = Merge(Chain(ids), Chain(side))
  BY DEF loadFragment, PrimaryIntents, SPEC_ONLY_PROFILE
<1> HIDE DEF ids, side
<1>4. DOMAIN Chain(ids) = {ids[k] : k \in 1..6} /\ Fit(Chain(ids))
  BY <1>1, ChainIs, LineFits DEF Line
<1>5. DOMAIN Chain(side) = {side[k] : k \in 1..3} /\ IsFiniteSet(DOMAIN Chain(side))
  BY <1>2, ChainIs
<1>6. "spec-author" \in DOMAIN Chain(ids)
  BY <1>1, <1>4
<1>7. Fit(Merge(Chain(ids), Chain(side)))
  BY <1>1, <1>2, <1>4, <1>5, <1>6, BesideFits
<1> QED BY <1>3, <1>7

\* Fragments with a repair tail behind one line.
LEMMA RepairedFragments ==
  \A intent \in {"dependency-upgrade", "migration", "security-remediation", "test-engineering",
                 "build-tooling"} :
    Fit(loadFragment[intent])
<1>1. Fit(loadFragment["dependency-upgrade"])
  <2> DEFINE ids == <<"analyst", "inventory-investigator", "planner", "implementer", "verification",
                      "reviewer", "acceptance">>
  <2>1. Line(ids, 7, 4) /\ ids[4] = "implementer"
    BY DEF Line, Long, Work, Reviews
  <2>2. \A k \in 4..6 : ids[k] \notin Droppable
    BY DEF Droppable, Investigators, Skipped
  <2>3. loadFragment["dependency-upgrade"] = Merge(Chain(ids), writeRepairTail(ids[6])) /\ 6 \in (4 + 1)..7
    BY DEF loadFragment, PrimaryIntents
  <2> HIDE DEF ids
  <2> QED BY <2>1, <2>2, <2>3, RepairedLineFits
<1>2. Fit(loadFragment["migration"])
  <2> DEFINE ids == <<"analyst", "phase-investigator", "planner", "implementer",
                      "migration-dry-run", "verification", "reviewer", "acceptance">>
  <2>1. Line(ids, 8, 4) /\ ids[4] = "implementer"
    BY DEF Line, Long, Work, Reviews
  <2>2. \A k \in 4..7 : ids[k] \notin Droppable
    BY DEF Droppable, Investigators, Skipped
  <2>3. loadFragment["migration"] = Merge(Chain(ids), writeRepairTail(ids[7])) /\ 7 \in (4 + 1)..8
    BY DEF loadFragment, PrimaryIntents
  <2> HIDE DEF ids
  <2> QED BY <2>1, <2>2, <2>3, RepairedLineFits
<1>3. Fit(loadFragment["security-remediation"])
  <2> DEFINE ids == <<"analyst", "confirmation-investigator", "similar-pattern-investigator",
                      "planner", "implementer", "verification", "security-reviewer", "acceptance">>
  <2>1. Line(ids, 8, 5) /\ ids[5] = "implementer"
    BY DEF Line, Long, Work, Reviews
  <2>2. \A k \in 5..7 : ids[k] \notin Droppable
    BY DEF Droppable, Investigators, Skipped
  <2>3. loadFragment["security-remediation"] = Merge(Chain(ids), writeRepairTail(ids[7])) /\ 7 \in (5 + 1)..8
    BY DEF loadFragment, PrimaryIntents
  <2> HIDE DEF ids
  <2> QED BY <2>1, <2>2, <2>3, RepairedLineFits
<1>4. Fit(loadFragment["test-engineering"])
  <2> DEFINE ids == <<"analyst", "characterization", "implementer", "verification", "test-reviewer",
                      "acceptance">>
  <2>1. Line(ids, 6, 3) /\ ids[3] = "implementer"
    BY DEF Line, Long, Work, Reviews
  <2>2. \A k \in 3..5 : ids[k] \notin Droppable
    BY DEF Droppable, Investigators, Skipped
  <2>3. loadFragment["test-engineering"] = Merge(Chain(ids), writeRepairTail(ids[5])) /\ 5 \in (3 + 1)..6
    BY DEF loadFragment, PrimaryIntents
  <2> HIDE DEF ids
  <2> QED BY <2>1, <2>2, <2>3, RepairedLineFits
<1>5. Fit(loadFragment["build-tooling"])
  <2> DEFINE ids == <<"analyst", "tooling-investigator", "implementer", "verification", "reviewer",
                      "acceptance">>
  <2>1. Line(ids, 6, 3) /\ ids[3] = "implementer"
    BY DEF Line, Long, Work, Reviews
  <2>2. \A k \in 3..5 : ids[k] \notin Droppable
    BY DEF Droppable, Investigators, Skipped
  <2>3. loadFragment["build-tooling"] = Merge(Chain(ids), writeRepairTail(ids[5])) /\ 5 \in (3 + 1)..6
    BY DEF loadFragment, PrimaryIntents
  <2> HIDE DEF ids
  <2> QED BY <2>1, <2>2, <2>3, RepairedLineFits
<1> QED BY <1>1, <1>2, <1>3, <1>4, <1>5

\* Fragments that are one line.
LEMMA LineFragments ==
  \A intent \in {"refactor", "optimization", "incident-response", "deprecation-retirement",
                  "documentation", "architecture-design"} :
    Fit(loadFragment[intent])
<1>1. Fit(loadFragment["refactor"])
  <2> DEFINE ids == <<"analyst", "dependency-investigator", "characterization", "planner",
                      "implementer", "equivalence", "architecture-reviewer", "acceptance">>
  <2>1. Line(ids, 8, 5)
    BY DEF Line, Long, Work, Reviews
  <2>2. loadFragment["refactor"] = Chain(ids)
    BY DEF loadFragment, PrimaryIntents, REFACTOR_PROFILE
  <2> HIDE DEF ids
  <2> QED BY <2>1, <2>2, LineFits
<1>2. Fit(loadFragment["optimization"])
  <2> DEFINE ids == <<"analyst", "code-investigator", "characterization", "planner", "implementer",
                      "verification", "performance-reviewer", "acceptance">>
  <2>1. Line(ids, 8, 5)
    BY DEF Line, Long, Work, Reviews
  <2>2. loadFragment["optimization"] = Chain(ids)
    BY DEF loadFragment, PrimaryIntents
  <2> HIDE DEF ids
  <2> QED BY <2>1, <2>2, LineFits
<1>3. Fit(loadFragment["incident-response"])
  <2> DEFINE ids == <<"analyst", "impact-investigator", "implementer", "recovery-verification",
                      "postmortem-synthesizer", "acceptance">>
  <2>1. Line(ids, 6, 3)
    BY DEF Line, Long, Work, Reviews
  <2>2. loadFragment["incident-response"] = Chain(ids)
    BY DEF loadFragment, PrimaryIntents
  <2> HIDE DEF ids
  <2> QED BY <2>1, <2>2, LineFits
<1>4. Fit(loadFragment["deprecation-retirement"])
  <2> DEFINE ids == <<"analyst", "consumer-investigator", "planner", "implementer", "verification",
                      "architecture-reviewer", "acceptance">>
  <2>1. Line(ids, 7, 4)
    BY DEF Line, Long, Work, Reviews
  <2>2. loadFragment["deprecation-retirement"] = Chain(ids)
    BY DEF loadFragment, PrimaryIntents
  <2> HIDE DEF ids
  <2> QED BY <2>1, <2>2, LineFits
<1>5. Fit(loadFragment["documentation"])
  <2> DEFINE ids == <<"analyst", "docs-investigator", "spec-author", "spec-reviewer", "acceptance">>
  <2>1. Line(ids, 5, 3)
    BY DEF Line, Long, Work, Reviews
  <2>2. loadFragment["documentation"] = Chain(ids)
    BY DEF loadFragment, PrimaryIntents
  <2> HIDE DEF ids
  <2> QED BY <2>1, <2>2, LineFits
<1>6. Fit(loadFragment["architecture-design"])
  <2> DEFINE ids == <<"analyst", "architecture-investigator", "spec-author",
                      "architecture-reviewer", "acceptance">>
  <2>1. Line(ids, 5, 3)
    BY DEF Line, Long, Work, Reviews
  <2>2. loadFragment["architecture-design"] = Chain(ids)
    BY DEF loadFragment, PrimaryIntents
  <2> HIDE DEF ids
  <2> QED BY <2>1, <2>2, LineFits
<1> QED BY <1>1, <1>2, <1>3, <1>4, <1>5, <1>6

\* Every fragment of the catalogue.
LEMMA FragmentsFit == \A intent \in PrimaryIntents : Fit(loadFragment[intent])
BY BugfixFits, FeatureFits, ResearchFits, SpecificationFits, RepairedFragments, LineFragments
   DEF PrimaryIntents

-----------------------------------------------------------------------------
(* The inductive invariant.                                                                 *)

\* The fragment of the run.
F == loadFragment[composition.primaryIntent]

\* Graph g has the nodes of c, with the dependencies they have on each other.
Holds(c, g) == DOMAIN c \subseteq DOMAIN g /\ \A n \in DOMAIN c : Base(c, n) \subseteq g[n]

\* What composeFromContract decides: the fast budget is for a plain feature or bugfix, and an
\* analysis is delivered by a profile that writes nothing.
Composed ==
  /\ composition.primaryIntent \in PrimaryIntents
  /\ composition.executionBudget = "fast" =>
       /\ composition.overlays = {} /\ composition.deliveryMode = "integration-branch"
       /\ composition.primaryIntent \in {"feature", "bugfix"}
  /\ composition.deliveryMode = "analysis-only" => composition.primaryIntent \in {"research", "diagnosis"}

\* What every stage leaves of the fragment, and that it adds no writer and no gate.
Kept ==
  /\ IsFiniteSet(DOMAIN graph) /\ "acceptance" \in DOMAIN graph
  /\ (Writers \cup Skipped) \cap DOMAIN graph \subseteq DOMAIN F
  /\ Holds(Core(F), graph)

\* Acceptance waits for what each applied overlay asks for, and a gate that was left out is owed.
Gated ==
  /\ todo \subseteq composition.overlays
  /\ \A o \in (composition.overlays \ todo) \cap DOMAIN Asked : Asked[o] \in Base(graph, "acceptance")
  /\ composition.executionBudget # "fast" => (Skipped \cap DOMAIN F) \ DOMAIN graph \subseteq deferred

\* A mitigation waits for the evidence that it can be rolled back.
Delivered ==
  composition.deliveryMode = "mitigation-patch" => "rollback-evidence" \in Base(graph, "acceptance")

\* Without risk or mitigation no stage adds a review.
Plain ==
  composition.overlays = {} /\ composition.deliveryMode = "integration-branch" =>
    Reviews \cap DOMAIN graph \subseteq DOMAIN F

\* The work is before every review.
WorkFirst == ~GateTakenOut => Reviewed(graph)

\* The inductive invariant.
CompilerInv ==
  /\ contract \in Contracts
  /\ pc \in {"contract", "fragment", "overlays", "delivery", "budget", "check", "compiled", "threw"}
  /\ pc # "contract" => Composed
  /\ pc \notin {"contract", "fragment"} => Kept /\ Gated /\ Plain /\ WorkFirst
  /\ pc \notin {"contract", "fragment", "overlays"} => todo = {}
  /\ pc \notin {"contract", "fragment", "overlays", "delivery"} => Delivered

-----------------------------------------------------------------------------
(* The stages on a graph.                                                                   *)

\* The rewrites of an intent make an intent of the catalogue.
LEMMA PrimaryType ==
  ASSUME NEW c \in ContractType
  PROVE  Primary(c) \in PrimaryIntents
<1>1. c.primaryIntent \in PrimaryIntents /\ c.kind \in {"feature", "bugfix", "research", "spec", "refactor"}
  BY DEF ContractType
<1>2. intentFromKind(IF c.kind = "spec" THEN "feature" ELSE c.kind) \in
        {"feature", "bugfix", "research", "refactor"}
  BY <1>1 DEF intentFromKind
<1>3. {"feature", "bugfix", "research", "refactor", "incident-response"} \subseteq PrimaryIntents
  BY DEF PrimaryIntents
<1> QED BY <1>1, <1>2, <1>3 DEF Primary

\* composeFromContract establishes Composed.
LEMMA ComposeStep ==
  ASSUME contract \in ContractType, composeFromContract
  PROVE  Composed'
<1> DEFINE primary == Primary(contract)
           overlays == Overlays(contract)
           urgency == CASE contract.urgency # "undefined" -> contract.urgency
                        [] "emergency" \in overlays -> "incident"
                        [] OTHER -> "normal"
<1>1. /\ composition'.primaryIntent = primary /\ composition'.overlays = overlays
      /\ composition'.deliveryMode = defaultDeliveryFor(primary, urgency)
      /\ composition'.executionBudget = executionBudgetFor(primary, overlays, contract)
  BY DEF composeFromContract
<1>2. primary \in PrimaryIntents
  BY PrimaryType
<1>3. contract.urgency = "incident" => overlays # {}
  BY DEF Overlays
<1> HIDE DEF primary, overlays
<1>4. overlays = {} => urgency # "incident"
  BY <1>3
<1> HIDE DEF urgency
<1>5. executionBudgetFor(primary, overlays, contract) = "fast" =>
        overlays = {} /\ primary \in {"feature", "bugfix"}
  BY DEF executionBudgetFor
<1>6. urgency # "incident" /\ primary \in {"feature", "bugfix"} =>
        defaultDeliveryFor(primary, urgency) = "integration-branch"
  BY DEF defaultDeliveryFor
<1>7. defaultDeliveryFor(primary, urgency) = "analysis-only" => primary \in {"research", "diagnosis"}
  BY DEF defaultDeliveryFor
<1> QED BY <1>1, <1>2, <1>4, <1>5, <1>6, <1>7 DEF Composed

\* Graph h is g with more nodes, none of them a writer or a gate, and more dependencies.
Extends(g, h) ==
  /\ DOMAIN g \subseteq DOMAIN h /\ IsFiniteSet(DOMAIN h)
  /\ \A n \in DOMAIN g : g[n] \subseteq h[n]
  /\ (Writers \cup Skipped) \cap DOMAIN h \subseteq DOMAIN g
  /\ Reviewed(g) => Reviewed(h)

\* Growth upon growth is growth.
LEMMA ExtendsTransitive ==
  ASSUME NEW g, NEW h, NEW k, Extends(g, h), Extends(h, k) PROVE Extends(g, k)
BY DEF Extends

\* A graph that stays the same.
LEMMA SameExtends == ASSUME NEW g, IsFiniteSet(DOMAIN g) PROVE Extends(g, g)
BY DEF Extends

\* Nodes that neither write, review nor gate may be merged into a graph.
LEMMA MergeExtends ==
  ASSUME NEW g, NEW h, IsFiniteSet(DOMAIN g), IsFiniteSet(DOMAIN h),
         (Reviews \cup Writers \cup Skipped) \cap DOMAIN h \subseteq DOMAIN g
  PROVE  Extends(g, Merge(g, h))
<1>1. /\ DOMAIN Merge(g, h) = DOMAIN g \cup DOMAIN h
      /\ \A n \in DOMAIN g : g[n] \subseteq Merge(g, h)[n]
  BY MergeIs
<1>2. IsFiniteSet(DOMAIN Merge(g, h))
  BY MergeFinite
<1>3. Work \subseteq Writers
  BY DEF Work, Writers
<1>4. Reviewed(g) => Reviewed(Merge(g, h))
  BY <1>3, BesideLine
<1> QED BY <1>1, <1>2, <1>4 DEF Extends

\* addNode, for one such node.
LEMMA NodeExtends ==
  ASSUME NEW g, IsFiniteSet(DOMAIN g), NEW n, n \notin Reviews \cup Writers \cup Skipped, NEW deps
  PROVE  Extends(g, addNode(g, n, deps))
<1> DEFINE h == [m \in {n} |-> deps]
<1>1. DOMAIN h = {n} /\ IsFiniteSet(DOMAIN h)
  BY FS_Singleton
<1> HIDE DEF h
<1>2. Extends(g, Merge(g, h))
  BY <1>1, MergeExtends
<1> QED BY <1>2 DEF addNode, h

\* attachBeforeAcceptance: what it leaves, and what the node waits for.
LEMMA AttachedIs ==
  ASSUME NEW g, IsFiniteSet(DOMAIN g), "acceptance" \in DOMAIN g, NEW n, n # "acceptance", NEW deps
  PROVE  LET h == attachBeforeAcceptance(g, n, deps)
             own == IF g["acceptance"] = {} THEN deps ELSE g["acceptance"] \ {n}
         IN  /\ DOMAIN h = DOMAIN g \cup {n} /\ IsFiniteSet(DOMAIN h)
             /\ \A m \in DOMAIN g : g[m] \subseteq h[m]
             /\ h["acceptance"] = g["acceptance"] \cup {n}
             /\ own \subseteq h[n] /\ n \in Base(h, "acceptance")
<1> DEFINE own == IF g["acceptance"] = {} THEN deps ELSE g["acceptance"] \ {n}
           k == [m \in {n} |-> own]
           a == Merge(g, k)
           h == [a EXCEPT !["acceptance"] = @ \cup {n}]
<1>1. DOMAIN k = {n} /\ IsFiniteSet(DOMAIN k) /\ k[n] = own
  BY FS_Singleton
<1> HIDE DEF k, own
<1>2. /\ DOMAIN a = DOMAIN g \cup {n} /\ IsFiniteSet(DOMAIN a)
      /\ \A m \in DOMAIN g : g[m] \subseteq a[m]
      /\ own \subseteq a[n] /\ a["acceptance"] = g["acceptance"]
  <2>1. /\ DOMAIN a = DOMAIN g \cup DOMAIN k
        /\ \A m \in DOMAIN g : g[m] \subseteq a[m]
        /\ \A m \in DOMAIN k : k[m] \subseteq a[m]
        /\ \A m \in DOMAIN g \ DOMAIN k : a[m] = g[m]
    BY MergeIs
  <2>2. IsFiniteSet(DOMAIN a)
    BY <1>1, MergeFinite
  <2> QED BY <1>1, <2>1, <2>2
<1> HIDE DEF a
<1>3. /\ DOMAIN h = DOMAIN a /\ h["acceptance"] = a["acceptance"] \cup {n}
      /\ \A m \in DOMAIN a : m # "acceptance" => h[m] = a[m]
  BY <1>2
<1> HIDE DEF h
<1>4. /\ DOMAIN h = DOMAIN g \cup {n} /\ IsFiniteSet(DOMAIN h)
      /\ \A m \in DOMAIN g : g[m] \subseteq h[m]
      /\ h["acceptance"] = g["acceptance"] \cup {n}
      /\ own \subseteq h[n] /\ n \in Base(h, "acceptance")
  BY <1>2, <1>3 DEF Base
<1> QED BY <1>4 DEF attachBeforeAcceptance, addNode, h, a, k, own

\* A review attached before acceptance waits for the work, because acceptance did: when acceptance
\* waits for nothing there is no work to review.
LEMMA AttachedExtends ==
  ASSUME NEW g, IsFiniteSet(DOMAIN g), "acceptance" \in DOMAIN g, NEW n, n # "acceptance",
         n \notin Writers \cup Skipped, NEW deps
  PROVE  LET h == attachBeforeAcceptance(g, n, deps)
         IN  Extends(g, h) /\ n \in Base(h, "acceptance")
<1> DEFINE h == attachBeforeAcceptance(g, n, deps)
           own == IF g["acceptance"] = {} THEN deps ELSE g["acceptance"] \ {n}
<1>1. /\ DOMAIN h = DOMAIN g \cup {n} /\ IsFiniteSet(DOMAIN h)
      /\ \A m \in DOMAIN g : g[m] \subseteq h[m]
      /\ h["acceptance"] = g["acceptance"] \cup {n}
      /\ own \subseteq h[n] /\ n \in Base(h, "acceptance")
  BY AttachedIs
<1> HIDE DEF h
<1>2. \A m \in DOMAIN g : Ancestors(g, m) \subseteq Ancestors(h, m)
  BY <1>1, AncestorsGrow DEF Base
<1>3. ASSUME Reviewed(g), n \notin DOMAIN g, NEW w \in Work \cap DOMAIN g PROVE w \in Ancestors(h, n)
  <2>1. w \in Ancestors(g, "acceptance")
    BY <1>3 DEF Reviewed, Reviews
  <2>2. w \in Base(g, "acceptance") \/ \E k \in Base(g, "acceptance") : w \in Ancestors(g, k)
    BY <2>1, AncestorsSplit
  <2>3. Base(g, "acceptance") \subseteq Base(h, n)
    <3>1. g["acceptance"] # {}
      BY <2>2 DEF Base
    <3>2. Base(g, "acceptance") \subseteq own
      BY <1>3, <3>1 DEF Base
    <3> QED BY <1>1, <3>2 DEF Base
  <2>4. Base(h, n) \subseteq Ancestors(h, n)
    BY <1>1, AncestorsLeast
  <2>5. CASE w \in Base(g, "acceptance")
    BY <2>3, <2>4, <2>5
  <2>6. ASSUME NEW k \in Base(g, "acceptance"), w \in Ancestors(g, k) PROVE w \in Ancestors(h, n)
    <3>1. k \in Ancestors(h, n) /\ k \in DOMAIN g
      BY <2>3, <2>4 DEF Base
    <3>2. w \in Ancestors(h, k)
      BY <1>2, <2>6, <3>1
    <3> QED BY <1>1, <3>1, <3>2, AncestorsTransitive
  <2> QED BY <2>2, <2>5, <2>6
<1>4. n \notin Work
  BY DEF Work, Writers
<1>5. Reviewed(g) => Reviewed(h)
  <2> SUFFICES ASSUME Reviewed(g), NEW r \in Reviews \cap DOMAIN h, NEW w \in Work \cap DOMAIN h
               PROVE  w \in Ancestors(h, r)
    BY <1>1 DEF Reviewed
  <2>1. w \in DOMAIN g
    BY <1>1, <1>4
  <2>2. CASE r \in DOMAIN g
    BY <1>2, <2>1, <2>2 DEF Reviewed
  <2>3. CASE r \notin DOMAIN g
    BY <1>1, <1>3, <2>1, <2>3
  <2> QED BY <2>2, <2>3
<1>6. Extends(g, h)
  BY <1>1, <1>5 DEF Extends
<1> QED BY <1>1, <1>6 DEF h

\* Every overlay but one adds to the graph, the node it asks for before acceptance.
LEMMA OverlaidExtends ==
  ASSUME NEW g, IsFiniteSet(DOMAIN g), "acceptance" \in DOMAIN g, NEW o, o # "emergency"
  PROVE  /\ Extends(g, Overlaid(g, o))
         /\ o \in DOMAIN Asked => Asked[o] \in Base(Overlaid(g, o), "acceptance")
<1> USE DEF Asked
<1>1. CASE o = "security-sensitive"
  <2>1. LET h == attachBeforeAcceptance(g, "security-reviewer", {"reviewer"})
        IN  Extends(g, h) /\ "security-reviewer" \in Base(h, "acceptance")
    BY AttachedExtends DEF Writers, Skipped
  <2> QED BY <1>1, <2>1 DEF Overlaid
<1>2. CASE o = "public-api"
  <2> DEFINE k == addNode(g, "consumer-investigator", {"analyst"})
  <2>1. Extends(g, k)
    BY NodeExtends DEF Reviews, Writers, Skipped
  <2>2. IsFiniteSet(DOMAIN k) /\ "acceptance" \in DOMAIN k
    BY <2>1 DEF Extends
  <2> HIDE DEF k
  <2>3. LET h == attachBeforeAcceptance(k, "architecture-reviewer", {"reviewer"})
        IN  Extends(k, h) /\ "architecture-reviewer" \in Base(h, "acceptance")
    BY <2>2, AttachedExtends DEF Writers, Skipped
  <2>4. Extends(g, attachBeforeAcceptance(k, "architecture-reviewer", {"reviewer"}))
    BY <2>1, <2>3, ExtendsTransitive
  <2> QED BY <1>2, <2>3, <2>4 DEF Overlaid, k
<1>3. CASE o = "cross-cutting"
  <2>1. LET h == attachBeforeAcceptance(g, "architecture-reviewer", {"reviewer"})
        IN  Extends(g, h) /\ "architecture-reviewer" \in Base(h, "acceptance")
    BY AttachedExtends DEF Writers, Skipped
  <2> QED BY <1>3, <2>1 DEF Overlaid
<1>4. CASE o \in {"data-mutation", "migration"}
  <2>1. LET h == attachBeforeAcceptance(g, "migration-dry-run", {"implementer"})
        IN  Extends(g, h) /\ "migration-dry-run" \in Base(h, "acceptance")
    BY AttachedExtends DEF Writers, Skipped
  <2> QED BY <1>4, <2>1 DEF Overlaid
<1>5. CASE o = "production-impact"
  <2>1. LET h == attachBeforeAcceptance(g, "rollback-evidence", {"verification"})
        IN  Extends(g, h) /\ "rollback-evidence" \in Base(h, "acceptance")
    BY AttachedExtends DEF Writers, Skipped
  <2> QED BY <1>5, <2>1 DEF Overlaid
<1>6. CASE o = "concurrency"
  <2>1. \A deps : Extends(g, addNode(g, "second-hypothesis", deps))
    BY NodeExtends DEF Reviews, Writers, Skipped
  <2> QED BY <1>6, <2>1 DEF Overlaid
<1>7. CASE o = "no-tests"
  <2>1. \A deps : Extends(g, addNode(g, "characterization", deps))
    BY NodeExtends DEF Reviews, Writers, Skipped
  <2> QED BY <1>7, <2>1 DEF Overlaid
<1>8. CASE o = "generated-code"
  <2>1. \A deps : Extends(g, addNode(g, "generator-investigator", deps))
    BY NodeExtends DEF Reviews, Writers, Skipped
  <2> QED BY <1>8, <2>1 DEF Overlaid
<1>9. CASE o \notin {"security-sensitive", "public-api", "cross-cutting", "data-mutation", "migration",
                     "production-impact", "concurrency", "no-tests", "generated-code"}
  <2>1. Overlaid(g, o) = g /\ o \notin DOMAIN Asked
    BY <1>9 DEF Overlaid
  <2> QED BY <2>1, SameExtends
<1> QED BY <1>1, <1>2, <1>3, <1>4, <1>5, <1>6, <1>7, <1>8, <1>9

-----------------------------------------------------------------------------
(* The steps.                                                                               *)

\* A fragment holds its own core.
LEMMA CoreHeld == ASSUME NEW f PROVE Holds(Core(f), f)
BY DEF Holds, Core, Base

\* The core has nothing that a stage takes out.
LEMMA CoreLeftAlone == ASSUME NEW f PROVE DOMAIN Core(f) \cap (Droppable \cup {"spec-author"}) = {}
BY DEF Core

\* The core keeps no dependency of the implementer, which the fast budget replaces.
LEMMA CoreBase ==
  ASSUME NEW f
  PROVE  /\ Base(Core(f), "implementer") = {} \/ "implementer" \notin DOMAIN Core(f)
         /\ \A n : Base(Core(f), n) \subseteq DOMAIN Core(f)
BY DEF Core, Base

\* The fragment of the run fits.
LEMMA RunFits == ASSUME Composed PROVE Fit(F) /\ IsFiniteSet(DOMAIN Core(F))
<1>1. Fit(F)
  BY FragmentsFit DEF Composed, F
<1> QED BY <1>1, CoreFinite DEF Fit, Reviewed

\* Growth takes nothing of what the invariant says of the graph.
LEMMA GrowthKeeps ==
  ASSUME Kept, WorkFirst, UNCHANGED composition, Extends(graph, graph')
  PROVE  /\ Kept' /\ WorkFirst'
         /\ DOMAIN graph \subseteq DOMAIN graph'
         /\ \A n \in DOMAIN graph : Base(graph, n) \subseteq Base(graph', n)
<1>1. F' = F /\ (GateTakenOut' <=> GateTakenOut)
  BY DEF F, GateTakenOut
<1>2. DOMAIN graph \subseteq DOMAIN graph' /\ \A n \in DOMAIN graph : graph[n] \subseteq graph'[n]
  BY DEF Extends
<1>3. Holds(Core(F), graph')
  BY <1>2 DEF Kept, Holds
<1>4. Kept'
  <2>1. "acceptance" \in DOMAIN graph' /\ IsFiniteSet(DOMAIN graph')
    BY DEF Kept, Extends
  <2>2. (Writers \cup Skipped) \cap DOMAIN graph' \subseteq DOMAIN F
    BY DEF Kept, Extends
  <2> QED BY <1>1, <1>3, <2>1, <2>2 DEF Kept
<1>5. WorkFirst'
  BY <1>1 DEF WorkFirst, Extends
<1> QED BY <1>2, <1>4, <1>5 DEF Base

\* removeNodes: what it leaves.
LEMMA RemovedIs ==
  ASSUME NEW g, NEW ids, IsFiniteSet(DOMAIN g)
  PROVE  LET h == removeNodes(g, ids)
         IN  /\ DOMAIN h = DOMAIN g \ ids /\ IsFiniteSet(DOMAIN h)
             /\ \A n \in DOMAIN g \ ids : h[n] = g[n] \ ids
<1>1. DOMAIN g \ ids \in SUBSET DOMAIN g
  OBVIOUS
<1>2. IsFiniteSet(DOMAIN g \ ids)
  BY <1>1, FS_Subset
<1> QED BY <1>2 DEF removeNodes

\* Nodes that are not there are removed without a trace.
LEMMA AbsentRemoved ==
  ASSUME NEW g, NEW ids, Reviewed(g), ids \cap DOMAIN g = {}
  PROVE  Reviewed(removeNodes(g, ids))
<1> DEFINE h == removeNodes(g, ids)
<1>1. DOMAIN h = DOMAIN g /\ IsFiniteSet(DOMAIN h) /\ \A n \in DOMAIN g : h[n] = g[n] \ ids
  <2>1. /\ DOMAIN h = DOMAIN g \ ids /\ IsFiniteSet(DOMAIN h)
        /\ \A n \in DOMAIN g \ ids : h[n] = g[n] \ ids
    BY RemovedIs DEF Reviewed
  <2> QED BY <2>1
<1> HIDE DEF h
<1>2. \A n \in DOMAIN g : Base(g, n) \subseteq h[n]
  BY <1>1 DEF Base
<1>3. \A n \in DOMAIN g : Ancestors(g, n) \subseteq Ancestors(h, n)
  BY <1>1, <1>2, AncestorsGrow
<1>4. Reviewed(h)
  BY <1>1, <1>3 DEF Reviewed
<1> QED BY <1>4 DEF h

\* Nodes that are not of the core are removed without harm to it.
LEMMA RemovalKeeps ==
  ASSUME Kept, WorkFirst, UNCHANGED composition, NEW ids, "acceptance" \notin ids,
         ids \cap DOMAIN Core(F) = {},
         ~GateTakenOut => ids \cap DOMAIN graph = {},
         graph' = removeNodes(graph, ids)
  PROVE  /\ Kept' /\ WorkFirst'
         /\ DOMAIN graph' = DOMAIN graph \ ids
         /\ \A n \in DOMAIN graph' : Base(graph, n) \ ids \subseteq Base(graph', n)
<1>1. F' = F /\ (GateTakenOut' <=> GateTakenOut)
  BY DEF F, GateTakenOut
<1>2. /\ DOMAIN graph' = DOMAIN graph \ ids /\ IsFiniteSet(DOMAIN graph')
      /\ \A n \in DOMAIN graph \ ids : graph'[n] = graph[n] \ ids
  <2>1. IsFiniteSet(DOMAIN graph)
    BY DEF Kept
  <2>2. LET h == removeNodes(graph, ids)
        IN  /\ DOMAIN h = DOMAIN graph \ ids /\ IsFiniteSet(DOMAIN h)
            /\ \A n \in DOMAIN graph \ ids : h[n] = graph[n] \ ids
    BY <2>1, RemovedIs
  <2> QED BY <2>2
<1>3. Holds(Core(F), graph')
  <2>1. \A n \in DOMAIN Core(F) : Base(Core(F), n) \subseteq graph[n] \ ids
    BY CoreBase DEF Kept, Holds
  <2> QED BY <1>2, <2>1 DEF Kept, Holds
<1>4. Kept'
  BY <1>1, <1>2, <1>3 DEF Kept
<1>5. WorkFirst'
  BY <1>1, AbsentRemoved DEF WorkFirst
<1> QED BY <1>2, <1>4, <1>5 DEF Base

\* The nodes of secondary intents neither write, review nor gate.
LEMMA SecondaryIs ==
  ASSUME NEW intents
  PROVE  /\ IsFiniteSet(DOMAIN secondaryNodes(intents))
         /\ (Reviews \cup Writers \cup Skipped) \cap DOMAIN secondaryNodes(intents) = {}
<1> DEFINE all == {"spec-investigator", "docs-investigator", "characterization",
                   "similar-pattern-investigator"}
<1>1. DOMAIN secondaryNodes(intents) \in SUBSET all
  BY DEF secondaryNodes
<1>2. IsFiniteSet(all)
  <2>1. \A x, y : IsFiniteSet({x} \cup {y})
    BY FS_Singleton, FS_Union
  <2>2. IsFiniteSet(({"spec-investigator"} \cup {"docs-investigator"})
                    \cup ({"characterization"} \cup {"similar-pattern-investigator"}))
    BY <2>1, FS_Union
  <2>3. all = ({"spec-investigator"} \cup {"docs-investigator"})
              \cup ({"characterization"} \cup {"similar-pattern-investigator"})
    OBVIOUS
  <2> QED BY <2>2, <2>3
<1>3. (Reviews \cup Writers \cup Skipped) \cap all = {}
  BY DEF Reviews, Writers, Skipped
<1> HIDE DEF all
<1>4. IsFiniteSet(DOMAIN secondaryNodes(intents))
  BY <1>1, <1>2, FS_Subset
<1> QED BY <1>1, <1>3, <1>4

\* load establishes what the invariant says of the graph.
LEMMA LoadStep ==
  ASSUME Composed, load
  PROVE  Kept' /\ Gated' /\ Plain' /\ WorkFirst'
<1> DEFINE s == secondaryNodes(composition.secondaryIntents)
<1>1. F' = F /\ UNCHANGED composition /\ graph' = Merge(F, s) /\ todo' = composition.overlays
  BY DEF load, F
<1>2. IsFiniteSet(DOMAIN s) /\ (Reviews \cup Writers \cup Skipped) \cap DOMAIN s = {}
  BY SecondaryIs
<1>3. Reviewed(F) /\ IsFiniteSet(DOMAIN F)
  BY RunFits DEF Fit, Reviewed
<1> HIDE DEF s
<1>4. Extends(F, graph')
  BY <1>1, <1>2, <1>3, MergeExtends
<1>5. DOMAIN graph' = DOMAIN F \cup DOMAIN s
  BY <1>1, MergeIs
<1>6. Reviewed(graph') /\ Holds(Core(F), graph')
  BY <1>3, <1>4, CoreHeld DEF Extends, Holds
<1>7. Kept'
  BY <1>1, <1>4, <1>6 DEF Kept, Extends, Reviewed
<1>8. Gated'
  BY <1>1, <1>5 DEF Gated
<1>9. Plain' /\ WorkFirst'
  BY <1>1, <1>2, <1>5, <1>6 DEF Plain, WorkFirst
<1> QED BY <1>7, <1>8, <1>9

\* No stage takes out what a risk asks for.
LEMMA AskedStays ==
  /\ \A o \in DOMAIN Asked : Asked[o] \notin Skipped \cup Writers
  /\ "emergency" \notin DOMAIN Asked
  /\ "rollback-evidence" \notin Skipped \cup Writers
BY DEF Asked, Skipped, Writers

\* Every overlay, in whatever order.
LEMMA OverlayStep ==
  ASSUME Composed, Kept, Gated, Plain, WorkFirst, NEW o, applyOverlay(o)
  PROVE  Kept' /\ Gated' /\ Plain' /\ WorkFirst'
<1>1. /\ UNCHANGED composition /\ o \in todo /\ todo' = todo \ {o} /\ F' = F
      /\ graph' = Overlaid(graph, o)
  BY DEF applyOverlay, F
<1>2. o \in composition.overlays
  BY <1>1 DEF Gated
<1>3. Plain'
  BY <1>1, <1>2 DEF Plain
<1>4. todo' \subseteq composition'.overlays
  BY <1>1 DEF Gated
<1>5. CASE o = "emergency"
  <2>1. /\ graph' = removeNodes(graph, Skipped)
        /\ Skipped \cap DOMAIN graph \subseteq deferred' /\ deferred \subseteq deferred'
    BY <1>1, <1>5 DEF applyOverlay, Overlaid
  <2>2. "acceptance" \notin Skipped /\ Skipped \cap DOMAIN Core(F) = {}
    BY CoreLeftAlone DEF Skipped, Droppable
  <2>3. ~GateTakenOut => Skipped \cap DOMAIN graph = {}
    BY <1>2, <1>5 DEF GateTakenOut, Kept, F
  <2>4. /\ Kept' /\ WorkFirst' /\ DOMAIN graph' = DOMAIN graph \ Skipped
        /\ \A n \in DOMAIN graph' : Base(graph, n) \ Skipped \subseteq Base(graph', n)
    BY <1>1, <2>1, <2>2, <2>3, RemovalKeeps
  <2>5. "acceptance" \in DOMAIN graph'
    BY <2>4 DEF Kept
  <2>6. \A a \in (composition'.overlays \ todo') \cap DOMAIN Asked : Asked[a] \in Base(graph', "acceptance")
    <3> TAKE a \in (composition'.overlays \ todo') \cap DOMAIN Asked
    <3>1. a # o
      BY <1>5, AskedStays
    <3>2. Asked[a] \in Base(graph, "acceptance") /\ Asked[a] \notin Skipped
      BY <1>1, <3>1, AskedStays DEF Gated
    <3> QED BY <2>4, <2>5, <3>2
  <2>7. composition'.executionBudget # "fast" => (Skipped \cap DOMAIN F) \ DOMAIN graph' \subseteq deferred'
    BY <1>1, <2>1, <2>4 DEF Gated
  <2> QED BY <1>1, <1>3, <1>4, <2>4, <2>6, <2>7 DEF Gated
<1>6. CASE o # "emergency"
  <2>1. /\ Extends(graph, Overlaid(graph, o))
        /\ o \in DOMAIN Asked => Asked[o] \in Base(Overlaid(graph, o), "acceptance")
    BY <1>6, OverlaidExtends DEF Kept
  <2>2. /\ Kept' /\ WorkFirst' /\ DOMAIN graph \subseteq DOMAIN graph'
        /\ \A n \in DOMAIN graph : Base(graph, n) \subseteq Base(graph', n)
    BY <1>1, <2>1, GrowthKeeps
  <2>3. deferred' = deferred
    BY <1>6 DEF applyOverlay
  <2>4. \A a \in (composition'.overlays \ todo') \cap DOMAIN Asked : Asked[a] \in Base(graph', "acceptance")
    <3> TAKE a \in (composition'.overlays \ todo') \cap DOMAIN Asked
    <3>1. CASE a = o
      BY <1>1, <2>1, <3>1
    <3>2. CASE a # o
      <4>1. Asked[a] \in Base(graph, "acceptance") /\ "acceptance" \in DOMAIN graph
        BY <1>1, <3>2 DEF Gated, Kept
      <4> QED BY <2>2, <4>1
    <3> QED BY <3>1, <3>2
  <2>5. composition'.executionBudget # "fast" => (Skipped \cap DOMAIN F) \ DOMAIN graph' \subseteq deferred'
    BY <1>1, <2>2, <2>3 DEF Gated
  <2> QED BY <1>1, <1>3, <1>4, <2>2, <2>4, <2>5 DEF Gated
<1> QED BY <1>5, <1>6

\* A step that grows the graph, with no new review, after the overlays.
LEMMA PlainGrowth ==
  ASSUME Composed, Kept, Gated, Plain, WorkFirst, UNCHANGED <<composition, todo>>,
         deferred \subseteq deferred',
         Extends(graph, graph'),
         composition.overlays = {} /\ composition.deliveryMode = "integration-branch" =>
           Reviews \cap DOMAIN graph' \subseteq DOMAIN graph
  PROVE  Kept' /\ Gated' /\ Plain' /\ WorkFirst' /\ (Delivered => Delivered')
<1>1. F' = F
  BY DEF F
<1>2. /\ Kept' /\ WorkFirst' /\ DOMAIN graph \subseteq DOMAIN graph'
      /\ \A n \in DOMAIN graph : Base(graph, n) \subseteq Base(graph', n)
  BY GrowthKeeps
<1>3. Base(graph, "acceptance") \subseteq Base(graph', "acceptance")
  BY <1>2 DEF Kept
<1>4. Gated'
  BY <1>1, <1>2, <1>3 DEF Gated
<1>5. Plain'
  BY <1>1 DEF Plain
<1>6. Delivered => Delivered'
  BY <1>3 DEF Delivered
<1> QED BY <1>2, <1>4, <1>5, <1>6

\* addNode of a node that is no review adds no review.
LEMMA NodeAdded ==
  ASSUME NEW g, IsFiniteSet(DOMAIN g), NEW n, n \notin Reviews \cup Writers \cup Skipped, NEW deps
  PROVE  Extends(g, addNode(g, n, deps)) /\ Reviews \cap DOMAIN addNode(g, n, deps) \subseteq DOMAIN g
<1>1. DOMAIN addNode(g, n, deps) = DOMAIN g \cup {n}
  BY DEF addNode, Merge
<1> QED BY <1>1, NodeExtends

\* attachPackNodes.
LEMMA PackStep ==
  ASSUME Composed, Kept, Gated, Plain, WorkFirst, attachPackNodes
  PROVE  Kept' /\ Gated' /\ Plain' /\ WorkFirst' /\ todo' = {}
<1>1. UNCHANGED <<composition, todo, deferred>> /\ todo' = {}
  BY DEF attachPackNodes
<1>2. graph' = graph \/ graph' = addNode(graph, "verification", {"implementer"})
  BY DEF attachPackNodes
<1>3. Extends(graph, graph') /\ Reviews \cap DOMAIN graph' \subseteq DOMAIN graph
  <2>1. "verification" \notin Reviews \cup Writers \cup Skipped /\ IsFiniteSet(DOMAIN graph)
    BY DEF Reviews, Writers, Skipped, Kept
  <2> QED BY <1>2, <2>1, NodeAdded, SameExtends
<1> QED BY <1>1, <1>3, PlainGrowth

\* applyDelivery; the analysis-only delivery finds no writer to remove.
LEMMA DeliveryStep ==
  ASSUME Composed, Kept, Gated, Plain, WorkFirst, applyDelivery
  PROVE  Kept' /\ Gated' /\ Plain' /\ WorkFirst' /\ Delivered'
<1>1. UNCHANGED <<composition, todo>> /\ deferred \subseteq deferred' /\ F' = F
  BY DEF applyDelivery, F
<1>2. CASE composition.deliveryMode = "analysis-only"
  <2>1. graph' = removeNodes(graph, Writers)
    BY <1>2 DEF applyDelivery
  <2>2. Writers \cap DOMAIN F = {}
    BY <1>2, ResearchFits DEF Composed, F
  <2>3. "acceptance" \notin Writers /\ Writers \cap DOMAIN Core(F) = {} /\ Writers \cap DOMAIN graph = {}
    BY <2>2 DEF Core, Kept, Writers
  <2>4. /\ Kept' /\ WorkFirst' /\ DOMAIN graph' = DOMAIN graph \ Writers
        /\ \A n \in DOMAIN graph' : Base(graph, n) \ Writers \subseteq Base(graph', n)
    BY <1>1, <2>1, <2>3, RemovalKeeps
  <2>5. Base(graph, "acceptance") \subseteq Base(graph', "acceptance") /\ DOMAIN graph' = DOMAIN graph
    BY <2>3, <2>4 DEF Kept, Base
  <2>6. Gated' /\ Plain' /\ Delivered'
    BY <1>1, <1>2, <2>5 DEF Gated, Plain, Delivered
  <2> QED BY <2>4, <2>6
<1>3. CASE composition.deliveryMode = "mitigation-patch"
  <2> DEFINE deps == {"recovery-verification", "verification"} \cap DOMAIN graph
  <2>1. graph' = attachBeforeAcceptance(graph, "rollback-evidence", deps)
    BY <1>3 DEF applyDelivery
  <2> HIDE DEF deps
  <2>2. Extends(graph, graph') /\ "rollback-evidence" \in Base(graph', "acceptance")
    BY <2>1, AskedStays, AttachedExtends DEF Kept
  <2>3. Kept' /\ Gated' /\ Plain' /\ WorkFirst'
    BY <1>1, <1>3, <2>2, PlainGrowth
  <2> QED BY <2>2, <2>3 DEF Delivered
<1>4. CASE composition.deliveryMode \notin {"analysis-only", "mitigation-patch"}
  <2>1. graph' = graph
    BY <1>4 DEF applyDelivery
  <2>2. Extends(graph, graph')
    BY <2>1, SameExtends DEF Kept
  <2>3. Kept' /\ Gated' /\ Plain' /\ WorkFirst'
    BY <1>1, <2>1, <2>2, PlainGrowth
  <2> QED BY <1>1, <1>4, <2>3 DEF Delivered
<1> QED BY <1>2, <1>3, <1>4

\* What the fast budget makes of a graph.
LEMMA FastIs ==
  ASSUME NEW g, IsFiniteSet(DOMAIN g)
  PROVE  LET ids == {"planner", "plan-critic", "spec-consistency"} \cup Investigators
         IN  /\ DOMAIN Fast(g) = (DOMAIN g \ ids) \cup {"investigator"} /\ IsFiniteSet(DOMAIN Fast(g))
             /\ \A n \in DOMAIN g \ ids : n # "implementer" => g[n] \ ids \subseteq Fast(g)[n]
<1> DEFINE ids == {"planner", "plan-critic", "spec-consistency"} \cup Investigators
           rest == removeNodes(g, ids)
           k == [m \in {"investigator"} |-> {"analyst"}]
           a == Merge(rest, k)
<1>1. /\ DOMAIN rest = DOMAIN g \ ids /\ IsFiniteSet(DOMAIN rest)
      /\ \A n \in DOMAIN g \ ids : rest[n] = g[n] \ ids
  BY RemovedIs
<1>2. DOMAIN k = {"investigator"} /\ IsFiniteSet(DOMAIN k)
  BY FS_Singleton
<1>3. Fast(g) = [a EXCEPT !["implementer"] = {"investigator"}]
  BY DEF Fast, addNode
<1> HIDE DEF ids, rest, k
<1>4. /\ DOMAIN a = DOMAIN rest \cup DOMAIN k
      /\ \A n \in DOMAIN rest : rest[n] \subseteq a[n]
  BY MergeIs
<1>5. IsFiniteSet(DOMAIN a)
  BY <1>1, <1>2, MergeFinite
<1> HIDE DEF a
<1>6. DOMAIN Fast(g) = DOMAIN a /\ \A n \in DOMAIN a : n # "implementer" => Fast(g)[n] = a[n]
  BY <1>3
<1>7. /\ DOMAIN Fast(g) = (DOMAIN g \ ids) \cup {"investigator"} /\ IsFiniteSet(DOMAIN Fast(g))
      /\ \A n \in DOMAIN g \ ids : n # "implementer" => g[n] \ ids \subseteq Fast(g)[n]
  BY <1>1, <1>2, <1>4, <1>5, <1>6
<1> QED BY <1>7 DEF ids

\* The fast budget, which takes nodes out and rewires the implementer: with no gate in the fragment
\* it is a bugfix, whose core orders work and reviews.
LEMMA FastStep ==
  ASSUME Composed, Kept, Gated, Plain, WorkFirst, Delivered, composition.executionBudget = "fast",
         UNCHANGED <<composition, todo, deferred>>, graph' = Fast(graph)
  PROVE  Kept' /\ Gated' /\ Plain' /\ WorkFirst' /\ Delivered'
<1> DEFINE ids == {"planner", "plan-critic", "spec-consistency"} \cup Investigators
<1>1. F' = F /\ composition' = composition /\ (GateTakenOut' <=> GateTakenOut)
  BY DEF F, GateTakenOut
<1>2. /\ composition.overlays = {} /\ composition.deliveryMode = "integration-branch"
      /\ composition.primaryIntent \in {"feature", "bugfix"}
  BY DEF Composed
<1>3. /\ DOMAIN graph' = (DOMAIN graph \ ids) \cup {"investigator"} /\ IsFiniteSet(DOMAIN graph')
      /\ \A n \in DOMAIN graph \ ids : n # "implementer" => graph[n] \ ids \subseteq graph'[n]
  BY FastIs DEF Kept
<1>4. ids \subseteq Droppable /\ "acceptance" \notin ids
  BY DEF Droppable, Investigators
<1>5. "investigator" \notin Reviews \cup Writers \cup Skipped
  BY DEF Reviews, Writers, Skipped
<1> HIDE DEF ids
<1>6. Holds(Core(F), graph')
  <2>1. \A n \in DOMAIN Core(F) : n \in DOMAIN graph \ ids /\ Base(Core(F), n) \subseteq graph[n] \ ids
    BY <1>4, CoreLeftAlone, CoreBase DEF Kept, Holds
  <2>2. \A n \in DOMAIN Core(F) : Base(Core(F), n) \subseteq graph'[n]
    BY <1>3, <2>1, CoreBase
  <2> QED BY <1>3, <2>1, <2>2 DEF Holds
<1>7. Kept'
  BY <1>1, <1>3, <1>4, <1>5, <1>6 DEF Kept
<1>8. Plain'
  BY <1>1, <1>3, <1>5 DEF Plain
<1>9. Gated' /\ Delivered'
  BY <1>2 DEF Gated, Delivered
<1>10. ASSUME ~GateTakenOut PROVE Reviewed(graph')
  <2>1. composition.primaryIntent = "bugfix"
    BY <1>2, <1>10, FeatureFits DEF GateTakenOut, Skipped
  <2>2. /\ \A r \in {"reviewer", "acceptance"} : "implementer" \in Ancestors(Core(F), r)
        /\ Reviews \cap DOMAIN F = {"reviewer", "acceptance"} /\ Fit(F)
    BY <2>1, BugfixFits DEF F
  <2>3. IsFiniteSet(DOMAIN Core(F)) /\ IsFiniteSet(DOMAIN F)
    BY <2>2, CoreFinite DEF Fit, Reviewed
  <2>4. "implementer" \in DOMAIN F
    <3>1. Ancestors(Core(F), "reviewer") \subseteq DOMAIN Core(F)
      BY <2>3, AncestorsLeast
    <3>2. DOMAIN Core(F) \subseteq DOMAIN F
      BY DEF Core
    <3> QED BY <2>2, <3>1, <3>2
  <2>5. "spec-author" \notin DOMAIN F
    BY <2>2, <2>4 DEF Fit, Lined, Writers
  <2>6. Work \cap DOMAIN graph' \subseteq {"implementer"}
    BY <1>1, <1>7, <2>5 DEF Kept, Work, Writers
  <2>7. Reviews \cap DOMAIN graph' \subseteq {"reviewer", "acceptance"}
    BY <1>1, <1>2, <1>8, <2>2 DEF Plain
  <2>8. \A r \in DOMAIN Core(F) : Ancestors(Core(F), r) \subseteq Ancestors(graph', r)
    BY <1>3, <1>6, <2>3, AncestorsGrow DEF Holds
  <2>9. {"reviewer", "acceptance"} \subseteq DOMAIN Core(F)
    <3>1. {"reviewer", "acceptance"} \subseteq DOMAIN F
      BY <2>2
    <3> QED BY <3>1 DEF Core, Droppable, Skipped, Investigators
  <2>10. \A r \in {"reviewer", "acceptance"} : "implementer" \in Ancestors(graph', r)
    BY <2>2, <2>8, <2>9
  <2>11. "acceptance" \in DOMAIN graph' /\ IsFiniteSet(DOMAIN graph')
    BY <1>7 DEF Kept
  <2> QED BY <2>6, <2>7, <2>10, <2>11 DEF Reviewed
<1>11. WorkFirst'
  BY <1>1, <1>10 DEF WorkFirst
<1> QED BY <1>7, <1>8, <1>9, <1>11

\* applyBudget.
LEMMA BudgetStep ==
  ASSUME Composed, Kept, Gated, Plain, WorkFirst, Delivered, applyBudget
  PROVE  Kept' /\ Gated' /\ Plain' /\ WorkFirst' /\ Delivered'
<1>1. UNCHANGED <<composition, todo, deferred>>
  BY DEF applyBudget
<1>2. CASE composition.executionBudget = "fast"
  <2>1. graph' = Fast(graph)
    BY <1>2 DEF applyBudget
  <2> QED BY <1>1, <1>2, <2>1, FastStep
<1>3. CASE composition.executionBudget # "fast"
  <2>1. graph' = graph \/ graph' = addNode(graph, "plan-critic", {"planner"})
    BY <1>3 DEF applyBudget
  <2>2. Extends(graph, graph') /\ Reviews \cap DOMAIN graph' \subseteq DOMAIN graph
    <3>1. "plan-critic" \notin Reviews \cup Writers \cup Skipped /\ IsFiniteSet(DOMAIN graph)
      BY DEF Reviews, Writers, Skipped, Kept
    <3> QED BY <2>1, <3>1, NodeAdded, SameExtends
  <2> QED BY <1>1, <2>2, PlainGrowth
<1> QED BY <1>2, <1>3

\* Dropping the dependencies on absent nodes changes no path.
LEMMA CompiledStep ==
  ASSUME Composed, Kept, Gated, Plain, WorkFirst, Delivered, compiled
  PROVE  Kept' /\ Gated' /\ Plain' /\ WorkFirst' /\ Delivered'
<1>1. UNCHANGED <<composition, todo, deferred>> /\ F' = F /\ (GateTakenOut' <=> GateTakenOut)
  BY DEF compiled, F, GateTakenOut
<1>2. DOMAIN graph' = DOMAIN graph /\ \A n \in DOMAIN graph : graph'[n] = Base(graph, n)
  BY DEF compiled, Base
<1>3. \A n \in DOMAIN graph : Base(graph', n) = Base(graph, n)
  BY <1>2 DEF Base
<1>4. Holds(Core(F), graph')
  BY <1>2, CoreBase DEF Kept, Holds, Base
<1>5. Kept'
  BY <1>1, <1>2, <1>4 DEF Kept
<1>6. Gated' /\ Delivered' /\ Plain'
  BY <1>1, <1>2, <1>3 DEF Gated, Delivered, Plain, Kept
<1>7. ASSUME Reviewed(graph) PROVE Reviewed(graph')
  <2>1. \A n \in DOMAIN graph : Ancestors(graph, n) \subseteq Ancestors(graph', n)
    BY <1>2, AncestorsGrow DEF Kept
  <2> QED BY <1>2, <1>7, <2>1 DEF Reviewed
<1>8. WorkFirst'
  BY <1>1, <1>7 DEF WorkFirst
<1> QED BY <1>5, <1>6, <1>8

\* Every stage of compileRunComposition, for every contract of either schema version with any
\* number of risk flags in any order, keeps the invariant.
THEOREM CompilerInvariant == Spec => []CompilerInv
<1> USE DEF CompilerInv
<1>1. Init => CompilerInv
  BY DEF Init
<1>2. CompilerInv /\ [Next]_vars => CompilerInv'
  <2> SUFFICES ASSUME CompilerInv, [Next]_vars PROVE CompilerInv'
    OBVIOUS
  <2>1. CASE composeFromContract
    <3>1. Composed'
      BY <2>1, CompilerAssumption, ComposeStep
    <3> QED BY <2>1, <3>1 DEF composeFromContract
  <2>2. CASE load
    <3>1. Composed /\ Composed'
      BY <2>2 DEF load, Composed
    <3>2. Kept' /\ Gated' /\ Plain' /\ WorkFirst'
      BY <2>2, <3>1, LoadStep
    <3> QED BY <2>2, <3>1, <3>2 DEF load
  <2>3. ASSUME NEW o, applyOverlay(o) PROVE CompilerInv'
    <3>1. Composed /\ Composed'
      BY <2>3 DEF applyOverlay, Composed
    <3>2. Kept' /\ Gated' /\ Plain' /\ WorkFirst'
      BY <2>3, <3>1, OverlayStep DEF applyOverlay
    <3> QED BY <2>3, <3>1, <3>2 DEF applyOverlay
  <2>4. CASE attachPackNodes
    <3>1. Composed /\ Composed'
      BY <2>4 DEF attachPackNodes, Composed
    <3>2. Kept' /\ Gated' /\ Plain' /\ WorkFirst' /\ todo' = {}
      BY <2>4, <3>1, PackStep DEF attachPackNodes
    <3> QED BY <2>4, <3>1, <3>2 DEF attachPackNodes
  <2>5. CASE applyDelivery
    <3>1. Composed /\ Composed'
      BY <2>5 DEF applyDelivery, Composed
    <3>2. Kept' /\ Gated' /\ Plain' /\ WorkFirst' /\ Delivered'
      BY <2>5, <3>1, DeliveryStep DEF applyDelivery
    <3> QED BY <2>5, <3>1, <3>2 DEF applyDelivery
  <2>6. CASE applyBudget
    <3>1. Composed /\ Composed'
      BY <2>6 DEF applyBudget, Composed
    <3>2. Kept' /\ Gated' /\ Plain' /\ WorkFirst' /\ Delivered'
      BY <2>6, <3>1, BudgetStep DEF applyBudget
    <3> QED BY <2>6, <3>1, <3>2 DEF applyBudget
  <2>7. CASE compiled
    <3>1. Composed /\ Composed'
      BY <2>7 DEF compiled, Composed
    <3>2. Kept' /\ Gated' /\ Plain' /\ WorkFirst' /\ Delivered'
      BY <2>7, <3>1, CompiledStep DEF compiled
    <3> QED BY <2>7, <3>1, <3>2 DEF compiled
  <2>8. CASE throws \/ UNCHANGED vars
    <3>1. /\ UNCHANGED <<contract, composition, todo, graph, deferred>>
          /\ pc' = pc \/ (pc = "check" /\ pc' = "threw")
      BY <2>8 DEF throws, vars
    <3>2. /\ (Composed => Composed') /\ (Kept => Kept') /\ (Gated => Gated') /\ (Plain => Plain')
          /\ (WorkFirst => WorkFirst') /\ (Delivered => Delivered')
      <4>1. F' = F /\ (GateTakenOut' <=> GateTakenOut)
        BY <3>1 DEF F, GateTakenOut
      <4> QED BY <3>1, <4>1 DEF Composed, Kept, Gated, Plain, WorkFirst, Delivered
    <3> QED BY <3>1, <3>2
  <2> QED BY <2>1, <2>2, <2>3, <2>4, <2>5, <2>6, <2>7, <2>8 DEF Next
<1> HIDE DEF CompilerInv
<1> QED BY <1>1, <1>2, PTL DEF Spec

\* Acceptance waits for the review or evidence that each risk overlay asks for, whatever overlays,
\* delivery and budget did to the graph after it, and a gate left out is owed (RiskIsGated).
THEOREM RiskGatesAcceptance == Spec => []RiskIsGated
<1>1. CompilerInv => RiskIsGated
  <2> SUFFICES ASSUME CompilerInv, pc = "compiled" PROVE RiskIsGated
    BY DEF RiskIsGated
  <2>1. Kept /\ Gated /\ Delivered /\ todo = {}
    BY DEF CompilerInv
  <2>2. Base(graph, "acceptance") \subseteq Ancestors(graph, "acceptance")
    BY <2>1, AncestorsLeast DEF Kept
  <2>3. \A o \in composition.overlays \cap DOMAIN Asked : Asked[o] \in Ancestors(graph, "acceptance")
    BY <2>1, <2>2 DEF Gated
  <2>4. composition.deliveryMode = "mitigation-patch" =>
          "rollback-evidence" \in Ancestors(graph, "acceptance")
    BY <2>1, <2>2 DEF Delivered
  <2>5. composition.executionBudget # "fast" => (Skipped \cap DOMAIN F) \ DOMAIN graph \subseteq deferred
    BY <2>1 DEF Gated
  <2> QED BY <2>3, <2>4, <2>5 DEF RiskIsGated, F
<1> QED BY <1>1, CompilerInvariant, PTL

\* No contract compiles to a profile in which two writers are ready together (WritersInLine).
THEOREM WritersStayInLine == Spec => []WritersInLine
<1>1. CompilerInv => WritersInLine
  <2> SUFFICES ASSUME CompilerInv, pc = "compiled", NEW v \in Writers \cap DOMAIN graph,
                      NEW w \in Writers \cap DOMAIN graph, v # w
               PROVE  v \in Ancestors(graph, w) \/ w \in Ancestors(graph, v)
    BY DEF WritersInLine
  <2>1. Kept /\ Composed
    BY DEF CompilerInv
  <2>2. Fit(F) /\ IsFiniteSet(DOMAIN Core(F))
    BY <2>1, RunFits
  <2>3. v \in Writers \cap DOMAIN F /\ w \in Writers \cap DOMAIN F
    BY <2>1 DEF Kept
  <2>4. /\ {v, w} = {"implementer", "repair-implementer"}
        /\ "implementer" \in Ancestors(Core(F), "repair-implementer")
    BY <2>2, <2>3 DEF Fit, Lined
  <2>5. "repair-implementer" \in DOMAIN Core(F)
    BY <2>3, <2>4 DEF Core, Droppable, Skipped, Investigators
  <2>6. "implementer" \in Ancestors(graph, "repair-implementer")
    BY <2>1, <2>2, <2>4, <2>5, AncestorsGrow DEF Kept, Holds
  <2> QED BY <2>4, <2>6
<1> QED BY <1>1, CompilerInvariant, PTL

\* Every review, dry run and acceptance waits for the writer, unless an emergency or the fast
\* budget took a gate out (WorkBeforeReview).
THEOREM ReviewAfterWork == Spec => []WorkBeforeReview
<1>1. CompilerInv => WorkBeforeReview
  BY DEF CompilerInv, WorkFirst, Reviewed, Work, WorkBeforeReview
<1> QED BY <1>1, CompilerInvariant, PTL
=============================================================================
