----------------------- MODULE ContractLineageProofs -----------------------
(***************************************************************************)
(* Proofs about the lineage of a Run, for every number of revisions and     *)
(* every set of evidence: what is in force rests on what is in force, only  *)
(* what has to be is withdrawn, bindings name records in force, and the     *)
(* effective view of the Human Model is grounded.  All of it rests on what  *)
(* the recursive invalidation query computes, which is proved first.        *)
(***************************************************************************)
EXTENDS ContractLineage, FiniteSetTheorems, WellFoundedInduction, TLAPS

-----------------------------------------------------------------------------
(* The inductive invariant.                                                 *)

\* The kinds a record of each kind depends on.
DependencyKinds(k) ==
    CASE k = "input"     -> {}
      [] k = "context"   -> {"input"}
      [] k = "intent"    -> {"context"}
      [] k = "decision"  -> {"intent"}
      [] k = "turn"      -> {"intent", "decision"}
      [] k = "response"  -> {"turn"}
      [] k = "action"    -> {"turn", "decision"}
      [] k = "admission" -> {"action"}
      [] k = "receipt"   -> {"action"}
      [] k = "outcome"   -> {"receipt"}
      [] k = "candidate" -> {"outcome"}
      [] k = "promotion" -> {"candidate"}
      [] k = "assertion" -> {"promotion"}

\* Dependencies come earlier in this order.
Rank(k) ==
    CASE k = "input"     -> 1
      [] k = "context"   -> 2
      [] k = "intent"    -> 3
      [] k = "decision"  -> 4
      [] k = "turn"      -> 5
      [] k = "response"  -> 6
      [] k = "action"    -> 7
      [] k = "admission" -> 8
      [] k = "receipt"   -> 9
      [] k = "outcome"   -> 10
      [] k = "candidate" -> 11
      [] k = "promotion" -> 12
      [] k = "assertion" -> 13

\* An edge joins issued records: a record to its own previous revision, or to a
\* record of a kind it depends on.
EdgesTyped ==
    \A e \in edges :
        /\ e[1] \in Issued /\ e[2] \in Issued
        /\ \/ e[2][1] = e[1][1] /\ e[2][2] + 1 = e[1][2]
           \/ e[2][1] \in DependencyKinds(e[1][1])

\* Every record has the edge to its previous revision, and one to each kind it
\* depends on.
EdgesComplete ==
    \A x \in Issued :
        /\ x[2] > 1 => <<x, <<x[1], x[2] - 1>>>> \in edges
        /\ \A j \in DependencyKinds(x[1]) : \E m \in Revisions : <<x, <<j, m>>>> \in edges

\* Later revisions depend on revisions that are no earlier.
EdgesMonotone ==
    \A e, f \in edges :
        /\ e[1][1] = f[1][1] /\ e[2][1] = f[2][1] /\ e[1][1] # e[2][1]
        /\ e[1][2] <= f[1][2]
        => e[2][2] <= f[2][2]

\* Assertions are materialized from promoting decisions, and provisional decisions
\* were made on candidates with two different references.
Grounded ==
    /\ \A e \in edges :
          e[1][1] = "assertion" /\ e[2][1] = "promotion" => verdict[e[2][2]] \in Promoting
    /\ \A e \in edges :
          e[1][1] = "promotion" /\ e[2][1] = "candidate" /\ verdict[e[1][2]] = "promote_provisional" =>
              \E i, j \in DOMAIN evidence[e[2][2]] : evidence[e[2][2]][i] # evidence[e[2][2]][j]

\* The part of the type invariant that the commands share.
Tables ==
    /\ rev \in [Kinds -> 0 .. MaxReissues + 1]
    /\ edges \subseteq Records \X Records
    /\ invalidated \subseteq Issued
    /\ binding \in [BoundKinds -> Nat]
    /\ \A k \in BoundKinds : binding[k] <= rev[k]

\* What every command that issues a record keeps, apart from Grounded.
Core ==
    /\ Tables
    /\ EdgesTyped /\ EdgesComplete /\ EdgesMonotone
    /\ EffectiveRestsOnEffective
    /\ BindingsInForce
    /\ WithdrawnForCause

\* The rest of the type invariant.
Rest ==
    /\ run \in RunStates
    /\ evidence \in [Revisions -> EvidenceLists]
    /\ verdict \in [Revisions -> PromotionOutcomes]
    /\ dispatched \in 0 .. rev["action"]
    /\ named \subseteq Issued
    /\ corrected \subseteq Issued

Inv == Core /\ Rest /\ Grounded

-----------------------------------------------------------------------------
(* What the recursive invalidation query computes.                          *)

\* One round of the query over the edges E.
Grow(E, S) == S \cup {e[1] : e \in {d \in E : d[2] \in S}}

\* N rounds of it from the root.
IsRounds(f, E, root, N) ==
    f = [n \in 0 .. N |-> IF n = 0 THEN {root} ELSE Grow(E, f[n - 1])]

\* Every record that depends on one of the set is in the set.
ClosedUnder(E, S) == \A e \in E : e[2] \in S => e[1] \in S

\* The record depends on one of the set.
DependsOnOne(E, x, S) == \E e \in E : e[1] = x /\ e[2] \in S

\* A nonempty set of naturals has a least element.
LEMMA LeastElement ==
    ASSUME NEW S \in SUBSET Nat, S # {}
    PROVE  \E n \in S : \A m \in S : n <= m
<1>1. IsWellFoundedOn(OpToRel(<, Nat), Nat)
  BY NatLessThanWellFounded
<1>2. PICK n \in S : \A m \in S : ~(<<m, n>> \in OpToRel(<, Nat))
  BY <1>1, WFMin
<1>3. \A m \in S : ~(m < n)
  BY <1>2 DEF OpToRel
<1> QED BY <1>3

\* The rounds exist, so the recursive function of Closure is what it says.
LEMMA RoundsExist ==
    ASSUME NEW E, NEW root, NEW N \in Nat
    PROVE  \E f : IsRounds(f, E, root, N)
<1> DEFINE Bad == {n \in Nat : ~\E f : IsRounds(f, E, root, n)}
<1> SUFFICES ASSUME Bad # {} PROVE FALSE
  OBVIOUS
<1>1. PICK n \in Bad : \A m \in Bad : n <= m
  <2>1. Bad \in SUBSET Nat
    OBVIOUS
  <2> HIDE DEF Bad
  <2> QED BY <2>1, LeastElement
<1>2. CASE n = 0
  <2> DEFINE g == [i \in 0 .. 0 |-> {root}]
  <2>1. IsRounds(g, E, root, 0)
    BY DEF IsRounds
  <2> QED BY <2>1, <1>1, <1>2
<1>3. CASE n # 0
  <2>1. n \in Nat /\ n - 1 \in Nat /\ n - 1 \notin Bad
    <3>1. n \in Nat /\ n - 1 \in Nat /\ ~(n <= n - 1)
      BY <1>3
    <3> QED BY <3>1, <1>1
  <2>2. PICK f : IsRounds(f, E, root, n - 1)
    BY <2>1
  <2> DEFINE h(i) == IF i = n THEN Grow(E, f[n - 1]) ELSE f[i]
             g == [i \in 0 .. n |-> h(i)]
  <2> HIDE DEF Bad
  <2>3. \A i \in 0 .. n : g[i] = IF i = 0 THEN {root} ELSE Grow(E, g[i - 1])
    <3> SUFFICES ASSUME NEW i \in 0 .. n
                 PROVE  g[i] = IF i = 0 THEN {root} ELSE Grow(E, g[i - 1])
      OBVIOUS
    <3>1. CASE i = 0
      <4>1. f[0] = {root}
        BY <2>1, <2>2 DEF IsRounds
      <4> QED BY <3>1, <4>1, <1>3, <2>1
    <3>2. CASE i # 0 /\ i # n
      <4>1. i \in 0 .. n - 1 /\ i - 1 \in 0 .. n /\ i - 1 # n
        BY <3>2, <2>1
      <4>2. f[i] = Grow(E, f[i - 1])
        BY <4>1, <3>2, <2>2, <2>1 DEF IsRounds
      <4>3. g[i] = f[i] /\ g[i - 1] = f[i - 1]
        BY <4>1, <3>2
      <4> QED BY <4>2, <4>3, <3>2
    <3>3. CASE i = n
      <4>1. i - 1 \in 0 .. n /\ i - 1 # n
        BY <3>3, <2>1
      <4>2. g[i] = Grow(E, f[n - 1]) /\ g[i - 1] = f[n - 1]
        BY <4>1, <3>3
      <4> QED BY <4>2, <3>3, <1>3
    <3> QED BY <3>1, <3>2, <3>3
  <2>4. IsRounds(g, E, root, n)
    BY <2>3 DEF IsRounds
  <2> QED BY <2>4, <1>1 DEF Bad
<1> QED BY <1>2, <1>3

\* The rounds one by one.
LEMMA RoundsStep ==
    ASSUME NEW E, NEW root, NEW N \in Nat, NEW f, IsRounds(f, E, root, N)
    PROVE  /\ f[0] = {root}
           /\ \A n \in 1 .. N : f[n] = Grow(E, f[n - 1])
<1>1. f[0] = {root}
  BY DEF IsRounds
<1>2. ASSUME NEW n \in 1 .. N PROVE f[n] = Grow(E, f[n - 1])
  <2>1. n \in 0 .. N /\ n # 0
    OBVIOUS
  <2> QED BY <2>1 DEF IsRounds
<1> QED BY <1>1, <1>2

\* A round forgets nothing, and only adds dependents.
LEMMA GrowFacts ==
    ASSUME NEW E, NEW S
    PROVE  /\ S \subseteq Grow(E, S)
           /\ \A e \in E : e[2] \in S => e[1] \in Grow(E, S)
           /\ \A x \in Grow(E, S) : x \in S \/ \E e \in E : e[1] = x /\ e[2] \in S
  BY DEF Grow

\* Induction over the rounds, for a property that is stated as a set of rounds.
LEMMA RoundsInduction ==
    ASSUME NEW N \in Nat, NEW P, 0 \in P,
           \A n \in 1 .. N : n - 1 \in P => n \in P
    PROVE  \A n \in 0 .. N : n \in P
<1> DEFINE Bad == {n \in 0 .. N : n \notin P}
<1> SUFFICES ASSUME Bad # {} PROVE FALSE
  OBVIOUS
<1>1. PICK n \in Bad : \A m \in Bad : n <= m
  <2>1. Bad \in SUBSET Nat
    OBVIOUS
  <2> HIDE DEF Bad
  <2> QED BY <2>1, LeastElement
<1>2. n \in 1 .. N /\ n - 1 \in 0 .. N /\ ~(n <= n - 1)
  BY <1>1
<1>3. n - 1 \in P
  BY <1>1, <1>2
<1> QED BY <1>1, <1>2, <1>3

\* Later rounds hold the earlier ones, and no round leaves a closed set that
\* holds the root.
LEMMA RoundsOrder ==
    ASSUME NEW E, NEW root, NEW N \in Nat, NEW f, IsRounds(f, E, root, N)
    PROVE  /\ \A n \in 0 .. N : \A m \in 0 .. n : f[m] \subseteq f[n]
           /\ \A X : root \in X /\ ClosedUnder(E, X) => \A n \in 0 .. N : f[n] \subseteq X
           /\ \A n \in 0 .. N : \A x \in f[n] :
                 x = root \/ DependsOnOne(E, x, f[N])
<1>0. f[0] = {root} /\ \A n \in 1 .. N : f[n] = Grow(E, f[n - 1])
  BY RoundsStep
<1>1. \A n \in 0 .. N : \A m \in 0 .. n : f[m] \subseteq f[n]
  <2> DEFINE P == {n \in 0 .. N : \A m \in 0 .. n : f[m] \subseteq f[n]}
  <2>1. 0 \in P
    OBVIOUS
  <2>2. ASSUME NEW n \in 1 .. N, n - 1 \in P PROVE n \in P
    <3>1. f[n - 1] \subseteq f[n]
      <4>1. f[n] = Grow(E, f[n - 1])
        BY <1>0
      <4> QED BY <4>1, GrowFacts
    <3>2. ASSUME NEW m \in 0 .. n PROVE f[m] \subseteq f[n]
      <4>1. CASE m = n
        BY <4>1
      <4>2. CASE m # n
        <5>1. m \in 0 .. n - 1
          BY <4>2
        <5>2. f[m] \subseteq f[n - 1]
          BY <5>1, <2>2
        <5> QED BY <5>2, <3>1
      <4> QED BY <4>1, <4>2
    <3> QED BY <3>2
  <2> HIDE DEF P
  <2>3. \A n \in 0 .. N : n \in P
    BY <2>1, <2>2, RoundsInduction
  <2> QED BY <2>3 DEF P
<1>2. ASSUME NEW X, root \in X, ClosedUnder(E, X) PROVE \A n \in 0 .. N : f[n] \subseteq X
  <2> DEFINE P == {n \in 0 .. N : f[n] \subseteq X}
  <2>1. 0 \in P
    BY <1>2, <1>0
  <2>2. ASSUME NEW n \in 1 .. N, n - 1 \in P PROVE n \in P
    <3>1. f[n] = Grow(E, f[n - 1])
      BY <1>0
    <3>2. f[n - 1] \subseteq X
      BY <2>2
    <3>3. Grow(E, f[n - 1]) \subseteq X
      <4> SUFFICES ASSUME NEW x \in Grow(E, f[n - 1]) PROVE x \in X
        OBVIOUS
      <4>1. x \in f[n - 1] \/ \E e \in E : e[1] = x /\ e[2] \in f[n - 1]
        BY GrowFacts
      <4> QED BY <4>1, <3>2, <1>2 DEF ClosedUnder
    <3> QED BY <3>1, <3>3
  <2> HIDE DEF P
  <2>3. \A n \in 0 .. N : n \in P
    BY <2>1, <2>2, RoundsInduction
  <2> QED BY <2>3 DEF P
<1>3. \A n \in 0 .. N : \A x \in f[n] :
          x = root \/ DependsOnOne(E, x, f[N])
  <2> DEFINE P == {n \in 0 .. N : \A x \in f[n] :
                      x = root \/ DependsOnOne(E, x, f[N])}
  <2>1. 0 \in P
    BY <1>0
  <2>2. ASSUME NEW n \in 1 .. N, n - 1 \in P PROVE n \in P
    <3>1. f[n] = Grow(E, f[n - 1])
      BY <1>0
    <3>2. f[n - 1] \subseteq f[N]
      BY <1>1
    <3>3. ASSUME NEW x \in f[n]
          PROVE  x = root \/ DependsOnOne(E, x, f[N])
      <4>1. x \in f[n - 1] \/ \E e \in E : e[1] = x /\ e[2] \in f[n - 1]
        BY <3>1, <3>3, GrowFacts
      <4> QED BY <4>1, <3>2, <2>2 DEF DependsOnOne
    <3> QED BY <3>3
  <2> HIDE DEF P
  <2>3. \A n \in 0 .. N : n \in P
    BY <2>1, <2>2, RoundsInduction
  <2> QED BY <2>3 DEF P
<1> QED BY <1>1, <1>2, <1>3

\* As many rounds as there are edges are enough: the last one is closed.
LEMMA RoundsClose ==
    ASSUME NEW E, IsFiniteSet(E), NEW root, NEW f,
           IsRounds(f, E, root, Cardinality(E))
    PROVE  ClosedUnder(E, f[Cardinality(E)])
<1> DEFINE N == Cardinality(E)
           D == {e[1] : e \in E}
           T == D \cup {root}
<1>1. N \in Nat
  BY FS_CardinalityType
<1>2. IsFiniteSet(D) /\ Cardinality(D) <= N
  <2> DEFINE first == [e \in E |-> e[1]]
  <2>1. first \in Surjection(E, D)
    BY DEF Surjection
  <2> HIDE DEF first, D, N
  <2> QED BY <2>1, FS_Surjection DEF N
<1>3. IsFiniteSet(T) /\ Cardinality(T) <= N + 1 /\ Cardinality(T) \in Nat
  <2> HIDE DEF D, N
  <2>1. IsFiniteSet(T) /\ Cardinality(T) = IF root \in D THEN Cardinality(D) ELSE Cardinality(D) + 1
    BY <1>2, FS_AddElement
  <2>2. Cardinality(D) \in Nat
    BY <1>2, FS_CardinalityType
  <2> QED BY <1>1, <1>2, <2>1, <2>2
<1>4. ClosedUnder(E, T) /\ root \in T
  BY DEF ClosedUnder
<1>5. IsRounds(f, E, root, N)
  OBVIOUS
<1> HIDE DEF N, T
<1>5a. /\ f[0] = {root}
       /\ \A n \in 1 .. N : f[n] = Grow(E, f[n - 1])
  BY <1>1, <1>5, RoundsStep
<1>5b. /\ \A n \in 0 .. N : \A m \in 0 .. n : f[m] \subseteq f[n]
       /\ \A X : root \in X /\ ClosedUnder(E, X) => \A n \in 0 .. N : f[n] \subseteq X
  BY <1>1, <1>5, RoundsOrder
<1> SUFFICES ASSUME ~ClosedUnder(E, f[N]) PROVE FALSE
  BY DEF N
<1>6. \A n \in 0 .. N : f[n] \subseteq T
  BY <1>1, <1>4, <1>5, RoundsOrder
<1>7. ASSUME NEW n \in 0 .. N PROVE ~ClosedUnder(E, f[n])
  <2> SUFFICES ASSUME ClosedUnder(E, f[n]) PROVE FALSE
    OBVIOUS
  <2>1. 0 \in 0 .. n /\ N \in 0 .. N /\ n \in 0 .. N
    BY <1>1
  <2>2. root \in f[n]
    BY <1>5a, <1>5b, <2>1
  <2>3. f[N] \subseteq f[n]
    BY <1>5b, <2>1, <2>2
  <2>4. f[n] \subseteq f[N]
    BY <1>5b, <2>1
  <2>5. f[n] = f[N]
    BY <2>3, <2>4
  <2> QED BY <2>5
<1>8. \A n \in 0 .. N : IsFiniteSet(f[n]) /\ Cardinality(f[n]) \in Nat
  BY <1>3, <1>6, FS_Subset, FS_CardinalityType
<1>9. \A n \in 0 .. N : Cardinality(f[n]) >= n + 1
  <2> DEFINE P == {n \in 0 .. N : Cardinality(f[n]) >= n + 1}
  <2>1. 0 \in P
    <3>1. f[0] = {root}
      BY <1>1, <1>5, RoundsStep
    <3>2. Cardinality({root}) = 1
      BY FS_Singleton
    <3> QED BY <1>1, <3>1, <3>2
  <2>2. ASSUME NEW n \in 1 .. N, n - 1 \in P PROVE n \in P
    <3>1. n - 1 \in 0 .. N /\ n \in 0 .. N /\ n \in Nat
      BY <1>1
    <3>2. Cardinality(f[n - 1]) >= n
      BY <2>2, <1>1, <3>1
    <3>3. f[n] = Grow(E, f[n - 1])
      BY <1>5a
    <3>4. PICK e \in E : e[2] \in f[n - 1] /\ e[1] \notin f[n - 1]
      BY <3>1, <1>7 DEF ClosedUnder
    <3>5. f[n - 1] \cup {e[1]} \subseteq f[n]
      BY <3>3, <3>4, GrowFacts
    <3>6. Cardinality(f[n - 1] \cup {e[1]}) = Cardinality(f[n - 1]) + 1
      BY <3>1, <3>4, <1>8, FS_AddElement
    <3>7. Cardinality(f[n - 1] \cup {e[1]}) <= Cardinality(f[n])
      BY <3>1, <3>5, <1>8, FS_Subset
    <3>8. Cardinality(f[n]) >= n + 1
      BY <3>1, <3>2, <3>6, <3>7, <1>8
    <3> QED BY <3>1, <3>8
  <2> HIDE DEF P
  <2>3. \A n \in 0 .. N : n \in P
    BY <1>1, <2>1, <2>2, RoundsInduction
  <2> QED BY <2>3 DEF P
<1>10. N \in 0 .. N
  BY <1>1
<1>11. Cardinality(f[N]) = Cardinality(T)
  <2>1. Cardinality(f[N]) <= Cardinality(T)
    BY <1>3, <1>6, <1>10, FS_Subset
  <2> QED BY <2>1, <1>1, <1>3, <1>8, <1>9, <1>10
<1>12. f[N] = T
  BY <1>3, <1>6, <1>10, <1>11, FS_Subset
<1> QED BY <1>4, <1>12

\* load_recursive_invalidation_closure finds the root and exactly the records
\* that depend on it: what it finds is closed under dependents, each record found
\* but the root depends on one that is found, and it is the least such set.
THEOREM ClosureIsReachability ==
    ASSUME IsFiniteSet(edges), NEW root
    PROVE  /\ root \in Closure(root)
           /\ \A e \in edges : e[2] \in Closure(root) => e[1] \in Closure(root)
           /\ \A x \in Closure(root) :
                 x = root \/ \E e \in edges : e[1] = x /\ e[2] \in Closure(root)
           /\ \A X : /\ root \in X
                     /\ \A e \in edges : e[2] \in X => e[1] \in X
                     => Closure(root) \subseteq X
<1> DEFINE N == Cardinality(edges)
<1>1. N \in Nat
  BY FS_CardinalityType
<1>2. PICK g : IsRounds(g, edges, root, N)
  BY <1>1, RoundsExist
<1> DEFINE f == CHOOSE h : IsRounds(h, edges, root, N)
<1>3. IsRounds(f, edges, root, N)
  BY <1>2
<1>4. Closure(root) = f[N]
  BY Zenon DEF Closure, IsRounds, Grow
<1> HIDE DEF f
<1>5. ClosedUnder(edges, f[N])
  BY <1>3, RoundsClose
<1> HIDE DEF N
<1>6. 0 \in 0 .. N /\ N \in 0 .. N
  BY <1>1
<1>6a. f[0] = {root}
  BY <1>1, <1>3, RoundsStep
<1>7. root \in f[N]
  <2>1. \A n \in 0 .. N : \A m \in 0 .. n : f[m] \subseteq f[n]
    BY <1>1, <1>3, RoundsOrder
  <2> QED BY <1>6, <1>6a, <2>1
<1>8. \A x \in f[N] : x = root \/ \E e \in edges : e[1] = x /\ e[2] \in f[N]
  <2>1. \A n \in 0 .. N : \A x \in f[n] :
            x = root \/ DependsOnOne(edges, x, f[N])
    BY <1>1, <1>3, RoundsOrder
  <2> QED BY <1>6, <2>1 DEF DependsOnOne
<1>9. \A X : root \in X /\ ClosedUnder(edges, X) => f[N] \subseteq X
  <2>1. \A X : root \in X /\ ClosedUnder(edges, X) => \A n \in 0 .. N : f[n] \subseteq X
    BY <1>1, <1>3, RoundsOrder
  <2> QED BY <1>6, <2>1
<1> QED BY <1>4, <1>5, <1>7, <1>8, <1>9 DEF ClosedUnder

-----------------------------------------------------------------------------
(* Kinds, records and revisions.                                            *)

LEMMA RankFacts ==
    /\ \A k \in Kinds : Rank(k) \in 1 .. 13
    /\ \A i, j \in Kinds : Rank(i) = Rank(j) => i = j
<1>1. \A k \in Kinds : Rank(k) \in 1 .. 13
  BY DEF Kinds, Rank
<1> DEFINE named13 == <<"input", "context", "intent", "decision", "turn", "response",
                        "action", "admission", "receipt", "outcome", "candidate",
                        "promotion", "assertion">>
<1>2. \A k \in Kinds : named13[Rank(k)] = k
  BY DEF Kinds, Rank
<1> HIDE DEF named13
<1> QED BY <1>1, <1>2

\* Dependencies are of kinds of a lower rank.
LEMMA DependencyFacts ==
    \A k \in Kinds : \A j \in DependencyKinds(k) :
        j \in Kinds /\ j # k /\ Rank(j) < Rank(k)
<1> SUFFICES ASSUME NEW k \in Kinds, NEW j \in DependencyKinds(k)
             PROVE  j \in Kinds /\ j # k /\ Rank(j) < Rank(k)
  OBVIOUS
<1>1. CASE k \in {"input", "context", "intent", "decision", "turn", "response", "action"}
  BY <1>1 DEF DependencyKinds, Rank, Kinds
<1>2. CASE k \in {"admission", "receipt", "outcome", "candidate", "promotion", "assertion"}
  BY <1>2 DEF DependencyKinds, Rank, Kinds
<1> QED BY <1>1, <1>2 DEF Kinds

LEMMA FiniteRecords == IsFiniteSet(Records)
<1>1. IsFiniteSet(Kinds)
  <2> DEFINE f == [k \in Kinds |-> Rank(k)]
  <2>1. f \in Injection(Kinds, 1 .. 13)
    <3>1. f \in [Kinds -> 1 .. 13]
      BY RankFacts
    <3>2. \A i, j \in Kinds : f[i] = f[j] => i = j
      BY RankFacts
    <3> HIDE DEF f
    <3> QED BY <3>1, <3>2 DEF Injection, IsInjective
  <2>2. IsFiniteSet(1 .. 13)
    <3>1. 1 \in Int /\ 13 \in Int
      OBVIOUS
    <3> QED BY <3>1, FS_Interval, Zenon
  <2> HIDE DEF f
  <2> QED BY <2>1, <2>2, FS_Injection
<1>2. IsFiniteSet(Revisions)
  BY BoundsAssumption, FS_Interval DEF Revisions
<1> QED BY <1>1, <1>2, FS_Product DEF Records

LEMMA FiniteEdges == ASSUME Tables PROVE IsFiniteSet(edges)
<1>1. IsFiniteSet(Records \X Records)
  BY FiniteRecords, FS_Product
<1> QED BY <1>1, FS_Subset DEF Tables

\* Issued records by kind and revision.
LEMMA IssuedFacts ==
    ASSUME Tables
    PROVE  /\ \A k \in Kinds : rev[k] \in Nat
           /\ \A x \in Issued : /\ x = <<x[1], x[2]>> /\ x[1] \in Kinds
                                /\ x[2] \in Nat /\ x[2] > 0 /\ x[2] <= rev[x[1]]
           /\ \A k \in Kinds, n \in Nat : n > 0 /\ n <= rev[k] => <<k, n>> \in Issued
           /\ \A k \in Kinds : rev[k] > 0 => Current(k) \in Issued
           /\ \A k \in Kinds : Current(k)[1] = k /\ Current(k)[2] = rev[k]
<1>1. \A k \in Kinds : rev[k] \in Nat /\ rev[k] <= MaxReissues + 1
  BY BoundsAssumption DEF Tables
<1>2. \A x \in Issued : /\ x = <<x[1], x[2]>> /\ x[1] \in Kinds
                        /\ x[2] \in Nat /\ x[2] > 0 /\ x[2] <= rev[x[1]]
  BY BoundsAssumption DEF Issued, Records, Revisions
<1>3. \A k \in Kinds, n \in Nat : n > 0 /\ n <= rev[k] => <<k, n>> \in Issued
  <2> SUFFICES ASSUME NEW k \in Kinds, NEW n \in Nat, n > 0, n <= rev[k]
               PROVE  <<k, n>> \in Issued
    OBVIOUS
  <2>1. n \in Revisions
    BY <1>1, BoundsAssumption DEF Revisions
  <2> QED BY <2>1 DEF Issued, Records
<1>4. \A k \in Kinds : rev[k] > 0 => Current(k) \in Issued
  BY <1>1, <1>3 DEF Current
<1>5. \A k \in Kinds : Current(k)[1] = k /\ Current(k)[2] = rev[k]
  BY DEF Current
<1> QED BY <1>1, <1>2, <1>3, <1>4, <1>5

\* The revisions of one kind are no more than the bound on all of them allows.
LEMMA RevisionFits ==
    ASSUME Tables, NEW k \in Kinds, rev[k] > 0 => Reissued < MaxReissues
    PROVE  rev[k] + 1 \in Revisions
<1>1. rev[k] \in Nat
  BY IssuedFacts
<1>2. CASE rev[k] = 0
  BY <1>2, BoundsAssumption DEF Revisions
<1>3. CASE rev[k] > 0
  <2> DEFINE S == {x \in Issued : x[2] > 1}
             f == [n \in 2 .. rev[k] |-> <<k, n>>]
  <2>1. \A n \in 2 .. rev[k] : <<k, n>> \in S
    BY <1>1, IssuedFacts
  <2>2. f \in Injection(2 .. rev[k], S)
    <3>1. f \in [2 .. rev[k] -> S]
      BY <2>1
    <3>2. \A i, j \in 2 .. rev[k] : f[i] = f[j] => i = j
      OBVIOUS
    <3> HIDE DEF f
    <3> QED BY <3>1, <3>2 DEF Injection, IsInjective
  <2>3. IsFiniteSet(S)
    <3>1. S \in SUBSET Records
      BY DEF Issued
    <3> HIDE DEF S
    <3> QED BY <3>1, FiniteRecords, FS_Subset
  <2>4. Cardinality(S) \in Nat /\ Cardinality(S) < MaxReissues
    BY <2>3, <1>3, FS_CardinalityType DEF Reissued
  <2> HIDE DEF S, f
  <2>5. Cardinality(2 .. rev[k]) <= Cardinality(S)
    BY <2>2, <2>3, FS_Injection
  <2>6. Cardinality(2 .. rev[k]) = IF 2 > rev[k] THEN 0 ELSE rev[k] - 2 + 1
    <3>1. 2 \in Int /\ rev[k] \in Int
      BY <1>1
    <3>2. \A a, b \in Int : Cardinality(a .. b) = IF a > b THEN 0 ELSE b - a + 1
      BY FS_Interval
    <3> QED BY <3>1, <3>2, Zenon
  <2>7. \A n, c, m \in Nat :
            n > 0 /\ c < m /\ (IF 2 > n THEN 0 ELSE n - 2 + 1) <= c => n + 1 \in 1 .. m + 1
    OBVIOUS
  <2>8. rev[k] \in Nat /\ MaxReissues \in Nat
    BY <1>1, BoundsAssumption
  <2> QED BY <1>3, <2>4, <2>5, <2>6, <2>7, <2>8 DEF Revisions
<1> QED BY <1>1, <1>2, <1>3

-----------------------------------------------------------------------------
(* What is withdrawn with the current record of a kind.                     *)

\* What the closure of the kind's current record is like: it holds that record
\* (said of no admission, since a new one withdraws nothing) and records of a
\* higher rank, whatever depends on one of them, and a current record only
\* together with one it depends on.
GoneFacts(k, gone) ==
    /\ gone \subseteq Issued
    /\ rev[k] > 0 /\ k # "admission" => Current(k) \in gone
    /\ \A e \in edges : e[2] \in gone => e[1] \in gone
    /\ \A x \in gone : x = Current(k) \/ Rank(x[1]) > Rank(k)
    /\ \A x \in gone : x # Current(k) /\ x = Current(x[1]) =>
          \E d \in DependsOn(x) : d \in gone

\* Revisions of a kind are withdrawn from some revision on.
LEMMA UpwardClosed ==
    ASSUME Tables, EdgesComplete, NEW gone \in SUBSET Issued,
           \A e \in edges : e[2] \in gone => e[1] \in gone,
           NEW x \in gone, NEW y \in Issued, y[1] = x[1], y[2] >= x[2]
    PROVE  y \in gone
<1> DEFINE k == x[1]
           Bad == {n \in Nat : n >= x[2] /\ n <= rev[k] /\ <<k, n>> \notin gone}
<1>1. x = <<k, x[2]>> /\ k \in Kinds /\ x[2] \in Nat /\ x[2] > 0
  BY IssuedFacts
<1>2. y = <<k, y[2]>> /\ y[2] \in Nat /\ y[2] <= rev[k] /\ rev[k] \in Nat
  BY IssuedFacts
<1> SUFFICES ASSUME y \notin gone PROVE FALSE
  OBVIOUS
<1>3. y[2] \in Bad
  BY <1>2
<1>4. PICK n \in Bad : \A m \in Bad : n <= m
  <2>1. Bad \in SUBSET Nat
    OBVIOUS
  <2> HIDE DEF Bad
  <2> QED BY <2>1, <1>3, LeastElement
<1>5. n # x[2]
  BY <1>1, <1>4
<1>6. n \in Nat /\ n - 1 \in Nat /\ n - 1 >= x[2] /\ n - 1 <= rev[k] /\ n > 1 /\ n <= rev[k]
      /\ ~(n <= n - 1)
  BY <1>1, <1>2, <1>4, <1>5
<1>7. <<k, n - 1>> \in gone
  BY <1>4, <1>6
<1>8. <<k, n>> \in Issued
  BY <1>1, <1>6, IssuedFacts
<1>9. <<<<k, n>>, <<k, n - 1>>>> \in edges
  BY <1>8, <1>6 DEF EdgesComplete
<1>10. <<k, n>> \in gone
  BY <1>7, <1>9
<1> QED BY <1>10, <1>4

LEMMA Withdrawal ==
    ASSUME Tables, EdgesTyped, EdgesComplete, EdgesMonotone,
           NEW k \in Kinds, rev[k] > 0
    PROVE  GoneFacts(k, Closure(Current(k)))
<1> DEFINE root == Current(k)
           gone == Closure(root)
<1>1. root \in Issued /\ root[1] = k /\ root[2] = rev[k] /\ root = <<k, rev[k]>>
  BY IssuedFacts DEF Current
<1>2. IsFiniteSet(edges)
  BY FiniteEdges
<1>3. /\ root \in gone
      /\ \A e \in edges : e[2] \in gone => e[1] \in gone
      /\ \A x \in gone : x = root \/ \E e \in edges : e[1] = x /\ e[2] \in gone
  BY <1>2, ClosureIsReachability
<1>4. \A X : /\ root \in X
             /\ \A e \in edges : e[2] \in X => e[1] \in X
             => gone \subseteq X
  BY <1>2, ClosureIsReachability
<1> HIDE DEF gone, root
<1>5. gone \subseteq Issued
  BY <1>1, <1>4 DEF EdgesTyped
<1>6. \A x \in gone : x = root \/ Rank(x[1]) > Rank(k)
  <2> DEFINE X == {x \in Issued : x = root \/ Rank(x[1]) > Rank(k)}
  <2>1. root \in X
    BY <1>1
  <2>2. ASSUME NEW e \in edges, e[2] \in X PROVE e[1] \in X
    <3>1. /\ e[1] \in Issued /\ e[2] \in Issued
          /\ \/ e[2][1] = e[1][1] /\ e[2][2] + 1 = e[1][2]
             \/ e[2][1] \in DependencyKinds(e[1][1])
      BY DEF EdgesTyped
    <3>2. e[1][1] \in Kinds /\ e[2][1] \in Kinds /\ e[1][2] <= rev[e[1][1]]
          /\ Rank(e[1][1]) \in Nat /\ Rank(e[2][1]) \in Nat /\ Rank(k) \in Nat /\ rev[k] \in Nat
      BY <3>1, IssuedFacts, RankFacts
    <3>3. CASE e[2] = root
      <4>1. e[2][1] = k /\ e[2][2] = rev[k]
        BY <3>3, <1>1
      <4>2. e[2][1] \in DependencyKinds(e[1][1])
        BY <3>1, <3>2, <4>1
      <4>3. Rank(e[2][1]) < Rank(e[1][1])
        BY <4>2, <3>2, DependencyFacts
      <4> QED BY <3>1, <3>2, <4>1, <4>3
    <3>4. CASE Rank(e[2][1]) > Rank(k)
      <4>1. Rank(e[1][1]) >= Rank(e[2][1])
        BY <3>1, <3>2, DependencyFacts
      <4> QED BY <3>1, <3>2, <3>4, <4>1
    <3> QED BY <2>2, <3>3, <3>4
  <2> HIDE DEF X
  <2>3. gone \subseteq X
    BY <2>1, <2>2, <1>4
  <2> QED BY <2>3 DEF X
<1>7. ASSUME NEW x \in gone, x # root, x = Current(x[1])
      PROVE  \E d \in DependsOn(x) : d \in gone
  <2> DEFINE S == {n \in Nat : <<x[1], n>> \in gone}
  <2>1. x = <<x[1], x[2]>> /\ x[1] \in Kinds /\ x[2] \in Nat /\ x \in Issued
    BY <1>5, IssuedFacts
  <2>2. x[2] \in S
    BY <2>1
  <2>3. PICK n \in S : \A m \in S : n <= m
    <3>1. S \in SUBSET Nat
      OBVIOUS
    <3> HIDE DEF S
    <3> QED BY <3>1, <2>2, LeastElement
  <2> DEFINE y == <<x[1], n>>
  <2>4. y \in gone /\ y[1] = x[1] /\ y[2] = n /\ n \in Nat /\ n <= x[2]
    BY <2>2, <2>3
  <2> HIDE DEF y
  <2>5. y # root
    <3> SUFFICES ASSUME y = root PROVE FALSE
      OBVIOUS
    <3>1. x[1] = k
      BY <1>1, <2>4
    <3>2. Rank(x[1]) \in Nat
      BY <2>1, RankFacts
    <3>3. Rank(x[1]) > Rank(k)
      BY <1>6, <1>7
    <3> QED BY <3>1, <3>2, <3>3
  <2>6. PICK e \in edges : e[1] = y /\ e[2] \in gone
    BY <1>3, <2>4, <2>5
  <2>7. /\ e[1] \in Issued /\ e[2] \in Issued
        /\ \/ e[2][1] = e[1][1] /\ e[2][2] + 1 = e[1][2]
           \/ e[2][1] \in DependencyKinds(e[1][1])
    BY DEF EdgesTyped
  <2>8. e[2][1] \in DependencyKinds(x[1])
    <3> SUFFICES ASSUME e[2][1] = e[1][1], e[2][2] + 1 = e[1][2] PROVE FALSE
      BY <2>7, <2>6, <2>4
    <3>1. e[2][1] = x[1] /\ e[2][2] + 1 = n
      BY <2>6, <2>4
    <3>2. e[2] = <<e[2][1], e[2][2]>> /\ e[2][2] \in Nat
      BY <2>7, IssuedFacts
    <3>3. e[2][2] \in S
      BY <3>1, <3>2, <2>6
    <3>4. n <= e[2][2]
      BY <2>3, <3>3
    <3> QED BY <3>1, <3>2, <3>4, <2>4
  <2>9. e[2][1] \in Kinds /\ e[2][1] # x[1]
    BY <2>1, <2>8, DependencyFacts
  <2>10. PICK m \in Revisions : <<x, <<e[2][1], m>>>> \in edges
    BY <2>1, <2>8 DEF EdgesComplete
  <2> DEFINE d == <<e[2][1], m>>
             g == <<x, d>>
  <2>11. g \in edges /\ g[1] = x /\ g[2] = d /\ d[1] = e[2][1] /\ d[2] = m
    BY <2>10
  <2> HIDE DEF d, g
  <2>12. d \in Issued
    BY <2>11 DEF EdgesTyped
  <2>13. d[2] >= e[2][2]
    <3>1. e[2][2] <= g[2][2]
      BY <2>4, <2>6, <2>9, <2>11 DEF EdgesMonotone
    <3> QED BY <3>1, <2>7, <2>11, <2>12, IssuedFacts
  <2>14. d \in gone
    BY <1>3, <1>5, <2>6, <2>11, <2>12, <2>13, UpwardClosed
  <2>15. d \in DependsOn(x)
    BY <2>9, <2>11 DEF DependsOn
  <2> QED BY <2>14, <2>15
<1> QED BY <1>3, <1>5, <1>6, <1>7 DEF GoneFacts, gone, root

\* The same for a new revision, which withdraws nothing when it is the first or
\* an admission.
LEMMA WithdrawnByFacts ==
    ASSUME Tables, EdgesTyped, EdgesComplete, EdgesMonotone, NEW k \in Kinds
    PROVE  GoneFacts(k, WithdrawnBy(k))
<1>1. CASE rev[k] = 0 \/ k = "admission"
  BY <1>1 DEF GoneFacts, WithdrawnBy
<1>2. CASE rev[k] # 0 /\ k # "admission"
  <2>1. rev[k] > 0
    BY <1>2, IssuedFacts
  <2> QED BY <1>2, <2>1, Withdrawal DEF WithdrawnBy
<1> QED BY <1>1, <1>2

-----------------------------------------------------------------------------
(* A new revision, and an invalidation.                                     *)

\* The records a record of this kind is issued on.
Dependencies(k) == {Current(d) : d \in DependencyKinds(k)}

\* The command found what the record depends on, in force unless the record is
\* a receipt.
Supported(k) ==
    \A d \in DependencyKinds(k) : rev[d] > 0 /\ (k # "receipt" => EffectiveNow(d))

\* The tables after a record was issued.
LEMMA IssueTables ==
    ASSUME Core, NEW k \in Kinds, Issue(k, Dependencies(k)), Supported(k)
    PROVE  /\ rev' \in [Kinds -> 0 .. MaxReissues + 1]
           /\ rev'[k] = rev[k] + 1
           /\ \A j \in Kinds : j # k => rev'[j] = rev[j]
           /\ Issued' = Issued \cup {<<k, rev[k] + 1>>}
           /\ <<k, rev[k] + 1>> \notin Issued
           /\ Current(k)' = <<k, rev[k] + 1>>
           /\ \A j \in Kinds : j # k => Current(j)' = Current(j)
           /\ \A x \in Issued : x = Current(x[1])' => x = Current(x[1]) /\ x[1] # k
<1>1. rev[k] + 1 \in Revisions /\ rev[k] \in Nat
  BY RevisionFits, IssuedFacts DEF Core, Issue
<1>2. rev' = [rev EXCEPT ![k] = rev[k] + 1]
  BY DEF Issue, NextRevision
<1>3. rev \in [Kinds -> 0 .. MaxReissues + 1]
  BY DEF Core, Tables
<1>4. rev' \in [Kinds -> 0 .. MaxReissues + 1] /\ rev'[k] = rev[k] + 1
      /\ \A j \in Kinds : j # k => rev'[j] = rev[j]
  BY <1>1, <1>2, <1>3, BoundsAssumption DEF Revisions
<1>5. <<k, rev[k] + 1>> \in Records
  BY <1>1 DEF Records
<1>6. ASSUME NEW x PROVE x \in Issued' <=> x \in Issued \cup {<<k, rev[k] + 1>>}
  <2>1. CASE x \in Records /\ x[1] = k
    <3>1. x = <<k, x[2]>> /\ x[2] \in Nat
      BY <2>1, BoundsAssumption DEF Records, Revisions
    <3>2. x \in Issued' <=> x[2] <= rev[k] + 1
      BY <2>1, <1>4 DEF Issued
    <3>3. x \in Issued <=> x[2] <= rev[k]
      BY <2>1 DEF Issued
    <3>4. x = <<k, rev[k] + 1>> <=> x[2] = rev[k] + 1
      BY <3>1
    <3> QED BY <3>1, <3>2, <3>3, <3>4, <1>1
  <2>2. CASE x \in Records /\ x[1] # k
    <3>1. x[1] \in Kinds /\ x # <<k, rev[k] + 1>>
      BY <2>2 DEF Records
    <3> QED BY <2>2, <3>1, <1>4 DEF Issued
  <2>3. CASE x \notin Records
    BY <2>3, <1>5 DEF Issued
  <2> QED BY <2>1, <2>2, <2>3
<1>7. <<k, rev[k] + 1>> \notin Issued
  BY <1>1 DEF Issued
<1>8. Current(k)' = <<k, rev[k] + 1>> /\ \A j \in Kinds : j # k => Current(j)' = Current(j)
  BY <1>4 DEF Current
<1>9. ASSUME NEW x \in Issued, x = Current(x[1])' PROVE x = Current(x[1]) /\ x[1] # k
  <2>1. x[1] \in Kinds
    BY IssuedFacts DEF Core
  <2>2. x[1] # k
    BY <1>7, <1>8, <1>9
  <2> QED BY <2>1, <2>2, <1>8, <1>9
<1>10. Issued' = Issued \cup {<<k, rev[k] + 1>>}
  BY <1>6
<1> QED BY <1>4, <1>7, <1>8, <1>9, <1>10

\* The edges after a record was issued: its own are new.
LEMMA IssueEdges ==
    ASSUME Core, NEW k \in Kinds, Issue(k, Dependencies(k)), Supported(k)
    PROVE  /\ edges \subseteq edges'
           /\ \A e \in edges : e[1] # <<k, rev[k] + 1>> /\ e[1] \in Issued /\ e[2] \in Issued
           /\ \A e \in edges' \ edges :
                 /\ e[1] = <<k, rev[k] + 1>> /\ e[1][1] = k /\ e[1][2] = rev[k] + 1
                 /\ e[2] \in Issued /\ e[2] = Current(e[2][1])
                 /\ \/ e[2] = Current(k)
                    \/ e[2][1] \in DependencyKinds(k)
           /\ rev[k] > 0 => <<<<k, rev[k] + 1>>, Current(k)>> \in edges'
           /\ \A d \in DependencyKinds(k) : <<<<k, rev[k] + 1>>, Current(d)>> \in edges'
           /\ edges' \subseteq Records \X Records
<1> DEFINE new == <<k, rev[k] + 1>>
           prev == IF rev[k] = 0 THEN {} ELSE {<<new, Current(k)>>}
<1>1. edges' = edges \cup {<<new, d>> : d \in Dependencies(k)} \cup prev
  BY DEF Issue, NextRevision
<1>2. new \notin Issued /\ new \in Issued'
  BY IssueTables
<1>3. \A e \in edges : e[1] \in Issued /\ e[2] \in Issued
  BY DEF Core, EdgesTyped
<1>4. \A d \in DependencyKinds(k) : d \in Kinds /\ rev[d] > 0 /\ Current(d) \in Issued /\ Current(d)[1] = d
  BY DependencyFacts, IssuedFacts DEF Core, Supported
<1>5. rev[k] # 0 => Current(k) \in Issued /\ rev[k] > 0
  BY IssuedFacts DEF Core
<1>6. Current(k)[1] = k /\ new[1] = k /\ new[2] = rev[k] + 1
  BY DEF Current
<1>7. Issued \subseteq Records /\ Issued' \subseteq Records
  BY DEF Issued
<1>8. edges \subseteq Records \X Records
  BY DEF Core, Tables
<1> HIDE DEF new
<1>9. ASSUME NEW e \in edges' \ edges
      PROVE  /\ e = <<new, e[2]>> /\ e[1] = new /\ e[2] \in Issued /\ e[2] = Current(e[2][1])
             /\ \/ e[2] = Current(k)
                \/ e[2][1] \in DependencyKinds(k)
  <2>1. CASE e \in prev
    BY <2>1, <1>5, <1>6
  <2>2. CASE e \in {<<new, d>> : d \in Dependencies(k)}
    <3>1. PICK d \in DependencyKinds(k) : e = <<new, Current(d)>>
      BY <2>2 DEF Dependencies
    <3> QED BY <3>1, <1>4
  <2> QED BY <2>1, <2>2, <1>1
<1>10. rev[k] > 0 => <<new, Current(k)>> \in edges'
  BY <1>1
<1>11. \A d \in DependencyKinds(k) : <<new, Current(d)>> \in edges'
  BY <1>1 DEF Dependencies
<1>12. edges' \subseteq Records \X Records
  BY <1>2, <1>7, <1>8, <1>9
<1>13. edges \subseteq edges'
  BY <1>1
<1>14. \A e \in edges : e[1] # new
  BY <1>2, <1>3
<1> HIDE DEF prev
<1> QED BY <1>3, <1>6, <1>9, <1>10, <1>11, <1>12, <1>13, <1>14 DEF new

LEMMA IssueKeepsEdges ==
    ASSUME Core, NEW k \in Kinds, Issue(k, Dependencies(k)), Supported(k)
    PROVE  EdgesTyped' /\ EdgesComplete' /\ EdgesMonotone'
<1> DEFINE new == <<k, rev[k] + 1>>
<1>1. Issued' = Issued \cup {new} /\ new \notin Issued
  BY IssueTables
<1>2. /\ edges \subseteq edges'
      /\ \A e \in edges : e[1] # new /\ e[1] \in Issued /\ e[2] \in Issued
      /\ \A e \in edges' \ edges :
            /\ e[1] = new /\ e[1][1] = k /\ e[1][2] = rev[k] + 1
            /\ e[2] \in Issued /\ e[2] = Current(e[2][1])
            /\ \/ e[2] = Current(k)
               \/ e[2][1] \in DependencyKinds(k)
      /\ rev[k] > 0 => <<new, Current(k)>> \in edges'
      /\ \A d \in DependencyKinds(k) : <<new, Current(d)>> \in edges'
  BY IssueEdges
<1>3. new[1] = k /\ new[2] = rev[k] + 1 /\ Current(k) = <<k, rev[k]>> /\ rev[k] \in Nat
      /\ Current(k)[1] = k /\ Current(k)[2] = rev[k]
  BY IssuedFacts DEF Current, Core
<1>4. \A x \in Issued : x[1] \in Kinds /\ x[2] \in Nat /\ x[2] > 0 /\ x[2] <= rev[x[1]] /\ rev[x[1]] \in Nat
                        /\ Current(x[1])[2] = rev[x[1]]
  BY IssuedFacts DEF Core
<1> HIDE DEF new
<1>5. EdgesTyped'
  <2> SUFFICES ASSUME NEW e \in edges'
               PROVE  /\ e[1] \in Issued' /\ e[2] \in Issued'
                      /\ \/ e[2][1] = e[1][1] /\ e[2][2] + 1 = e[1][2]
                         \/ e[2][1] \in DependencyKinds(e[1][1])
    BY DEF EdgesTyped
  <2>1. CASE e \in edges
    BY <2>1, <1>1 DEF Core, EdgesTyped
  <2>2. CASE e \notin edges
    BY <2>2, <1>1, <1>2, <1>3
  <2> QED BY <2>1, <2>2
<1>6. EdgesComplete'
  <2> SUFFICES ASSUME NEW x \in Issued'
               PROVE  /\ x[2] > 1 => <<x, <<x[1], x[2] - 1>>>> \in edges'
                      /\ \A j \in DependencyKinds(x[1]) :
                            \E m \in Revisions : <<x, <<j, m>>>> \in edges'
    BY DEF EdgesComplete
  <2>1. CASE x \in Issued
    BY <2>1, <1>2 DEF Core, EdgesComplete
  <2>2. CASE x = new
    <3>1. x[2] > 1 => <<x, <<x[1], x[2] - 1>>>> \in edges'
      <4> SUFFICES ASSUME x[2] > 1 PROVE <<x, <<x[1], x[2] - 1>>>> \in edges'
        OBVIOUS
      <4>1. rev[k] > 0 /\ x[2] - 1 = rev[k] /\ x[1] = k
        BY <2>2, <1>3
      <4> QED BY <4>1, <2>2, <1>2, <1>3
    <3>2. ASSUME NEW j \in DependencyKinds(x[1])
          PROVE  \E m \in Revisions : <<x, <<j, m>>>> \in edges'
      <4>1. j \in DependencyKinds(k)
        BY <2>2, <1>3
      <4>2. <<new, <<j, rev[j]>>>> \in edges'
        BY <4>1, <1>2 DEF Current
      <4>3. j \in Kinds /\ rev[j] > 0
        BY <4>1, DependencyFacts DEF Supported
      <4>4. rev[j] \in Revisions
        BY <4>3, BoundsAssumption DEF Core, Tables, Revisions
      <4> QED BY <4>2, <4>4, <2>2
    <3> QED BY <3>1, <3>2
  <2> QED BY <2>1, <2>2, <1>1
<1>7. EdgesMonotone'
  <2> SUFFICES ASSUME NEW e \in edges', NEW f \in edges',
                      e[1][1] = f[1][1], e[2][1] = f[2][1], e[1][1] # e[2][1],
                      e[1][2] <= f[1][2]
               PROVE  e[2][2] <= f[2][2]
    BY DEF EdgesMonotone
  <2>1. CASE e \in edges /\ f \in edges
    BY <2>1 DEF Core, EdgesMonotone
  <2>2. CASE e \in edges /\ f \notin edges
    <3>1. e[2] \in Issued /\ f[2] = Current(f[2][1]) /\ f[2] \in Issued
      BY <2>2, <1>2
    <3> QED BY <3>1, <1>4
  <2>3. CASE e \notin edges /\ f \in edges
    <3>1. e[1][1] = k /\ e[1][2] = rev[k] + 1 /\ f[1] \in Issued
      BY <2>3, <1>2
    <3>2. f[1][1] = k
      BY <3>1
    <3>3. f[1][2] \in Nat /\ f[1][2] <= rev[k]
      BY <3>1, <3>2, <1>4
    <3> QED BY <3>1, <3>3, <1>3
  <2>4. CASE e \notin edges /\ f \notin edges
    <3>1. e[2] = Current(e[2][1]) /\ f[2] = Current(f[2][1]) /\ e[2] \in Issued
      BY <2>4, <1>2
    <3>2. e[2] = f[2]
      BY <3>1
    <3> QED BY <3>1, <3>2, <1>4
  <2> QED BY <2>1, <2>2, <2>3, <2>4
<1> QED BY <1>5, <1>6, <1>7

\* The dependencies of the records that were there do not change.
LEMMA IssueDependsOn ==
    ASSUME Core, NEW k \in Kinds, Issue(k, Dependencies(k)), Supported(k)
    PROVE  /\ \A x \in Issued : DependsOn(x)' = DependsOn(x)
           /\ \A x \in Issued : DependsOn(x) \subseteq Issued
           /\ \A x : x = <<k, rev[k] + 1>> =>
                 \A d \in DependsOn(x)' : d[1] \in DependencyKinds(k) /\ d = Current(d[1])
<1> DEFINE new == <<k, rev[k] + 1>>
<1>1. new \notin Issued
  BY IssueTables
<1>2. /\ edges \subseteq edges'
      /\ \A e \in edges : e[1] # new /\ e[1] \in Issued /\ e[2] \in Issued
      /\ \A e \in edges' \ edges :
            /\ e[1] = new
            /\ e[2] \in Issued /\ e[2] = Current(e[2][1])
            /\ \/ e[2] = Current(k)
               \/ e[2][1] \in DependencyKinds(k)
  BY IssueEdges
<1>3. Current(k)[1] = k /\ new[1] = k
  BY DEF Current
<1> HIDE DEF new
<1>4. \A x \in Issued : DependsOn(x)' = DependsOn(x)
  BY <1>1, <1>2 DEF DependsOn
<1>5. \A x \in Issued : DependsOn(x) \subseteq Issued
  BY <1>2 DEF DependsOn
<1>6. ASSUME NEW x, x = new
      PROVE  \A d \in DependsOn(x)' : d[1] \in DependencyKinds(k) /\ d = Current(d[1])
  BY <1>2, <1>3, <1>6 DEF DependsOn
<1> QED BY <1>4, <1>5, <1>6 DEF new

LEMMA IssueKeeps ==
    ASSUME Core, NEW k \in Kinds, Issue(k, Dependencies(k)), Supported(k), named' = named
    PROVE  Core'
<1> DEFINE new == <<k, rev[k] + 1>>
           gone == WithdrawnBy(k)
           bound == IF k \in BoundKinds THEN [binding EXCEPT ![k] = rev[k] + 1] ELSE binding
<1>0. Tables /\ EdgesTyped /\ EdgesComplete /\ EdgesMonotone
  BY DEF Core
<1>1. /\ rev' \in [Kinds -> 0 .. MaxReissues + 1]
      /\ rev'[k] = rev[k] + 1
      /\ \A j \in Kinds : j # k => rev'[j] = rev[j]
      /\ Issued' = Issued \cup {new}
      /\ new \notin Issued
      /\ Current(k)' = new
      /\ \A j \in Kinds : j # k => Current(j)' = Current(j)
      /\ \A x \in Issued : x = Current(x[1])' => x = Current(x[1]) /\ x[1] # k
  BY IssueTables
<1>2. GoneFacts(k, gone)
  BY <1>0, WithdrawnByFacts
<1>3. invalidated' = invalidated \cup gone
  BY DEF Issue
<1>4. binding' = Unbind(bound, gone)
  BY DEF Issue, NextRevision
<1>5. /\ \A x \in Issued : DependsOn(x)' = DependsOn(x)
      /\ \A x \in Issued : DependsOn(x) \subseteq Issued
      /\ \A x : x = new =>
            \A d \in DependsOn(x)' : d[1] \in DependencyKinds(k) /\ d = Current(d[1])
  BY IssueDependsOn
<1>6. /\ \A j \in Kinds : rev[j] \in Nat /\ Current(j) = <<j, rev[j]>>
                          /\ Current(j)[1] = j /\ Current(j)[2] = rev[j]
      /\ \A x \in Issued : x = <<x[1], x[2]>> /\ x[1] \in Kinds
                           /\ x[2] \in Nat /\ x[2] > 0 /\ x[2] <= rev[x[1]]
      /\ \A j \in Kinds : rev[j] > 0 => Current(j) \in Issued
      /\ invalidated \subseteq Issued
  BY <1>0, IssuedFacts DEF Tables, Current
<1>7. new[1] = k /\ new[2] = rev[k] + 1
  OBVIOUS
<1> HIDE DEF new, gone
<1>8. EdgesTyped' /\ EdgesComplete' /\ EdgesMonotone'
  BY IssueKeepsEdges
<1>9. binding' \in [BoundKinds -> Nat] /\ \A j \in BoundKinds :
          /\ j \in Kinds
          /\ binding'[j] \in Nat /\ binding'[j] <= rev'[j]
          /\ binding'[j] > 0 =>
                /\ <<j, binding'[j]>> \notin gone
                /\ binding'[j] = IF j = k THEN rev[k] + 1 ELSE binding[j]
  <2> SUFFICES ASSUME NEW j \in BoundKinds
               PROVE  /\ j \in Kinds
                      /\ binding'[j] \in Nat /\ binding'[j] <= rev'[j]
                      /\ binding'[j] > 0 =>
                            /\ <<j, binding'[j]>> \notin gone
                            /\ binding'[j] = IF j = k THEN rev[k] + 1 ELSE binding[j]
    BY <1>4 DEF Unbind
  <2>1. j \in Kinds
    BY DEF BoundKinds, Kinds
  <2>2. binding \in [BoundKinds -> Nat] /\ binding[j] \in Nat /\ binding[j] <= rev[j]
    BY <1>0 DEF Tables
  <2>3. bound[j] = IF j = k THEN rev[k] + 1 ELSE binding[j]
    BY <2>2
  <2>4. bound[j] \in Nat /\ bound[j] <= rev'[j]
    BY <1>1, <1>6, <2>1, <2>2, <2>3
  <2> HIDE DEF bound
  <2>5. binding'[j] = IF <<j, bound[j]>> \in gone THEN 0 ELSE bound[j]
    BY <1>4 DEF Unbind
  <2>6. rev'[j] \in Nat
    BY <1>1, <2>1, BoundsAssumption
  <2> QED BY <2>1, <2>3, <2>4, <2>5, <2>6
<1>10. Tables'
  BY <1>1, <1>2, <1>3, <1>6, <1>9, IssueEdges DEF Tables, GoneFacts
<1>11. EffectiveRestsOnEffective'
  <2> SUFFICES ASSUME NEW x \in Issued', x \notin invalidated'
               PROVE  /\ x[1] # "admission" => x = Current(x[1])'
                      /\ x[1] # "receipt" => \A d \in DependsOn(x)' : Effective(d)'
    BY DEF EffectiveRestsOnEffective
  <2>1. CASE x = new
    <3>1. x = Current(x[1])'
      BY <2>1, <1>1, <1>7
    <3>2. ASSUME x[1] # "receipt", NEW d \in DependsOn(x)' PROVE Effective(d)'
      <4>1. d[1] \in DependencyKinds(k) /\ d = Current(d[1])
        BY <2>1, <1>5, <3>2
      <4>2. d[1] \in Kinds /\ d[1] # k /\ Rank(d[1]) < Rank(k)
        BY <4>1, DependencyFacts
      <4>3. EffectiveNow(d[1])
        BY <4>1, <3>2, <2>1, <1>7 DEF Supported
      <4>4. d \in Issued /\ d \notin invalidated
        BY <4>1, <4>2, <4>3, <1>6 DEF EffectiveNow
      <4>5. Rank(d[1]) \in Nat /\ Rank(k) \in Nat
        BY <4>2, RankFacts
      <4>6. d # Current(k)
        BY <4>2, <1>6
      <4>7. ~(Rank(d[1]) > Rank(k))
        BY <4>2, <4>5
      <4>8. d \notin gone
        BY <4>6, <4>7, <1>2 DEF GoneFacts
      <4> QED BY <4>4, <4>8, <1>1, <1>3 DEF Effective
    <3> QED BY <3>1, <3>2
  <2>2. CASE x \in Issued
    <3>1. x \in Issued \ invalidated /\ x \notin gone
      BY <2>2, <1>3
    <3>2. /\ x[1] # "admission" => x = Current(x[1])
          /\ x[1] # "receipt" => \A d \in DependsOn(x) : Effective(d)
      BY <3>1 DEF Core, EffectiveRestsOnEffective
    <3>3. ASSUME x[1] # "admission" PROVE x[1] # k
      <4> SUFFICES ASSUME x[1] = k PROVE FALSE
        OBVIOUS
      <4>1. rev[k] > 0 /\ x = Current(k) /\ k # "admission"
        BY <2>2, <3>2, <3>3, <1>6
      <4> QED BY <4>1, <3>1, <1>2 DEF GoneFacts
    <3>4. ASSUME x[1] # "admission" PROVE x = Current(x[1])'
      BY <2>2, <3>2, <3>3, <3>4, <1>1, <1>6
    <3>5. ASSUME x[1] # "receipt", NEW d \in DependsOn(x)' PROVE Effective(d)'
      <4>1. d \in DependsOn(x) /\ d \in Issued /\ d \notin invalidated
        BY <2>2, <3>2, <3>5, <1>5 DEF Effective
      <4>2. PICK e \in edges : e[1] = x /\ e[2] = d
        BY <4>1 DEF DependsOn
      <4>3. d \notin gone
        BY <4>2, <3>1, <1>2 DEF GoneFacts
      <4> QED BY <4>1, <4>3, <1>1, <1>3 DEF Effective
    <3> QED BY <3>4, <3>5
  <2> QED BY <2>1, <2>2, <1>1
<1>12. BindingsInForce'
  <2> SUFFICES ASSUME NEW j \in BoundKinds, binding'[j] > 0
               PROVE  binding'[j] = rev'[j] /\ rev'[j] > 0 /\ Current(j)' \notin invalidated'
    BY DEF BindingsInForce, EffectiveNow
  <2>1. CASE j = k
    <3>1. binding'[j] = rev[k] + 1 /\ rev'[j] = rev[k] + 1 /\ Current(j)' = new
      BY <2>1, <1>1, <1>9
    <3>2. new \notin invalidated'
      BY <1>1, <1>2, <1>3, <1>6 DEF GoneFacts
    <3> QED BY <3>1, <3>2
  <2>2. CASE j # k
    <3>1. binding'[j] = binding[j] /\ j \in Kinds /\ <<j, binding[j]>> \notin gone
      BY <2>2, <1>9
    <3>2. binding[j] = rev[j] /\ Current(j) \notin invalidated
      BY <3>1 DEF Core, BindingsInForce, EffectiveNow
    <3>3. rev'[j] = rev[j] /\ Current(j)' = Current(j) /\ Current(j) = <<j, rev[j]>>
      BY <2>2, <3>1, <1>1, <1>6
    <3> QED BY <3>1, <3>2, <3>3, <1>3
  <2> QED BY <2>1, <2>2
<1>13. WithdrawnForCause'
  <2> SUFFICES ASSUME NEW x \in invalidated', x = Current(x[1])', x \notin named
               PROVE  \E d \in DependsOn(x)' : d \in invalidated'
    BY DEF WithdrawnForCause
  <2>1. x \in Issued
    BY <1>2, <1>3, <1>6 DEF GoneFacts
  <2>2. x = Current(x[1]) /\ x[1] # k
    BY <2>1, <1>1
  <2>3. DependsOn(x)' = DependsOn(x)
    BY <2>1, <1>5
  <2>4. CASE x \in invalidated
    <3>1. \E d \in DependsOn(x) : d \in invalidated
      BY <2>2, <2>4 DEF Core, WithdrawnForCause
    <3> QED BY <3>1, <2>3, <1>3
  <2>5. CASE x \in gone
    <3>1. x # Current(k)
      BY <2>2, <1>6
    <3>2. \E d \in DependsOn(x) : d \in gone
      BY <2>2, <2>5, <3>1, <1>2 DEF GoneFacts
    <3> QED BY <3>2, <2>3, <1>3
  <2> QED BY <2>4, <2>5, <1>3
<1> QED BY <1>8, <1>10, <1>11, <1>12, <1>13 DEF Core

\* A withdrawal: the same without a new record.
LEMMA WithdrawKeeps ==
    ASSUME Core, NEW k \in Kinds, rev[k] > 0, Withdraw(Current(k)), UNCHANGED <<rev, edges>>
    PROVE  Core'
<1> DEFINE gone == Closure(Current(k))
<1>0. Tables /\ EdgesTyped /\ EdgesComplete /\ EdgesMonotone
  BY DEF Core
<1>2. GoneFacts(k, gone)
  BY <1>0, Withdrawal
<1>3. /\ invalidated' = invalidated \cup gone
      /\ binding' = Unbind(binding, gone)
      /\ named' = named \cup {Current(k)}
      /\ rev' = rev /\ edges' = edges
  BY DEF Withdraw
<1> HIDE DEF gone
<1>4. Issued' = Issued /\ \A j : Current(j)' = Current(j)
  BY <1>3 DEF Issued, Current
<1>5. \A x : DependsOn(x)' = DependsOn(x)
  BY <1>3 DEF DependsOn
<1>6. EdgesTyped' /\ EdgesComplete' /\ EdgesMonotone'
  BY <1>0, <1>3, <1>4 DEF EdgesTyped, EdgesComplete, EdgesMonotone
<1>7. binding' \in [BoundKinds -> Nat] /\ \A j \in BoundKinds :
          /\ binding'[j] <= rev[j]
          /\ binding'[j] > 0 => binding'[j] = binding[j] /\ <<j, binding[j]>> \notin gone
  <2>1. binding \in [BoundKinds -> Nat] /\ \A j \in BoundKinds : binding[j] <= rev[j] /\ rev[j] \in Nat
    BY <1>0, IssuedFacts DEF Tables, BoundKinds, Kinds
  <2> QED BY <2>1, <1>3 DEF Unbind
<1>8. Tables'
  BY <1>0, <1>2, <1>3, <1>4, <1>7 DEF Tables, GoneFacts
<1>9. EffectiveRestsOnEffective'
  <2> SUFFICES ASSUME NEW x \in Issued, x \notin invalidated, x \notin gone
               PROVE  /\ x[1] # "admission" => x = Current(x[1])
                      /\ x[1] # "receipt" => \A d \in DependsOn(x) : d \in Issued /\ d \notin invalidated'
    BY <1>3, <1>4, <1>5 DEF EffectiveRestsOnEffective, Effective
  <2>1. /\ x[1] # "admission" => x = Current(x[1])
        /\ x[1] # "receipt" => \A d \in DependsOn(x) : Effective(d)
    BY DEF Core, EffectiveRestsOnEffective
  <2>2. ASSUME NEW d \in DependsOn(x) PROVE d \notin gone
    <3>1. PICK e \in edges : e[1] = x /\ e[2] = d
      BY DEF DependsOn
    <3> QED BY <3>1, <1>2 DEF GoneFacts
  <2> QED BY <2>1, <2>2, <1>3 DEF Effective
<1>10. BindingsInForce'
  <2> SUFFICES ASSUME NEW j \in BoundKinds, binding'[j] > 0
               PROVE  binding'[j] = rev[j] /\ rev[j] > 0 /\ Current(j) \notin invalidated'
    BY <1>3, <1>4 DEF BindingsInForce, EffectiveNow
  <2>1. binding'[j] = binding[j] /\ <<j, binding[j]>> \notin gone
    BY <1>7
  <2>2. binding[j] = rev[j] /\ Current(j) \notin invalidated
    BY <2>1 DEF Core, BindingsInForce, EffectiveNow
  <2> QED BY <2>1, <2>2, <1>3 DEF Current
<1>11. WithdrawnForCause'
  <2> SUFFICES ASSUME NEW x \in invalidated', x = Current(x[1]), x \notin named'
               PROVE  \E d \in DependsOn(x) : d \in invalidated'
    BY <1>4, <1>5 DEF WithdrawnForCause
  <2>1. CASE x \in invalidated
    <3>1. \E d \in DependsOn(x) : d \in invalidated
      BY <2>1, <1>3 DEF Core, WithdrawnForCause
    <3> QED BY <3>1, <1>3
  <2>2. CASE x \in gone
    <3>1. \E d \in DependsOn(x) : d \in gone
      BY <2>2, <1>2, <1>3 DEF GoneFacts
    <3> QED BY <3>1, <1>3
  <2> QED BY <2>1, <2>2, <1>3
<1> QED BY <1>6, <1>8, <1>9, <1>10, <1>11 DEF Core

\* Steps that leave the records alone.
LEMMA RecordsUnchanged ==
    ASSUME Core, UNCHANGED <<rev, edges, invalidated, binding, named>>
    PROVE  Core' /\ Issued' = Issued
<1>1. Issued' = Issued /\ \A j : Current(j)' = Current(j)
  BY DEF Issued, Current
<1>2. \A x : DependsOn(x)' = DependsOn(x)
  BY DEF DependsOn
<1>3. Tables'
  BY <1>1 DEF Core, Tables
<1>4. EdgesTyped' /\ EdgesComplete' /\ EdgesMonotone'
  BY <1>1 DEF Core, EdgesTyped, EdgesComplete, EdgesMonotone
<1>5. EffectiveRestsOnEffective'
  BY <1>1, <1>2 DEF Core, EffectiveRestsOnEffective, Effective
<1>6. BindingsInForce'
  BY <1>1 DEF Core, BindingsInForce, EffectiveNow
<1>7. WithdrawnForCause'
  BY <1>1, <1>2 DEF Core, WithdrawnForCause
<1> QED BY <1>1, <1>3, <1>4, <1>5, <1>6, <1>7 DEF Core

-----------------------------------------------------------------------------
(* The commands.                                                            *)

LEMMA DependenciesAre ==
    /\ Dependencies("input") = {}
    /\ Dependencies("admission") = {Current("action")}
    /\ Dependencies("receipt") = {Current("action")}
    /\ Dependencies("outcome") = {Current("receipt")}
    /\ Dependencies("candidate") = {Current("outcome")}
    /\ Dependencies("promotion") = {Current("candidate")}
    /\ Dependencies("assertion") = {Current("promotion")}
  BY DEF Dependencies, DependencyKinds

LEMMA RequiresAre ==
    ASSUME NEW k \in DOMAIN Requires
    PROVE  /\ k \in {"context", "intent", "decision", "turn", "response", "action"}
           /\ Requires[k] = DependencyKinds(k)
  BY DEF Requires, DependencyKinds

\* A list with two independent references names two different ones.
LEMMA TwoReferences ==
    ASSUME NEW refs \in EvidenceLists, IndependentEvidence(refs) >= 2
    PROVE  \E i, j \in DOMAIN refs : refs[i] # refs[j]
<1> SUFFICES ASSUME \A i, j \in DOMAIN refs : refs[i] = refs[j] PROVE FALSE
  OBVIOUS
<1>1. Cardinality(Range(refs)) \in {0, 1}
  <2>1. CASE DOMAIN refs = {}
    <3>1. Range(refs) = {}
      BY <2>1 DEF Range
    <3> QED BY <3>1, FS_EmptySet
  <2>2. CASE DOMAIN refs # {}
    <3>1. PICK i \in DOMAIN refs : TRUE
      BY <2>2
    <3>2. Range(refs) = {refs[i]}
      BY <3>1 DEF Range
    <3> QED BY <3>2, FS_Singleton
  <2> QED BY <2>1, <2>2
<1> QED BY <1>1 DEF IndependentEvidence

\* What the records of the Human Model rest on is not rewritten: decisions and
\* evidence of issued revisions stay.
LEMMA GroundedStays ==
    ASSUME Core, Grounded,
           \A r \in Nat : r <= rev["promotion"] => verdict'[r] = verdict[r],
           \A r \in Nat : r <= rev["candidate"] => evidence'[r] = evidence[r],
           \A e \in edges' \ edges :
              /\ e[1][1] = "assertion" /\ e[2][1] = "promotion" => verdict'[e[2][2]] \in Promoting
              /\ e[1][1] = "promotion" /\ e[2][1] = "candidate" /\ verdict'[e[1][2]] = "promote_provisional" =>
                    \E i, j \in DOMAIN evidence'[e[2][2]] : evidence'[e[2][2]][i] # evidence'[e[2][2]][j]
    PROVE  Grounded'
<1>1. \A x \in Issued : x[2] \in Nat /\ x[2] <= rev[x[1]]
  BY IssuedFacts DEF Core
<1>2. \A e \in edges : e[1] \in Issued /\ e[2] \in Issued
  BY DEF Core, EdgesTyped
<1>3. ASSUME NEW e \in edges', e[1][1] = "assertion", e[2][1] = "promotion"
      PROVE  verdict'[e[2][2]] \in Promoting
  <2>1. CASE e \in edges
    <3>1. verdict[e[2][2]] \in Promoting
      BY <1>3, <2>1 DEF Grounded
    <3>2. verdict'[e[2][2]] = verdict[e[2][2]]
      BY <1>1, <1>2, <1>3, <2>1
    <3> QED BY <3>1, <3>2
  <2>2. CASE e \notin edges
    BY <1>3, <2>2
  <2> QED BY <2>1, <2>2
<1>4. ASSUME NEW e \in edges', e[1][1] = "promotion", e[2][1] = "candidate",
             verdict'[e[1][2]] = "promote_provisional"
      PROVE  \E i, j \in DOMAIN evidence'[e[2][2]] : evidence'[e[2][2]][i] # evidence'[e[2][2]][j]
  <2>1. CASE e \in edges
    <3>1. verdict'[e[1][2]] = verdict[e[1][2]] /\ evidence'[e[2][2]] = evidence[e[2][2]]
      BY <1>1, <1>2, <1>4, <2>1
    <3>2. \E i, j \in DOMAIN evidence[e[2][2]] : evidence[e[2][2]][i] # evidence[e[2][2]][j]
      BY <1>4, <2>1, <3>1 DEF Grounded
    <3> QED BY <3>1, <3>2
  <2>2. CASE e \notin edges
    BY <1>4, <2>2
  <2> QED BY <2>1, <2>2
<1> QED BY <1>3, <1>4 DEF Grounded

\* A record of a kind the Human Model does not hold.
LEMMA IssueKeepsGrounded ==
    ASSUME Core, Grounded, NEW k \in Kinds, Issue(k, Dependencies(k)), Supported(k),
           k \notin {"promotion", "assertion"}, UNCHANGED <<verdict, evidence>>
    PROVE  Grounded'
<1>1. \A e \in edges' \ edges : e[1][1] = k
  BY IssueEdges
<1> QED BY <1>1, GroundedStays

\* Issued records stay issued, and so do the execution's and the named ones.
LEMMA IssueKeepsRest ==
    ASSUME Core, Rest, NEW k \in Kinds, Issue(k, Dependencies(k)), Supported(k),
           run' \in RunStates, UNCHANGED <<dispatched, named, corrected>>,
           evidence' \in [Revisions -> EvidenceLists],
           verdict' \in [Revisions -> PromotionOutcomes]
    PROVE  Rest'
<1>1. Issued \subseteq Issued' /\ rev'["action"] \in Nat /\ rev["action"] \in Nat
      /\ rev["action"] <= rev'["action"]
  <2>1. /\ rev'[k] = rev[k] + 1
        /\ \A j \in Kinds : j # k => rev'[j] = rev[j]
        /\ Issued' = Issued \cup {<<k, rev[k] + 1>>}
    BY IssueTables
  <2>2. "action" \in Kinds /\ \A j \in Kinds : rev[j] \in Nat
    BY IssuedFacts DEF Kinds, Core
  <2> QED BY <2>1, <2>2
<1> QED BY <1>1 DEF Rest

LEMMA IssueStep ==
    ASSUME Inv, NEW k \in Kinds, Issue(k, Dependencies(k)), Supported(k),
           run' \in RunStates, UNCHANGED <<dispatched, named, corrected>>,
           evidence' \in [Revisions -> EvidenceLists],
           verdict' \in [Revisions -> PromotionOutcomes], Grounded'
    PROVE  Inv'
<1>1. Core'
  BY IssueKeeps DEF Inv
<1>2. Rest'
  BY IssueKeepsRest DEF Inv
<1> QED BY <1>1, <1>2 DEF Inv

\* A command that issues a record and touches neither evidence nor decisions.
LEMMA PlainIssueStep ==
    ASSUME Inv, NEW k \in Kinds, Issue(k, Dependencies(k)), Supported(k),
           k \notin {"promotion", "assertion"},
           run' \in RunStates, UNCHANGED <<evidence, verdict, dispatched, named, corrected>>
    PROVE  Inv'
<1>1. Grounded'
  BY IssueKeepsGrounded DEF Inv
<1>2. /\ evidence' \in [Revisions -> EvidenceLists]
      /\ verdict' \in [Revisions -> PromotionOutcomes]
  BY DEF Inv, Rest
<1> QED BY <1>1, <1>2, IssueStep

\* A command that leaves the records alone.
LEMMA QuietStep ==
    ASSUME Inv, UNCHANGED <<rev, edges, invalidated, binding, evidence, verdict, named>>,
           run' \in RunStates, dispatched' \in 0 .. rev["action"], corrected' \subseteq Issued
    PROVE  Inv'
<1>1. Core' /\ Issued' = Issued
  BY RecordsUnchanged DEF Inv
<1>2. Rest'
  BY <1>1 DEF Inv, Rest
<1>3. Grounded'
  BY DEF Inv, Grounded
<1> QED BY <1>1, <1>2, <1>3 DEF Inv

LEMMA StartRunStep == ASSUME Inv, StartRun PROVE Inv'
<1>1. Issue("input", Dependencies("input")) /\ "input" \in Kinds
  BY DependenciesAre DEF StartRun, Kinds
<1>2. Supported("input")
  BY DEF Supported, DependencyKinds
<1>3. run' \in RunStates
  BY DEF StartRun, RunStates
<1> QED BY <1>1, <1>2, <1>3, PlainIssueStep DEF StartRun

LEMMA RecordStep == ASSUME Inv, NEW k \in DOMAIN Requires, Record(k) PROVE Inv'
<1>1. k \in {"context", "intent", "decision", "turn", "response", "action"}
      /\ Requires[k] = DependencyKinds(k)
  BY RequiresAre
<1>2. Issue(k, Dependencies(k)) /\ k \in Kinds /\ k \notin {"promotion", "assertion"}
  BY <1>1 DEF Record, Dependencies, Kinds
<1>3. Supported(k)
  BY <1>1 DEF Record, Supported, EffectiveNow
<1>4. run' \in RunStates
  BY DEF Record, LiveRun, RunAfterClosure, RunStates
<1> QED BY <1>2, <1>3, <1>4, PlainIssueStep DEF Record

LEMMA AdmitStep == ASSUME Inv, AdmitAction PROVE Inv'
<1>1. Issue("admission", Dependencies("admission")) /\ "admission" \in Kinds
  BY DependenciesAre DEF AdmitAction, Kinds
<1>2. Supported("admission")
  BY DEF AdmitAction, Supported, DependencyKinds, EffectiveNow
<1>3. run' \in RunStates
  BY DEF AdmitAction, Inv, Rest
<1> QED BY <1>1, <1>2, <1>3, PlainIssueStep DEF AdmitAction

LEMMA ReceiptStep == ASSUME Inv, CommitExecutionReceipt PROVE Inv'
<1>1. Issue("receipt", Dependencies("receipt")) /\ "receipt" \in Kinds
  BY DependenciesAre DEF CommitExecutionReceipt, Kinds
<1>2. rev["action"] > 0
  <2>1. "action" \in Kinds
    BY DEF Kinds
  <2>2. rev["action"] \in Nat /\ dispatched \in 0 .. rev["action"] /\ dispatched > 0
    BY <2>1, IssuedFacts DEF Inv, Core, Rest, CommitExecutionReceipt
  <2> QED BY <2>2
<1>3. Supported("receipt")
  BY <1>2 DEF Supported, DependencyKinds
<1>4. run' \in RunStates
  BY DEF CommitExecutionReceipt, RunStates
<1> QED BY <1>1, <1>3, <1>4, PlainIssueStep DEF CommitExecutionReceipt

LEMMA OutcomeStep == ASSUME Inv, RecordOutcome PROVE Inv'
<1>1. Issue("outcome", Dependencies("outcome")) /\ "outcome" \in Kinds
  BY DependenciesAre DEF RecordOutcome, Kinds
<1>2. Supported("outcome")
  BY DEF RecordOutcome, Supported, DependencyKinds, EffectiveNow
<1>3. run' \in RunStates
  BY DEF RecordOutcome, Inv, Rest
<1> QED BY <1>1, <1>2, <1>3, PlainIssueStep DEF RecordOutcome

LEMMA CandidateStep ==
    ASSUME Inv, NEW refs \in EvidenceLists, ProposeHumanModelCandidate(refs) PROVE Inv'
<1>1. Issue("candidate", Dependencies("candidate")) /\ "candidate" \in Kinds
  BY DependenciesAre DEF ProposeHumanModelCandidate, Kinds
<1>2. Supported("candidate")
  BY DEF ProposeHumanModelCandidate, Supported, DependencyKinds, EffectiveNow
<1>3. run' \in RunStates /\ UNCHANGED <<verdict, dispatched, named, corrected>>
  BY DEF ProposeHumanModelCandidate, Inv, Rest
<1>4. rev'["candidate"] = rev["candidate"] + 1 /\ rev["candidate"] \in Nat
  BY <1>1, <1>2, IssueTables, IssuedFacts DEF Inv, Core
<1>5. evidence' = [evidence EXCEPT ![rev["candidate"] + 1] = refs]
      /\ evidence \in [Revisions -> EvidenceLists]
  BY <1>4 DEF ProposeHumanModelCandidate, Inv, Rest
<1>6. evidence' \in [Revisions -> EvidenceLists]
  BY <1>5
<1>7. \A r \in Nat : r <= rev["candidate"] => evidence'[r] = evidence[r]
  <2> SUFFICES ASSUME NEW r \in Nat, r <= rev["candidate"] PROVE evidence'[r] = evidence[r]
    OBVIOUS
  <2>1. r # rev["candidate"] + 1
    BY <1>4
  <2> QED BY <2>1, <1>5
<1>8. \A e \in edges' \ edges : e[1][1] = "candidate"
  BY <1>1, <1>2, IssueEdges DEF Inv
<1>9. Grounded'
  BY <1>3, <1>7, <1>8, GroundedStays DEF Inv
<1>10. verdict' \in [Revisions -> PromotionOutcomes]
  BY <1>3 DEF Inv, Rest
<1> QED BY <1>1, <1>2, <1>3, <1>6, <1>9, <1>10, IssueStep

LEMMA PromotionStep ==
    ASSUME Inv, NEW v \in PromotionOutcomes, NEW claimed, RecordHumanModelPromotion(v, claimed)
    PROVE  Inv'
<1>1. Issue("promotion", Dependencies("promotion")) /\ "promotion" \in Kinds /\ "candidate" \in Kinds
  BY DependenciesAre DEF RecordHumanModelPromotion, Kinds
<1>2. Supported("promotion")
  BY DEF RecordHumanModelPromotion, Supported, DependencyKinds, EffectiveNow
<1>3. run' \in RunStates /\ UNCHANGED <<evidence, dispatched, named, corrected>>
  BY DEF RecordHumanModelPromotion, Inv, Rest
<1>4. rev'["promotion"] = rev["promotion"] + 1 /\ rev["promotion"] \in Nat
      /\ rev["promotion"] + 1 \in Revisions
  <2>1. Core
    BY DEF Inv
  <2>2. rev["promotion"] > 0 => Reissued < MaxReissues
    BY <1>1 DEF Issue
  <2> QED BY <2>1, <2>2, <1>1, <1>2, IssueTables, IssuedFacts, RevisionFits DEF Core
<1>5. verdict' = [verdict EXCEPT ![rev["promotion"] + 1] = v]
      /\ verdict \in [Revisions -> PromotionOutcomes]
  BY <1>4 DEF RecordHumanModelPromotion, Inv, Rest
<1>6. verdict' \in [Revisions -> PromotionOutcomes] /\ verdict'[rev["promotion"] + 1] = v
  BY <1>4, <1>5
<1>7. \A r \in Nat : r <= rev["promotion"] => verdict'[r] = verdict[r]
  <2> SUFFICES ASSUME NEW r \in Nat, r <= rev["promotion"] PROVE verdict'[r] = verdict[r]
    OBVIOUS
  <2>1. r # rev["promotion"] + 1
    BY <1>4
  <2> QED BY <2>1, <1>5
<1>8. rev["candidate"] \in Revisions
  <2>1. rev["candidate"] > 0
    BY DEF RecordHumanModelPromotion, EffectiveNow
  <2> QED BY <2>1, <1>1, BoundsAssumption DEF Inv, Core, Tables, Revisions
<1>9. ASSUME NEW e \in edges' \ edges
      PROVE  /\ e[1][1] = "promotion" /\ e[1][2] = rev["promotion"] + 1
             /\ e[2][1] = "candidate" => e[2][2] = rev["candidate"]
  <2>1. e[1][1] = "promotion" /\ e[1][2] = rev["promotion"] + 1 /\ e[2] = Current(e[2][1])
    BY <1>1, <1>2, IssueEdges DEF Inv
  <2> QED BY <2>1 DEF Current
<1>10. v = "promote_provisional" =>
          \E i, j \in DOMAIN evidence[rev["candidate"]] :
              evidence[rev["candidate"]][i] # evidence[rev["candidate"]][j]
  <2> SUFFICES ASSUME v = "promote_provisional"
               PROVE  \E i, j \in DOMAIN evidence[rev["candidate"]] :
                          evidence[rev["candidate"]][i] # evidence[rev["candidate"]][j]
    OBVIOUS
  <2>1. IndependentEvidence(evidence[rev["candidate"]]) >= 2
    BY DEF RecordHumanModelPromotion, PromotionValid
  <2>2. evidence[rev["candidate"]] \in EvidenceLists
    BY <1>8 DEF Inv, Rest
  <2> QED BY <2>1, <2>2, TwoReferences
<1>11. Grounded'
  <2>1. ASSUME NEW e \in edges' \ edges, e[2][1] = "candidate",
               verdict'[e[1][2]] = "promote_provisional"
        PROVE  \E i, j \in DOMAIN evidence'[e[2][2]] : evidence'[e[2][2]][i] # evidence'[e[2][2]][j]
    <3>1. e[1][2] = rev["promotion"] + 1 /\ e[2][2] = rev["candidate"]
      BY <1>9, <2>1
    <3>2. v = "promote_provisional"
      BY <3>1, <1>6, <2>1
    <3> QED BY <3>1, <3>2, <1>3, <1>10
  <2> QED BY <2>1, <1>3, <1>7, <1>9, GroundedStays DEF Inv
<1>12. evidence' \in [Revisions -> EvidenceLists]
  BY <1>3 DEF Inv, Rest
<1> QED BY <1>1, <1>2, <1>3, <1>6, <1>11, <1>12, IssueStep

LEMMA AssertionStep == ASSUME Inv, PromoteHumanModelAssertion PROVE Inv'
<1>1. Issue("assertion", Dependencies("assertion")) /\ "assertion" \in Kinds
  BY DependenciesAre DEF PromoteHumanModelAssertion, Kinds
<1>2. Supported("assertion")
  BY DEF PromoteHumanModelAssertion, Supported, DependencyKinds, EffectiveNow
<1>3. run' \in RunStates /\ UNCHANGED <<evidence, verdict, dispatched, named, corrected>>
  BY DEF PromoteHumanModelAssertion, Inv, Rest
<1>4. ASSUME NEW e \in edges' \ edges
      PROVE  /\ e[1][1] = "assertion"
             /\ e[2][1] = "promotion" => verdict[e[2][2]] \in Promoting
  <2>1. e[1][1] = "assertion" /\ e[2] = Current(e[2][1])
    BY <1>1, <1>2, IssueEdges DEF Inv
  <2> QED BY <2>1 DEF Current, PromoteHumanModelAssertion, Materializes
<1>5. Grounded'
  BY <1>3, <1>4, GroundedStays DEF Inv
<1>6. /\ evidence' \in [Revisions -> EvidenceLists]
      /\ verdict' \in [Revisions -> PromotionOutcomes]
  BY <1>3 DEF Inv, Rest
<1> QED BY <1>1, <1>2, <1>3, <1>5, <1>6, IssueStep

\* A correction of an assertion is never stored: its rows name the corrected
\* revision twice, as the previous revision and as the dependency.
LEMMA CorrectionStep == ASSUME Inv, CorrectHumanModelAssertion PROVE Inv'
<1>1. rev["assertion"] > 0 /\ "assertion" \in Kinds
  BY DEF CorrectHumanModelAssertion, EffectiveNow, Kinds
<1>2. ~CanPersist("assertion", {Current("assertion")})
  BY <1>1 DEF CanPersist
<1>3. UNCHANGED <<rev, edges, invalidated, binding, run, evidence, verdict, dispatched, named>>
  BY <1>2 DEF CorrectHumanModelAssertion
<1>4. Current("assertion") \in Issued
  BY <1>1, IssuedFacts DEF Inv, Core
<1>5. corrected' \subseteq Issued
  BY <1>4 DEF CorrectHumanModelAssertion, Inv, Rest
<1> QED BY <1>3, <1>5, QuietStep DEF Inv, Rest

\* A command that withdraws a current record and what depends on it.
LEMMA WithdrawStep ==
    ASSUME Inv, NEW k \in Kinds, rev[k] > 0, Withdraw(Current(k)), run' \in RunStates,
           UNCHANGED <<rev, edges, evidence, verdict, dispatched, corrected>>
    PROVE  Inv'
<1>1. Core'
  BY WithdrawKeeps DEF Inv
<1>2. Issued' = Issued /\ Current(k) \in Issued
  BY IssuedFacts DEF Issued, Inv, Core
<1>3. Rest'
  BY <1>2 DEF Inv, Rest, Withdraw
<1>4. Grounded'
  BY DEF Inv, Grounded
<1> QED BY <1>1, <1>3, <1>4 DEF Inv

LEMMA InvalidateStep == ASSUME Inv, NEW k \in Kinds, InvalidateRecord(k) PROVE Inv'
  BY WithdrawStep DEF InvalidateRecord, EffectiveNow, RunStates

\* The bound admission is the current one.
LEMMA ProofFailureStep == ASSUME Inv, ActionAdmissionProofFailure PROVE Inv'
<1>1. "admission" \in Kinds /\ "admission" \in BoundKinds
  BY DEF Kinds, BoundKinds
<1>2. binding["admission"] = rev["admission"] /\ rev["admission"] > 0
  BY <1>1 DEF ActionAdmissionProofFailure, Inv, Core, BindingsInForce, EffectiveNow
<1>3. Withdraw(Current("admission"))
  BY <1>2 DEF ActionAdmissionProofFailure, Current
<1>4. run' \in RunStates
  BY DEF ActionAdmissionProofFailure, RunStates
<1> QED BY <1>1, <1>2, <1>3, <1>4, WithdrawStep DEF ActionAdmissionProofFailure

LEMMA InitInv == ASSUME Init PROVE Inv
<1>1. Issued = {}
  BY BoundsAssumption DEF Init, Issued, Records, Revisions
<1>2. Tables
  <2>1. rev \in [Kinds -> 0 .. MaxReissues + 1]
    BY BoundsAssumption DEF Init
  <2>2. binding \in [BoundKinds -> Nat] /\ \A k \in BoundKinds : binding[k] <= rev[k]
    BY DEF Init, BoundKinds, Kinds
  <2> QED BY <2>1, <2>2 DEF Init, Tables
<1>3. EdgesTyped /\ EdgesComplete /\ EdgesMonotone
  BY <1>1 DEF Init, EdgesTyped, EdgesComplete, EdgesMonotone
<1>4. EffectiveRestsOnEffective /\ WithdrawnForCause
  BY <1>1 DEF Init, EffectiveRestsOnEffective, WithdrawnForCause
<1>5. BindingsInForce
  BY DEF Init, BindingsInForce
<1>6. Rest
  <2>1. <<>> \in EvidenceLists
    <3>1. 0 \in 0 .. MaxEvidence
      BY BoundsAssumption
    <3>2. <<>> \in [1 .. 0 -> Evidence]
      OBVIOUS
    <3> QED BY <3>1, <3>2 DEF EvidenceLists
  <2>2. evidence \in [Revisions -> EvidenceLists]
    BY <2>1 DEF Init
  <2>3. verdict \in [Revisions -> PromotionOutcomes]
    BY DEF Init, PromotionOutcomes
  <2>4. dispatched \in 0 .. rev["action"]
    BY DEF Init, Kinds
  <2> QED BY <2>2, <2>3, <2>4 DEF Init, Rest, RunStates
<1>7. Grounded
  BY DEF Init, Grounded
<1> QED BY <1>2, <1>3, <1>4, <1>5, <1>6, <1>7 DEF Inv, Core

LEMMA NextInv == ASSUME Inv, [Next]_vars PROVE Inv'
<1>1. CASE StartRun
  BY <1>1, StartRunStep
<1>2. ASSUME NEW k \in DOMAIN Requires, Record(k) PROVE Inv'
  BY <1>2, RecordStep
<1>3. CASE BlockIntent
  <2>1. run' \in RunStates /\ dispatched' \in 0 .. rev["action"] /\ corrected' \subseteq Issued
    BY <1>3 DEF BlockIntent, Inv, Rest, RunStates
  <2> QED BY <1>3, <2>1, QuietStep DEF BlockIntent
<1>4. CASE AdmitAction
  BY <1>4, AdmitStep
<1>5. CASE Dispatch
  <2>1. "action" \in Kinds /\ rev["action"] \in Nat
    <3>1. "action" \in Kinds
      BY DEF Kinds
    <3> QED BY <3>1, IssuedFacts DEF Inv, Core
  <2>2. run' \in RunStates /\ dispatched' \in 0 .. rev["action"] /\ corrected' \subseteq Issued
    BY <1>5, <2>1 DEF Dispatch, Inv, Rest
  <2> QED BY <1>5, <2>2, QuietStep DEF Dispatch
<1>6. CASE CommitExecutionReceipt
  BY <1>6, ReceiptStep
<1>7. ASSUME NEW k \in Kinds, InvalidateRecord(k) PROVE Inv'
  BY <1>7, InvalidateStep
<1>8. CASE CancelRun
  <2>1. run' \in RunStates /\ dispatched' \in 0 .. rev["action"] /\ corrected' \subseteq Issued
    BY <1>8 DEF CancelRun, Inv, Rest, RunStates
  <2> QED BY <1>8, <2>1, QuietStep DEF CancelRun
<1>9. CASE RecordOutcome
  BY <1>9, OutcomeStep
<1>10. ASSUME NEW refs \in EvidenceLists, ProposeHumanModelCandidate(refs) PROVE Inv'
  BY <1>10, CandidateStep
<1>11. ASSUME NEW v \in PromotionOutcomes, NEW claimed \in 0 .. MaxEvidence,
              RecordHumanModelPromotion(v, claimed)
       PROVE  Inv'
  BY <1>11, PromotionStep
<1>12. CASE PromoteHumanModelAssertion
  BY <1>12, AssertionStep
<1>13. CASE CorrectHumanModelAssertion
  BY <1>13, CorrectionStep
<1>14. CASE ActionAdmissionProofFailure
  BY <1>14, ProofFailureStep
<1>15. CASE UNCHANGED vars
  <2>1. run' \in RunStates /\ dispatched' \in 0 .. rev["action"] /\ corrected' \subseteq Issued
    BY <1>15 DEF vars, Inv, Rest
  <2> QED BY <1>15, <2>1, QuietStep DEF vars
<1> QED BY <1>1, <1>2, <1>3, <1>4, <1>5, <1>6, <1>7, <1>8, <1>9, <1>10, <1>11,
           <1>12, <1>13, <1>14, <1>15 DEF Next

-----------------------------------------------------------------------------
(* The results.                                                             *)

\* The inductive invariant of the lineage: the records, their edges and what is
\* withdrawn, bound and recorded about them.
THEOREM LineageInvariant == Spec => []Inv
<1>1. Init => Inv
  BY InitInv
<1>2. Inv /\ [Next]_vars => Inv'
  BY NextInv
<1> QED BY <1>1, <1>2, PTL DEF Spec

\* Whatever revisions, invalidations and failed rechecks a Run goes through, a
\* record in force rests on records in force and is the current one of its kind,
\* or an admission of an action in force.
THEOREM LineageHolds == Spec => []LineageInv
<1>1. Inv => LineageInv
  <2> SUFFICES ASSUME Inv PROVE LineageInv
    OBVIOUS
  <2>1. \A k \in BoundKinds : binding[k] \in 0 .. rev[k]
    <3>1. \A k \in BoundKinds : k \in Kinds
      BY DEF BoundKinds, Kinds
    <3>2. \A k \in BoundKinds : binding[k] \in Nat /\ binding[k] <= rev[k] /\ rev[k] \in Nat
      BY <3>1, IssuedFacts DEF Inv, Core, Tables
    <3> QED BY <3>2
  <2>2. TypeOK
    BY <2>1 DEF Inv, Core, Tables, Rest, TypeOK
  <2> QED BY <2>2 DEF Inv, Core, LineageInv
<1> QED BY <1>1, LineageInvariant, PTL

\* apply_repository_invalidation_closure drops every binding it has to.
THEOREM BindingsHold == Spec => []BindingsInForce
<1>1. Inv => BindingsInForce
  BY DEF Inv, Core
<1> QED BY <1>1, LineageInvariant, PTL

\* The recursive query takes no current record that was not withdrawn on its own
\* account and does not depend on a withdrawn one.
THEOREM WithdrawalsHaveCause == Spec => []WithdrawnForCause
<1>1. Inv => WithdrawnForCause
  BY DEF Inv, Core
<1> QED BY <1>1, LineageInvariant, PTL

\* What query_effective_human_model_assertions returns came from a promoting
\* decision on a candidate in force, with two different references when it is
\* provisional.
THEOREM ViewGrounded == Spec => []ViewIsGrounded
<1>1. Inv => ViewIsGrounded
  <2> SUFFICES ASSUME Inv, NEW x \in EffectiveView, NEW p \in PromotionOf(x)
               PROVE  /\ verdict[p[2]] \in Promoting
                      /\ \A c \in DependsOn(p) :
                            /\ Effective(c)
                            /\ verdict[p[2]] = "promote_provisional" =>
                                  \E i, j \in DOMAIN evidence[c[2]] :
                                      evidence[c[2]][i] # evidence[c[2]][j]
    BY DEF ViewIsGrounded
  <2>1. "assertion" \in Kinds /\ "promotion" \in Kinds
    BY DEF Kinds
  <2>2. x = Current("assertion") /\ EffectiveNow("assertion")
    BY DEF EffectiveView
  <2>3. x \in Issued \ invalidated /\ x[1] = "assertion"
    BY <2>1, <2>2, IssuedFacts DEF EffectiveNow, Inv, Core
  <2>4. p \in DependsOn(x) /\ p[1] = "promotion"
    BY DEF PromotionOf
  <2>5. p \in Issued \ invalidated
    BY <2>3, <2>4 DEF Inv, Core, EffectiveRestsOnEffective, Effective
  <2>6. PICK e \in edges : e[1] = x /\ e[2] = p
    BY <2>4 DEF DependsOn
  <2>7. verdict[p[2]] \in Promoting
    BY <2>3, <2>4, <2>6 DEF Inv, Grounded
  <2>8. ASSUME NEW c \in DependsOn(p)
        PROVE  /\ Effective(c)
               /\ verdict[p[2]] = "promote_provisional" =>
                     \E i, j \in DOMAIN evidence[c[2]] : evidence[c[2]][i] # evidence[c[2]][j]
    <3>1. Effective(c)
      BY <2>4, <2>5 DEF Inv, Core, EffectiveRestsOnEffective
    <3>2. PICK f \in edges : f[1] = p /\ f[2] = c /\ c[1] # p[1]
      BY DEF DependsOn
    <3>3. c[1] \in DependencyKinds("promotion")
      BY <3>2, <2>4 DEF Inv, Core, EdgesTyped
    <3>4. c[1] = "candidate"
      BY <3>3 DEF DependencyKinds
    <3>5. verdict[p[2]] = "promote_provisional" =>
              \E i, j \in DOMAIN evidence[c[2]] : evidence[c[2]][i] # evidence[c[2]][j]
      BY <2>4, <3>2, <3>4 DEF Inv, Grounded
    <3> QED BY <3>1, <3>5
  <2> QED BY <2>7, <2>8
<1> QED BY <1>1, LineageInvariant, PTL
=============================================================================
