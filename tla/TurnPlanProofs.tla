--------------------------- MODULE TurnPlanProofs ---------------------------
(***************************************************************************)
(* Proofs about assessing a turn, planning it and carrying the plan out,   *)
(* for any number of responses and Actions: dependency_graph_is_acyclic    *)
(* decides whether the contracts can be put in order, a plan that          *)
(* validates can be carried out to its end and keeps the order its mode    *)
(* promises, and what happens is what was assessed and authorized.         *)
(***************************************************************************)
EXTENDS TurnPlan, FiniteSetTheorems, WellFoundedInduction, TLAPS

-----------------------------------------------------------------------------
(* The two searches, round by round.                                       *)

\* The nodes all of whose predecessors are in X.
Ready(nodes, edges, X) == {x \in nodes : \A e \in edges : e.after = x => e.before \in X}

\* f[n] is what dependency_graph_is_acyclic has taken after n rounds.
IsRounds(f, nodes, edges, N) ==
    f = [n \in 0 .. N |-> IF n = 0 THEN {} ELSE Ready(nodes, edges, f[n - 1])]

\* X and what an edge leads to from X.
Onward(edges, X) == X \cup {e.after : e \in {f \in edges : f.before \in X}}

\* f[n] is what dependency_path_exists has found after n rounds.
IsSearch(f, start, edges, N) ==
    f = [n \in 0 .. N |-> IF n = 0 THEN {start} ELSE Onward(edges, f[n - 1])]

\* A nonempty set of naturals has a least element.
LEMMA LeastElement ==
    ASSUME NEW S \in SUBSET Nat, S # {}
    PROVE  \E n \in S : \A m \in S : n <= m
<1>1. IsWellFoundedOn(OpToRel(<, Nat), Nat)
  BY NatLessThanWellFounded
<1>2. PICK n \in S : \A m \in S : ~(<<m, n>> \in OpToRel(<, Nat))
  BY <1>1, WFMin
<1>3. \A m \in S : ~(m < n)
  BY <1>2 DEF OpToRel
<1> QED BY <1>3

LEMMA RoundsExist ==
    ASSUME NEW nodes, NEW edges, NEW N \in Nat
    PROVE  \E f : IsRounds(f, nodes, edges, N)
<1> DEFINE Bad == {n \in Nat : ~\E f : IsRounds(f, nodes, edges, n)}
<1> SUFFICES ASSUME Bad # {} PROVE FALSE
  OBVIOUS
<1>1. PICK n \in Bad : \A m \in Bad : n <= m
  <2>1. Bad \in SUBSET Nat
    OBVIOUS
  <2> HIDE DEF Bad
  <2> QED BY <2>1, LeastElement
<1>2. CASE n = 0
  <2> DEFINE g == [i \in 0 .. 0 |-> {}]
  <2>1. IsRounds(g, nodes, edges, 0)
    BY DEF IsRounds
  <2> QED BY <2>1, <1>1, <1>2
<1>3. CASE n # 0
  <2>1. n \in Nat /\ n - 1 \in Nat /\ ~(n <= n - 1)
    BY <1>3
  <2>2. PICK f : IsRounds(f, nodes, edges, n - 1)
    BY <1>1, <2>1
  <2> DEFINE h(i) == IF i = n THEN Ready(nodes, edges, f[n - 1]) ELSE f[i]
             g == [i \in 0 .. n |-> h(i)]
  <2>3. \A i \in 0 .. n : g[i] = IF i = 0 THEN {} ELSE Ready(nodes, edges, g[i - 1])
    <3> SUFFICES ASSUME NEW i \in 0 .. n
                 PROVE  g[i] = IF i = 0 THEN {} ELSE Ready(nodes, edges, g[i - 1])
      OBVIOUS
    <3>1. CASE i = n
      <4>1. g[i] = Ready(nodes, edges, f[n - 1]) /\ g[i - 1] = f[n - 1]
        BY <3>1, <2>1
      <4> QED BY <4>1, <3>1, <1>3
    <3>2. CASE i = 0
      <4>1. f[0] = {}
        BY <2>1, <2>2 DEF IsRounds
      <4> QED BY <4>1, <3>2, <1>3
    <3>3. CASE i # 0 /\ i # n
      <4>1. i \in 0 .. n - 1 /\ i - 1 \in 0 .. n /\ i - 1 # n
        BY <3>3, <2>1
      <4>2. g[i] = f[i] /\ g[i - 1] = f[i - 1]
        BY <3>3, <4>1
      <4>3. f[i] = Ready(nodes, edges, f[i - 1])
        BY <2>2, <3>3, <4>1 DEF IsRounds
      <4> QED BY <3>3, <4>2, <4>3
    <3> QED BY <3>1, <3>2, <3>3
  <2>4. g = [i \in 0 .. n |-> g[i]]
    OBVIOUS
  <2> HIDE DEF g
  <2>5. IsRounds(g, nodes, edges, n)
    BY <2>3, <2>4 DEF IsRounds
  <2> QED BY <2>5, <1>1
<1> QED BY <1>2, <1>3

LEMMA SearchExists ==
    ASSUME NEW start, NEW edges, NEW N \in Nat
    PROVE  \E f : IsSearch(f, start, edges, N)
<1> DEFINE Bad == {n \in Nat : ~\E f : IsSearch(f, start, edges, n)}
<1> SUFFICES ASSUME Bad # {} PROVE FALSE
  OBVIOUS
<1>1. PICK n \in Bad : \A m \in Bad : n <= m
  <2>1. Bad \in SUBSET Nat
    OBVIOUS
  <2> HIDE DEF Bad
  <2> QED BY <2>1, LeastElement
<1>2. CASE n = 0
  <2> DEFINE g == [i \in 0 .. 0 |-> {start}]
  <2>1. IsSearch(g, start, edges, 0)
    BY DEF IsSearch
  <2> QED BY <2>1, <1>1, <1>2
<1>3. CASE n # 0
  <2>1. n \in Nat /\ n - 1 \in Nat /\ ~(n <= n - 1)
    BY <1>3
  <2>2. PICK f : IsSearch(f, start, edges, n - 1)
    BY <1>1, <2>1
  <2> DEFINE h(i) == IF i = n THEN Onward(edges, f[n - 1]) ELSE f[i]
             g == [i \in 0 .. n |-> h(i)]
  <2>3. \A i \in 0 .. n : g[i] = IF i = 0 THEN {start} ELSE Onward(edges, g[i - 1])
    <3> SUFFICES ASSUME NEW i \in 0 .. n
                 PROVE  g[i] = IF i = 0 THEN {start} ELSE Onward(edges, g[i - 1])
      OBVIOUS
    <3>1. CASE i = n
      <4>1. g[i] = Onward(edges, f[n - 1]) /\ g[i - 1] = f[n - 1]
        BY <3>1, <2>1
      <4> QED BY <4>1, <3>1, <1>3
    <3>2. CASE i = 0
      <4>1. f[0] = {start}
        BY <2>1, <2>2 DEF IsSearch
      <4> QED BY <4>1, <3>2, <1>3
    <3>3. CASE i # 0 /\ i # n
      <4>1. i \in 0 .. n - 1 /\ i - 1 \in 0 .. n /\ i - 1 # n
        BY <3>3, <2>1
      <4>2. g[i] = f[i] /\ g[i - 1] = f[i - 1]
        BY <3>3, <4>1
      <4>3. f[i] = Onward(edges, f[i - 1])
        BY <2>2, <3>3, <4>1 DEF IsSearch
      <4> QED BY <3>3, <4>2, <4>3
    <3> QED BY <3>1, <3>2, <3>3
  <2>4. g = [i \in 0 .. n |-> g[i]]
    OBVIOUS
  <2> HIDE DEF g
  <2>5. IsSearch(g, start, edges, n)
    BY <2>3, <2>4 DEF IsSearch
  <2> QED BY <2>5, <1>1
<1> QED BY <1>2, <1>3

\* dependency_graph_is_acyclic looks at the last of its rounds.
LEMMA AcyclicRounds ==
    ASSUME NEW nodes, NEW edges, Cardinality(nodes) \in Nat
    PROVE  \E f : /\ IsRounds(f, nodes, edges, Cardinality(nodes))
                  /\ DependencyGraphIsAcyclic(nodes, edges) = (f[Cardinality(nodes)] = nodes)
<1> DEFINE N == Cardinality(nodes)
           c == CHOOSE h : IsRounds(h, nodes, edges, N)
<1>1. IsRounds(c, nodes, edges, N)
  BY RoundsExist
<1>2. DependencyGraphIsAcyclic(nodes, edges) = (c[N] = nodes)
  BY Zenon DEF DependencyGraphIsAcyclic, IsRounds, Ready
<1> HIDE DEF c
<1> QED BY <1>1, <1>2

\* dependency_path_exists looks at what its last round has found.
LEMMA PathSearch ==
    ASSUME NEW start, NEW target, NEW edges, Cardinality(Contracts) \in Nat
    PROVE  \E f : /\ IsSearch(f, start, edges, Cardinality(Contracts))
                  /\ DependencyPathExists(start, target, edges) =
                        \E e \in edges : e.after = target /\ e.before \in f[Cardinality(Contracts)]
<1> DEFINE N == Cardinality(Contracts)
           c == CHOOSE h : IsSearch(h, start, edges, N)
<1>1. IsSearch(c, start, edges, N)
  BY SearchExists
<1>2. DependencyPathExists(start, target, edges) =
        \E e \in edges : e.after = target /\ e.before \in c[N]
  BY Zenon DEF DependencyPathExists, IsSearch, Onward
<1> HIDE DEF c
<1> QED BY <1>1, <1>2

-----------------------------------------------------------------------------
(* Kahn's algorithm.                                                       *)

\* A ranking of the nodes that no edge goes against.
Ranks(rank, nodes, edges, N) ==
    /\ rank \in [nodes -> 1 .. N]
    /\ \A e \in edges : rank[e.before] < rank[e.after]

Within(edges, nodes) == \A e \in edges : e.before \in nodes /\ e.after \in nodes

\* A contract's rank is the round in which it is taken.
LEMMA RoundsGiveRanks ==
    ASSUME NEW nodes, NEW edges, NEW N \in Nat, NEW f, IsRounds(f, nodes, edges, N),
           f[N] = nodes, Within(edges, nodes)
    PROVE  \E rank : Ranks(rank, nodes, edges, N)
<1> DEFINE In(x) == {n \in 0 .. N : x \in f[n]}
           Least(x, n) == n \in In(x) /\ \A m \in In(x) : n <= m
           rank == [x \in nodes |-> CHOOSE n \in 0 .. N : Least(x, n)]
<1>1. f[0] = {} /\ \A n \in 1 .. N : f[n] = Ready(nodes, edges, f[n - 1])
  <2>1. f[0] = {}
    BY DEF IsRounds
  <2>2. ASSUME NEW n \in 1 .. N PROVE f[n] = Ready(nodes, edges, f[n - 1])
    <3>1. n \in 0 .. N /\ n # 0
      OBVIOUS
    <3> QED BY <3>1 DEF IsRounds
  <2> QED BY <2>1, <2>2
<1>2. ASSUME NEW x \in nodes
      PROVE  rank[x] \in 1 .. N /\ Least(x, rank[x])
  <2>1. N \in In(x)
    OBVIOUS
  <2>2. In(x) \in SUBSET Nat
    OBVIOUS
  <2>3. \E n \in In(x) : \A m \in In(x) : n <= m
    <3> HIDE DEF In
    <3> QED BY <2>1, <2>2, LeastElement
  <2>4. \E n \in 0 .. N : Least(x, n)
    BY <2>3
  <2>5. rank[x] \in 0 .. N /\ Least(x, rank[x])
    <3> HIDE DEF Least
    <3> QED BY <2>4
  <2>6. rank[x] # 0
    BY <2>5, <1>1
  <2> QED BY <2>5, <2>6
<1>3. ASSUME NEW e \in edges
      PROVE  rank[e.before] < rank[e.after]
  <2> DEFINE x == e.after
             y == e.before
             n == rank[x]
  <2>1. x \in nodes /\ y \in nodes
    BY DEF Within
  <2>2. n \in 1 .. N /\ x \in f[n]
    BY <2>1, <1>2
  <2>3. f[n] = Ready(nodes, edges, f[n - 1])
    BY <2>2, <1>1
  <2>4. y \in f[n - 1]
    BY <2>2, <2>3 DEF Ready
  <2>5. n - 1 \in In(y)
    BY <2>2, <2>4
  <2>6. rank[y] \in 1 .. N /\ rank[y] <= n - 1
    BY <2>1, <2>5, <1>2
  <2>7. \A k \in 1 .. N, m \in 1 .. N : m <= k - 1 => m < k
    OBVIOUS
  <2> HIDE DEF rank
  <2> QED BY <2>2, <2>6, <2>7
<1>4. rank \in [nodes -> 1 .. N]
  <2>1. rank = [x \in nodes |-> rank[x]]
    OBVIOUS
  <2>2. \A x \in nodes : rank[x] \in 1 .. N
    BY <1>2
  <2> HIDE DEF rank
  <2> QED BY <2>1, <2>2
<1> HIDE DEF rank
<1> QED BY <1>3, <1>4 DEF Ranks

\* By round n everything of rank n or less is taken.
LEMMA RanksGiveRounds ==
    ASSUME NEW nodes, NEW edges, NEW N \in Nat, NEW f, IsRounds(f, nodes, edges, N),
           NEW rank, Ranks(rank, nodes, edges, N), Within(edges, nodes)
    PROVE  f[N] = nodes
<1> DEFINE Taken(n) == \A x \in nodes : rank[x] <= n => x \in f[n]
           Bad == {n \in 0 .. N : ~Taken(n)}
<1>1. \A n \in 1 .. N : f[n] = Ready(nodes, edges, f[n - 1])
  <2> SUFFICES ASSUME NEW n \in 1 .. N PROVE f[n] = Ready(nodes, edges, f[n - 1])
    OBVIOUS
  <2>1. n \in 0 .. N /\ n # 0
    OBVIOUS
  <2> QED BY <2>1 DEF IsRounds
<1>2. \A x \in nodes : rank[x] \in 1 .. N
  BY DEF Ranks
<1>3. ASSUME Bad # {} PROVE FALSE
  <2>1. PICK n \in Bad : \A m \in Bad : n <= m
    <3>1. Bad \in SUBSET Nat
      OBVIOUS
    <3> HIDE DEF Bad
    <3> QED BY <1>3, <3>1, LeastElement
  <2>2. PICK x \in nodes : rank[x] <= n /\ x \notin f[n]
    BY <2>1
  <2>3. n \in 1 .. N /\ n - 1 \in 0 .. N /\ ~(n <= n - 1)
    BY <2>1, <2>2, <1>2
  <2>4. Taken(n - 1)
    BY <2>1, <2>3
  <2>5. ASSUME NEW e \in edges, e.after = x PROVE e.before \in f[n - 1]
    <3>1. e.before \in nodes /\ rank[e.before] < rank[x]
      BY <2>5 DEF Within, Ranks
    <3>2. rank[e.before] \in 1 .. N /\ rank[x] \in 1 .. N
      BY <3>1, <1>2
    <3>3. rank[e.before] <= n - 1
      BY <3>1, <3>2, <2>2, <2>3
    <3> QED BY <3>1, <3>3, <2>4
  <2> QED BY <2>2, <2>3, <2>5, <1>1 DEF Ready
<1>4. Taken(N)
  BY <1>3
<1>5. nodes \subseteq f[N]
  BY <1>2, <1>4
<1>6. f[N] \subseteq nodes
  <2>1. CASE N = 0
    BY <2>1 DEF IsRounds
  <2>2. CASE N # 0
    <3>1. N \in 1 .. N
      BY <2>2
    <3> QED BY <3>1, <1>1 DEF Ready
  <2> QED BY <2>1, <2>2
<1> QED BY <1>5, <1>6

\* dependency_graph_is_acyclic decides whether the nodes can be put in an order
\* that no edge goes against.
THEOREM KahnIsSound ==
    ASSUME NEW nodes, NEW edges, IsFiniteSet(nodes), Within(edges, nodes)
    PROVE  DependencyGraphIsAcyclic(nodes, edges) <=>
              \E rank : Ranks(rank, nodes, edges, Cardinality(nodes))
<1>1. Cardinality(nodes) \in Nat
  BY FS_CardinalityType
<1>2. PICK f : /\ IsRounds(f, nodes, edges, Cardinality(nodes))
               /\ DependencyGraphIsAcyclic(nodes, edges) = (f[Cardinality(nodes)] = nodes)
  BY <1>1, AcyclicRounds
<1>3. f[Cardinality(nodes)] = nodes => \E rank : Ranks(rank, nodes, edges, Cardinality(nodes))
  BY <1>1, <1>2, RoundsGiveRanks
<1>4. ASSUME NEW rank, Ranks(rank, nodes, edges, Cardinality(nodes))
      PROVE  f[Cardinality(nodes)] = nodes
  BY <1>1, <1>2, <1>4, RanksGiveRounds
<1> QED BY <1>2, <1>3, <1>4

-----------------------------------------------------------------------------
(* The inductive invariant.                                                *)

\* What assess answers.
Assessed(a) ==
    /\ a \in Assessments
    /\ a.mode # "ActThenRespond"
    /\ a.impact \in HighImpacts => a.mode \in {"RespondOnly", "RespondThenConfirmThenAct"}
    /\ a.posture = "Planned" => a.mode \notin {"RespondOnly", "RespondThenConfirmThenAct"}
    /\ a.run = "Rejected" => a.mode = "RespondOnly"
    /\ a.fast = "AllowFastPath" => a.impact = "Low"

AssessmentsMade == assessment # None => Assessed(assessment)

\* A plan is in the mode of its assessment.
PlansMade ==
    plan # None =>
        /\ assessment # None /\ plan \in Proposals
        /\ \/ plan.mode = assessment.mode
           \/ assessment.posture = "Planned" /\ plan.mode = "ActThenRespond"

AcceptedPlansValid ==
    /\ accepted \in BOOLEAN
    /\ accepted => plan # None /\ PlanValid(plan)
    /\ ~accepted => granted = {} /\ done = {}

\* Contracts are carried out after the ones before them, and past their gates.
DoneClosed ==
    accepted =>
        /\ done \subseteq KnownRefs(plan)
        /\ \A e \in plan.edges : e.after \in done => e.before \in done
        /\ \A g \in plan.gates : g.before \in done => g \in granted

Inv == AssessmentsMade /\ PlansMade /\ AcceptedPlansValid /\ DoneClosed /\ granted \subseteq Gates

LEMMA ProposalFields ==
    ASSUME NEW p \in Proposals
    PROVE  /\ p.mode \in Modes /\ p.edges \subseteq Edges /\ p.gates \subseteq Gates
           /\ p.actions \in {{}, Actions}
<1>1. p.mode \in Modes /\ p.actions \in {{}, Actions}
  BY DEF Proposals
<1>2. p.edges \subseteq Edges
  <2>1. p.edges \in UNION {kSubset(n, {e \in Edges : e.before # e.after}) : n \in 0..MaxEdges}
    BY DEF Proposals
  <2> QED BY <2>1 DEF kSubset
<1>3. p.gates \subseteq Gates
  <2>1. p.gates \subseteq ([kind : {"UserAuthorization"}, before : Contracts]
                     \cup [kind : {"Dependency"}, before : {CHOOSE a \in Actions : TRUE}])
    BY DEF Proposals
  <2>2. (CHOOSE a \in Actions : TRUE) \in Contracts
    BY ContractsAssumption DEF Contracts
  <2> QED BY <2>1, <2>2 DEF Gates
<1> QED BY <1>1, <1>2, <1>3

LEMMA ContractsFinite ==
    /\ IsFiniteSet(Contracts) /\ Cardinality(Contracts) \in Nat
    /\ \A p \in Proposals : IsFiniteSet(KnownRefs(p)) /\ KnownRefs(p) \subseteq Contracts
<1>1. IsFiniteSet(Contracts)
  BY ContractsAssumption, FS_Union DEF Contracts
<1>2. ASSUME NEW p \in Proposals PROVE KnownRefs(p) \subseteq Contracts
  BY ProposalFields DEF KnownRefs, Contracts
<1>3. \A p \in Proposals : IsFiniteSet(KnownRefs(p))
  BY <1>1, <1>2, FS_Subset
<1> QED BY <1>1, <1>2, <1>3, FS_CardinalityType

LEMMA SelectedModes ==
    ASSUME NEW facts \in SUBSET CoordinationFacts
    PROVE  /\ SelectTurnCoordinationMode(facts) \in Modes \ {"ActThenRespond"}
           /\ "authorization" \in facts /\ "action" \in facts =>
                 SelectTurnCoordinationMode(facts) = "RespondThenConfirmThenAct"
           /\ "action" \notin facts => SelectTurnCoordinationMode(facts) = "RespondOnly"
<1>1. CASE "action" \notin facts
  BY <1>1 DEF SelectTurnCoordinationMode, Modes
<1>2. CASE "action" \in facts /\ {"confirm", "authorization"} \cap facts # {}
  BY <1>2 DEF SelectTurnCoordinationMode, Modes
<1>3. CASE "action" \in facts /\ {"confirm", "authorization"} \cap facts = {}
  BY <1>3 DEF SelectTurnCoordinationMode, Modes
<1> QED BY <1>1, <1>2, <1>3

LEMMA AssessStep ==
    ASSUME Inv, Assess
    PROVE  Assessed(assessment') /\ UNCHANGED <<plan, accepted, granted, done>>
<1>1. PICK impact \in Impacts, facts \in SUBSET CoordinationFacts :
        /\ ValidateAssessmentFacts(facts, impact)
        /\ \E fast \in {EvaluateIntentFastPath(f, impact) : f \in SUBSET FastPathFacts},
              decision \in {EvaluateDecisionNecessity(f, impact) :
                                f \in SUBSET (DecisionReasons \cup NoDecisionReasons)} :
            /\ fast = "AllowFastPath" => decision = "NotRequired"
            /\ LET mode == IF fast = "Block" THEN "RespondOnly" ELSE SelectTurnCoordinationMode(facts) IN
               assessment' =
                [impact |-> impact, fast |-> fast, mode |-> mode,
                 posture |-> CASE fast = "Block" -> "Blocked"
                               [] fast # "Block" /\ mode = "RespondOnly" -> "None"
                               [] mode = "RespondThenConfirmThenAct" -> "WaitingAuthorization"
                               [] OTHER -> "Planned",
                 run |-> CASE fast = "Block" -> "Rejected"
                           [] mode = "RespondThenConfirmThenAct" -> "WaitingAuthorization"
                           [] OTHER -> "Running"]
  BY DEF Assess
<1>2. PICK f \in SUBSET FastPathFacts :
        LET fast == EvaluateIntentFastPath(f, impact)
            mode == IF fast = "Block" THEN "RespondOnly" ELSE SelectTurnCoordinationMode(facts) IN
               assessment' =
                [impact |-> impact, fast |-> fast, mode |-> mode,
                 posture |-> CASE fast = "Block" -> "Blocked"
                               [] fast # "Block" /\ mode = "RespondOnly" -> "None"
                               [] mode = "RespondThenConfirmThenAct" -> "WaitingAuthorization"
                               [] OTHER -> "Planned",
                 run |-> CASE fast = "Block" -> "Rejected"
                           [] mode = "RespondThenConfirmThenAct" -> "WaitingAuthorization"
                           [] OTHER -> "Running"]
  BY <1>1
<1> DEFINE fast == EvaluateIntentFastPath(f, impact)
           selected == SelectTurnCoordinationMode(facts)
           mode == IF fast = "Block" THEN "RespondOnly" ELSE selected
<1>3. fast \in {"AllowFastPath", "Unknown", "Block"} /\ (fast = "AllowFastPath" => impact = "Low")
  BY DEF EvaluateIntentFastPath
<1>4. selected \in Modes \ {"ActThenRespond"}
  BY SelectedModes
<1>5. impact \in HighImpacts => selected \in {"RespondOnly", "RespondThenConfirmThenAct"}
  BY <1>1, SelectedModes DEF ValidateAssessmentFacts
<1> HIDE DEF fast, selected
<1>6. /\ assessment'.impact = impact /\ assessment'.fast = fast /\ assessment'.mode = mode
      /\ assessment' = [impact |-> assessment'.impact, fast |-> assessment'.fast,
                        mode |-> assessment'.mode, posture |-> assessment'.posture,
                        run |-> assessment'.run]
  BY <1>2 DEF fast, selected
<1>7. CASE fast = "Block"
  <2>1. mode = "RespondOnly" /\ assessment'.posture = "Blocked" /\ assessment'.run = "Rejected"
    BY <1>2, <1>7 DEF fast, selected
  <2> QED BY <2>1, <1>3, <1>6, <1>7 DEF Assessed, Assessments, Modes, Postures, RunStates, Assess
<1>8. CASE fast # "Block" /\ mode = "RespondOnly"
  <2>1. assessment'.posture = "None" /\ assessment'.run = "Running"
    BY <1>2, <1>8 DEF fast, selected
  <2> QED BY <2>1, <1>3, <1>6, <1>8 DEF Assessed, Assessments, Modes, Postures, RunStates, Assess
<1>9. CASE fast # "Block" /\ mode = "RespondThenConfirmThenAct"
  <2>1. assessment'.posture = "WaitingAuthorization" /\ assessment'.run = "WaitingAuthorization"
    BY <1>2, <1>9 DEF fast, selected
  <2> QED BY <2>1, <1>3, <1>6, <1>9 DEF Assessed, Assessments, Modes, Postures, RunStates, Assess
<1>10. CASE fast # "Block" /\ mode \notin {"RespondOnly", "RespondThenConfirmThenAct"}
  <2>1. assessment'.posture = "Planned" /\ assessment'.run = "Running"
    BY <1>2, <1>10 DEF fast, selected
  <2>2. mode = selected /\ impact \notin HighImpacts
    BY <1>5, <1>10
  <2> QED BY <2>1, <2>2, <1>3, <1>4, <1>6, <1>10
        DEF Assessed, Assessments, Modes, Postures, RunStates, Assess
<1> QED BY <1>7, <1>8, <1>9, <1>10

LEMMA InitInv == Init => Inv
  BY DEF Init, Inv, AssessmentsMade, PlansMade, AcceptedPlansValid, DoneClosed

LEMMA NextInv == Inv /\ [Next]_vars => Inv'
<1> SUFFICES ASSUME Inv, [Next]_vars PROVE Inv'
  OBVIOUS
<1>1. CASE Assess
  <2>1. Assessed(assessment') /\ UNCHANGED <<plan, accepted, granted, done>> /\ assessment = None
    BY <1>1, AssessStep DEF Assess
  <2>2. plan = None
    BY <2>1 DEF Inv, PlansMade
  <2> QED BY <2>1, <2>2 DEF Inv, AssessmentsMade, PlansMade, AcceptedPlansValid, DoneClosed
<1>2. CASE Propose
  <2>1. /\ assessment # None /\ plan = None /\ plan' \in Proposals
        /\ \/ plan'.mode = assessment.mode
           \/ assessment.posture = "Planned" /\ plan'.mode = "ActThenRespond"
        /\ accepted' = PlanValid(plan') /\ UNCHANGED <<assessment, granted, done>>
    BY <1>2 DEF Propose
  <2>2. ~accepted /\ granted = {} /\ done = {}
    BY <2>1 DEF Inv, AcceptedPlansValid
  <2>3. plan' # None
    BY <2>1, NoneAssumption
  <2>4. PlanValid(plan') \in BOOLEAN
    BY DEF PlanValid
  <2>5. AcceptedPlansValid'
    BY <2>1, <2>2, <2>3, <2>4 DEF AcceptedPlansValid
  <2> QED BY <2>1, <2>2, <2>5 DEF Inv, AssessmentsMade, PlansMade, DoneClosed
<1>3. ASSUME NEW g \in Gates, OpenGate(g) PROVE Inv'
  BY <1>3 DEF OpenGate, Inv, AssessmentsMade, PlansMade, AcceptedPlansValid, DoneClosed
<1>4. ASSUME NEW x \in Contracts, CarryOut(x) PROVE Inv'
  <2>1. /\ accepted /\ x \in KnownRefs(plan) /\ done' = done \cup {x}
        /\ \A e \in plan.edges : e.after = x => e.before \in done
        /\ \A g \in plan.gates : g.before = x => g \in granted
        /\ UNCHANGED <<assessment, plan, accepted, granted>>
    BY <1>4 DEF CarryOut, Startable
  <2>2. DoneClosed'
    BY <2>1 DEF Inv, DoneClosed
  <2> QED BY <2>1, <2>2 DEF Inv, AssessmentsMade, PlansMade, AcceptedPlansValid
<1>5. CASE UNCHANGED vars
  BY <1>5 DEF vars, Inv, AssessmentsMade, PlansMade, AcceptedPlansValid, DoneClosed
<1> QED BY <1>1, <1>2, <1>3, <1>4, <1>5 DEF Next

\* The inductive invariant holds in every state of the turn.
THEOREM TurnInvariant == Spec => []Inv
  BY InitInv, NextInv, PTL DEF Spec

-----------------------------------------------------------------------------
(* What was assessed and authorized.                                       *)

LEMMA InvActsAsAssessed == ASSUME Inv PROVE ActsAsAssessed
<1>1. TypeOK
  <2>1. plan # None => /\ plan.mode \in Modes /\ plan.edges \subseteq Edges
                       /\ plan.gates \subseteq Gates /\ plan.actions \subseteq Actions
    BY ProposalFields DEF Inv, PlansMade
  <2>2. done \subseteq Contracts
    <3>1. CASE accepted
      BY <3>1, ContractsFinite DEF Inv, PlansMade, AcceptedPlansValid, DoneClosed
    <3>2. CASE ~accepted
      BY <3>2 DEF Inv, AcceptedPlansValid
    <3> QED BY <3>1, <3>2
  <2>3. assessment \in Assessments \cup {None}
    BY DEF Inv, AssessmentsMade, Assessed
  <2> QED BY <2>1, <2>2, <2>3 DEF Inv, AcceptedPlansValid, TypeOK
<1>2. ASSUME accepted
      PROVE  /\ Assessed(assessment) /\ plan \in Proposals /\ PlanValid(plan)
             /\ done \cap Actions \subseteq plan.actions
             /\ plan.actions # {} => plan.mode # "RespondOnly"
             /\ \/ plan.mode = assessment.mode
                \/ assessment.posture = "Planned" /\ plan.mode = "ActThenRespond"
  <2>1. /\ Assessed(assessment) /\ plan \in Proposals /\ PlanValid(plan)
        /\ \/ plan.mode = assessment.mode
           \/ assessment.posture = "Planned" /\ plan.mode = "ActThenRespond"
    BY <1>2 DEF Inv, AssessmentsMade, PlansMade, AcceptedPlansValid
  <2>2. done \cap Actions \subseteq plan.actions
    BY <1>2, ContractsAssumption DEF Inv, DoneClosed, KnownRefs
  <2>3. (plan.mode # "RespondOnly") = (plan.actions # {})
    BY <2>1 DEF PlanValid
  <2> QED BY <2>1, <2>2, <2>3
<1>3. HighImpactIsConfirmed
  <2> SUFFICES ASSUME accepted, assessment.impact \in HighImpacts, NEW a \in done \cap Actions
               PROVE  [kind |-> "UserAuthorization", before |-> a] \in granted
    BY DEF HighImpactIsConfirmed
  <2>1. a \in plan.actions /\ plan.mode # "RespondOnly"
    BY <1>2
  <2>2. plan.mode = "RespondThenConfirmThenAct"
    BY <1>2, <2>1 DEF Assessed
  <2>3. a \in {g.before : g \in {h \in plan.gates : h.kind = "UserAuthorization"}}
    BY <1>2, <2>1, <2>2 DEF PlanValid
  <2>4. PICK g \in plan.gates : g.kind = "UserAuthorization" /\ g.before = a
    BY <2>3
  <2>5. g \in Gates
    BY <1>2, ProposalFields
  <2>6. g = [kind |-> "UserAuthorization", before |-> a]
    BY <2>4, <2>5 DEF Gates
  <2> QED BY <2>4, <2>6 DEF Inv, DoneClosed
<1>4. BlockedNeverActs
  <2> SUFFICES ASSUME accepted
               PROVE  /\ assessment.run = "Rejected" => done \cap Actions = {}
                      /\ assessment.fast = "AllowFastPath" => assessment.impact = "Low"
    BY DEF BlockedNeverActs
  <2>1. assessment.run = "Rejected" => plan.mode = "RespondOnly"
    BY <1>2 DEF Assessed
  <2> QED BY <1>2, <2>1 DEF Assessed
<1> QED BY <1>1, <1>3, <1>4 DEF ActsAsAssessed

\* From what assess answered to the last Action: nothing of high impact happens
\* before the user authorized that very Action, and a request that
\* evaluate_intent_fast_path blocked leads to none.
THEOREM TurnActsAsAssessed == Spec => []ActsAsAssessed
  BY InvActsAsAssessed, TurnInvariant, PTL

-----------------------------------------------------------------------------
(* The order of the plan.                                                  *)

\* A path into a set that is closed towards what comes before starts in it.
LEMMA PathsStartInside ==
    ASSUME NEW start, NEW target, NEW edges, NEW X,
           \A e \in edges : e.after \in X => e.before \in X,
           DependencyPathExists(start, target, edges), target \in X
    PROVE  start \in X
<1> DEFINE N == Cardinality(Contracts)
<1>1. N \in Nat
  BY ContractsFinite
<1>2. PICK f : /\ IsSearch(f, start, edges, N)
               /\ DependencyPathExists(start, target, edges) =
                     \E e \in edges : e.after = target /\ e.before \in f[N]
  BY <1>1, PathSearch
<1>3. PICK y \in f[N] : y \in X
  BY <1>2
<1> DEFINE Meets == {n \in 0 .. N : \E z \in f[n] : z \in X}
<1>4. PICK n \in Meets : \A m \in Meets : n <= m
  <2>1. Meets \in SUBSET Nat /\ Meets # {}
    BY <1>1, <1>3
  <2> HIDE DEF Meets
  <2> QED BY <2>1, LeastElement
<1>5. PICK z \in f[n] : z \in X
  BY <1>4
<1>6. n = 0
  <2> SUFFICES ASSUME n # 0 PROVE FALSE
    OBVIOUS
  <2>1. n - 1 \in 0 .. N /\ ~(n <= n - 1)
    BY <1>1, <1>4
  <2>2. f[n] = Onward(edges, f[n - 1])
    BY <1>2, <1>4 DEF IsSearch
  <2>3. CASE z \in f[n - 1]
    BY <2>1, <2>3, <1>4, <1>5
  <2>4. CASE \E e \in edges : e.before \in f[n - 1] /\ e.after = z
    BY <2>1, <2>4, <1>4, <1>5
  <2> QED BY <2>2, <2>3, <2>4, <1>5 DEF Onward
<1>7. f[0] = {start}
  BY <1>1, <1>2 DEF IsSearch
<1> QED BY <1>5, <1>6, <1>7

LEMMA InvOrderFollowsMode == ASSUME Inv PROVE OrderFollowsMode
<1> SUFFICES ASSUME accepted
             PROVE  /\ plan.mode \in ResponseBeforeAction /\ done \cap Actions # {}
                          => done \cap Responses # {}
                    /\ plan.mode = "ActThenRespond" /\ done \cap Responses # {}
                          => done \cap Actions # {}
  BY DEF OrderFollowsMode
<1>1. plan \in Proposals /\ PlanValid(plan) /\ done \subseteq KnownRefs(plan)
      /\ \A e \in plan.edges : e.after \in done => e.before \in done
  BY DEF Inv, PlansMade, AcceptedPlansValid, DoneClosed
<1>2. ASSUME plan.mode \in ResponseBeforeAction, NEW a \in done \cap Actions
      PROVE  done \cap Responses # {}
  <2>1. a \in plan.actions
    BY <1>1, ContractsAssumption DEF KnownRefs
  <2>2. PICK r \in Responses : DependencyPathExists(r, a, plan.edges)
    BY <1>1, <1>2, <2>1 DEF PlanValid
  <2>3. r \in done
    BY <1>1, <2>2, PathsStartInside
  <2> QED BY <2>3
<1>3. ASSUME plan.mode = "ActThenRespond", NEW r \in done \cap Responses
      PROVE  done \cap Actions # {}
  <2>1. PICK a \in plan.actions : DependencyPathExists(a, r, plan.edges)
    BY <1>1, <1>3 DEF PlanValid
  <2>2. a \in done /\ a \in Actions
    BY <1>1, <2>1, PathsStartInside, ProposalFields
  <2> QED BY <2>2
<1> QED BY <1>2, <1>3

\* validate asks dependency_path_exists for a path to each Action, or response;
\* whatever order the host takes, what the mode says comes first has happened.
THEOREM PlanKeepsOrder == Spec => []OrderFollowsMode
  BY InvOrderFollowsMode, TurnInvariant, PTL

LEMMA InvAcyclicIffOrdered == ASSUME Inv PROVE AcyclicIffOrdered
<1> SUFFICES ASSUME plan # None PROVE AcyclicIffOrdered
  BY DEF AcyclicIffOrdered
<1> DEFINE known == KnownRefs(plan)
           inside == {e \in plan.edges : {e.before, e.after} \subseteq known}
<1>1. IsFiniteSet(known) /\ Within(inside, known)
  BY ContractsFinite DEF Inv, PlansMade, Within
<1>2. DependencyGraphIsAcyclic(known, inside) <=>
        \E rank : Ranks(rank, known, inside, Cardinality(known))
  <2> HIDE DEF known, inside
  <2> QED BY <1>1, KahnIsSound
<1>3. DependencyGraphIsAcyclic(known, inside) =
        \E rank \in [known -> 1..Cardinality(known)] :
            \A e \in inside : rank[e.before] < rank[e.after]
  <2>1. DependencyGraphIsAcyclic(known, inside) \in BOOLEAN
    <3>1. Cardinality(known) \in Nat
      BY <1>1, FS_CardinalityType
    <3> HIDE DEF known, inside
    <3> QED BY <3>1, AcyclicRounds
  <2> HIDE DEF known, inside
  <2> QED BY <2>1, <1>2 DEF Ranks
<1> QED BY <1>3 DEF AcyclicIffOrdered

\* dependency_graph_is_acyclic accepts the graph of a plan exactly when its
\* contracts can be put in an order that no edge goes against.
THEOREM PlanGraphsDecided == Spec => []AcyclicIffOrdered
  BY InvAcyclicIffOrdered, TurnInvariant, PTL

-----------------------------------------------------------------------------
(* No dead end.                                                            *)

\* Of the contracts that are left, the one of least rank waits for none.
LEMMA InvAcceptedPlanFinishes == ASSUME Inv PROVE AcceptedPlanFinishes
<1> SUFFICES ASSUME accepted, ~(KnownRefs(plan) \subseteq done)
             PROVE  \E x \in KnownRefs(plan) \ done : Startable(x)
  BY DEF AcceptedPlanFinishes
<1> DEFINE known == KnownRefs(plan)
           N == Cardinality(known)
<1>1. plan \in Proposals /\ PlanValid(plan)
  BY DEF Inv, PlansMade, AcceptedPlansValid
<1>2. IsFiniteSet(known) /\ N \in Nat
  BY <1>1, ContractsFinite, FS_CardinalityType
<1>3. Within(plan.edges, known) /\ DependencyGraphIsAcyclic(known, plan.edges)
  BY <1>1 DEF PlanValid, Within
<1>4. PICK rank : Ranks(rank, known, plan.edges, N)
  BY <1>2, <1>3, KahnIsSound
<1> HIDE DEF known, N
<1>5. \A x \in known : rank[x] \in 1 .. N
  BY <1>4 DEF Ranks
<1> DEFINE Left == {n \in 1 .. N : \E x \in known \ done : rank[x] = n}
<1>6. PICK n \in Left : \A m \in Left : n <= m
  <2>1. Left \in SUBSET Nat
    BY <1>2
  <2>2. Left # {}
    BY <1>5 DEF known
  <2> HIDE DEF Left
  <2> QED BY <2>1, <2>2, LeastElement
<1>7. PICK x \in known \ done : rank[x] = n
  BY <1>6
<1>8. ASSUME NEW e \in plan.edges, e.after = x PROVE e.before \in done
  <2>1. e.before \in known /\ rank[e.before] < rank[x]
    BY <1>3, <1>4, <1>8 DEF Within, Ranks
  <2>2. rank[e.before] \in 1 .. N /\ ~(n <= rank[e.before])
    BY <2>1, <1>2, <1>5, <1>7
  <2> QED BY <2>1, <2>2, <1>6
<1> QED BY <1>7, <1>8 DEF Startable, known

\* The edges of one response to every Action.
Star(r) == {[before |-> r, after |-> a] : a \in Actions}

\* Within the bound there is a plan with these edges.
LEMMA StarFits ==
    ASSUME NEW r \in Responses
    PROVE  /\ Star(r) \in UNION {kSubset(n, {e \in Edges : e.before # e.after}) : n \in 0..MaxEdges}
           /\ {} \in UNION {kSubset(n, {e \in Edges : e.before # e.after}) : n \in 0..MaxEdges}
<1> DEFINE S == {e \in Edges : e.before # e.after}
<1>1. Star(r) \subseteq S
  BY ContractsAssumption DEF Star, Edges, Contracts
<1>2. IsFiniteSet(Star(r)) /\ Cardinality(Star(r)) <= Cardinality(Actions)
  <2> DEFINE f == [a \in Actions |-> [before |-> r, after |-> a]]
  <2>1. f \in Surjection(Actions, Star(r))
    BY DEF Surjection, Star
  <2> HIDE DEF f
  <2> QED BY <2>1, ContractsAssumption, FS_Surjection
<1>3. Cardinality(Star(r)) \in 0 .. MaxEdges
  <2>1. Cardinality(Star(r)) \in Nat /\ Cardinality(Actions) \in Nat
    BY <1>2, ContractsAssumption, FS_CardinalityType
  <2> QED BY <2>1, <1>2, BoundAssumption
<1>4. Star(r) \in kSubset(Cardinality(Star(r)), S)
  BY <1>1 DEF kSubset
<1>5. {} \in kSubset(0, S) /\ 0 \in 0 .. MaxEdges
  BY FS_EmptySet, BoundAssumption DEF kSubset
<1> QED BY <1>3, <1>4, <1>5

LEMMA StarAcyclic ==
    ASSUME NEW r \in Responses
    PROVE  DependencyGraphIsAcyclic(Contracts, Star(r))
<1> DEFINE N == Cardinality(Contracts)
           rank == [x \in Contracts |-> IF x \in Actions THEN 2 ELSE 1]
<1>1. IsFiniteSet(Contracts) /\ N \in Nat
  BY ContractsFinite
<1>2. PICK a : a \in Actions
  BY ContractsAssumption
<1>3. 2 <= N
  <2>1. IsFiniteSet({r}) /\ Cardinality({r}) = 1
    BY FS_Singleton
  <2>2. r # a
    BY <1>2, ContractsAssumption
  <2>3. Cardinality({r} \cup {a}) = 2
    BY <2>1, <2>2, FS_AddElement
  <2>4. {r} \cup {a} \in SUBSET Contracts
    BY <1>2 DEF Contracts
  <2> QED BY <2>3, <2>4, <1>1, FS_Subset
<1>4. Within(Star(r), Contracts)
  BY DEF Within, Star, Contracts
<1>5. Ranks(rank, Contracts, Star(r), N)
  <2>1. rank \in [Contracts -> 1 .. N]
    <3>1. 1 \in 1 .. N /\ 2 \in 1 .. N
      BY <1>1, <1>3
    <3> HIDE DEF N
    <3> QED BY <3>1
  <2>2. ASSUME NEW e \in Star(r) PROVE rank[e.before] < rank[e.after]
    <3>1. e.before = r /\ e.after \in Actions /\ r \in Contracts \ Actions
          /\ e.after \in Contracts
      BY ContractsAssumption DEF Star, Contracts
    <3>2. rank[e.before] = 1 /\ rank[e.after] = 2
      BY <3>1
    <3> QED BY <3>2
  <2> HIDE DEF rank, N
  <2> QED BY <2>1, <2>2 DEF Ranks
<1> HIDE DEF rank
<1> QED BY <1>1, <1>4, <1>5, KahnIsSound

LEMMA NoEdgesAcyclic ==
    ASSUME NEW nodes, IsFiniteSet(nodes)
    PROVE  DependencyGraphIsAcyclic(nodes, {})
<1> DEFINE N == Cardinality(nodes)
           rank == [x \in nodes |-> 1]
<1>1. N \in Nat /\ (N = 0 => nodes = {})
  BY FS_CardinalityType, FS_EmptySet
<1> HIDE DEF N
<1>2. rank \in [nodes -> 1 .. N]
  <2>1. nodes # {} => 1 \in 1 .. N
    BY <1>1
  <2> QED BY <2>1
<1>3. Ranks(rank, nodes, {}, Cardinality(nodes)) /\ Within({}, nodes)
  BY <1>2 DEF Ranks, Within, N
<1> HIDE DEF rank
<1> QED BY <1>3, KahnIsSound

\* One edge is a path.
LEMMA StarPaths ==
    ASSUME NEW r \in Responses, NEW a \in Actions
    PROVE  DependencyPathExists(r, a, Star(r))
<1> DEFINE N == Cardinality(Contracts)
<1>1. N \in Nat
  BY ContractsFinite
<1>2. PICK f : /\ IsSearch(f, r, Star(r), N)
               /\ DependencyPathExists(r, a, Star(r)) =
                     \E e \in Star(r) : e.after = a /\ e.before \in f[N]
  BY <1>1, PathSearch
<1> DEFINE Bad == {n \in 0 .. N : r \notin f[n]}
<1>3. ASSUME Bad # {} PROVE FALSE
  <2>1. PICK n \in Bad : \A m \in Bad : n <= m
    <3>1. Bad \in SUBSET Nat
      OBVIOUS
    <3> HIDE DEF Bad
    <3> QED BY <1>3, <3>1, LeastElement
  <2>2. n # 0
    BY <2>1, <1>1, <1>2 DEF IsSearch
  <2>3. n - 1 \in 0 .. N /\ ~(n <= n - 1)
    BY <2>1, <2>2, <1>1
  <2>4. r \in f[n - 1]
    BY <2>1, <2>3
  <2>5. f[n] = Onward(Star(r), f[n - 1])
    BY <1>2, <2>1, <2>2 DEF IsSearch
  <2> QED BY <2>1, <2>4, <2>5 DEF Onward
<1>4. r \in f[N]
  BY <1>1, <1>3
<1>5. [before |-> r, after |-> a] \in Star(r)
  BY DEF Star
<1> QED BY <1>2, <1>4, <1>5

LEMMA InvAssessmentHasPlan == ASSUME Inv PROVE AssessmentHasPlan
<1> SUFFICES ASSUME assessment # None
             PROVE  \E p \in Proposals : p.mode = assessment.mode /\ PlanValid(p)
  BY DEF AssessmentHasPlan
<1> DEFINE mode == assessment.mode
<1>1. mode \in Modes /\ mode # "ActThenRespond"
  BY DEF Inv, AssessmentsMade, Assessed, Assessments
<1> HIDE DEF mode
<1>2. PICK r \in Responses : TRUE
  BY ContractsAssumption
<1> DEFINE confirmed == [kind : {"UserAuthorization"}, before : Actions]
<1>3. CASE mode = "RespondOnly"
  <2> DEFINE p == [mode |-> mode, actions |-> {}, edges |-> {}, gates |-> {}]
  <2>1. p \in Proposals
    BY <1>1, <1>2, StarFits DEF Proposals
  <2>2. DependencyGraphIsAcyclic(KnownRefs(p), {})
    BY <2>1, ContractsFinite, NoEdgesAcyclic
  <2>3. PlanValid(p)
    BY <2>2, <1>3, ContractsAssumption DEF PlanValid, ResponseBeforeAction
  <2> QED BY <2>1, <2>3 DEF mode
<1>4. CASE mode \in {"Parallel", "StreamProgressThenFinal"}
  <2> DEFINE p == [mode |-> mode, actions |-> Actions, edges |-> {}, gates |-> {}]
  <2>1. p \in Proposals
    BY <1>1, <1>2, StarFits DEF Proposals
  <2>2. DependencyGraphIsAcyclic(KnownRefs(p), {})
    BY <2>1, ContractsFinite, NoEdgesAcyclic
  <2>3. PlanValid(p)
    BY <2>2, <1>4, ContractsAssumption DEF PlanValid, ResponseBeforeAction
  <2> QED BY <2>1, <2>3 DEF mode
<1>5. CASE mode \in {"RespondThenAct", "AcknowledgeThenRun"}
  <2> DEFINE p == [mode |-> mode, actions |-> Actions, edges |-> Star(r), gates |-> {}]
  <2>1. p \in Proposals
    BY <1>1, <1>2, StarFits DEF Proposals
  <2>2. KnownRefs(p) = Contracts
    BY DEF KnownRefs, Contracts
  <2>3. DependencyGraphIsAcyclic(KnownRefs(p), Star(r))
    BY <2>2, StarAcyclic
  <2>4. \A e \in Star(r) : e.before # e.after /\ {e.before, e.after} \subseteq KnownRefs(p)
    BY <2>2, ContractsAssumption DEF Star, Contracts
  <2>5. \A a \in Actions : \E s \in Responses : DependencyPathExists(s, a, Star(r))
    BY StarPaths
  <2>6. PlanValid(p)
    BY <2>3, <2>4, <2>5, <1>5, ContractsAssumption DEF PlanValid, ResponseBeforeAction
  <2> QED BY <2>1, <2>6 DEF mode
<1>6. CASE mode = "RespondThenConfirmThenAct"
  <2> DEFINE p == [mode |-> mode, actions |-> Actions, edges |-> Star(r), gates |-> confirmed]
             authorized == {g.before : g \in {h \in confirmed : h.kind = "UserAuthorization"}}
  <2>1. confirmed \subseteq [kind : {"UserAuthorization"}, before : Contracts]
    BY DEF Contracts
  <2>2. p \in Proposals
    BY <1>1, <1>2, <2>1, StarFits DEF Proposals
  <2>3. KnownRefs(p) = Contracts
    BY DEF KnownRefs, Contracts
  <2>4. DependencyGraphIsAcyclic(KnownRefs(p), Star(r))
    BY <2>3, StarAcyclic
  <2>5. \A e \in Star(r) : e.before # e.after /\ {e.before, e.after} \subseteq KnownRefs(p)
    BY <2>3, ContractsAssumption DEF Star, Contracts
  <2>6. \A a \in Actions : \E s \in Responses : DependencyPathExists(s, a, Star(r))
    BY StarPaths
  <2>7. authorized = Actions
    <3>1. ASSUME NEW a \in Actions PROVE a \in authorized
      <4> DEFINE g == [kind |-> "UserAuthorization", before |-> a]
      <4>1. g \in confirmed /\ g.kind = "UserAuthorization" /\ g.before = a
        OBVIOUS
      <4> HIDE DEF g, confirmed
      <4> QED BY <4>1
    <3>2. authorized \subseteq Actions
      OBVIOUS
    <3> QED BY <3>1, <3>2
  <2>8. \A g \in confirmed : g.before \in KnownRefs(p)
    BY <2>3 DEF Contracts
  <2>9. PlanValid(p)
    <3>1. p.mode = mode /\ p.actions = Actions /\ p.edges = Star(r) /\ p.gates = confirmed
      OBVIOUS
    <3> HIDE DEF p, confirmed
    <3> QED BY <3>1, <2>4, <2>5, <2>6, <2>7, <2>8, <1>6, ContractsAssumption
          DEF PlanValid, ResponseBeforeAction
  <2> QED BY <2>2, <2>9 DEF mode
<1> QED BY <1>1, <1>3, <1>4, <1>5, <1>6 DEF Modes

\* Whatever mode assess selects, some plan with that mode validates; and once a
\* plan validates there is always a contract that waits only for its own gates,
\* until all are carried out.
THEOREM TurnHasNoDeadEnd == Spec => []NoDeadEnd
<1>1. Inv => NoDeadEnd
  BY InvAcceptedPlanFinishes, InvAssessmentHasPlan DEF NoDeadEnd
<1> QED BY <1>1, TurnInvariant, PTL
=============================================================================
