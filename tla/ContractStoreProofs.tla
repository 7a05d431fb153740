------------------------ MODULE ContractStoreProofs ------------------------
(***************************************************************************)
(* Proofs about the contents of the contract store, for all contracts and  *)
(* permit requests: the history reproduces the pointers and the            *)
(* invalidated references, what load_current serves rests on what it       *)
(* serves, no attempt of a stale Action is live, and receipts settle       *)
(* attempts for good.                                                      *)
(***************************************************************************)
EXTENDS ContractStore, FiniteSetTheorems, WellFoundedInduction, TLAPS

-----------------------------------------------------------------------------
(* The inductive invariant.                                                *)

\* There is one pointer for each kind and contract id.
UniquePointers == \A p, q \in current : SameLineage(p, q) => p = q

\* An attempt names only receipts of the history.
AttemptsNameRecords ==
    \A x \in AllAttempts(attempts) : attempts[x[1]][x[2]].receipt \in Range(records) \cup {None}

\* No Action has more attempts than there are requests, so AllAttempts has all.
AttemptsBounded == \A a \in Refs : Len(attempts[a]) <= Cardinality(Requests)

Inv ==
    /\ SnapshotValid
    /\ AttemptsBounded
    /\ UniquePointers
    /\ EffectiveRestsOnEffective
    /\ LiveAttemptRestsOnEffectiveAction
    /\ AttemptsNameRecords
    /\ ReceiptsSettleAttempts

-----------------------------------------------------------------------------
(* Replaying the history.                                                  *)

\* One record of replay_history.
ReplayOne(before, r) ==
    [current |-> (before.current \ Previous(r, before.current)) \cup {r},
     invalidated |-> before.invalidated \cup
        UNION {Dependents(p, before.current, before.invalidated) :
                  p \in Previous(r, before.current)}]

Empty == [current |-> {}, invalidated |-> {}]

\* f[n] is what the first n records of s lead to.
IsReplay(f, s, N) ==
    f = [n \in 0 .. N |-> IF n = 0 THEN Empty ELSE ReplayOne(f[n - 1], s[n])]

\* The first n records of s lead to `value`.
ReplayedTo(s, n, value) == \E f : IsReplay(f, s, n) /\ f[n] = value

SamePrefix(s, t, n) == \A i \in 1 .. n : t[i] = s[i]

\* A nonempty set of naturals has a least element.
LEMMA LeastElement ==
    ASSUME NEW S \in SUBSET Nat, S # {}
    PROVE  \E n \in S : \A m \in S : n <= m
<1>1. IsWellFoundedOn(OpToRel(<, Nat), Nat)
  BY NatLessThanWellFounded
<1>2. PICK n \in S : \A m \in S : ~(<<m, n>> \in OpToRel(<, Nat))
  BY <1>1, WFMin
<1>3. \A m \in S : ~(m < n)
  BY <1>2 DEF OpToRel
<1> QED BY <1>3

\* One record more.
LEMMA ReplayExtends ==
    ASSUME NEW s, NEW n \in Nat, NEW f, IsReplay(f, s, n),
           NEW t, SamePrefix(s, t, n)
    PROVE  ReplayedTo(t, n + 1, ReplayOne(f[n], t[n + 1]))
<1> DEFINE h(i) == IF i = n + 1 THEN ReplayOne(f[n], t[n + 1]) ELSE f[i]
           g == [i \in 0 .. n + 1 |-> h(i)]
<1>1. \A i \in 0 .. n + 1 : g[i] = IF i = 0 THEN Empty ELSE ReplayOne(g[i - 1], t[i])
  <2> SUFFICES ASSUME NEW i \in 0 .. n + 1
               PROVE  g[i] = IF i = 0 THEN Empty ELSE ReplayOne(g[i - 1], t[i])
    OBVIOUS
  <2>1. CASE i = 0
    <3>1. f[0] = Empty
      BY DEF IsReplay
    <3> QED BY <2>1, <3>1
  <2>2. CASE i # 0 /\ i # n + 1
    <3>1. i \in 0 .. n /\ i - 1 \in 0 .. n + 1 /\ i - 1 # n + 1 /\ i \in 1 .. n
      BY <2>2
    <3>2. f[i] = ReplayOne(f[i - 1], s[i])
      BY <3>1, <2>2 DEF IsReplay
    <3>3. g[i] = f[i] /\ g[i - 1] = f[i - 1]
      BY <3>1, <2>2
    <3> HIDE DEF g
    <3> QED BY <3>1, <3>2, <3>3, <2>2 DEF SamePrefix
  <2>3. CASE i = n + 1
    <3>1. i - 1 \in 0 .. n + 1 /\ i - 1 # n + 1 /\ i - 1 = n /\ i # 0
      BY <2>3
    <3>2. g[i] = ReplayOne(f[n], t[n + 1]) /\ g[i - 1] = f[n]
      BY <3>1, <2>3
    <3> HIDE DEF g
    <3> QED BY <3>1, <3>2, <2>3
  <2> QED BY <2>1, <2>2, <2>3
<1>2. IsReplay(g, t, n + 1)
  BY <1>1 DEF IsReplay
<1>3. g[n + 1] = ReplayOne(f[n], t[n + 1])
  OBVIOUS
<1> HIDE DEF g
<1> QED BY <1>2, <1>3 DEF ReplayedTo

\* There is a replay of every history.
LEMMA ReplayExists ==
    ASSUME NEW s, NEW N \in Nat
    PROVE  \E f : IsReplay(f, s, N)
<1> DEFINE Bad == {n \in Nat : ~\E f : IsReplay(f, s, n)}
<1> SUFFICES ASSUME Bad # {} PROVE FALSE
  OBVIOUS
<1>1. PICK n \in Bad : \A m \in Bad : n <= m
  <2>1. Bad \in SUBSET Nat
    OBVIOUS
  <2> HIDE DEF Bad
  <2> QED BY <2>1, LeastElement
<1>2. CASE n = 0
  <2> DEFINE g == [i \in 0 .. 0 |-> Empty]
  <2>1. IsReplay(g, s, 0)
    BY DEF IsReplay
  <2> QED BY <2>1, <1>1, <1>2
<1>3. CASE n # 0
  <2>1. n \in Nat /\ n - 1 \in Nat /\ ~(n <= n - 1) /\ (n - 1) + 1 = n
    BY <1>3
  <2>2. PICK f : IsReplay(f, s, n - 1)
    BY <1>1, <2>1
  <2>3. \E g : IsReplay(g, s, (n - 1) + 1)
    <3>1. SamePrefix(s, s, n - 1)
      BY DEF SamePrefix
    <3>2. ReplayedTo(s, (n - 1) + 1, ReplayOne(f[n - 1], s[(n - 1) + 1]))
      BY <2>1, <2>2, <3>1, ReplayExtends
    <3> QED BY <3>2 DEF ReplayedTo
  <2> QED BY <2>1, <2>3, <1>1
<1> QED BY <1>2, <1>3

\* There is only one.
LEMMA ReplayUnique ==
    ASSUME NEW s, NEW N \in Nat, NEW f, NEW g, IsReplay(f, s, N), IsReplay(g, s, N)
    PROVE  f[N] = g[N]
<1> DEFINE Bad == {n \in 0 .. N : f[n] # g[n]}
<1> SUFFICES ASSUME Bad # {} PROVE FALSE
  OBVIOUS
<1>1. PICK n \in Bad : \A m \in Bad : n <= m
  <2>1. Bad \in SUBSET Nat
    OBVIOUS
  <2> HIDE DEF Bad
  <2> QED BY <2>1, LeastElement
<1>2. n \in 0 .. N /\ f[n] # g[n]
  BY <1>1
<1>3. CASE n = 0
  BY <1>2, <1>3 DEF IsReplay
<1>4. CASE n # 0
  <2>1. n - 1 \in 0 .. N /\ ~(n <= n - 1)
    BY <1>2, <1>4
  <2>2. f[n - 1] = g[n - 1]
    BY <2>1, <1>1
  <2>3. f[n] = ReplayOne(f[n - 1], s[n])
    BY <1>2, <1>4 DEF IsReplay
  <2>4. g[n] = ReplayOne(g[n - 1], s[n])
    BY <1>2, <1>4 DEF IsReplay
  <2> QED BY <1>2, <2>2, <2>3, <2>4
<1> QED BY <1>3, <1>4

\* Replay is the last entry of the replay of the records.
LEMMA ReplayIs ==
    ASSUME NEW f, Len(records) \in Nat, IsReplay(f, records, Len(records))
    PROVE  Replay = f[Len(records)]
<1> DEFINE N == Len(records)
           c == CHOOSE h : IsReplay(h, records, N)
<1>1. IsReplay(c, records, N)
  OBVIOUS
<1>2. Replay = c[N]
  BY Zenon DEF Replay, IsReplay, ReplayOne, Empty
<1> HIDE DEF c
<1>3. c[N] = f[N]
  BY <1>1, ReplayUnique
<1> QED BY <1>2, <1>3

LEMMA ReplayIsNext ==
    ASSUME NEW f, Len(records') \in Nat, IsReplay(f, records', Len(records'))
    PROVE  Replay' = f[Len(records')]
<1> DEFINE N == Len(records')
           c == CHOOSE h : IsReplay(h, records', N)
<1>1. IsReplay(c, records', N)
  OBVIOUS
<1>2. Replay' = c[N]
  BY Zenon DEF Replay, IsReplay, ReplayOne, Empty
<1> HIDE DEF c
<1>3. c[N] = f[N]
  BY <1>1, ReplayUnique
<1> QED BY <1>2, <1>3

\* A record more in the history is one more step of the replay.
LEMMA ReplayAppends ==
    ASSUME records \in Seq(Refs), NEW r \in Refs, records' = Append(records, r)
    PROVE  Replay' = ReplayOne(Replay, r)
<1> DEFINE N == Len(records)
<1>1. N \in Nat /\ Len(records') = N + 1 /\ records'[N + 1] = r
      /\ \A i \in 1 .. N : records'[i] = records[i]
  OBVIOUS
<1>2. PICK f : IsReplay(f, records, N)
  BY <1>1, ReplayExists
<1>3. Replay = f[N]
  BY <1>1, <1>2, ReplayIs
<1> HIDE DEF N
<1>4. PICK g : IsReplay(g, records', N + 1) /\ g[N + 1] = ReplayOne(f[N], records'[N + 1])
  <2>1. N \in Nat
    BY <1>1
  <2>2. SamePrefix(records, records', N)
    BY <1>1 DEF SamePrefix
  <2>3. ReplayedTo(records', N + 1, ReplayOne(f[N], records'[N + 1]))
    BY <2>1, <2>2, <1>2, ReplayExtends
  <2> QED BY <2>3 DEF ReplayedTo
<1>5. Replay' = g[N + 1]
  <2>1. Len(records') \in Nat
    BY <1>1
  <2>2. IsReplay(g, records', Len(records'))
    BY <1>1, <1>4
  <2> QED BY <2>1, <2>2, <1>1, ReplayIsNext
<1> QED BY <1>1, <1>3, <1>4, <1>5

LEMMA InitReplay == ASSUME Init PROVE ReplayReproducesStore
<1>1. records = <<>> /\ Len(records) = 0
  BY DEF Init
<1>2. PICK f : IsReplay(f, records, 0)
  BY ReplayExists
<1>3. f[0] = Empty
  BY <1>2 DEF IsReplay
<1>4. Replay = f[0]
  BY <1>1, <1>2, ReplayIs
<1> QED BY <1>3, <1>4 DEF Init, ReplayReproducesStore, Empty

\* InstallContract is what replay_history does with the record.
LEMMA InstallReplays ==
    ASSUME records \in Seq(Refs), ReplayReproducesStore, NEW r \in Refs, InstallContract(r)
    PROVE  ReplayReproducesStore'
<1>1. Replay' = ReplayOne(Replay, r)
  BY ReplayAppends DEF InstallContract
<1>2. Replay.current = current /\ Replay.invalidated = invalidated
  BY DEF ReplayReproducesStore
<1>3. ReplayOne(Replay, r) =
        [current |-> (current \ Previous(r, current)) \cup {r},
         invalidated |-> invalidated \cup
            UNION {Dependents(p, current, invalidated) : p \in Previous(r, current)}]
  BY <1>2 DEF ReplayOne
<1>4. /\ current' = (current \ Previous(r, current)) \cup {r}
      /\ invalidated' = invalidated \cup
            UNION {Dependents(p, current, invalidated) : p \in Previous(r, current)}
  BY DEF InstallContract
<1> QED BY <1>1, <1>3, <1>4 DEF ReplayReproducesStore

-----------------------------------------------------------------------------
(* What a new revision takes with it.                                      *)

\* The search finds open pointers only, and whatever rests on one it found.
LEMMA DependentsFacts ==
    ASSUME NEW stale, NEW pointers, NEW invalid
    PROVE  /\ Dependents(stale, pointers, invalid) \subseteq pointers \ invalid
           /\ \A p \in pointers \ invalid :
                 \A s \in Dependents(stale, pointers, invalid) \cup {stale} :
                    ~SameLineage(p, s) /\ s \in Contract[p].dependencies
                        => p \in Dependents(stale, pointers, invalid)
<1> DEFINE open == pointers \ invalid
           closed == {X \in SUBSET open : ClosedOver(X, open, stale)}
           D == Dependents(stale, pointers, invalid)
<1>1. D = {p \in open : \A X \in closed : p \in X}
  BY DEF Dependents
<1>2. ASSUME NEW p \in open, NEW s \in D \cup {stale},
             ~SameLineage(p, s), s \in Contract[p].dependencies
      PROVE  p \in D
  <2> SUFFICES ASSUME NEW X \in closed PROVE p \in X
    BY <1>1
  <2>1. s \in X \cup {stale}
    BY <1>1
  <2>2. ClosedOver(X, open, stale)
    OBVIOUS
  <2> QED BY <2>1, <2>2, <1>2 DEF ClosedOver
<1> HIDE DEF D, closed
<1> QED BY <1>1, <1>2 DEF D

\* What is found does rest on the superseded contract.
LEMMA DependentsRest ==
    ASSUME NEW stale \in Refs, NEW pointers \in SUBSET Refs, NEW invalid,
           NEW d \in Dependents(stale, pointers, invalid)
    PROVE  stale \in RestsOn(d)
<1> SUFFICES ASSUME NEW X \in ClosedUnderDependencies, d \in X, stale \notin X PROVE FALSE
  BY DEF RestsOn
<1> DEFINE open == pointers \ invalid
           Y == open \ X
<1>1. \A z \in X : Contract[z].dependencies \subseteq X
  BY DEF ClosedUnderDependencies
<1>2. ClosedOver(Y, open, stale)
  <2> SUFFICES ASSUME NEW p \in open, NEW s \in Y \cup {stale}, s \in Contract[p].dependencies
               PROVE  p \in Y
    BY DEF ClosedOver
  <2>1. s \notin X
    OBVIOUS
  <2> QED BY <1>1, <2>1
<1>3. Y \in SUBSET open
  OBVIOUS
<1>4. d \in Y
  BY <1>2, <1>3 DEF Dependents
<1> QED BY <1>4

LEMMA RestsOnItself == ASSUME NEW x \in Refs PROVE x \in RestsOn(x)
  BY DEF RestsOn

\* What Admissible says of the previous pointer.
LEMMA AdmissiblePrevious ==
    ASSUME NEW r, Admissible(r)
    PROVE  Previous(r, current) = {} \/ Previous(r, current) = {Contract[r].predecessor}
  BY DEF Admissible

LEMMA InstallKeepsPointers ==
    ASSUME UniquePointers, NEW r, InstallContract(r)
    PROVE  UniquePointers'
<1> SUFFICES ASSUME NEW p \in current', NEW q \in current', SameLineage(p, q)
             PROVE  p = q
  BY DEF UniquePointers, SameLineage
<1>1. current' = (current \ Previous(r, current)) \cup {r}
  BY DEF InstallContract
<1>2. \A x \in current \ Previous(r, current) : ~SameLineage(x, r) /\ ~SameLineage(r, x)
  BY DEF Previous, SameLineage
<1> QED BY <1>1, <1>2 DEF UniquePointers

\* What is served after a commit rests on what is served.
LEMMA InstallKeepsEffective ==
    ASSUME current \subseteq Refs, UniquePointers, EffectiveRestsOnEffective,
           NEW r \in Refs, Admissible(r), InstallContract(r)
    PROVE  EffectiveRestsOnEffective'
<1> DEFINE pre == Contract[r].predecessor
           previous == Previous(r, current)
           gone == UNION {Dependents(p, current, invalidated) : p \in previous}
<1>1. previous = {} \/ previous = {pre}
  BY AdmissiblePrevious
<1>2. current' = (current \ previous) \cup {r} /\ invalidated' = invalidated \cup gone
  BY DEF InstallContract
<1>3. previous \subseteq current
  BY DEF Previous
<1>4. Contract[r].dependencies \subseteq Effective
  BY DEF Admissible
<1>5. \A d \in previous \cup gone : pre \in RestsOn(d)
  <2> SUFFICES ASSUME NEW d \in previous \cup gone PROVE pre \in RestsOn(d)
    OBVIOUS
  <2>1. previous = {pre} /\ pre \in Refs
    BY <1>1, <1>3
  <2>2. CASE d \in previous
    BY <2>1, <2>2, RestsOnItself
  <2>3. CASE d \in gone
    <3>1. d \in Dependents(pre, current, invalidated)
      BY <2>1, <2>3
    <3> QED BY <2>1, <3>1, DependentsRest
  <2> QED BY <2>2, <2>3
<1>6. \A d \in Effective : d \in Effective' \/ d \in previous \cup gone
  BY <1>2 DEF Effective
<1>7. ASSUME NEW p \in Effective, p \notin previous, p \notin gone,
             NEW d \in previous \cup gone, d \in Contract[p].dependencies
      PROVE  FALSE
  <2>1. PICK s \in previous : d \in Dependents(s, current, invalidated) \cup {s}
    BY <1>7
  <2> DEFINE D == Dependents(s, current, invalidated)
  <2>2. D \subseteq current \ invalidated
    BY DependentsFacts
  <2>3. p \in current \ invalidated
    BY DEF Effective
  <2>4. d \in current
    BY <1>3, <2>1, <2>2
  <2>5. p \notin D /\ D \subseteq gone
    BY <1>7, <2>1
  <2>6. ~SameLineage(p, d)
    <3> SUFFICES ASSUME p = d PROVE FALSE
      BY <2>3, <2>4 DEF UniquePointers
    <3> QED BY <1>7
  <2> QED BY <2>1, <2>3, <2>5, <2>6, <1>7, DependentsFacts
<1> HIDE DEF gone, previous
<1> SUFFICES ASSUME NEW p \in Effective', NEW d \in Contract[p].dependencies,
                    d \notin Effective'
             PROVE  Contract[p].predecessor \in RestsOn(d)
  BY DEF EffectiveRestsOnEffective, RestsOn, ClosedUnderDependencies
<1>8. CASE p = r
  BY <1>4, <1>5, <1>6, <1>8
<1>9. CASE p # r
  <2>1. p \in Effective /\ p \notin previous /\ p \notin gone
    BY <1>2, <1>9 DEF Effective
  <2>2. CASE d \in Effective
    BY <1>6, <1>7, <2>1, <2>2
  <2>3. CASE d \notin Effective
    BY <2>1, <2>3 DEF EffectiveRestsOnEffective
  <2> QED BY <2>2, <2>3
<1> QED BY <1>8, <1>9

-----------------------------------------------------------------------------
(* Attempts.                                                               *)

Live == {"PermitIssued", "Delivered", "Dispatched"}

Reservations == [Refs -> Seq(Attempts)]

\* The last attempt of the Action can still be delivered, dispatched or settled.
LastIsLive(A, a) == A[a] # <<>> /\ A[a][Len(A[a])].status \in Live

\* B comes from A without a settled attempt being touched, and with no receipt
\* named that is not named already or in `new`.
Changes(A, B, new) ==
    /\ \A a \in Refs : Len(A[a]) <= Len(B[a])
    /\ \A a \in Refs : \A i \in 1 .. Len(A[a]) :
          A[a][i].status \in ReceiptStates /\ A[a][i].receipt # None => B[a][i] = A[a][i]
    /\ \A a \in Refs : \A i \in 1 .. Len(B[a]) :
          \/ B[a][i].receipt \in {None} \cup new
          \/ i \in 1 .. Len(A[a]) /\ B[a][i].receipt = A[a][i].receipt

LEMMA AttemptFields ==
    ASSUME NEW t \in Attempts
    PROVE  /\ t.request \in Requests /\ t.status \in Statuses /\ t.delivered \in BOOLEAN
           /\ t.dispatchedAt \in Times \cup {None} /\ t.receipt \in Refs \cup {None}
           /\ \A s \in Statuses : /\ [t EXCEPT !.status = s] \in Attempts
                                  /\ [t EXCEPT !.status = s].status = s
                                  /\ [t EXCEPT !.status = s].receipt = t.receipt
  BY DEF Attempts

LEMMA StatusFacts ==
    /\ ReceiptStates \subseteq Statuses
    /\ Live \subseteq Statuses
    /\ {"Cancelled", "ReconciliationRequired", "Expired"} \subseteq Statuses
    /\ ReceiptStates \cap (Live \cup {"Cancelled", "ReconciliationRequired", "Expired"}) = {}
    /\ Live \cap {"Cancelled", "ReconciliationRequired", "Expired"} = {}
  BY DEF ReceiptStates, Statuses, Live

LEMMA WithdrawFacts ==
    ASSUME NEW t \in Attempts
    PROVE  /\ Withdraw(t) \in Attempts
           /\ Withdraw(t).receipt = t.receipt
           /\ Withdraw(t).status \notin Live
           /\ t.status \in ReceiptStates => Withdraw(t) = t
<1>1. CASE t.status \in {"PermitIssued", "Delivered"}
  <2>1. Withdraw(t) = [t EXCEPT !.status = "Cancelled"]
    BY <1>1 DEF Withdraw
  <2> QED BY <1>1, <2>1, AttemptFields, StatusFacts DEF Live
<1>2. CASE t.status = "Dispatched"
  <2>1. Withdraw(t) = [t EXCEPT !.status = "ReconciliationRequired"]
    BY <1>2 DEF Withdraw
  <2> QED BY <1>2, <2>1, AttemptFields, StatusFacts DEF Live
<1>3. CASE t.status \notin {"PermitIssued", "Delivered", "Dispatched"}
  <2>1. Withdraw(t) = t
    BY <1>3 DEF Withdraw
  <2> QED BY <1>3, <2>1 DEF Live
<1> QED BY <1>1, <1>2, <1>3

\* B is A with attempt i of the Action written over.
WrittenOver(A, B, a, i, t) ==
    /\ B \in Reservations
    /\ \A b \in Refs : Len(B[b]) = Len(A[b])
    /\ B[a][i] = t
    /\ \A b \in Refs : \A j \in 1 .. Len(A[b]) : b # a \/ j # i => B[b][j] = A[b][j]

LEMMA WriteOver ==
    ASSUME NEW A \in Reservations, NEW a \in Refs, NEW i \in 1 .. Len(A[a]), NEW t \in Attempts,
           NEW B, B = [A EXCEPT ![a] = [A[a] EXCEPT ![i] = t]]
    PROVE  WrittenOver(A, B, a, i, t)
<1>1. A[a] \in Seq(Attempts)
  BY DEF Reservations
<1> DEFINE s == [A[a] EXCEPT ![i] = t]
<1>2. s \in Seq(Attempts) /\ Len(s) = Len(A[a]) /\ s[i] = t
      /\ \A j \in 1 .. Len(A[a]) : j # i => s[j] = A[a][j]
  BY <1>1
<1> HIDE DEF s
<1>3. B[a] = s /\ \A b \in Refs : b # a => B[b] = A[b]
  BY DEF Reservations, s
<1>4. B \in Reservations
  BY <1>2 DEF Reservations, s
<1> QED BY <1>2, <1>3, <1>4 DEF WrittenOver

\* An attempt that is not settled is written over, and keeps its receipt.
LEMMA WriteOverChanges ==
    ASSUME NEW A \in Reservations, NEW a \in Refs, NEW i \in 1 .. Len(A[a]), NEW t \in Attempts,
           NEW B, WrittenOver(A, B, a, i, t),
           t.receipt = A[a][i].receipt,
           A[a][i].status \notin ReceiptStates \/ A[a][i].receipt = None
    PROVE  Changes(A, B, {})
<1>1. /\ \A b \in Refs : Len(B[b]) = Len(A[b])
      /\ B[a][i] = t
      /\ \A b \in Refs : \A j \in 1 .. Len(A[b]) : b # a \/ j # i => B[b][j] = A[b][j]
  BY DEF WrittenOver
<1>2. \A b \in Refs : Len(A[b]) \in Nat
  BY DEF Reservations
<1>3. \A b \in Refs : Len(A[b]) <= Len(B[b])
  BY <1>1, <1>2
<1>4. ASSUME NEW b \in Refs, NEW j \in 1 .. Len(A[b]),
             A[b][j].status \in ReceiptStates, A[b][j].receipt # None
      PROVE  B[b][j] = A[b][j]
  <2>1. b # a \/ j # i
    BY <1>4
  <2> QED BY <1>1, <2>1
<1>5. ASSUME NEW b \in Refs, NEW j \in 1 .. Len(B[b])
      PROVE  j \in 1 .. Len(A[b]) /\ B[b][j].receipt = A[b][j].receipt
  <2>1. j \in 1 .. Len(A[b])
    BY <1>1
  <2>2. CASE b = a /\ j = i
    BY <2>1, <2>2, <1>1
  <2>3. CASE b # a \/ j # i
    BY <2>1, <2>3, <1>1
  <2> QED BY <2>1, <2>2, <2>3
<1> QED BY <1>3, <1>4, <1>5 DEF Changes

\* The attempts of stale Actions are withdrawn.
LEMMA WithdrawStaleFacts ==
    ASSUME attempts \in Reservations, NEW stale, NEW pointers, NEW invalid
    PROVE  LET B == WithdrawStale(stale, pointers, invalid) IN
           /\ B \in Reservations
           /\ \A a \in Refs : Len(B[a]) = Len(attempts[a])
           /\ Changes(attempts, B, {})
           /\ \A a \in Refs : LastIsLive(B, a) => a \in pointers /\ a # stale /\ a \notin invalid
<1> DEFINE B == WithdrawStale(stale, pointers, invalid)
           Stale(a) == attempts[a] # <<>> /\ (a = stale \/ a \notin pointers \/ a \in invalid)
<1>1. ASSUME NEW a \in Refs
      PROVE  /\ B[a] \in Seq(Attempts) /\ Len(B[a]) = Len(attempts[a]) /\ Len(attempts[a]) \in Nat
             /\ \A i \in 1 .. Len(attempts[a]) :
                   /\ B[a][i].receipt = attempts[a][i].receipt
                   /\ attempts[a][i].status \in ReceiptStates => B[a][i] = attempts[a][i]
             /\ LastIsLive(B, a) => a \in pointers /\ a # stale /\ a \notin invalid
  <2>1. attempts[a] \in Seq(Attempts)
    BY DEF Reservations
  <2>2. CASE ~Stale(a)
    <3>1. B[a] = attempts[a]
      BY <2>2 DEF WithdrawStale
    <3>2. LastIsLive(B, a) => a \in pointers /\ a # stale /\ a \notin invalid
      BY <2>2, <3>1 DEF LastIsLive
    <3> HIDE DEF B
    <3> QED BY <2>1, <3>1, <3>2
  <2>3. CASE Stale(a)
    <3> DEFINE n == Len(attempts[a])
               t == attempts[a][n]
    <3>1. n \in Nat /\ n \in 1 .. n /\ t \in Attempts
      BY <2>1, <2>3
    <3>2. B[a] = [attempts[a] EXCEPT ![n] = Withdraw(t)]
      BY <2>3 DEF WithdrawStale
    <3>3. /\ Withdraw(t) \in Attempts
          /\ Withdraw(t).receipt = t.receipt
          /\ Withdraw(t).status \notin Live
          /\ t.status \in ReceiptStates => Withdraw(t) = t
      BY <3>1, WithdrawFacts
    <3> HIDE DEF B
    <3>4. B[a] \in Seq(Attempts) /\ Len(B[a]) = n /\ B[a][n] = Withdraw(t)
          /\ \A i \in 1 .. n : i # n => B[a][i] = attempts[a][i]
      BY <2>1, <3>1, <3>2, <3>3
    <3>5. ~LastIsLive(B, a)
      BY <3>3, <3>4 DEF LastIsLive
    <3> QED BY <3>1, <3>3, <3>4, <3>5
  <2> QED BY <2>2, <2>3
<1>2. B \in Reservations
  <2>1. B = [a \in Refs |-> B[a]]
    BY DEF WithdrawStale
  <2> HIDE DEF B
  <2> QED BY <2>1, <1>1 DEF Reservations
<1> HIDE DEF B
<1>3. Changes(attempts, B, {})
  BY <1>1 DEF Changes
<1> QED BY <1>1, <1>2, <1>3 DEF B

\* The receipt settles one attempt.
SettledIn(A, r) ==
    \E x \in AllAttempts(A) :
        /\ A[x[1]][x[2]].receipt = r
        /\ A[x[1]][x[2]].status = Contract[r].state
        /\ \A y \in AllAttempts(A) \ {x} : A[y[1]][y[2]].receipt # r

LEMMA AllAttemptsFacts ==
    ASSUME NEW A \in Reservations
    PROVE  /\ \A x \in AllAttempts(A) : /\ x = <<x[1], x[2]>> /\ x[1] \in Refs
                                        /\ x[2] \in 1 .. Len(A[x[1]])
           /\ \A B \in Reservations :
                 (\A a \in Refs : Len(A[a]) <= Len(B[a])) => AllAttempts(A) \subseteq AllAttempts(B)
           /\ \A B \in Reservations :
                 \A x \in AllAttempts(B) : x[2] \in 1 .. Len(A[x[1]]) => x \in AllAttempts(A)
<1>1. \A a \in Refs : Len(A[a]) \in Nat
  BY DEF Reservations
<1>2. ASSUME NEW x \in AllAttempts(A)
      PROVE  x = <<x[1], x[2]>> /\ x[1] \in Refs /\ x[2] \in 1 .. Len(A[x[1]])
  <2>1. x \in Refs \X (1 .. Cardinality(Requests)) /\ x[2] <= Len(A[x[1]])
    BY DEF AllAttempts
  <2>2. x[1] \in Refs /\ x[2] \in Int /\ 1 <= x[2] /\ x = <<x[1], x[2]>>
    BY <2>1
  <2> QED BY <2>1, <2>2, <1>1
<1>3. ASSUME NEW B \in Reservations, \A a \in Refs : Len(A[a]) <= Len(B[a])
      PROVE  AllAttempts(A) \subseteq AllAttempts(B)
  <2> SUFFICES ASSUME NEW x \in AllAttempts(A) PROVE x \in AllAttempts(B)
    OBVIOUS
  <2>1. \A a \in Refs : Len(B[a]) \in Nat
    BY DEF Reservations
  <2>2. x[1] \in Refs /\ x[2] \in 1 .. Len(A[x[1]])
    BY <1>2
  <2>3. x[2] <= Len(B[x[1]])
    BY <2>1, <2>2, <1>1, <1>3
  <2> QED BY <2>3 DEF AllAttempts
<1>4. ASSUME NEW B \in Reservations, NEW x \in AllAttempts(B), x[2] \in 1 .. Len(A[x[1]])
      PROVE  x \in AllAttempts(A)
  <2>1. x \in Refs \X (1 .. Cardinality(Requests))
    BY DEF AllAttempts
  <2>2. x[1] \in Refs
    BY <2>1
  <2>3. x[2] <= Len(A[x[1]])
    BY <2>2, <1>1, <1>4
  <2> QED BY <2>1, <2>3 DEF AllAttempts
<1> QED BY <1>2, <1>3, <1>4

\* Receipts of the history keep the attempts they settle.
LEMMA SettledStays ==
    ASSUME records \in Seq(Refs), attempts \in Reservations, AttemptsNameRecords,
           NEW B \in Reservations, NEW new, new \cap Range(records) = {},
           Changes(attempts, B, new)
    PROVE  /\ \A r \in Range(records) : SettledIn(attempts, r)
                  /\ Contract[r].kind = "ExecutionReceipt" => SettledIn(B, r)
           /\ \A x \in AllAttempts(B) : B[x[1]][x[2]].receipt \in Range(records) \cup {None} \cup new
<1>1. Range(records) \subseteq Refs
  BY DEF Range
<1>2. ASSUME NEW r \in Range(records), SettledIn(attempts, r),
             Contract[r].kind = "ExecutionReceipt"
      PROVE  SettledIn(B, r)
  <2>1. r # None /\ Contract[r].state \in ReceiptStates
    BY <1>1, <1>2, NoneAssumption, ReceiptAssumption
  <2>2. PICK x \in AllAttempts(attempts) :
            /\ attempts[x[1]][x[2]].receipt = r
            /\ attempts[x[1]][x[2]].status = Contract[r].state
            /\ \A y \in AllAttempts(attempts) \ {x} : attempts[y[1]][y[2]].receipt # r
    BY <1>2 DEF SettledIn
  <2>3. x[1] \in Refs /\ x[2] \in 1 .. Len(attempts[x[1]]) /\ x \in AllAttempts(B)
    BY AllAttemptsFacts DEF Changes
  <2>4. B[x[1]][x[2]] = attempts[x[1]][x[2]]
    BY <2>1, <2>2, <2>3 DEF Changes
  <2>5. ASSUME NEW y \in AllAttempts(B) \ {x}, B[y[1]][y[2]].receipt = r PROVE FALSE
    <3>1. y[1] \in Refs /\ y[2] \in 1 .. Len(B[y[1]])
      BY AllAttemptsFacts
    <3>2. r \notin {None} \cup new
      BY <2>1
    <3>3. y[2] \in 1 .. Len(attempts[y[1]]) /\ B[y[1]][y[2]].receipt = attempts[y[1]][y[2]].receipt
      BY <3>1, <3>2, <2>5 DEF Changes
    <3>4. y \in AllAttempts(attempts)
      BY <3>3, AllAttemptsFacts
    <3> QED BY <2>2, <2>5, <3>3, <3>4
  <2> QED BY <2>2, <2>3, <2>4, <2>5 DEF SettledIn
<1>3. ASSUME NEW x \in AllAttempts(B)
      PROVE  B[x[1]][x[2]].receipt \in Range(records) \cup {None} \cup new
  <2>1. x[1] \in Refs /\ x[2] \in 1 .. Len(B[x[1]])
    BY AllAttemptsFacts
  <2>2. CASE B[x[1]][x[2]].receipt \in {None} \cup new
    BY <2>2
  <2>3. CASE x[2] \in 1 .. Len(attempts[x[1]]) /\ B[x[1]][x[2]].receipt = attempts[x[1]][x[2]].receipt
    <3>1. x \in AllAttempts(attempts)
      BY <2>3, AllAttemptsFacts
    <3> QED BY <2>3, <3>1 DEF AttemptsNameRecords
  <2> QED BY <2>1, <2>2, <2>3 DEF Changes
<1> QED BY <1>2, <1>3

-----------------------------------------------------------------------------
(* Steps on the permits.                                                   *)

\* The two invariants on attempts, in the terms of this module.
LEMMA InvOnAttempts ==
    /\ LiveAttemptRestsOnEffectiveAction <=> \A a \in Refs : LastIsLive(attempts, a) => a \in Effective
    /\ ReceiptsSettleAttempts <=>
          \A r \in Range(records) :
              Contract[r].kind = "ExecutionReceipt" => SettledIn(attempts, r)
<1>1. LiveAttemptRestsOnEffectiveAction <=> \A a \in Refs : LastIsLive(attempts, a) => a \in Effective
  BY DEF LiveAttemptRestsOnEffectiveAction, LastIsLive, LastAttempt, Live
<1>2. ReceiptsSettleAttempts <=>
          \A r \in Range(records) :
              Contract[r].kind = "ExecutionReceipt" => SettledIn(attempts, r)
  BY DEF ReceiptsSettleAttempts, SettledIn
<1> QED BY <1>1, <1>2

LEMMA InvOnAttemptsNext ==
    /\ LiveAttemptRestsOnEffectiveAction' <=> \A a \in Refs : LastIsLive(attempts', a) => a \in Effective'
    /\ ReceiptsSettleAttempts' <=>
          \A r \in Range(records') :
              Contract[r].kind = "ExecutionReceipt" => SettledIn(attempts', r)
<1>1. LiveAttemptRestsOnEffectiveAction' <=> \A a \in Refs : LastIsLive(attempts', a) => a \in Effective'
  BY DEF LiveAttemptRestsOnEffectiveAction, LastIsLive, LastAttempt, Live
<1>2. ReceiptsSettleAttempts' <=>
          \A r \in Range(records') :
              Contract[r].kind = "ExecutionReceipt" => SettledIn(attempts', r)
  BY DEF ReceiptsSettleAttempts, SettledIn
<1> QED BY <1>1, <1>2

LEMMA TypeFacts ==
    ASSUME Inv
    PROVE  /\ records \in Seq(Refs) /\ current \subseteq Refs /\ invalidated \subseteq Refs
           /\ attempts \in Reservations /\ now \in Times /\ held \subseteq Requests
  BY DEF Inv, SnapshotValid, TypeOK, Reservations

\* Only the attempts change, none that is settled, and none is live but of
\* Actions that are served.
LEMMA AttemptsStep ==
    ASSUME Inv, UNCHANGED <<records, current, invalidated>>,
           attempts' \in Reservations, Changes(attempts, attempts', {}),
           \A a \in Refs : LastIsLive(attempts', a) => LastIsLive(attempts, a) \/ a \in Effective,
           AttemptsBounded', now' \in Times, held' \subseteq Requests
    PROVE  Inv'
<1>1. Effective' = Effective
  BY DEF Effective
<1>2. Replay' = Replay
  BY DEF Replay
<1>3. SnapshotValid'
  BY <1>2, TypeFacts DEF Inv, SnapshotValid, TypeOK, ReplayReproducesStore, Reservations
<1>4. UniquePointers'
  BY DEF Inv, UniquePointers
<1>5. EffectiveRestsOnEffective'
  BY <1>1 DEF Inv, EffectiveRestsOnEffective
<1>6. LiveAttemptRestsOnEffectiveAction'
  <2>1. \A a \in Refs : LastIsLive(attempts, a) => a \in Effective
    BY InvOnAttempts DEF Inv
  <2>2. \A a \in Refs : LastIsLive(attempts', a) => a \in Effective'
    BY <1>1, <2>1
  <2> QED BY <2>2, InvOnAttemptsNext
<1>7. /\ \A r \in Range(records) : SettledIn(attempts, r)
            /\ Contract[r].kind = "ExecutionReceipt" => SettledIn(attempts', r)
      /\ \A x \in AllAttempts(attempts') : attempts'[x[1]][x[2]].receipt \in Range(records) \cup {None} \cup {}
  BY TypeFacts, SettledStays DEF Inv
<1>8. ReceiptsSettleAttempts'
  <2>1. \A r \in Range(records) :
            Contract[r].kind = "ExecutionReceipt" => SettledIn(attempts, r)
    BY InvOnAttempts DEF Inv
  <2>2. \A r \in Range(records') :
            Contract[r].kind = "ExecutionReceipt" => SettledIn(attempts', r)
    BY <1>7, <2>1
  <2> QED BY <2>2, InvOnAttemptsNext
<1>9. AttemptsNameRecords'
  BY <1>7 DEF AttemptsNameRecords
<1> QED BY <1>3, <1>4, <1>5, <1>6, <1>8, <1>9 DEF Inv

\* The last attempt of an Action, which is not settled, is written over.
LEMMA SetLastStep ==
    ASSUME Inv, UNCHANGED <<records, current, invalidated>>,
           NEW a \in Refs, attempts[a] # <<>>, NEW t \in Attempts,
           attempts' = SetLast(a, t),
           t.receipt = LastAttempt(a).receipt,
           LastAttempt(a).status \notin ReceiptStates \/ LastAttempt(a).receipt = None,
           t.status \notin Live \/ a \in Effective,
           now' \in Times, held' \subseteq Requests
    PROVE  Inv'
<1> DEFINE n == Len(attempts[a])
<1>1. attempts \in Reservations /\ n \in Nat /\ n \in 1 .. n
  BY TypeFacts DEF Reservations
<1>2. attempts' = [attempts EXCEPT ![a] = [attempts[a] EXCEPT ![n] = t]]
  BY <1>1 DEF SetLast, Reservations
<1>3. WrittenOver(attempts, attempts', a, n, t)
  BY <1>1, <1>2, WriteOver
<1>4. Changes(attempts, attempts', {})
  BY <1>1, <1>3, WriteOverChanges DEF LastAttempt
<1>5. ASSUME NEW b \in Refs, LastIsLive(attempts', b)
      PROVE  LastIsLive(attempts, b) \/ b \in Effective
  <2>1. attempts[b] \in Seq(Attempts) /\ attempts'[b] \in Seq(Attempts)
        /\ Len(attempts'[b]) = Len(attempts[b]) /\ Len(attempts[b]) \in Nat
    BY <1>1, <1>3 DEF WrittenOver, Reservations
  <2>2. Len(attempts[b]) \in 1 .. Len(attempts[b]) /\ attempts[b] # <<>>
    BY <2>1, <1>5 DEF LastIsLive
  <2>3. CASE b = a
    BY <2>1, <2>3, <1>3, <1>5 DEF WrittenOver, LastIsLive
  <2>4. CASE b # a
    <3>1. attempts'[b][Len(attempts[b])] = attempts[b][Len(attempts[b])]
      BY <2>2, <2>4, <1>3 DEF WrittenOver
    <3> QED BY <3>1, <2>1, <2>2, <1>5 DEF LastIsLive
  <2> QED BY <2>3, <2>4
<1>6. attempts' \in Reservations
  BY <1>3 DEF WrittenOver
<1>7. AttemptsBounded'
  BY <1>3 DEF Inv, AttemptsBounded, WrittenOver
<1> QED BY <1>4, <1>5, <1>6, <1>7, AttemptsStep

\* Nothing but the clock and the executors' memory changes.
LEMMA OutsideStep ==
    ASSUME Inv, UNCHANGED <<records, current, invalidated, attempts>>,
           now' \in Times, held' \subseteq Requests
    PROVE  Inv'
<1>1. attempts \in Reservations
  BY TypeFacts
<1>2. \A a \in Refs : Len(attempts[a]) \in Nat
  BY <1>1 DEF Reservations
<1>3. Changes(attempts, attempts', {})
  BY <1>2 DEF Changes
<1>4. AttemptsBounded'
  BY DEF Inv, AttemptsBounded
<1> QED BY <1>1, <1>3, <1>4, AttemptsStep

\* issue_execution_permit: the candidate validates, so its requests are all
\* different and the new attempt is within the bound.
LEMMA IssueStep ==
    ASSUME Inv, NEW q \in Requests, NEW reaches \in BOOLEAN, IssueExecutionPermit(q, reaches)
    PROVE  Inv'
<1> DEFINE a == Request[q].action
           t == [request |-> q, status |-> "PermitIssued", delivered |-> FALSE,
                 dispatchedAt |-> None, receipt |-> None]
           n == Len(attempts[a])
<1>1. a \in Effective /\ a \in Refs
  BY TypeFacts DEF IssueExecutionPermit, Effective
<1>2. attempts \in Reservations /\ attempts[a] \in Seq(Attempts) /\ n \in Nat
  BY <1>1, TypeFacts DEF Reservations
<1>3. t \in Attempts
  BY DEF Attempts, Statuses
<1>4. attempts' = [attempts EXCEPT ![a] = Append(attempts[a], t)]
      /\ ValidateReservations(attempts')
  BY DEF IssueExecutionPermit, PersistAttempts
<1>5. t.receipt = None
  OBVIOUS
<1>6. t.request = q
  OBVIOUS
<1> HIDE DEF t
<1>7. /\ Append(attempts[a], t) \in Seq(Attempts) /\ Len(Append(attempts[a], t)) = n + 1
      /\ Append(attempts[a], t)[n + 1] = t
      /\ \A i \in 1 .. n : Append(attempts[a], t)[i] = attempts[a][i]
  BY <1>2, <1>3
<1>8. /\ attempts' \in Reservations
      /\ \A b \in Refs : b # a => attempts'[b] = attempts[b]
      /\ attempts'[a] \in Seq(Attempts) /\ Len(attempts'[a]) = n + 1 /\ attempts'[a][n + 1] = t
      /\ \A i \in 1 .. n : attempts'[a][i] = attempts[a][i]
  BY <1>1, <1>2, <1>4, <1>7 DEF Reservations
<1>9. Changes(attempts, attempts', {})
  <2>1. \A b \in Refs : Len(attempts[b]) \in Nat /\ Len(attempts[b]) <= Len(attempts'[b])
    BY <1>2, <1>8 DEF Reservations
  <2>2. ASSUME NEW b \in Refs, NEW i \in 1 .. Len(attempts[b]) PROVE attempts'[b][i] = attempts[b][i]
    BY <1>8
  <2>3. ASSUME NEW b \in Refs, NEW i \in 1 .. Len(attempts'[b])
        PROVE  \/ attempts'[b][i].receipt = None
               \/ i \in 1 .. Len(attempts[b]) /\ attempts'[b][i].receipt = attempts[b][i].receipt
    <3>1. CASE b = a /\ i = n + 1
      BY <3>1, <1>5, <1>8
    <3>2. CASE ~(b = a /\ i = n + 1)
      <4>1. i \in 1 .. Len(attempts[b])
        BY <3>2, <1>2, <1>8
      <4> QED BY <4>1, <2>2
    <3> QED BY <3>1, <3>2
  <2> QED BY <2>1, <2>2, <2>3 DEF Changes
<1>10. ASSUME NEW b \in Refs, LastIsLive(attempts', b)
       PROVE  LastIsLive(attempts, b) \/ b \in Effective
  BY <1>1, <1>8, <1>10 DEF LastIsLive
<1>11. AttemptsBounded'
  <2>1. \A b \in Refs : b # a => Len(attempts'[b]) <= Cardinality(Requests)
    BY <1>8 DEF Inv, AttemptsBounded
  <2>2. n <= Cardinality(Requests) /\ Cardinality(Requests) \in Nat
    BY <1>1, RequestsAssumption, FS_CardinalityType DEF Inv, AttemptsBounded
  <2>3. \A i \in 1 .. n : <<a, i>> \in AllAttempts(attempts) /\ <<a, i>> \in AllAttempts(attempts')
    <3> SUFFICES ASSUME NEW i \in 1 .. n
                 PROVE  <<a, i>> \in AllAttempts(attempts) /\ <<a, i>> \in AllAttempts(attempts')
      OBVIOUS
    <3>1. i \in 1 .. Cardinality(Requests) /\ i <= n /\ i <= Len(attempts'[a])
      BY <1>2, <1>8, <2>2
    <3> QED BY <3>1, <1>1 DEF AllAttempts
  <2> DEFINE f == [i \in 1 .. n + 1 |-> attempts'[a][i].request]
  <2>4. \A i \in 1 .. n + 1 : attempts'[a][i] \in Attempts
    BY <1>2, <1>8
  <2>5. f \in [1 .. n + 1 -> Requests]
    BY <2>4, AttemptFields
  <2>6. \A i \in 1 .. n, j \in 1 .. n : i # j =>
            Request[attempts'[a][i].request].proof # Request[attempts'[a][j].request].proof
    <3> SUFFICES ASSUME NEW i \in 1 .. n, NEW j \in 1 .. n, i # j
                 PROVE  Request[attempts'[a][i].request].proof # Request[attempts'[a][j].request].proof
      OBVIOUS
    <3> DEFINE x == <<a, i>>
               y == <<a, j>>
    <3>1. x \in AllAttempts(attempts') /\ y \in AllAttempts(attempts') /\ x # y
          /\ x[1] = a /\ x[2] = i /\ y[1] = a /\ y[2] = j
      BY <2>3
    <3> HIDE DEF x, y
    <3>2. Request[attempts'[y[1]][y[2]].request].proof # Request[attempts'[x[1]][x[2]].request].proof
      BY <3>1, <1>4 DEF ValidateReservations
    <3> QED BY <3>1, <3>2
  <2>7. \A i \in 1 .. n : Request[attempts'[a][i].request].proof # Request[q].proof
    <3> SUFFICES ASSUME NEW i \in 1 .. n
                 PROVE  Request[attempts'[a][i].request].proof # Request[q].proof
      OBVIOUS
    <3> DEFINE x == <<a, i>>
    <3>1. x \in AllAttempts(attempts) /\ x[1] = a /\ x[2] = i
      BY <2>3
    <3> HIDE DEF x
    <3>2. Request[attempts[x[1]][x[2]].request].proof # Request[q].proof
      BY <3>1 DEF IssueExecutionPermit
    <3> QED BY <3>1, <3>2, <1>8
  <2>8. \A i, j \in 1 .. n + 1 : f[i] = f[j] => i = j
    <3> SUFFICES ASSUME NEW i \in 1 .. n + 1, NEW j \in 1 .. n + 1, i # j, f[i] = f[j] PROVE FALSE
      OBVIOUS
    <3>1. attempts'[a][i].request = attempts'[a][j].request
      OBVIOUS
    <3>2. CASE i \in 1 .. n /\ j \in 1 .. n
      BY <3>1, <3>2, <2>6
    <3>3. CASE i = n + 1
      <4>1. j \in 1 .. n /\ attempts'[a][i].request = q
        BY <3>3, <1>2, <1>6, <1>8
      <4> QED BY <3>1, <4>1, <2>7
    <3>4. CASE j = n + 1
      <4>1. i \in 1 .. n /\ attempts'[a][j].request = q
        BY <3>4, <1>2, <1>6, <1>8
      <4> QED BY <3>1, <4>1, <2>7
    <3>5. \A m \in Nat : \A k \in 1 .. m + 1 : k \in 1 .. m \/ k = m + 1
      OBVIOUS
    <3>6. (i \in 1 .. n \/ i = n + 1) /\ (j \in 1 .. n \/ j = n + 1)
      BY <3>5, <1>2
    <3> QED BY <3>2, <3>3, <3>4, <3>6
  <2> HIDE DEF f
  <2>9. f \in Injection(1 .. n + 1, Requests)
    BY <2>5, <2>8 DEF Injection, IsInjective
  <2>10. Cardinality(1 .. n + 1) <= Cardinality(Requests)
    BY <2>9, RequestsAssumption, FS_Injection
  <2>11. Cardinality(1 .. n + 1) = n + 1
    <3>1. 1 \in Int /\ n + 1 \in Int /\ ~(1 > n + 1) /\ (n + 1) - 1 + 1 = n + 1
      BY <1>2
    <3>2. Cardinality(1 .. n + 1) = IF 1 > n + 1 THEN 0 ELSE (n + 1) - 1 + 1
      BY <3>1, FS_Interval
    <3> QED BY <3>1, <3>2
  <2>12. Len(attempts'[a]) <= Cardinality(Requests)
    BY <1>8, <2>10, <2>11
  <2> QED BY <2>1, <2>12 DEF AttemptsBounded
<1>12. now' \in Times /\ held' \subseteq Requests /\ UNCHANGED <<records, current, invalidated>>
  BY TypeFacts DEF IssueExecutionPermit
<1> QED BY <1>8, <1>9, <1>10, <1>11, <1>12, AttemptsStep

\* validate_snapshot refuses a settled attempt that was made to look withdrawn or
\* expired: the permit transition of a settled attempt is not persisted.
LEMMA SettledNotMoved ==
    ASSUME Inv, NEW a \in Refs, attempts[a] # <<>>, NEW t \in Attempts,
           t.status \in {"Cancelled", "ReconciliationRequired", "Expired"},
           t.receipt = LastAttempt(a).receipt, ValidateReservations(SetLast(a, t))
    PROVE  LastAttempt(a).receipt = None
<1> DEFINE n == Len(attempts[a])
           B == SetLast(a, t)
           x == <<a, n>>
<1>1. attempts \in Reservations /\ n \in Nat /\ n \in 1 .. n
  BY TypeFacts DEF Reservations
<1>2. B = [attempts EXCEPT ![a] = [attempts[a] EXCEPT ![n] = t]]
  BY <1>1 DEF SetLast, Reservations
<1>3. WrittenOver(attempts, B, a, n, t)
  BY <1>1, <1>2, WriteOver
<1> HIDE DEF B
<1>4. B[a][n] = t /\ Len(B[a]) = n
  BY <1>3 DEF WrittenOver
<1>5. n <= Cardinality(Requests) /\ Cardinality(Requests) \in Nat
  BY RequestsAssumption, FS_CardinalityType DEF Inv, AttemptsBounded
<1>6. x \in AllAttempts(B) /\ x[1] = a /\ x[2] = n
  BY <1>1, <1>4, <1>5 DEF AllAttempts
<1>7. ShapeValid(B[x[1]][x[2]])
  <2> HIDE DEF x
  <2> QED BY <1>6 DEF ValidateReservations, B
<1>8. ShapeValid(t)
  BY <1>4, <1>6, <1>7
<1> QED BY <1>8 DEF ShapeValid

\* transition_execution_permit, for a status after which the attempt goes on.
LEMMA TransitionStep ==
    ASSUME Inv, NEW q \in Requests, NEW expected \in Live, NEW next,
           LastAttempt(Request[q].action) \in Attempts =>
               next \in Attempts /\ next.receipt = LastAttempt(Request[q].action).receipt,
           TransitionExecutionPermit(q, expected, next)
    PROVE  Inv'
<1> DEFINE a == Request[q].action
           t == LastAttempt(a)
<1>1. a \in Refs
  BY RequestsAssumption
<1>2. attempts[a] # <<>> /\ t \in Attempts
  <2>1. attempts[a] # <<>> /\ attempts[a] \in Seq(Attempts)
    BY <1>1, TypeFacts DEF TransitionExecutionPermit, Reservations
  <2> QED BY <2>1 DEF LastAttempt
<1>3. UNCHANGED <<records, current, invalidated, now, held>> /\ now' \in Times /\ held' \subseteq Requests
  BY TypeFacts DEF TransitionExecutionPermit
<1>4. ASSUME NEW s \in {"Cancelled", "ReconciliationRequired", "Expired"},
             PersistAttempts(SetLast(a, [t EXCEPT !.status = s]))
      PROVE  Inv'
  <2> DEFINE u == [t EXCEPT !.status = s]
  <2>1. u \in Attempts /\ u.status = s /\ u.receipt = t.receipt
    BY <1>2, AttemptFields, StatusFacts
  <2>2. attempts' = SetLast(a, u) /\ ValidateReservations(SetLast(a, u))
    BY <1>4 DEF PersistAttempts
  <2> HIDE DEF u
  <2>3. u.status \notin Live
    BY <2>1, StatusFacts
  <2>4. t.receipt = None
    BY <1>1, <1>2, <2>1, <2>2, SettledNotMoved
  <2> QED BY <1>1, <1>2, <1>3, <2>1, <2>2, <2>3, <2>4, SetLastStep
<1>5. CASE PersistAttempts(SetLast(a, [t EXCEPT !.status =
                IF t.dispatchedAt = None THEN "Cancelled" ELSE "ReconciliationRequired"]))
  BY <1>4, <1>5
<1>6. CASE PersistAttempts(SetLast(a, [t EXCEPT !.status = "Expired"]))
  BY <1>4, <1>6
<1>7. CASE a \in Effective /\ t.status = expected /\ PersistAttempts(SetLast(a, next))
  <2>1. next \in Attempts /\ next.receipt = t.receipt
    BY <1>2
  <2>2. t.status \notin ReceiptStates
    BY <1>7, StatusFacts
  <2>3. attempts' = SetLast(a, next)
    BY <1>7 DEF PersistAttempts
  <2> QED BY <1>1, <1>2, <1>3, <1>7, <2>1, <2>2, <2>3, SetLastStep
<1> QED BY <1>5, <1>6, <1>7 DEF TransitionExecutionPermit

LEMMA MarkSteps ==
    ASSUME Inv, NEW q \in Requests,
           MarkExecutionPermitDelivered(q) \/ MarkExecutionDispatched(q)
    PROVE  Inv'
<1> DEFINE t == LastAttempt(Request[q].action)
<1>1. CASE MarkExecutionPermitDelivered(q)
  <2> DEFINE next == [t EXCEPT !.status = "Delivered", !.delivered = TRUE]
  <2>1. t \in Attempts => next \in Attempts /\ next.receipt = t.receipt
    BY DEF Attempts, Statuses
  <2>2. TransitionExecutionPermit(q, "PermitIssued", next) /\ "PermitIssued" \in Live
    BY <1>1 DEF MarkExecutionPermitDelivered, Live
  <2> HIDE DEF next
  <2> QED BY <2>1, <2>2, TransitionStep
<1>2. CASE MarkExecutionDispatched(q)
  <2> DEFINE next == [t EXCEPT !.status = "Dispatched", !.dispatchedAt = now]
  <2>1. t \in Attempts => next \in Attempts /\ next.receipt = t.receipt
    BY TypeFacts DEF Attempts, Statuses
  <2>2. TransitionExecutionPermit(q, "Delivered", next) /\ "Delivered" \in Live
    BY <1>2 DEF MarkExecutionDispatched, Live
  <2> HIDE DEF next
  <2> QED BY <2>1, <2>2, TransitionStep
<1> QED BY <1>1, <1>2

LEMMA RecoverStep ==
    ASSUME Inv, NEW a \in Refs, RecoverExecutionPermit(a)
    PROVE  Inv'
<1> DEFINE t == LastAttempt(a)
<1>1. attempts[a] # <<>> /\ t \in Attempts
  <2>1. attempts[a] # <<>> /\ attempts[a] \in Seq(Attempts)
    BY TypeFacts DEF RecoverExecutionPermit, Reservations
  <2> QED BY <2>1 DEF LastAttempt
<1>2. UNCHANGED <<records, current, invalidated, now>> /\ now' \in Times
      /\ t.status \in {"PermitIssued", "Delivered"}
  BY TypeFacts DEF RecoverExecutionPermit
<1>3. CASE attempts' = SetLast(a, [t EXCEPT !.status = "Expired"]) /\ UNCHANGED held
  <2> DEFINE u == [t EXCEPT !.status = "Expired"]
  <2>1. u \in Attempts /\ u.status = "Expired" /\ u.receipt = t.receipt
    BY <1>1, AttemptFields, StatusFacts
  <2> HIDE DEF u
  <2>2. u.status \notin Live /\ t.status \notin ReceiptStates
    BY <1>2, <2>1, StatusFacts DEF Live
  <2>3. attempts' = SetLast(a, u) /\ held' \subseteq Requests
    BY <1>3, TypeFacts DEF u
  <2> QED BY <1>1, <1>2, <2>1, <2>2, <2>3, SetLastStep
<1>4. CASE held' = held \cup {t.request} /\ UNCHANGED attempts
  <2>1. held' \subseteq Requests
    BY <1>1, <1>4, AttemptFields, TypeFacts
  <2> QED BY <1>2, <1>4, <2>1, OutsideStep
<1> QED BY <1>3, <1>4 DEF RecoverExecutionPermit, PersistAttempts

-----------------------------------------------------------------------------
(* Steps that commit a contract.                                           *)

\* The history, the pointers and the invalidated references.
LEMMA InstallStep ==
    ASSUME Inv, NEW r \in Refs, Admissible(r), InstallContract(r)
    PROVE  /\ records' \in Seq(Refs) /\ current' \subseteq Refs /\ invalidated' \subseteq Refs
           /\ Range(records') = Range(records) \cup {r}
           /\ r \notin Range(records) /\ r # None
           /\ ReplayReproducesStore' /\ UniquePointers' /\ EffectiveRestsOnEffective'
<1>1. records \in Seq(Refs) /\ current \subseteq Refs /\ invalidated \subseteq Refs
  BY TypeFacts
<1>2. records' = Append(records, r)
  BY DEF InstallContract
<1>3. records' \in Seq(Refs)
  BY <1>1, <1>2
<1>4. Range(records') = Range(records) \cup {r}
  <2>1. Len(records) \in Nat /\ DOMAIN records = 1 .. Len(records)
        /\ DOMAIN records' = 1 .. Len(records) + 1
        /\ records'[Len(records) + 1] = r
        /\ \A i \in 1 .. Len(records) : records'[i] = records[i]
    BY <1>1, <1>2
  <2>2. \A i \in 1 .. Len(records) : i \in 1 .. Len(records) + 1
    BY <2>1
  <2>3. \A m \in Nat : \A i \in 1 .. m + 1 : i \in 1 .. m \/ i = m + 1
    OBVIOUS
  <2>4. \A i \in 1 .. Len(records) + 1 : i \in 1 .. Len(records) \/ i = Len(records) + 1
    BY <2>1, <2>3
  <2>5. Len(records) + 1 \in 1 .. Len(records) + 1
    BY <2>1
  <2> QED BY <2>1, <2>2, <2>4, <2>5 DEF Range
<1>5. current' \subseteq Refs
  BY <1>1 DEF InstallContract
<1>6. invalidated' \subseteq Refs
  <2>1. \A p : Dependents(p, current, invalidated) \subseteq current
    BY DependentsFacts
  <2> QED BY <2>1, <1>1 DEF InstallContract
<1>7. ReplayReproducesStore'
  BY <1>1, InstallReplays DEF Inv, SnapshotValid
<1>8. UniquePointers'
  BY InstallKeepsPointers DEF Inv
<1>9. EffectiveRestsOnEffective'
  BY <1>1, InstallKeepsEffective DEF Inv
<1>10. r \notin Range(records) /\ r # None
  BY NoneAssumption DEF Admissible
<1> QED BY <1>3, <1>4, <1>5, <1>6, <1>7, <1>8, <1>9, <1>10

\* The attempts that the superseded contract leaves.
LEMMA AttemptsWithoutFacts ==
    ASSUME Inv, NEW r \in Refs, Admissible(r), InstallContract(r)
    PROVE  /\ AttemptsWithout(r) \in Reservations
           /\ \A a \in Refs : Len(AttemptsWithout(r)[a]) = Len(attempts[a])
           /\ Changes(attempts, AttemptsWithout(r), {})
           /\ \A a \in Refs : LastIsLive(AttemptsWithout(r), a) => a \in Effective'
<1> DEFINE previous == Previous(r, current)
           gone == UNION {Dependents(p, current, invalidated) : p \in previous}
           B == AttemptsWithout(r)
<1>1. previous = {} \/ \E p : previous = {p}
  BY AdmissiblePrevious
<1>2. current' = (current \ previous) \cup {r} /\ invalidated' = invalidated \cup gone
  BY DEF InstallContract
<1>3. attempts \in Reservations
  BY TypeFacts
<1>4. CASE previous = {}
  <2>1. B = attempts
    BY <1>4 DEF AttemptsWithout
  <2>2. \A a \in Refs : LastIsLive(attempts, a) => a \in Effective
    BY InvOnAttempts DEF Inv
  <2>3. Effective \subseteq Effective'
    BY <1>2, <1>4 DEF Effective
  <2>4. Changes(attempts, attempts, {})
    BY <1>3 DEF Changes, Reservations
  <2> QED BY <2>1, <2>2, <2>3, <2>4, <1>3
<1>5. ASSUME NEW p, previous = {p}
      PROVE  /\ B \in Reservations
             /\ \A a \in Refs : Len(B[a]) = Len(attempts[a])
             /\ Changes(attempts, B, {})
             /\ \A a \in Refs : LastIsLive(B, a) => a \in Effective'
  <2>1. (CHOOSE x \in previous : TRUE) = p
    BY <1>5
  <2>2. B = WithdrawStale(p, current, invalidated')
    BY <1>2, <1>5, <2>1 DEF AttemptsWithout
  <2>3. /\ B \in Reservations
        /\ \A a \in Refs : Len(B[a]) = Len(attempts[a])
        /\ Changes(attempts, B, {})
        /\ \A a \in Refs : LastIsLive(B, a) => a \in current /\ a # p /\ a \notin invalidated'
    BY <1>3, <2>2, WithdrawStaleFacts
  <2>4. \A a \in Refs : a \in current /\ a # p /\ a \notin invalidated' => a \in Effective'
    BY <1>2, <1>5 DEF Effective
  <2> QED BY <2>3, <2>4
<1> QED BY <1>1, <1>4, <1>5

LEMMA CommitStep ==
    ASSUME Inv, NEW r \in Refs, Commit(r)
    PROVE  Inv'
<1>1. Admissible(r) /\ InstallContract(r) /\ Contract[r].kind # "ExecutionReceipt"
      /\ attempts' = AttemptsWithout(r) /\ UNCHANGED <<now, held>>
  BY DEF Commit, PersistAttempts
<1>2. /\ records' \in Seq(Refs) /\ current' \subseteq Refs /\ invalidated' \subseteq Refs
      /\ Range(records') = Range(records) \cup {r}
      /\ ReplayReproducesStore' /\ UniquePointers' /\ EffectiveRestsOnEffective'
  BY <1>1, InstallStep
<1>3. /\ attempts' \in Reservations
      /\ \A a \in Refs : Len(attempts'[a]) = Len(attempts[a])
      /\ Changes(attempts, attempts', {})
      /\ \A a \in Refs : LastIsLive(attempts', a) => a \in Effective'
  BY <1>1, AttemptsWithoutFacts
<1>4. records \in Seq(Refs) /\ attempts \in Reservations /\ now \in Times /\ held \subseteq Requests
  BY TypeFacts
<1>5. /\ \A s \in Range(records) : SettledIn(attempts, s)
            /\ Contract[s].kind = "ExecutionReceipt" => SettledIn(attempts', s)
      /\ \A x \in AllAttempts(attempts') :
            attempts'[x[1]][x[2]].receipt \in Range(records) \cup {None} \cup {}
  BY <1>3, <1>4, SettledStays DEF Inv
<1>6. ReceiptsSettleAttempts'
  <2>1. \A s \in Range(records) :
            Contract[s].kind = "ExecutionReceipt" => SettledIn(attempts, s)
    BY InvOnAttempts DEF Inv
  <2>2. \A s \in Range(records') :
            Contract[s].kind = "ExecutionReceipt" => SettledIn(attempts', s)
    BY <1>1, <1>2, <1>5, <2>1
  <2> QED BY <2>2, InvOnAttemptsNext
<1>7. AttemptsNameRecords'
  BY <1>2, <1>5 DEF AttemptsNameRecords
<1>8. LiveAttemptRestsOnEffectiveAction'
  BY <1>3, InvOnAttemptsNext
<1>9. SnapshotValid'
  BY <1>1, <1>2, <1>3, <1>4 DEF SnapshotValid, TypeOK, Reservations
<1>10. AttemptsBounded'
  BY <1>3 DEF Inv, AttemptsBounded
<1> QED BY <1>2, <1>6, <1>7, <1>8, <1>9, <1>10 DEF Inv

LEMMA ReceiptStep ==
    ASSUME Inv, NEW r \in Refs, CommitExecutionReceipt(r)
    PROVE  Inv'
<1> DEFINE B == AttemptsWithout(r)
<1>1. Admissible(r) /\ InstallContract(r) /\ Contract[r].kind = "ExecutionReceipt"
      /\ UNCHANGED <<now, held>>
  BY DEF CommitExecutionReceipt
<1>2. PICK x \in ReceiptAttempts(r) :
          /\ attempts[x[1]][x[2]].status \in {"Dispatched", "ReconciliationRequired"}
          /\ attempts' = Settle(B, x, r)
  BY DEF CommitExecutionReceipt, PersistAttempts
<1>3. /\ records' \in Seq(Refs) /\ current' \subseteq Refs /\ invalidated' \subseteq Refs
      /\ Range(records') = Range(records) \cup {r}
      /\ r \notin Range(records) /\ r # None
      /\ ReplayReproducesStore' /\ UniquePointers' /\ EffectiveRestsOnEffective'
  BY <1>1, InstallStep
<1>4. /\ B \in Reservations
      /\ \A a \in Refs : Len(B[a]) = Len(attempts[a])
      /\ Changes(attempts, B, {})
      /\ \A a \in Refs : LastIsLive(B, a) => a \in Effective'
  BY <1>1, AttemptsWithoutFacts
<1> HIDE DEF B
<1>5. records \in Seq(Refs) /\ attempts \in Reservations /\ now \in Times /\ held \subseteq Requests
  BY TypeFacts
<1>6. x \in AllAttempts(attempts) /\ x = <<x[1], x[2]>> /\ x[1] \in Refs /\ x[2] \in 1 .. Len(B[x[1]])
  BY <1>4, <1>5, AllAttemptsFacts DEF ReceiptAttempts
<1> DEFINE a == x[1]
           i == x[2]
           t == [B[a][i] EXCEPT !.status = Contract[r].state, !.receipt = r]
<1>7. B[a][i] \in Attempts /\ B[a] \in Seq(Attempts)
  BY <1>4, <1>6 DEF Reservations
<1>8. Contract[r].state \in ReceiptStates /\ Contract[r].state \in Statuses
  BY <1>1, ReceiptAssumption, StatusFacts
<1>9. t \in Attempts /\ t.status = Contract[r].state /\ t.receipt = r
  BY <1>7, <1>8 DEF Attempts
<1>10. attempts' = [B EXCEPT ![a] = [B[a] EXCEPT ![i] = t]]
  BY <1>2, <1>6 DEF Settle
<1> HIDE DEF t
<1>11. WrittenOver(B, attempts', a, i, t)
  BY <1>4, <1>6, <1>9, <1>10, WriteOver
<1>12. /\ attempts' \in Reservations
       /\ \A b \in Refs : Len(attempts'[b]) = Len(attempts[b]) /\ Len(attempts[b]) \in Nat
       /\ attempts'[a][i] = t
       /\ \A b \in Refs : \A j \in 1 .. Len(attempts[b]) : b # a \/ j # i => attempts'[b][j] = B[b][j]
  <2>1. \A b \in Refs : Len(attempts[b]) \in Nat
    BY <1>5 DEF Reservations
  <2> QED BY <2>1, <1>4, <1>11 DEF WrittenOver
<1>13. Changes(attempts, attempts', {r})
  <2>1. ASSUME NEW b \in Refs, NEW j \in 1 .. Len(attempts[b]),
               attempts[b][j].status \in ReceiptStates, attempts[b][j].receipt # None
        PROVE  attempts'[b][j] = attempts[b][j]
    <3>1. b # a \/ j # i
      BY <2>1, <1>2, StatusFacts DEF Live
    <3>2. B[b][j] = attempts[b][j]
      BY <2>1, <1>4 DEF Changes
    <3> QED BY <3>1, <3>2, <1>12
  <2>2. ASSUME NEW b \in Refs, NEW j \in 1 .. Len(attempts'[b])
        PROVE  \/ attempts'[b][j].receipt \in {None} \cup {r}
               \/ j \in 1 .. Len(attempts[b]) /\ attempts'[b][j].receipt = attempts[b][j].receipt
    <3>1. CASE b = a /\ j = i
      BY <3>1, <1>9, <1>12
    <3>2. CASE b # a \/ j # i
      <4>1. j \in 1 .. Len(attempts[b]) /\ j \in 1 .. Len(B[b])
        BY <1>4, <1>12
      <4>2. attempts'[b][j] = B[b][j]
        BY <3>2, <4>1, <1>12
      <4> QED BY <4>1, <4>2, <1>4 DEF Changes
    <3> QED BY <3>1, <3>2
  <2>3. \A b \in Refs : Len(attempts[b]) <= Len(attempts'[b])
    BY <1>12
  <2> QED BY <2>1, <2>2, <2>3 DEF Changes
<1>14. /\ \A s \in Range(records) : SettledIn(attempts, s)
             /\ Contract[s].kind = "ExecutionReceipt" => SettledIn(attempts', s)
       /\ \A y \in AllAttempts(attempts') :
             attempts'[y[1]][y[2]].receipt \in Range(records) \cup {None} \cup {r}
  BY <1>3, <1>5, <1>12, <1>13, SettledStays DEF Inv
<1>15. SettledIn(attempts', r)
  <2>1. x \in AllAttempts(attempts')
    <3>1. \A b \in Refs : Len(attempts[b]) <= Len(attempts'[b])
      BY <1>12
    <3> QED BY <3>1, <1>5, <1>6, <1>12, AllAttemptsFacts
  <2>2. ASSUME NEW y \in AllAttempts(attempts') \ {x}
        PROVE  attempts'[y[1]][y[2]].receipt # r
    <3>1. y[1] \in Refs /\ y[2] \in 1 .. Len(attempts'[y[1]]) /\ y = <<y[1], y[2]>>
      BY <1>12, AllAttemptsFacts
    <3>2. y[1] # a \/ y[2] # i
      BY <3>1, <1>6, <2>2
    <3>3. y[2] \in 1 .. Len(attempts[y[1]]) /\ y[2] \in 1 .. Len(B[y[1]])
      BY <3>1, <1>4, <1>12
    <3>4. attempts'[y[1]][y[2]] = B[y[1]][y[2]]
      BY <3>1, <3>2, <3>3, <1>12
    <3>5. \/ B[y[1]][y[2]].receipt \in {None} \cup {}
          \/ B[y[1]][y[2]].receipt = attempts[y[1]][y[2]].receipt
      BY <3>1, <3>3, <1>4 DEF Changes
    <3>6. y \in AllAttempts(attempts)
      BY <3>3, <1>5, <1>12, <2>2, AllAttemptsFacts
    <3>7. attempts[y[1]][y[2]].receipt \in Range(records) \cup {None}
      BY <3>6 DEF Inv, AttemptsNameRecords
    <3> QED BY <3>4, <3>5, <3>7, <1>3
  <2> QED BY <2>1, <2>2, <1>9, <1>12 DEF SettledIn
<1>16. ReceiptsSettleAttempts'
  <2>1. \A s \in Range(records) :
            Contract[s].kind = "ExecutionReceipt" => SettledIn(attempts, s)
    BY InvOnAttempts DEF Inv
  <2>2. \A s \in Range(records') :
            Contract[s].kind = "ExecutionReceipt" => SettledIn(attempts', s)
    BY <1>3, <1>14, <1>15, <2>1
  <2> QED BY <2>2, InvOnAttemptsNext
<1>17. AttemptsNameRecords'
  BY <1>3, <1>14 DEF AttemptsNameRecords
<1>18. LiveAttemptRestsOnEffectiveAction'
  <2>1. ASSUME NEW b \in Refs, LastIsLive(attempts', b) PROVE b \in Effective'
    <3> DEFINE n == Len(attempts[b])
    <3>1. n \in Nat /\ Len(attempts'[b]) = n /\ Len(B[b]) = n
      BY <1>4, <1>12
    <3>2. attempts'[b] \in Seq(Attempts) /\ attempts'[b] # <<>> /\ attempts'[b][n].status \in Live
      BY <2>1, <3>1, <1>12 DEF LastIsLive, Reservations
    <3>3. n \in 1 .. n
      BY <3>1, <3>2
    <3>4. b # a \/ n # i
      <4>1. t.status \notin Live
        BY <1>8, <1>9, StatusFacts
      <4> QED BY <4>1, <3>2, <1>12
    <3>5. attempts'[b][n] = B[b][n]
      BY <3>3, <3>4, <1>12
    <3>6. B[b] # <<>>
      BY <3>1, <3>3
    <3>7. LastIsLive(B, b)
      BY <3>1, <3>2, <3>5, <3>6 DEF LastIsLive
    <3> QED BY <3>7, <1>4
  <2> QED BY <2>1, InvOnAttemptsNext
<1>19. SnapshotValid'
  BY <1>1, <1>3, <1>5, <1>12 DEF SnapshotValid, TypeOK, Reservations
<1>20. AttemptsBounded'
  BY <1>12 DEF Inv, AttemptsBounded
<1> QED BY <1>3, <1>16, <1>17, <1>18, <1>19, <1>20 DEF Inv

-----------------------------------------------------------------------------
(* The invariant holds.                                                    *)

LEMMA InitInv == Init => Inv
<1> SUFFICES ASSUME Init PROVE Inv
  OBVIOUS
<1>1. SnapshotValid
  <2>1. records \in Seq(Refs) /\ attempts \in [Refs -> Seq(Attempts)]
    BY DEF Init
  <2>2. now \in Times
    BY BoundsAssumption DEF Init, Times
  <2> QED BY <2>1, <2>2, InitReplay DEF Init, TypeOK, SnapshotValid
<1>2. Range(records) = {}
  BY DEF Init, Range
<1>3. AllAttempts(attempts) = {}
  <2> SUFFICES ASSUME NEW x \in AllAttempts(attempts) PROVE FALSE
    OBVIOUS
  <2>1. x[1] \in Refs /\ x[2] \in 1 .. Len(attempts[x[1]])
    BY <1>1, AllAttemptsFacts DEF SnapshotValid, TypeOK, Reservations
  <2> QED BY <2>1 DEF Init
<1>4. AttemptsBounded
  <2>1. Cardinality(Requests) \in Nat
    BY RequestsAssumption, FS_CardinalityType
  <2> QED BY <2>1 DEF Init, AttemptsBounded
<1>5. UniquePointers /\ EffectiveRestsOnEffective
  BY DEF Init, UniquePointers, EffectiveRestsOnEffective, Effective
<1>6. LiveAttemptRestsOnEffectiveAction
  BY DEF Init, LiveAttemptRestsOnEffectiveAction
<1>7. AttemptsNameRecords /\ ReceiptsSettleAttempts
  BY <1>2, <1>3 DEF AttemptsNameRecords, ReceiptsSettleAttempts
<1> QED BY <1>1, <1>4, <1>5, <1>6, <1>7 DEF Inv

LEMMA NextInv == Inv /\ [Next]_vars => Inv'
<1> SUFFICES ASSUME Inv, [Next]_vars PROVE Inv'
  OBVIOUS
<1>1. ASSUME NEW r \in Refs, Commit(r) PROVE Inv'
  BY <1>1, CommitStep
<1>2. ASSUME NEW r \in Refs, CommitExecutionReceipt(r) PROVE Inv'
  BY <1>2, ReceiptStep
<1>3. ASSUME NEW q \in Requests, NEW reaches \in BOOLEAN, IssueExecutionPermit(q, reaches)
      PROVE  Inv'
  BY <1>3, IssueStep
<1>4. ASSUME NEW q \in Requests, MarkExecutionPermitDelivered(q) PROVE Inv'
  BY <1>4, MarkSteps
<1>5. ASSUME NEW q \in Requests, MarkExecutionDispatched(q) PROVE Inv'
  BY <1>5, MarkSteps
<1>6. ASSUME NEW a \in Refs, RecoverExecutionPermit(a) PROVE Inv'
  BY <1>6, RecoverStep
<1>7. ASSUME NEW q \in Requests, LosePermit(q) PROVE Inv'
  <2>1. held' \subseteq Requests /\ now' \in Times
    BY <1>7, TypeFacts DEF LosePermit
  <2>2. UNCHANGED <<records, current, invalidated, attempts>>
    BY <1>7 DEF LosePermit
  <2> QED BY <2>1, <2>2, OutsideStep
<1>8. CASE Tick
  <2>1. held' \subseteq Requests /\ now' \in Times
    BY <1>8, TypeFacts, BoundsAssumption DEF Tick, Times
  <2>2. UNCHANGED <<records, current, invalidated, attempts>>
    BY <1>8 DEF Tick
  <2> QED BY <2>1, <2>2, OutsideStep
<1>9. CASE UNCHANGED vars
  <2>1. held' \subseteq Requests /\ now' \in Times
    BY <1>9, TypeFacts DEF vars
  <2>2. UNCHANGED <<records, current, invalidated, attempts>>
    BY <1>9 DEF vars
  <2> QED BY <2>1, <2>2, OutsideStep
<1> QED BY <1>1, <1>2, <1>3, <1>4, <1>5, <1>6, <1>7, <1>8, <1>9 DEF Next

\* The inductive invariant holds in every state the store reaches.
THEOREM StoreInvariant == Spec => []Inv
  BY InitInv, NextInv, PTL DEF Spec

\* No operation of FileHumanCenteredContractStoreV1 leaves a snapshot whose
\* history replay_history does not lead to the same pointers and invalidated
\* references.
THEOREM SnapshotStaysValid == Spec => []SnapshotValid
<1>1. Inv => SnapshotValid
  BY DEF Inv
<1> QED BY <1>1, StoreInvariant, PTL

\* What load_current serves rests on what it serves: invalidate_dependents takes
\* along everything derived from a superseded contract.
THEOREM ServedRestsOnServed == Spec => []EffectiveRestsOnEffective
<1>1. Inv => EffectiveRestsOnEffective
  BY DEF Inv
<1> QED BY <1>1, StoreInvariant, PTL

\* reconcile_invalidated_execution_reservations leaves no attempt of a stale
\* Action that could still be delivered, dispatched or settled.
THEOREM LiveAttemptsServed == Spec => []LiveAttemptRestsOnEffectiveAction
<1>1. Inv => LiveAttemptRestsOnEffectiveAction
  BY DEF Inv
<1> QED BY <1>1, StoreInvariant, PTL

\* apply_execution_receipt_transition settles one attempt, and nothing that
\* transition_execution_permit or a later commit does unsettles it.
THEOREM ReceiptsSettle == Spec => []ReceiptsSettleAttempts
<1>1. Inv => ReceiptsSettleAttempts
  BY DEF Inv
<1> QED BY <1>1, StoreInvariant, PTL
=============================================================================
