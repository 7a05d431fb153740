--------------------------- MODULE ContractStore ---------------------------
(***************************************************************************)
(* What FileHumanCenteredContractStoreV1 keeps in its snapshot: the        *)
(* history of contracts, the pointer to the current revision of each, the  *)
(* references invalidated because something they rest on was superseded,   *)
(* and the execution reservations with their attempts.  Each operation     *)
(* runs under the store's lock from load to persist, so it is one step     *)
(* here; SnapshotStore has the files.                                      *)
(*                                                                         *)
(* Contracts are given: a reference stands for one contract with its exact *)
(* contents (the digest is part of the reference), and Contract says what  *)
(* its metadata and body hold.  Permit requests are given the same way: a  *)
(* request stands for one verified, signed request.                        *)
(***************************************************************************)
EXTENDS Naturals, Sequences, SequencesExt, FiniteSets

CONSTANTS
    Refs,           \* contract references
    Contract,       \* [Refs -> the contract's contents]
    Requests,       \* verified execution permit requests
    Request,        \* [Requests -> the request's contents]
    MaxTime,        \* bound: the clock stops here
    None

ASSUME BoundsAssumption == MaxTime \in Nat \ {0}

ASSUME RequestsAssumption ==
    /\ IsFiniteSet(Requests)
    /\ \A q \in Requests : Request[q].action \in Refs

ASSUME NoneAssumption == None \notin Refs

VARIABLES
    records,        \* the history, a sequence of references
    current,        \* the current pointers, one per kind and contract id
    invalidated,    \* invalidated references
    attempts,       \* [Refs -> the attempts of the Action's reservation]
    now,            \* the trusted clock
    held            \* requests whose permit is in an executor's hands

vars == <<records, current, invalidated, attempts, now, held>>

Kinds == {"Intent", "Decision", "TurnCoordination", "Response", "Action",
          "ExecutionReceipt", "Outcome", "HumanModelAssertion"}

ReceiptStates == {"Succeeded", "Failed", "PartiallySucceeded", "Rejected", "Compensated"}

\* A receipt says how its execution ended.
ASSUME ReceiptAssumption ==
    \A r \in Refs : Contract[r].kind = "ExecutionReceipt" => Contract[r].state \in ReceiptStates

Statuses == ReceiptStates \cup {"PermitIssued", "Delivered", "Dispatched", "Cancelled",
                               "ReconciliationRequired", "Expired"}

PermitsRetry == {"Failed", "Rejected", "Expired"}

Times == 1..MaxTime

Attempts == [request : Requests, status : Statuses, delivered : BOOLEAN,
             dispatchedAt : Times \cup {None}, receipt : Refs \cup {None}]

\* Every variable has its type: the status of an attempt is one of the code's.
TypeOK ==
    /\ records \in Seq(Refs)
    /\ current \subseteq Refs
    /\ invalidated \subseteq Refs
    /\ attempts \in [Refs -> Seq(Attempts)]
    /\ now \in Times
    /\ held \subseteq Requests

Init ==
    /\ records = <<>>
    /\ current = {} /\ invalidated = {}
    /\ attempts = [a \in Refs |-> <<>>]
    /\ now = 1
    /\ held = {}

-----------------------------------------------------------------------------
(* Contracts *)

SameLineage(r, s) == Contract[r].kind = Contract[s].kind /\ Contract[r].id = Contract[s].id

\* Which kinds a contract of each kind names in its body.
MayName ==
    [k \in Kinds |->
        CASE k = "Decision" -> {"Intent"}
          [] k = "TurnCoordination" -> {"Response", "Action"}
          [] k = "Response" -> {"Intent", "Decision", "Action", "ExecutionReceipt", "Outcome"}
          [] k = "Action" -> {"Decision"}
          [] k = "ExecutionReceipt" -> {"Action"}
          [] k = "Outcome" -> {"Decision", "Action", "ExecutionReceipt"}
          [] k = "Intent" -> {"HumanModelAssertion"}
          [] OTHER -> {}]

Named(r, kind) == {n \in Contract[r].names : Contract[n].kind = kind}

\* HumanCenteredContractMetadataV1::validate.  A successor may depend on its
\* own predecessor, and on whatever rests on it.
MetadataValid(r) ==
    LET c == Contract[r]
        p == c.predecessor
    IN /\ c.revision >= 1
       /\ IF p = None THEN c.revision = 1
                      ELSE SameLineage(p, r) /\ Contract[p].revision + 1 = c.revision
       /\ \A d \in c.dependencies : Contract[d].id = c.id => Contract[d].revision < c.revision

\* What validate() of each kind asks of the contracts its body names: each is a
\* dependency, and of a kind the body may name.
NamesValid(r) ==
    /\ Contract[r].names \subseteq Contract[r].dependencies
    /\ \A n \in Contract[r].names : Contract[n].kind \in MayName[Contract[r].kind]

DecisionValid(r) == Cardinality(Named(r, "Intent")) = 1

\* TurnCoordinationPlanV1::validate; TurnPlan has the checks on its groups.
PlanValid(r) == Named(r, "Response") # {}

\* A response given before the Action cannot report what came of it.
ResponseValid(r) ==
    /\ Contract[r].names # {}
    /\ Contract[r].preAction => Named(r, "ExecutionReceipt") \cup Named(r, "Outcome") = {}

ActionValid(r) ==
    LET c == Contract[r] IN
    /\ Cardinality(Named(r, "Decision")) <= 1
    /\ c.highImpact => ~c.automatic
    /\ c.highImpact \/ ~c.reversible => Named(r, "Decision") # {}

ReceiptValid(r) ==
    /\ Cardinality(Named(r, "Action")) = 1
    /\ Contract[r].started <= Contract[r].completed

OutcomeValid(r) ==
    /\ \A k \in MayName["Outcome"] : Cardinality(Named(r, k)) <= 1
    /\ Named(r, "Decision") \cup Named(r, "Action") # {}
    /\ Named(r, "ExecutionReceipt") # {} => Named(r, "Action") # {}

BodyValid(r) ==
    CASE Contract[r].kind = "Decision" -> DecisionValid(r)
      [] Contract[r].kind = "TurnCoordination" -> PlanValid(r)
      [] Contract[r].kind = "Response" -> ResponseValid(r)
      [] Contract[r].kind = "Action" -> ActionValid(r)
      [] Contract[r].kind = "ExecutionReceipt" -> ReceiptValid(r)
      [] Contract[r].kind = "Outcome" -> OutcomeValid(r)
      [] OTHER -> TRUE

Valid(r) == MetadataValid(r) /\ NamesValid(r) /\ BodyValid(r)

\* The pointer of r's kind and id, if there is one.
Previous(r, pointers) == {p \in pointers : SameLineage(p, r)}

\* What load_current serves: current and not invalidated.
Effective == current \ invalidated

-----------------------------------------------------------------------------
(* Invalidation *)

\* X has every pointer that rests on `stale` or on a member of X.
ClosedOver(X, pointers, stale) ==
    \A p \in pointers :
        (\E s \in X \cup {stale} : ~SameLineage(p, s) /\ s \in Contract[p].dependencies) => p \in X

\* Mutant: the search stops at the direct dependents.
DirectDependents(stale, pointers, invalid) ==
    {p \in pointers \ invalid : stale \in Contract[p].dependencies}

\* The breadth-first search of invalidate_dependents: the pointers, not yet
\* invalidated, that rest on `stale`, directly or through one another.
Dependents(stale, pointers, invalid) ==
    LET open == pointers \ invalid
        closed == {X \in SUBSET open : ClosedOver(X, open, stale)}
    IN {p \in open : \A X \in closed : p \in X}

\* An attempt whose Action is no longer current.
Withdraw(attempt) ==
    CASE attempt.status \in {"PermitIssued", "Delivered"} -> [attempt EXCEPT !.status = "Cancelled"]
      [] attempt.status = "Dispatched" -> [attempt EXCEPT !.status = "ReconciliationRequired"]
      [] OTHER -> attempt

\* Mutant: only the superseded Action itself is looked at.
WithdrawSuperseded(stale, pointers, invalid) ==
    [attempts EXCEPT ![stale] =
        IF @ = <<>> THEN @ ELSE [@ EXCEPT ![Len(@)] = Withdraw(@)]]

\* invalidate_execution_reservation for the superseded Action itself, then
\* reconcile_invalidated_execution_reservations for every other stale one.
WithdrawStale(stale, pointers, invalid) ==
    [a \in Refs |->
        IF attempts[a] # <<>> /\ (a = stale \/ a \notin pointers \/ a \in invalid)
        THEN [attempts[a] EXCEPT ![Len(attempts[a])] = Withdraw(@)]
        ELSE attempts[a]]

-----------------------------------------------------------------------------
(* Attempts *)

LastAttempt(a) == attempts[a][Len(attempts[a])]

AllAttempts(reservations) ==
    {x \in Refs \X (1..Cardinality(Requests)) : x[2] <= Len(reservations[x[1]])}

\* Mutant: the shape of an expired attempt is not looked at.
ExpiredUnchecked(t) ==
    CASE t.status = "PermitIssued" -> ~t.delivered /\ t.dispatchedAt = None /\ t.receipt = None
      [] t.status = "Delivered" -> t.delivered /\ t.dispatchedAt = None /\ t.receipt = None
      [] t.status \in {"Dispatched", "ReconciliationRequired"} ->
            t.delivered /\ t.dispatchedAt # None /\ t.receipt = None
      [] t.status = "Expired" -> TRUE
      [] t.status = "Cancelled" -> t.dispatchedAt = None /\ t.receipt = None
      [] OTHER -> t.delivered /\ t.dispatchedAt # None /\ t.receipt # None

\* Which times and references an attempt has in each status.
ShapeValid(t) ==
    CASE t.status = "PermitIssued" -> ~t.delivered /\ t.dispatchedAt = None /\ t.receipt = None
      [] t.status = "Delivered" -> t.delivered /\ t.dispatchedAt = None /\ t.receipt = None
      [] t.status \in {"Dispatched", "ReconciliationRequired"} ->
            t.delivered /\ t.dispatchedAt # None /\ t.receipt = None
      [] t.status = "Expired" -> t.receipt = None
      [] t.status = "Cancelled" -> t.dispatchedAt = None /\ t.receipt = None
      [] OTHER -> t.delivered /\ t.dispatchedAt # None /\ t.receipt # None

\* The part of validate_snapshot about reservations; every operation runs it on
\* its candidate before it persists it.
ValidateReservations(reservations) ==
    /\ \A x \in AllAttempts(reservations) :
        LET t == reservations[x[1]][x[2]] IN
        /\ Request[t.request].attempt = x[2]
        /\ Request[t.request].action = x[1]
        /\ ShapeValid(t)
        /\ x[2] < Len(reservations[x[1]]) => t.status \in PermitsRetry
        /\ \A y \in AllAttempts(reservations) \ {x} :
            LET u == reservations[y[1]][y[2]] IN
            /\ Request[u.request].proof # Request[t.request].proof
            /\ Request[u.request].authorization # Request[t.request].authorization
    /\ \A a, b \in Refs :
        a # b /\ reservations[a] # <<>> /\ reservations[b] # <<>>
            => Contract[a].scope # Contract[b].scope

\* The candidate is persisted if it validates; otherwise the operation fails
\* with CorruptSnapshot and nothing changes.
PersistAttempts(candidate) ==
    /\ ValidateReservations(candidate)
    /\ attempts' = candidate

SetLast(a, t) == [attempts EXCEPT ![a][Len(attempts[a])] = t]

\* The lease, the proof or the authorization has run out.
RunOut(q) ==
    \/ now >= Request[q].leaseUntil
    \/ now >= Request[q].proofExpiresAt
    \/ now >= Request[q].approvalExpiresAt

-----------------------------------------------------------------------------
(* Committing contracts *)

\* validate_cross_object_consistency against the records so far.
CrossObjectConsistent(r) ==
    LET c == Contract[r] IN
    /\ \A n \in c.names \ Named(r, "HumanModelAssertion") :
        n \in Range(records) /\ Contract[n].context = c.context
    /\ c.kind = "Action" =>
        \A d \in Named(r, "Decision") :
            /\ Contract[d].authority \subseteq c.authority
            /\ c.automatic => c.scope \in Contract[d].mayAutomate
    /\ c.kind = "Outcome" =>
        /\ \A a \in Named(r, "Action"), d \in Named(r, "Decision") : Named(a, "Decision") = {d}
        /\ \A e \in Named(r, "ExecutionReceipt") :
            /\ Named(e, "Action") = Named(r, "Action")
            /\ Contract[e].state \in {"Failed", "Rejected"} => ~c.satisfied

\* The attempt a receipt is for: same Action, permit, authorization and number.
ReceiptAttempts(r) ==
    {x \in AllAttempts(attempts) :
        x[1] \in Named(r, "Action") /\ attempts[x[1]][x[2]].request = Contract[r].request}

\* The checks of commit_internal that do not depend on the kind.
Admissible(r) ==
    LET previous == Previous(r, current) IN
    /\ Valid(r)
    /\ r \notin Range(records)
    /\ IF previous = {}
       THEN Contract[r].revision = 1 /\ Contract[r].predecessor = None
       ELSE previous = {Contract[r].predecessor}
    /\ \A p \in previous : Contract[p].context = Contract[r].context
    /\ Contract[r].dependencies \subseteq Effective \cap Range(records)
    /\ CrossObjectConsistent(r)

\* Mutant: the pointer is replaced before the dependents are looked for.
InstallThenInvalidate(r) ==
    LET previous == Previous(r, current)
        pointers == (current \ previous) \cup {r}
    IN /\ records' = Append(records, r)
       /\ current' = pointers
       /\ invalidated' = invalidated
                \cup UNION {Dependents(p, pointers, invalidated) : p \in previous}

\* replace_pointer, and the invalidation that a predecessor brings.
InstallContract(r) ==
    LET previous == Previous(r, current) IN
    /\ records' = Append(records, r)
    /\ current' = (current \ previous) \cup {r}
    /\ invalidated' = invalidated
            \cup UNION {Dependents(p, current, invalidated) : p \in previous}

\* The attempts after the invalidation that r's commit brings.
AttemptsWithout(r) ==
    LET previous == Previous(r, current)
        invalid == invalidated \cup UNION {Dependents(p, current, invalidated) : p \in previous}
    IN IF previous = {} THEN attempts
                        ELSE WithdrawStale(CHOOSE p \in previous : TRUE, current, invalid)

Commit(r) ==
    /\ Contract[r].kind # "ExecutionReceipt"
    /\ Admissible(r)
    /\ InstallContract(r)
    /\ PersistAttempts(AttemptsWithout(r))
    /\ UNCHANGED <<now, held>>

\* apply_execution_receipt_transition.
Settle(reservations, x, r) ==
    [reservations EXCEPT ![x[1]][x[2]] =
        [@ EXCEPT !.status = Contract[r].state, !.receipt = r]]

CommitExecutionReceipt(r) ==
    /\ Contract[r].kind = "ExecutionReceipt"
    /\ Contract[r].completed <= now /\ now < Contract[r].proofExpiresAt
    /\ Admissible(r)
    /\ \E x \in ReceiptAttempts(r) :
        LET t == attempts[x[1]][x[2]] IN
        /\ t.status \in {"Dispatched", "ReconciliationRequired"}
        /\ t.dispatchedAt <= Contract[r].started
        /\ Contract[r].started < Request[t.request].leaseUntil
        /\ PersistAttempts(Settle(AttemptsWithout(r), x, r))
    /\ ~\E e \in Range(records) :
        /\ Contract[e].kind = "ExecutionReceipt"
        /\ Named(e, "Action") = Named(r, "Action")
        /\ Request[Contract[e].request].attempt = Request[Contract[r].request].attempt
    /\ InstallContract(r)
    /\ UNCHANGED <<now, held>>

-----------------------------------------------------------------------------
(* Permits *)

\* ExecutionPermitRequestV1::validate_for and verify_execution_permit_request.
RequestValid(q) ==
    LET s == Request[q] IN
    /\ s.attempt >= 1
    /\ s.leaseIssuedAt < s.leaseUntil
    /\ s.leaseUntil <= s.approvalExpiresAt
    /\ s.leaseUntil <= Contract[s.action].validUntil
    /\ s.leaseUntil <= s.proofExpiresAt

\* VerifiedExecutionPermitRequestV1::validate_at the store's time.
RequestValidNow(q) ==
    /\ RequestValid(q)
    /\ now >= Request[q].leaseIssuedAt
    /\ ~RunOut(q)
    /\ now < Contract[Request[q].action].validUntil

\* issue_execution_permit: the first attempt of a reservation, or the next one
\* after an attempt that permits a retry.  `reaches` tells whether the permit
\* comes back to the executor or the reply is lost after the snapshot is written.
IssueExecutionPermit(q, reaches) ==
    LET a == Request[q].action IN
    /\ Contract[a].kind = "Action" /\ a \in Effective
    /\ RequestValidNow(q)
    /\ \A x \in AllAttempts(attempts) :
        LET s == Request[attempts[x[1]][x[2]].request] IN
        s.proof # Request[q].proof /\ s.authorization # Request[q].authorization
    /\ \A b \in Refs \ {a} : attempts[b] # <<>> => Contract[b].scope # Contract[a].scope
    /\ attempts[a] # <<>> => LastAttempt(a).status \in PermitsRetry
    /\ Request[q].attempt = Len(attempts[a]) + 1
    /\ PersistAttempts([attempts EXCEPT ![a] =
            Append(@, [request |-> q, status |-> "PermitIssued", delivered |-> FALSE,
                       dispatchedAt |-> None, receipt |-> None])])
    /\ held' = IF reaches THEN held \cup {q} ELSE held
    /\ UNCHANGED <<records, current, invalidated, now>>

\* transition_execution_permit, for a permit that matches the last attempt.  A
\* stale Action or a lease that has run out is recorded whatever the status is.
TransitionExecutionPermit(q, expected, next) ==
    LET a == Request[q].action
        t == LastAttempt(a)
    IN /\ q \in held
       /\ attempts[a] # <<>> /\ t.request = q
       /\ \/ /\ a \notin Effective
             /\ PersistAttempts(SetLast(a, [t EXCEPT !.status =
                    IF t.dispatchedAt = None THEN "Cancelled" ELSE "ReconciliationRequired"]))
          \/ /\ a \in Effective /\ RunOut(q)
             /\ PersistAttempts(SetLast(a, [t EXCEPT !.status = "Expired"]))
          \/ /\ a \in Effective /\ ~RunOut(q)
             /\ t.status = expected
             /\ PersistAttempts(SetLast(a, next))
       /\ UNCHANGED <<records, current, invalidated, now, held>>

MarkExecutionPermitDelivered(q) ==
    TransitionExecutionPermit(q, "PermitIssued",
        [LastAttempt(Request[q].action) EXCEPT !.status = "Delivered", !.delivered = TRUE])

MarkExecutionDispatched(q) ==
    TransitionExecutionPermit(q, "Delivered",
        [LastAttempt(Request[q].action) EXCEPT !.status = "Dispatched", !.dispatchedAt = now])

\* recover_execution_permit: a permit lost before dispatch comes back, or its
\* attempt is recorded as expired.
RecoverExecutionPermit(a) ==
    LET t == LastAttempt(a) IN
    /\ attempts[a] # <<>>
    /\ t.status \in {"PermitIssued", "Delivered"}
    /\ IF RunOut(t.request)
       THEN PersistAttempts(SetLast(a, [t EXCEPT !.status = "Expired"])) /\ UNCHANGED held
       ELSE held' = held \cup {t.request} /\ UNCHANGED attempts
    /\ UNCHANGED <<records, current, invalidated, now>>

\* The executor stops with a permit in its memory.
LosePermit(q) ==
    /\ q \in held
    /\ held' = held \ {q}
    /\ UNCHANGED <<records, current, invalidated, attempts, now>>

Tick ==
    /\ now < MaxTime
    /\ now' = now + 1
    /\ UNCHANGED <<records, current, invalidated, attempts, held>>

Next ==
    \/ \E r \in Refs : Commit(r) \/ CommitExecutionReceipt(r)
    \/ \E q \in Requests, reaches \in BOOLEAN : IssueExecutionPermit(q, reaches)
    \/ \E q \in Requests : MarkExecutionPermitDelivered(q)
    \/ \E q \in Requests : MarkExecutionDispatched(q)
    \/ \E a \in Refs : RecoverExecutionPermit(a)
    \/ \E q \in Requests : LosePermit(q)
    \/ Tick

Spec == Init /\ [][Next]_vars

-----------------------------------------------------------------------------
(* What the store promises *)

ClosedUnderDependencies == {X \in SUBSET Refs : \A z \in X : Contract[z].dependencies \subseteq X}

\* Everything x rests on, x included.
RestsOn(x) == {y \in Refs : \A X \in ClosedUnderDependencies : x \in X => y \in X}

\* A contract that load_current serves rests on contracts it serves: whatever is
\* superseded takes with it, in the same step, everything that was derived from
\* it.  The exception is a successor that takes as a dependency its own
\* predecessor, or a contract derived from it: commit_internal looks at the
\* dependencies before invalidate_dependents runs.
EffectiveRestsOnEffective ==
    \A p \in Effective : \A d \in Contract[p].dependencies :
        d \in Effective \/ Contract[p].predecessor \in RestsOn(d)

\* replay_history: the pointers and invalidated references that the records,
\* taken one after the other, lead to.
Replay ==
    LET Replayed[n \in 0..Len(records)] ==
            IF n = 0 THEN [current |-> {}, invalidated |-> {}]
            ELSE LET before == Replayed[n - 1]
                     previous == Previous(records[n], before.current)
                 IN [current |-> (before.current \ previous) \cup {records[n]},
                     invalidated |-> before.invalidated \cup
                        UNION {Dependents(p, before.current, before.invalidated) : p \in previous}]
    IN Replayed[Len(records)]

\* replay_history over the records gives the pointers and the invalidated
\* references again: validate_snapshot refuses a snapshot for which it does not,
\* so no operation may leave one behind.
ReplayReproducesStore == Replay = [current |-> current, invalidated |-> invalidated]

\* What validate_snapshot demands of the contents: an operation never leaves a
\* snapshot that the next one would find corrupt.
SnapshotValid == TypeOK /\ ReplayReproducesStore

\* As soon as an Action is superseded, or anything it rests on is, no attempt of
\* it is left that could be delivered or dispatched; one that was dispatched before
\* is to be reconciled.
LiveAttemptRestsOnEffectiveAction ==
    \A a \in Refs :
        attempts[a] # <<>> /\ LastAttempt(a).status \in {"PermitIssued", "Delivered", "Dispatched"}
            => a \in Effective

\* Every receipt in the history settles one attempt, and what it says is still
\* what that attempt records: a permit presented again after its receipt, past its
\* lease or with its Action superseded, changes nothing.
ReceiptsSettleAttempts ==
    \A r \in Range(records) :
        Contract[r].kind = "ExecutionReceipt" =>
            \E x \in AllAttempts(attempts) :
                /\ attempts[x[1]][x[2]].receipt = r
                /\ attempts[x[1]][x[2]].status = Contract[r].state
                /\ \A y \in AllAttempts(attempts) \ {x} : attempts[y[1]][y[2]].receipt # r

\* An attempt that was dispatched is followed by another only once its receipt
\* tells what became of it.
DispatchedNotRepeated ==
    \A x \in AllAttempts(attempts) :
        x[2] < Len(attempts[x[1]]) =>
            LET t == attempts[x[1]][x[2]] IN t.dispatchedAt = None \/ t.receipt # None
=============================================================================
