-------------------------- MODULE ContractLineage --------------------------
(***************************************************************************)
(* The lineage of one Run's records in the Postgres authority, from the    *)
(* admitted input to the assertions of the Human Model: which record       *)
(* depends on which, what a new revision or an invalidation withdraws, and *)
(* what the projection's bindings and the effective view of the Human      *)
(* Model are left with.                                                    *)
(*                                                                         *)
(* A record is <<kind, revision>>; all revisions of a kind share one       *)
(* record_id.  Validity windows are left out: a lapsed record only makes   *)
(* the code refuse commands that are possible here.  Reservation, permit   *)
(* and dispatch are one step here and are modelled in ExecutionAuthority.  *)
(***************************************************************************)
EXTENDS Naturals, FiniteSets, Functions

CONSTANTS
    MaxReissues,    \* bound on the revisions after the first, over all kinds
    Evidence,       \* references to evidence
    MaxEvidence     \* bound on the references a Human Model candidate lists

ASSUME BoundsAssumption == MaxReissues \in Nat /\ MaxEvidence \in Nat \ {0}

Kinds == {"input", "context", "intent", "decision", "turn", "response",
          "action", "admission", "receipt", "outcome", "candidate",
          "promotion", "assertion"}

Revisions == 1 .. MaxReissues + 1
Records == Kinds \X Revisions
EvidenceLists == UNION {[1 .. n -> Evidence] : n \in 0 .. MaxEvidence}

RunStates == {"pending", "running", "waiting", "reconciliation",
              "invalidated", "settled", "rejected", "cancelled"}

BoundKinds == {"decision", "response", "action", "admission", "outcome",
               "candidate", "promotion"}

PromotionOutcomes ==
    {"keep_session", "store_candidate", "reject", "promote_provisional",
     "promote_user_confirmed", "promote_outcome_supported"}

VARIABLES
    run,            \* projection.state; "waiting" is WaitingAuthorization, "settled" is
                    \* Succeeded, Failed or Rejected by a receipt
    rev,            \* rev[k] : revision of projection.records and idr_contract_current, 0 if none
    edges,          \* idr_contract_dependencies : <<dependent, dependency>>
    invalidated,    \* projection.invalidated_records and idr_contract_invalidations
    binding,        \* binding[k] : revision the projection's binding names, 0 for None
    evidence,       \* evidence[r] : evidence_refs of revision r of the candidate
    verdict,        \* verdict[r] : outcome of revision r of the promotion decision
    dispatched,     \* revision of the action that was dispatched, 0 if none
    named,          \* records withdrawn on their own account: InvalidateRecord named
                    \* them, or an admission's proofs failed their recheck
    corrected       \* assertions a correction was accepted for (by the transition function)

vars == <<run, rev, edges, invalidated, binding, evidence, verdict,
          dispatched, named, corrected>>

-----------------------------------------------------------------------------
(* Records and their dependents.                                           *)

Current(k) == <<k, rev[k]>>
Issued == {x \in Records : x[2] <= rev[x[1]]}
Effective(x) == x \in Issued /\ x \notin invalidated
EffectiveNow(k) == rev[k] > 0 /\ Current(k) \notin invalidated
Reissued == Cardinality({x \in Issued : x[2] > 1})

\* Mutant: only the records that depend on the root directly are found.
ClosureOneStep(root) ==
    {root} \cup {e[1] : e \in {d \in edges : d[2] = root}}

\* Mutant: the recursion follows the dependencies, not the dependents.
ClosureOfDependencies(root) ==
    {root} \cup {e[2] : e \in {d \in edges : d[1] = root}}

\* load_recursive_invalidation_closure: the root and whatever depends on it,
\* through any number of dependencies.
Closure(root) ==
    LET reached[n \in 0 .. Cardinality(edges)] ==
          IF n = 0 THEN {root}
          ELSE LET before == reached[n - 1]
               IN  before \cup {e[1] : e \in {d \in edges : d[2] \in before}}
    IN  reached[Cardinality(edges)]

\* Mutant: a binding is compared by its kind's current record, which the new
\* revision has already replaced.
UnbindNothing(b, gone) == b

\* apply_repository_invalidation_closure on the projection's bindings: a
\* binding that names a withdrawn record is dropped; an admission also goes
\* with the action it admits, a candidate with its outcome and a promotion
\* with its candidate or outcome, all of which the closure holds too.
Unbind(b, gone) ==
    [k \in BoundKinds |-> IF <<k, b[k]>> \in gone THEN 0 ELSE b[k]]

\* apply_repository_invalidation_closure on the Run: an execution of a
\* withdrawn action that was dispatched and has no receipt is to be reconciled.
RunAfterClosure(gone) ==
    IF dispatched > 0 /\ rev["receipt"] = 0 /\ <<"action", dispatched>> \in gone
      THEN "reconciliation" ELSE run

Init ==
    /\ run = "pending"
    /\ rev = [k \in Kinds |-> 0]
    /\ edges = {}
    /\ invalidated = {}
    /\ binding = [k \in BoundKinds |-> 0]
    /\ evidence = [r \in Revisions |-> <<>>]
    /\ verdict = [r \in Revisions |-> "keep_session"]
    /\ dispatched = 0
    /\ named = {}
    /\ corrected = {}

\* What issuing a further revision of the kind withdraws: the closure of the
\* revision that is replaced.  An admission replaces nothing: AdmitAction has no
\* expected_candidate_kind, so no record of its kind counts as superseded.
WithdrawnBy(k) ==
    IF rev[k] = 0 \/ k = "admission" THEN {} ELSE Closure(Current(k))

\* persist_contract_dependencies inserts the edge to the previous revision and
\* then one for each dependency; two equal ones violate the primary key.
CanPersist(k, dependencies) == rev[k] = 0 \/ Current(k) \notin dependencies

NextRevision(k) == rev[k] + 1

\* The part every command has that issues a record: the new revision and its
\* edges, and what the revision it replaces takes with it.
Issue(k, dependencies) ==
    LET gone == WithdrawnBy(k)
        new  == <<k, NextRevision(k)>>
    IN  /\ rev[k] > 0 => Reissued < MaxReissues
        /\ CanPersist(k, dependencies)
        /\ rev' = [rev EXCEPT ![k] = new[2]]
        /\ edges' = edges \cup {<<new, d>> : d \in dependencies}
                          \cup (IF rev[k] = 0 THEN {} ELSE {<<new, Current(k)>>})
        /\ invalidated' = invalidated \cup gone
        /\ binding' = Unbind(IF k \in BoundKinds
                               THEN [binding EXCEPT ![k] = new[2]] ELSE binding,
                             gone)

-----------------------------------------------------------------------------
(* Commands up to the execution.                                           *)

\* The Run states in which these commands are allowed.
LiveRun == run \in {"running", "waiting"}

StartRun ==
    /\ run = "pending"
    /\ Issue("input", {})
    /\ run' = "running"
    /\ UNCHANGED <<evidence, verdict, dispatched, named, corrected>>

\* What each of these commands requires to be in force; its record depends on
\* exactly these.
Requires ==
    [context  |-> {"input"},
     intent   |-> {"context"},
     decision |-> {"intent"},
     turn     |-> {"intent", "decision"},
     response |-> {"turn"},
     action   |-> {"turn", "decision"}]

\* RecordContext, RecordIntent, RecordDecision, RecordTurn, RecordResponse and
\* RecordAction.  An action must derive from the bound decision, and takes the
\* admission of its predecessor away.
Record(k) ==
    /\ LiveRun
    /\ \A d \in Requires[k] : EffectiveNow(d)
    /\ k = "action" => binding["decision"] = rev["decision"]
    /\ Issue(k, {Current(d) : d \in Requires[k]})
    /\ run' = RunAfterClosure(WithdrawnBy(k))
    /\ UNCHANGED <<evidence, verdict, dispatched, named, corrected>>

\* RecordIntent with fast_path_outcome "block": the Run is rejected, and no
\* record is issued.
BlockIntent ==
    /\ LiveRun
    /\ EffectiveNow("context")
    /\ run' = "rejected"
    /\ UNCHANGED <<rev, edges, invalidated, binding, evidence, verdict,
                   dispatched, named, corrected>>

\* The admission is bound in place of an earlier one of the same action, whose
\* record stays in force.
AdmitAction ==
    /\ LiveRun
    /\ EffectiveNow("action")
    /\ binding["action"] = rev["action"]
    /\ Issue("admission", {Current("action")})
    /\ UNCHANGED <<run, evidence, verdict, dispatched, named, corrected>>

\* ReserveExecution, DeliverPermit and StartDispatch (see ExecutionAuthority).
Dispatch ==
    /\ LiveRun
    /\ dispatched = 0
    /\ EffectiveNow("action") /\ EffectiveNow("admission")
    /\ binding["admission"] = rev["admission"]
    /\ dispatched' = rev["action"]
    /\ UNCHANGED <<run, rev, edges, invalidated, binding, evidence, verdict,
                   named, corrected>>

\* The receipt of the dispatched action: it is taken though the action was
\* withdrawn meanwhile, and depends on the action that is current now.
CommitExecutionReceipt ==
    /\ run \in {"running", "reconciliation", "invalidated"}
    /\ dispatched > 0
    /\ rev["receipt"] = 0
    /\ Issue("receipt", {Current("action")})
    /\ run' = "settled"
    /\ UNCHANGED <<evidence, verdict, dispatched, named, corrected>>

\* The record goes on its own account, and all that depends on it with it.
Withdraw(x) ==
    /\ invalidated' = invalidated \cup Closure(x)
    /\ binding' = Unbind(binding, Closure(x))
    /\ named' = named \cup {x}

\* InvalidateRecord on a current record that is in force.
InvalidateRecord(k) ==
    /\ LiveRun
    /\ EffectiveNow(k)
    /\ Withdraw(Current(k))
    /\ run' = "invalidated"
    /\ UNCHANGED <<rev, edges, evidence, verdict, dispatched, corrected>>

\* A command that uses the bound admission finds that its proofs no longer hold:
\* the admission is withdrawn, whatever the Run's state is, and a Run whose
\* action was dispatched is to be reconciled.
ActionAdmissionProofFailure ==
    /\ binding["admission"] > 0
    /\ Withdraw(<<"admission", binding["admission"]>>)
    /\ run' = IF dispatched > 0 THEN "reconciliation" ELSE "waiting"
    /\ UNCHANGED <<rev, edges, evidence, verdict, dispatched, corrected>>

CancelRun ==
    /\ LiveRun \/ run \in {"reconciliation", "invalidated"}
    /\ run' = "cancelled"
    /\ UNCHANGED <<rev, edges, invalidated, binding, evidence, verdict,
                   dispatched, named, corrected>>

-----------------------------------------------------------------------------
(* From the receipt to the Human Model.                                    *)

LearningStates == {"running", "reconciliation", "invalidated", "settled",
                   "rejected"}

RecordOutcome ==
    /\ run \in LearningStates
    /\ EffectiveNow("receipt")
    /\ Issue("outcome", {Current("receipt")})
    /\ UNCHANGED <<run, evidence, verdict, dispatched, named, corrected>>

\* Mutant: a reference that occurs twice is counted twice.
ListedEvidence(refs) == Cardinality(DOMAIN refs)

\* How many of the references a candidate lists are different ones.
IndependentEvidence(refs) == Cardinality(Range(refs))

\* The candidate quotes the bound outcome and lists its evidence, at least one.
ProposeHumanModelCandidate(refs) ==
    /\ run \in LearningStates
    /\ binding["outcome"] > 0
    /\ binding["outcome"] = rev["outcome"] /\ EffectiveNow("outcome")
    /\ Range(refs) # {}
    /\ Issue("candidate", {Current("outcome")})
    /\ evidence' = [evidence EXCEPT ![rev'["candidate"]] = refs]
    /\ UNCHANGED <<run, verdict, dispatched, named, corrected>>

\* validate_human_model_promotion: the decision claims as many independent
\* pieces of evidence as the candidate has.
PromotionValid(v, claimed, refs) ==
    /\ v \in PromotionOutcomes
    /\ claimed = IndependentEvidence(refs)
    /\ v = "promote_provisional" => IndependentEvidence(refs) >= 2

RecordHumanModelPromotion(v, claimed) ==
    /\ run \in LearningStates
    /\ EffectiveNow("candidate")
    /\ binding["candidate"] = rev["candidate"]
    /\ PromotionValid(v, claimed, evidence[rev["candidate"]])
    /\ Issue("promotion", {Current("candidate")})
    /\ verdict' = [verdict EXCEPT ![rev'["promotion"]] = v]
    /\ UNCHANGED <<run, evidence, dispatched, named, corrected>>

Promoting == {"promote_provisional", "promote_user_confirmed",
              "promote_outcome_supported"}

\* The decision of this revision allows an assertion.
Materializes(r) == verdict[r] \in Promoting

\* The assertion is materialized from the candidate and takes its lifecycle
\* from the decision.
PromoteHumanModelAssertion ==
    /\ run \in LearningStates
    /\ EffectiveNow("promotion")
    /\ binding["promotion"] = rev["promotion"]
    /\ Materializes(rev["promotion"])
    /\ binding["candidate"] > 0
    /\ Issue("assertion", {Current("promotion")})
    /\ UNCHANGED <<run, evidence, verdict, dispatched, named, corrected>>

\* A correction (or rejection, or deletion) of the current assertion, as its
\* next revision, which depends on the one it corrects.  When its rows cannot
\* be stored the transaction is rolled back.
CorrectHumanModelAssertion ==
    LET dependencies == {Current("assertion")} IN
    /\ run \in LearningStates
    /\ EffectiveNow("assertion")
    /\ corrected' = corrected \cup {Current("assertion")}
    /\ IF CanPersist("assertion", dependencies)
         THEN Issue("assertion", dependencies)
         ELSE UNCHANGED <<rev, edges, invalidated, binding>>
    /\ UNCHANGED <<run, evidence, verdict, dispatched, named>>

Next ==
    \/ StartRun
    \/ \E k \in DOMAIN Requires : Record(k)
    \/ BlockIntent
    \/ AdmitAction
    \/ Dispatch
    \/ CommitExecutionReceipt
    \/ \E k \in Kinds : InvalidateRecord(k)
    \/ ActionAdmissionProofFailure
    \/ CancelRun
    \/ RecordOutcome
    \/ \E refs \in EvidenceLists : ProposeHumanModelCandidate(refs)
    \/ \E v \in PromotionOutcomes, claimed \in 0 .. MaxEvidence :
          RecordHumanModelPromotion(v, claimed)
    \/ PromoteHumanModelAssertion
    \/ CorrectHumanModelAssertion

Spec == Init /\ [][Next]_vars

-----------------------------------------------------------------------------
(* Properties.                                                             *)

\* The tables have their types, and bindings and the execution name revisions
\* that were issued.
TypeOK ==
    /\ run \in RunStates
    /\ rev \in [Kinds -> 0 .. MaxReissues + 1]
    /\ edges \subseteq Records \X Records
    /\ invalidated \subseteq Issued
    /\ \A k \in BoundKinds : binding[k] \in 0 .. rev[k]
    /\ evidence \in [Revisions -> EvidenceLists]
    /\ verdict \in [Revisions -> PromotionOutcomes]
    /\ dispatched \in 0 .. rev["action"]
    /\ named \subseteq Issued
    /\ corrected \subseteq Issued

\* A record's dependencies, its own earlier revision aside.
DependsOn(x) == {e[2] : e \in {d \in edges : d[1] = x /\ d[2][1] # x[1]}}

\* A record in force is the current one of its kind, and all it depends on is
\* in force too: whatever is replaced or invalidated, nothing derived from it
\* stays in force.  There are two exceptions: an admission that a further one of
\* the same action replaced stays in force as long as the action does, and a
\* receipt may outlive its action: it records what has happened.
EffectiveRestsOnEffective ==
    \A x \in Issued \ invalidated :
        /\ x[1] # "admission" => x = Current(x[1])
        /\ x[1] # "receipt" => \A d \in DependsOn(x) : Effective(d)

\* The records in force and the tables that hold them.
LineageInv == TypeOK /\ EffectiveRestsOnEffective

\* Only what has to be is withdrawn: a current record that is not in force was
\* named by InvalidateRecord, is an admission whose proofs failed their recheck,
\* or depends on a record that is not in force.
WithdrawnForCause ==
    \A x \in invalidated :
        \/ x # Current(x[1])
        \/ x \in named
        \/ \E d \in DependsOn(x) : d \in invalidated

\* The projection binds only current records that are in force, so no command
\* builds on a withdrawn decision, admission, outcome, candidate or promotion.
BindingsInForce ==
    \A k \in BoundKinds :
        binding[k] > 0 => binding[k] = rev[k] /\ EffectiveNow(k)

\* The revision of the promotion decision an assertion was materialized from.
PromotionOf(x) == {d \in DependsOn(x) : d[1] = "promotion"}

\* query_effective_human_model_assertions: the current assertion, unless it is
\* invalidated or came from a correction (whose lifecycle is not an active one).
EffectiveView ==
    {x \in {Current("assertion")} : EffectiveNow("assertion") /\ PromotionOf(x) # {}}

\* An assertion in the effective view comes from a decision to promote, on a
\* candidate in force, and a provisional one from a candidate with at least two
\* independent pieces of evidence.
ViewIsGrounded ==
    \A x \in EffectiveView : \A p \in PromotionOf(x) :
        /\ verdict[p[2]] \in Promoting
        /\ \A c \in DependsOn(p) :
              /\ Effective(c)
              /\ verdict[p[2]] = "promote_provisional" =>
                    \E i, j \in DOMAIN evidence[c[2]] :
                        evidence[c[2]][i] # evidence[c[2]][j]

\* "User correction, rejection and deletion must produce an immutable event and
\* change the effective view": an assertion whose correction was accepted is
\* not in the effective view.
CorrectionChangesView == corrected \cap EffectiveView = {}
=============================================================================
