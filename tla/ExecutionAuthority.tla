------------------------- MODULE ExecutionAuthority -------------------------
(***************************************************************************)
(* The execution authority of one IDR Run: how an Action is recorded,      *)
(* admitted under a bundle of signed proofs, reserved, delivered,          *)
(* dispatched and closed by a Receipt, while the trusted clock advances,   *)
(* the trust root revokes keys, upstream contracts are superseded or       *)
(* invalidated, and another Run may take the idempotency key first.        *)
(*                                                                         *)
(* One action is one command handled by                                    *)
(* PostgresIdrOrchestratorV1::transact_inner: the bound-proof recheck, the *)
(* semantic transition of trust_chain.rs, the invalidation closure, and    *)
(* the execution tables with the triggers that may refuse the commit.  A   *)
(* command that is refused writes nothing, so it is no step at all.        *)
(*                                                                         *)
(* Abstractions.  The contracts above the Action (Input, Context, Intent,  *)
(* Decision, Turn) are one flag, planValid.  The five proofs of an         *)
(* Admission are one bundle: the key that signs the proof first revoked,   *)
(* and the first expiry.  Aggregate versions, command ids, principals and  *)
(* digests are left to CommandLedger.                                      *)
(***************************************************************************)
EXTENDS Naturals

CONSTANTS
    Keys,             \* idempotency keys of the Run's operation
    NoKey,            \* the key field of the null records
    Signers,          \* trust-root keys that sign Admission proofs
    NoSigner,         \* the signer field of the null records
    MaxTime,          \* bound on the trusted clock
    MaxActions,       \* bound on Action revisions
    MaxAdmissions,    \* bound on Action Admission revisions
    MaxReservations,  \* bound on execution Reservations
    MaxAttempts       \* bound on attempts of one Reservation

ASSUME BoundsAreNaturals ==
    /\ MaxTime \in Nat
    /\ MaxActions \in Nat
    /\ MaxAdmissions \in Nat
    /\ MaxReservations \in Nat
    /\ MaxAttempts \in Nat

ASSUME NullsAreNull == NoKey \notin Keys /\ NoSigner \notin Signers

VARIABLES
    now,          \* trusted clock of the database
    revoked,      \* keys revoked by the current trust root
    foreignKeys,  \* idempotency keys fenced by other Runs
    runState,     \* projection.state
    planValid,    \* are Turn and Decision current and valid
    actionRev,    \* revision of the current Action record, 0 if none
    actionUntil,  \* its valid_until
    invalidated,  \* Action revisions in projection.invalidated_records
    admissionRev, \* revision of the newest Action Admission record
    admission,    \* projection.action_admission
    execution,    \* projection.execution
    fences,       \* idr_operation_idempotency_fences: key -> Reservation
    reservations, \* idr_execution_reservations
    attempts,     \* idr_execution_attempts
    receipts      \* idr_execution_receipts: <<Reservation, attempt>>

envVars    == <<now, revoked, foreignKeys>>
actionVars == <<planValid, actionRev, actionUntil, invalidated>>
admVars    == <<admissionRev, admission>>
tableVars  == <<fences, reservations, attempts, receipts>>
vars == <<now, revoked, foreignKeys, runState, planValid, actionRev,
          actionUntil, invalidated, admissionRev, admission, execution,
          fences, reservations, attempts, receipts>>

-----------------------------------------------------------------------------
(* Types.                                                                  *)

\* The states a transition assigns; WaitingInput, WaitingDependency and
\* TimedOut are declared by the code and assigned by no command.  Pending is
\* left by StartRun before the first state of this module.
RunState == {"running", "waiting_authorization", "reconciliation_required",
             "succeeded", "rejected", "failed", "cancelled", "invalidated"}

\* "none" stands for an absent execution.  reservation_created and
\* awaiting_provider are declared and assigned by no command.
ExecState == {"none", "permit_issued", "permit_delivered",
              "dispatch_started", "reconciliation_required", "succeeded",
              "failed", "rejected", "compensated", "cancelled", "expired"}

Terminal == {"succeeded", "failed", "rejected", "compensated", "cancelled",
             "expired"}
PreDispatch == {"permit_issued", "permit_delivered"}
ReceiptStates == {"succeeded", "failed", "rejected", "compensated"}
InFlight == {"dispatch_started", "reconciliation_required"}
CrossedDispatch == InFlight \cup ReceiptStates

Time == 0 .. MaxTime
Reservation == 1 .. MaxReservations
Attempt == 1 .. MaxAttempts

Admission ==
    [rev : 0 .. MaxAdmissions, action : 0 .. MaxActions,
     key : Keys \cup {NoKey}, signer : Signers \cup {NoSigner},
     proofsUntil : Time, until : Time]
NoAdmission ==
    [rev |-> 0, action |-> 0, key |-> NoKey, signer |-> NoSigner,
     proofsUntil |-> 0, until |-> 0]

Execution ==
    [state : ExecState, reservation : 0 .. MaxReservations,
     attempt : 0 .. MaxAttempts, action : 0 .. MaxActions,
     admission : 0 .. MaxAdmissions, key : Keys \cup {NoKey},
     signer : Signers \cup {NoSigner}, until : Time, lease : Time]
NoExecution ==
    [state |-> "none", reservation |-> 0, attempt |-> 0, action |-> 0,
     admission |-> 0, key |-> NoKey, signer |-> NoSigner, until |-> 0,
     lease |-> 0]

ReservationRow ==
    [state : ExecState, action : 0 .. MaxActions,
     admission : 0 .. MaxAdmissions, key : Keys \cup {NoKey}]
NoReservation ==
    [state |-> "none", action |-> 0, admission |-> 0, key |-> NoKey]

AttemptRow == [state : ExecState, started : BOOLEAN]
NoAttempt == [state |-> "none", started |-> FALSE]

\* Every variable has its type; the tables are total functions whose absent
\* rows carry the state "none".
TypeOK ==
    /\ now \in Time
    /\ revoked \in SUBSET Signers
    /\ foreignKeys \in SUBSET Keys
    /\ runState \in RunState
    /\ planValid \in BOOLEAN
    /\ actionRev \in 0 .. MaxActions
    /\ actionUntil \in Time
    /\ invalidated \in SUBSET (1 .. MaxActions)
    /\ admissionRev \in 0 .. MaxAdmissions
    /\ admission \in Admission
    /\ execution \in Execution
    /\ fences \in [Keys -> 0 .. MaxReservations]
    /\ reservations \in [Reservation -> ReservationRow]
    /\ attempts \in [Reservation \X Attempt -> AttemptRow]
    /\ receipts \in SUBSET (Reservation \X Attempt)

-----------------------------------------------------------------------------
(* The database: the execution tables and the triggers that guard them.    *)

\* Mutant: the migration lets a reconciliation be cancelled.
TransitionLoosened(old, new, governance) ==
    \/ old = new
    \/ old = "permit_issued"
         /\ new \in {"permit_delivered", "expired", "cancelled"}
    \/ old = "permit_delivered"
         /\ new \in {"dispatch_started", "expired", "cancelled"}
    \/ old = "dispatch_started"
         /\ new \in ReceiptStates \cup {"reconciliation_required"}
    \/ old = "reconciliation_required"
         /\ new \in ReceiptStates \cup {"cancelled"}
    \/ old \in {"failed", "rejected", "expired"} /\ new = "permit_issued"
    \/ governance /\ new = "reconciliation_required"

\* idr_execution_state_transition_allowed_v5.  Under a
\* governance_proof_revocation attestation every state may become
\* reconciliation_required.
TransitionAllowed(old, new, governance) ==
    \/ old = new
    \/ old = "permit_issued"
         /\ new \in {"permit_delivered", "expired", "cancelled"}
    \/ old = "permit_delivered"
         /\ new \in {"dispatch_started", "expired", "cancelled"}
    \/ old = "dispatch_started"
         /\ new \in ReceiptStates \cup {"reconciliation_required"}
    \/ old = "reconciliation_required" /\ new \in ReceiptStates
    \/ old \in {"failed", "rejected", "expired"} /\ new = "permit_issued"
    \/ governance /\ new = "reconciliation_required"

\* Mutant: the Fence insert is taken for granted, ON CONFLICT DO NOTHING.
FenceUnread(e) == fences[e.key] \in {0, e.reservation}

\* The append-only Fence of the key is free, or owned by this Reservation.
FenceAccepts(e) ==
    \/ fences[e.key] = e.reservation
    \/ fences[e.key] = 0 /\ e.key \notin foreignKeys

\* idr_validate_execution_authority_v4 runs BEFORE INSERT, and every commit
\* of a Run with an execution inserts first and updates on conflict.  The
\* least of the three expiries it compares is the Admission's.
AuthorityAccepts(e) == now < e.until

ReservationRowAccepts(e, governance) ==
    LET row == reservations[e.reservation]
    IN  \/ row.state = "none"
        \/ TransitionAllowed(row.state, e.state, governance)

\* Attempts are contiguous and start permit_issued.
AttemptRowAccepts(e, governance) ==
    LET row == attempts[<<e.reservation, e.attempt>>]
    IN  \/ /\ row.state = "none"
           /\ e.state = "permit_issued"
           /\ \A n \in Attempt :
                 (attempts[<<e.reservation, n>>].state # "none")
                     <=> (n < e.attempt)
        \/ /\ row.state # "none"
           /\ TransitionAllowed(row.state, e.state, governance)

DatabaseAccepts(e, governance) ==
    e.state # "none" =>
        /\ FenceAccepts(e)
        /\ AuthorityAccepts(e)
        /\ ReservationRowAccepts(e, governance)
        /\ AttemptRowAccepts(e, governance)

\* Mutant: ON CONFLICT DO NOTHING on the Reservation row.
ReservationInsertOnly(e) ==
    reservations' =
        [reservations EXCEPT ![e.reservation] =
            IF @.state = "none"
            THEN [state |-> e.state, action |-> e.action,
                  admission |-> e.admission, key |-> e.key]
            ELSE @]

\* An existing Reservation row keeps everything but its state.
WriteReservation(e) ==
    reservations' =
        [reservations EXCEPT ![e.reservation] =
            IF @.state = "none"
            THEN [state |-> e.state, action |-> e.action,
                  admission |-> e.admission, key |-> e.key]
            ELSE [@ EXCEPT !.state = e.state]]

\* started_at is set by the first state at or past the dispatch boundary.
WriteAttempt(e) ==
    attempts' =
        [attempts EXCEPT ![<<e.reservation, e.attempt>>] =
            [state |-> e.state,
             started |-> @.started \/ e.state \in CrossedDispatch]]

WriteTables(e) ==
    IF e.state = "none"
    THEN UNCHANGED <<fences, reservations, attempts>>
    ELSE /\ fences' = [fences EXCEPT ![e.key] = e.reservation]
         /\ WriteReservation(e)
         /\ WriteAttempt(e)

\* persist_specialized_projection for the execution a command leaves.
Persist(e, governance) ==
    /\ DatabaseAccepts(e, governance)
    /\ WriteTables(e)
    /\ execution' = e

-----------------------------------------------------------------------------
(* Helpers of the semantic transition.                                     *)

\* require_command_state, by the groups of commands it distinguishes.
LiveRun == runState \in {"running", "waiting_authorization"}
ClosingRun ==
    runState \in {"running", "reconciliation_required", "invalidated"}
CancellableRun == LiveRun \/ ClosingRun

\* require_exact_current_record_at for the Action.
ActionCurrent ==
    /\ actionRev # 0
    /\ actionRev \notin invalidated
    /\ now < actionUntil

\* reverify_bound_action_admission_proofs: the bundle of the Admission that
\* is current now.
AdmissionProofsHold ==
    now < admission.proofsUntil /\ admission.signer \notin revoked

\* execution_authority_expired: ReserveExecution makes the lease the least
\* of the five bounds it compares.
LeaseExpired == now >= execution.lease

\* ensure_current_execution_action.
ExecutionAuthorityCurrent ==
    /\ execution.action = actionRev
    /\ execution.action \notin invalidated
    /\ ~LeaseExpired

\* What RecordAction, InvalidateRecord and a failed currency check do to a
\* running execution.
Stopped(e) ==
    [e EXCEPT !.state =
        IF @ = "dispatch_started" THEN "reconciliation_required"
                                  ELSE "cancelled"]

StopIfRunning(e) ==
    IF e.state \in Terminal \cup {"none"} THEN e ELSE Stopped(e)

\* Mutant: the closure only records the invalidations.
ClosureSparesExecution(e, revs) == e

\* apply_repository_invalidation_closure on the execution, for a closure
\* that holds the Action revisions revs.
AfterClosure(e, revs) ==
    IF e.action \in revs /\ e.state \notin Terminal \cup {"none"}
    THEN [e EXCEPT !.state = IF @ \in InFlight
                             THEN "reconciliation_required"
                             ELSE "cancelled"]
    ELSE e

\* apply_repository_invalidation_closure on the Run, when the command is not
\* InvalidateRecord.
RunAfterClosure(e) ==
    IF e.state = "reconciliation_required" THEN "reconciliation_required"
                                           ELSE runState

IssuedActions == 1 .. actionRev

-----------------------------------------------------------------------------
(* The initial state: StartRun, RecordContext, RecordIntent,               *)
(* RecordDecision and RecordTurn have been committed.                      *)
Init ==
    /\ now = 0
    /\ revoked = {}
    /\ foreignKeys = {}
    /\ runState = "running"
    /\ planValid = TRUE
    /\ actionRev = 0
    /\ actionUntil = 0
    /\ invalidated = {}
    /\ admissionRev = 0
    /\ admission = NoAdmission
    /\ execution = NoExecution
    /\ fences = [k \in Keys |-> 0]
    /\ reservations = [r \in Reservation |-> NoReservation]
    /\ attempts = [a \in Reservation \X Attempt |-> NoAttempt]
    /\ receipts = {}

-----------------------------------------------------------------------------
(* Commands on the contracts.                                              *)

\* A new Action revision stops the execution of the previous one, withdraws
\* its Admission and invalidates what depends on it.
RecordAction(until) ==
    LET e == AfterClosure(StopIfRunning(execution), {actionRev})
    IN  /\ LiveRun
        /\ planValid
        /\ actionRev < MaxActions
        /\ now < until
        /\ Persist(e, FALSE)
        /\ runState' = RunAfterClosure(e)
        /\ actionRev' = actionRev + 1
        /\ actionUntil' = until
        /\ invalidated' = invalidated \cup ({actionRev} \ {0})
        /\ admission' = NoAdmission
        /\ UNCHANGED <<envVars, planValid, admissionRev, receipts>>

\* The Admission expires with the first of its proofs and with the Action.
\* An earlier Admission of the same Action is replaced, not invalidated.
AdmitAction(key, signer, proofsUntil, until) ==
    /\ LiveRun
    /\ ActionCurrent
    /\ admissionRev < MaxAdmissions
    /\ signer \notin revoked
    /\ now < until
    /\ until <= proofsUntil
    /\ until <= actionUntil
    /\ Persist(execution, FALSE)
    /\ admissionRev' = admissionRev + 1
    /\ admission' = [rev |-> admissionRev + 1, action |-> actionRev,
                     key |-> key, signer |-> signer,
                     proofsUntil |-> proofsUntil, until |-> until]
    /\ UNCHANGED <<envVars, runState, actionVars, receipts>>

\* RecordContext, RecordIntent or RecordDecision with a previous revision:
\* every issued Action depends on the superseded record.
SupersedeUpstream ==
    LET e == AfterClosure(execution, IssuedActions)
    IN  /\ LiveRun
        /\ Persist(e, FALSE)
        /\ runState' = RunAfterClosure(e)
        /\ planValid' = FALSE
        /\ invalidated' = invalidated \cup IssuedActions
        /\ admission' = NoAdmission
        /\ UNCHANGED <<envVars, actionRev, actionUntil, admissionRev, receipts>>

\* RecordTurn with a previous revision restores the plan of new Actions.
RecordTurn ==
    LET e == AfterClosure(execution, IssuedActions)
    IN  /\ LiveRun
        /\ Persist(e, FALSE)
        /\ runState' = RunAfterClosure(e)
        /\ planValid' = TRUE
        /\ invalidated' = invalidated \cup IssuedActions
        /\ admission' = NoAdmission
        /\ UNCHANGED <<envVars, actionRev, actionUntil, admissionRev, receipts>>

\* RecordResponse with a previous revision: the closure holds no Action, and
\* the Run still follows the execution into reconciliation.
RecordResponse ==
    /\ LiveRun
    /\ planValid
    /\ Persist(execution, FALSE)
    /\ runState' = RunAfterClosure(execution)
    /\ UNCHANGED <<envVars, actionVars, admVars, receipts>>

\* RecordIntent whose fast_path_outcome is "block".
RejectIntent ==
    /\ LiveRun
    /\ Persist(execution, FALSE)
    /\ runState' = "rejected"
    /\ UNCHANGED <<envVars, actionVars, admVars, receipts>>

CancelRun ==
    /\ CancellableRun
    /\ Persist(execution, FALSE)
    /\ runState' = "cancelled"
    /\ UNCHANGED <<envVars, actionVars, admVars, receipts>>

\* InvalidateRecord of a contract above the Action.
InvalidateUpstream ==
    /\ LiveRun
    /\ Persist(AfterClosure(execution, IssuedActions), FALSE)
    /\ runState' = "invalidated"
    /\ planValid' = FALSE
    /\ invalidated' = invalidated \cup IssuedActions
    /\ admission' = NoAdmission
    /\ UNCHANGED <<envVars, actionRev, actionUntil, admissionRev, receipts>>

\* InvalidateRecord of the current Action.
InvalidateAction ==
    /\ LiveRun
    /\ actionRev # 0
    /\ actionRev \notin invalidated
    /\ Persist(AfterClosure(StopIfRunning(execution), {actionRev}), FALSE)
    /\ runState' = "invalidated"
    /\ invalidated' = invalidated \cup {actionRev}
    /\ admission' = NoAdmission
    /\ UNCHANGED <<envVars, planValid, actionRev, actionUntil, admissionRev,
                   receipts>>

\* InvalidateRecord of the current Action Admission: no execution refers to
\* the closure by its Action.
InvalidateAdmission ==
    /\ LiveRun
    /\ admission.rev # 0
    /\ Persist(execution, FALSE)
    /\ runState' = "invalidated"
    /\ admission' = NoAdmission
    /\ UNCHANGED <<envVars, actionVars, admissionRev, receipts>>

\* InvalidateRecord of the current Response.
InvalidateResponse ==
    /\ LiveRun
    /\ planValid
    /\ Persist(execution, FALSE)
    /\ runState' = "invalidated"
    /\ UNCHANGED <<envVars, actionVars, admVars, receipts>>

-----------------------------------------------------------------------------
(* Commands on the execution.  These are the four that recheck the bundle  *)
(* of the current Admission first; bound says that the command carries the *)
(* Admission's scope, purpose and policy revision.                         *)

AdmissionRechecked(bound) ==
    admission.rev # 0 /\ bound /\ AdmissionProofsHold

\* A new Reservation id, numbered in order of use.
FreshReservation(r) ==
    /\ reservations[r].state = "none"
    /\ \A q \in 1 .. r - 1 : reservations[q].state # "none"

\* Mutant: an owner that lost the Permit reserves again instead of
\* recovering it.
ReserveAnyTime(r, n) ==
    \/ /\ \/ execution.state = "none"
          \/ /\ execution.action # actionRev
             /\ execution.state = "cancelled"
       /\ FreshReservation(r)
       /\ n = 1
    \/ /\ execution.action = actionRev
       /\ execution.state \notin CrossedDispatch \cup {"cancelled"}
       /\ execution.key = admission.key
       /\ r = execution.reservation
       /\ n = execution.attempt + 1

\* The first Reservation of an Action, once the previous Action's execution
\* was cancelled, or the next attempt of this Action's finished one.
MayReserve(r, n) ==
    \/ /\ \/ execution.state = "none"
          \/ /\ execution.action # actionRev
             /\ execution.state = "cancelled"
       /\ FreshReservation(r)
       /\ n = 1
    \/ /\ execution.action = actionRev
       /\ execution.state \in {"failed", "rejected", "expired"}
       /\ execution.key = admission.key
       /\ r = execution.reservation
       /\ n = execution.attempt + 1

ReserveExecution(bound, lease, r, n) ==
    /\ LiveRun
    /\ AdmissionRechecked(bound)
    /\ ActionCurrent
    /\ now < admission.until
    /\ now < lease
    /\ lease <= admission.until
    /\ MayReserve(r, n)
    /\ Persist([state |-> "permit_issued", reservation |-> r,
                attempt |-> n, action |-> actionRev,
                admission |-> admission.rev, key |-> admission.key,
                signer |-> admission.signer, until |-> admission.until,
                lease |-> lease], FALSE)
    /\ UNCHANGED <<envVars, runState, actionVars, admVars, receipts>>

RecoverPermit(bound) ==
    /\ LiveRun
    /\ AdmissionRechecked(bound)
    /\ execution.state \in PreDispatch
    /\ Persist([execution EXCEPT !.state = IF LeaseExpired THEN "expired"
                                                          ELSE @], FALSE)
    /\ UNCHANGED <<envVars, runState, actionVars, admVars, receipts>>

\* DeliverPermit and StartDispatch: from the state `from' to the state `to',
\* or, when the execution's authority is no longer current, stop it.
AdvancePermit(bound, from, to) ==
    /\ LiveRun
    /\ AdmissionRechecked(bound)
    /\ execution.state # "none"
    /\ IF ExecutionAuthorityCurrent
       THEN /\ execution.state = from
            /\ Persist([execution EXCEPT !.state = to], FALSE)
       ELSE Persist(Stopped(execution), FALSE)
    /\ UNCHANGED <<envVars, runState, actionVars, admVars, receipts>>

DeliverPermit(bound) ==
    AdvancePermit(bound, "permit_issued", "permit_delivered")
StartDispatch(bound) ==
    AdvancePermit(bound, "permit_delivered", "dispatch_started")

\* Mutant: only an execution that crossed the dispatch is disposed of.
GovernedAfterDispatch ==
    IF execution.state \in CrossedDispatch
    THEN [execution EXCEPT !.state = "reconciliation_required"]
    ELSE execution

\* action_admission_proof_failure: before dispatch the execution is
\* cancelled, from dispatch on it awaits reconciliation.
GovernedExecution ==
    IF execution.state = "none" THEN execution
    ELSE [execution EXCEPT !.state =
             IF @ \in CrossedDispatch THEN "reconciliation_required"
                                      ELSE "cancelled"]

\* What any of the four does when the recheck fails: a transition of its own
\* that asks neither for the Run state nor for the command's expected
\* version, under a governance_proof_revocation attestation.
ActionAdmissionProofFailure(bound) ==
    /\ admission.rev # 0
    /\ ~AdmissionRechecked(bound)
    /\ Persist(GovernedExecution, TRUE)
    /\ runState' = IF execution.state \in CrossedDispatch
                   THEN "reconciliation_required"
                   ELSE "waiting_authorization"
    /\ admission' = NoAdmission
    /\ UNCHANGED <<envVars, actionVars, admissionRev, receipts>>

-----------------------------------------------------------------------------
(* Commands that close the execution.                                      *)

\* Mutant: the Receipt closes the execution and not the Run.
RunKeptOpen(outcome) == runState

\* Mutant: the Run takes the outcome as it stands, compensated included.
RunTakesOutcome(outcome) == outcome

RunAfterReceipt(outcome) ==
    IF outcome = "compensated" THEN "succeeded" ELSE outcome

\* The attempt of the execution has at most one Receipt row.
ReceiptAccepted(outcome) ==
    /\ ClosingRun
    /\ execution.state \in InFlight
    /\ DatabaseAccepts([execution EXCEPT !.state = outcome], FALSE)
    /\ <<execution.reservation, execution.attempt>> \notin receipts

CommitExecutionReceipt(outcome) ==
    /\ ReceiptAccepted(outcome)
    /\ Persist([execution EXCEPT !.state = outcome], FALSE)
    /\ runState' = RunAfterReceipt(outcome)
    /\ receipts' = receipts \cup
                      {<<execution.reservation, execution.attempt>>}
    /\ UNCHANGED <<envVars, actionVars, admVars>>

\* Only the resolution Unknown is accepted, and it changes nothing.
ReconcileExecution ==
    /\ ClosingRun
    /\ execution.state = "reconciliation_required"
    /\ Persist(execution, FALSE)
    /\ UNCHANGED <<envVars, runState, actionVars, admVars, receipts>>

ExpireExecutionLease ==
    /\ ClosingRun
    /\ LeaseExpired
    /\ execution.state \in PreDispatch \cup {"dispatch_started"}
    /\ Persist([execution EXCEPT !.state =
                   IF @ = "dispatch_started" THEN "reconciliation_required"
                                             ELSE "expired"], FALSE)
    /\ UNCHANGED <<envVars, runState, actionVars, admVars, receipts>>

-----------------------------------------------------------------------------
(* The environment.                                                        *)

Tick ==
    /\ now < MaxTime
    /\ now' = now + 1
    /\ UNCHANGED <<revoked, foreignKeys, runState, actionVars, admVars,
                   execution, tableVars>>

\* The trust root provider installs a snapshot that revokes one more key.
RevokeKey(signer) ==
    /\ revoked' = revoked \cup {signer}
    /\ UNCHANGED <<now, foreignKeys, runState, actionVars, admVars,
                   execution, tableVars>>

\* Another Run of the tenant reserves the same operation and key first.
ForeignReserve(key) ==
    /\ fences[key] = 0
    /\ foreignKeys' = foreignKeys \cup {key}
    /\ UNCHANGED <<now, revoked, runState, actionVars, admVars, execution,
                   tableVars>>

-----------------------------------------------------------------------------
ContractCommand ==
    \/ \E until \in Time : RecordAction(until)
    \/ \E key \in Keys, signer \in Signers, p, u \in Time :
           AdmitAction(key, signer, p, u)
    \/ SupersedeUpstream
    \/ RecordTurn
    \/ RecordResponse
    \/ RejectIntent
    \/ CancelRun
    \/ InvalidateUpstream
    \/ InvalidateAction
    \/ InvalidateAdmission
    \/ InvalidateResponse

ExecutionCommand ==
    \E bound \in BOOLEAN :
        \/ \E lease \in Time, r \in Reservation, n \in Attempt :
              ReserveExecution(bound, lease, r, n)
        \/ RecoverPermit(bound)
        \/ DeliverPermit(bound)
        \/ StartDispatch(bound)
        \/ ActionAdmissionProofFailure(bound)

ClosingCommand ==
    \/ \E outcome \in ReceiptStates : CommitExecutionReceipt(outcome)
    \/ ReconcileExecution
    \/ ExpireExecutionLease

Environment ==
    \/ Tick
    \/ \E signer \in Signers : RevokeKey(signer)
    \/ \E key \in Keys : ForeignReserve(key)

Next == ContractCommand \/ ExecutionCommand \/ ClosingCommand \/ Environment

Spec == Init /\ [][Next]_vars

-----------------------------------------------------------------------------
(* Safety.                                                                 *)

Slot == Reservation \X Attempt
CurrentSlot == <<execution.reservation, execution.attempt>>

\* An idempotency key is dispatched at most once: no two attempts under the
\* same key, of any two Reservations, both pass StartDispatch, and none does
\* under a key that the Fence gave to another Run.
KeyHasOneDispatcher ==
    /\ \A a, b \in Slot :
          /\ attempts[a].started
          /\ attempts[b].started
          /\ reservations[a[1]].key = reservations[b[1]].key
          => a = b
    /\ \A a \in Slot :
          attempts[a].started => reservations[a[1]].key \notin foreignKeys

\* A dispatch is a fact: whatever is recorded, invalidated, revoked or
\* expired afterwards, a started attempt stays started and only moves
\* between dispatch, reconciliation and the states a Receipt reports.
DispatchFactKept ==
    [][\A a \in Slot : attempts[a].started =>
           attempts'[a].started /\ attempts'[a].state \in CrossedDispatch]_vars

\* The attempt of projection.execution is the only one that can still make
\* progress: every other Reservation and attempt row is absent or terminal,
\* through retries and through replacement of the Action.
SingleActiveAttempt ==
    /\ \A a \in Slot :
          attempts[a].state \in Terminal \cup {"none"} \/ a = CurrentSlot
    /\ \A r \in Reservation :
          \/ reservations[r].state \in Terminal \cup {"none"}
          \/ r = execution.reservation

\* The tables agree with the projection that is rewritten beside them: the
\* Reservation row has its state, Action and key, the attempt row its state,
\* and the key's Fence is owned by the Reservation.
ProjectionMatchesTables ==
    execution.state # "none" =>
        LET row == reservations[execution.reservation]
        IN  /\ row.state = execution.state
            /\ row.action = execution.action
            /\ row.key = execution.key
            /\ attempts[CurrentSlot].state = execution.state
            /\ fences[execution.key] = execution.reservation

\* The Run reports what its execution came to: it succeeded or failed
\* exactly when a stored Receipt says so, it is rejected when a Receipt says
\* so, and it awaits reconciliation only while the execution does.
RunReportsReceipt ==
    /\ runState = "succeeded"
          <=> execution.state \in {"succeeded", "compensated"}
    /\ runState = "failed" <=> execution.state = "failed"
    /\ execution.state = "rejected" => runState = "rejected"
    /\ execution.state \in ReceiptStates => CurrentSlot \in receipts
    /\ runState = "reconciliation_required"
          => execution.state = "reconciliation_required"

\* A Permit that can still be dispatched belongs to the current Action, and
\* that Action is not invalidated: recording, superseding or invalidating a
\* contract withdraws the Permit in the same transaction.
PermitsFollowAction ==
    execution.state \in PreDispatch =>
        execution.action = actionRev /\ execution.action \notin invalidated

\* A Run that was closed, by a cancellation or a rejection of its Intent with
\* a Permit still out, is opened again by a failed recheck of its Admission
\* at most.  It comes back with neither the Permit nor the Admission: nothing
\* is dispatched afterwards without a new authorization.
ReopenedRunStartsOver ==
    [][~LiveRun /\ LiveRun' =>
           /\ execution'.state \notin PreDispatch \cup InFlight
           /\ admission' = NoAdmission]_vars
=============================================================================
