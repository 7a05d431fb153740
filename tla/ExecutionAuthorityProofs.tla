---------------------- MODULE ExecutionAuthorityProofs ----------------------
(***************************************************************************)
(* Proofs about ExecutionAuthority, for every set of keys and signers and  *)
(* every value of the bounds.                                              *)
(***************************************************************************)
EXTENDS ExecutionAuthority, TLAPS

\* An execution that is present names a Reservation, an attempt, an Action
\* and a key.
ExecutionOK(e) ==
    /\ e \in Execution
    /\ e.state # "none" => /\ e.reservation \in Reservation
                           /\ e.attempt \in Attempt
                           /\ e.action \in 1 .. MaxActions
                           /\ e.key \in Keys

AdmissionOK ==
    admission.rev # 0 => admission.key \in Keys /\ admission.signer \in Signers

\* Type correctness, strengthened until it is inductive.
TypeInv == TypeOK /\ ExecutionOK(execution) /\ AdmissionOK

\* Moving an execution to another state keeps its type.
LEMMA MoveOK ==
    ASSUME NEW e, ExecutionOK(e), NEW s \in ExecState,
           e.state = "none" => s = "none"
    PROVE  ExecutionOK([e EXCEPT !.state = s])
  BY DEF ExecutionOK, Execution

\* The results of the helpers that stop an execution.
LEMMA StopIfRunningOK ==
    ASSUME NEW e, ExecutionOK(e)
    PROVE  /\ ExecutionOK(StopIfRunning(e))
           /\ StopIfRunning(e) =
                 [e EXCEPT !.state = StopIfRunning(e).state]
           /\ StopIfRunning(e).state \notin PreDispatch
           /\ e.state = "none" <=> StopIfRunning(e).state = "none"
           /\ StopIfRunning(e).state \in ReceiptStates
                 => StopIfRunning(e).state = e.state
  <1>1. e = [e EXCEPT !.state = e.state]
    BY DEF ExecutionOK, Execution
  <1>2. CASE e.state \in Terminal \cup {"none"}
    BY <1>1, <1>2 DEF StopIfRunning, Terminal, PreDispatch
  <1>3. CASE e.state \notin Terminal \cup {"none"}
    <2>1. PICK s \in {"reconciliation_required", "cancelled"} :
              StopIfRunning(e) = [e EXCEPT !.state = s]
      BY <1>3 DEF StopIfRunning, Stopped
    <2>2. StopIfRunning(e).state = s
      BY <2>1 DEF ExecutionOK, Execution
    <2>3. ExecutionOK(StopIfRunning(e))
      BY <1>3, <2>1, MoveOK DEF ExecState
    <2>4. QED
      BY <1>3, <2>1, <2>2, <2>3 DEF PreDispatch, ReceiptStates
  <1>4. QED BY <1>2, <1>3

\* The invalidation closure keeps the type of the execution, and leaves no
\* live Permit of an Action it holds.
LEMMA AfterClosureOK ==
    ASSUME NEW e, ExecutionOK(e), NEW revs
    PROVE  /\ ExecutionOK(AfterClosure(e, revs))
           /\ AfterClosure(e, revs) =
                 [e EXCEPT !.state = AfterClosure(e, revs).state]
           /\ AfterClosure(e, revs).state \in PreDispatch
                 => AfterClosure(e, revs) = e /\ e.action \notin revs
           /\ e.state = "none" <=> AfterClosure(e, revs).state = "none"
           /\ AfterClosure(e, revs).state \in ReceiptStates
                 => AfterClosure(e, revs).state = e.state
  <1>1. e = [e EXCEPT !.state = e.state]
    BY DEF ExecutionOK, Execution
  <1>2. CASE e.action \in revs /\ e.state \notin Terminal \cup {"none"}
    <2>1. PICK s \in {"reconciliation_required", "cancelled"} :
              AfterClosure(e, revs) = [e EXCEPT !.state = s]
      BY <1>2 DEF AfterClosure
    <2>2. AfterClosure(e, revs).state = s
      BY <2>1 DEF ExecutionOK, Execution
    <2>3. ExecutionOK(AfterClosure(e, revs))
      BY <1>2, <2>1, MoveOK DEF ExecState
    <2>4. QED
      BY <1>2, <2>1, <2>2, <2>3 DEF PreDispatch, ReceiptStates
  <1>3. CASE ~(e.action \in revs /\ e.state \notin Terminal \cup {"none"})
    BY <1>1, <1>3 DEF AfterClosure, Terminal, PreDispatch
  <1>4. QED BY <1>2, <1>3

\* Stopping and then closing, as RecordAction and InvalidateRecord do.
LEMMA StopAndCloseOK ==
    ASSUME NEW e, ExecutionOK(e), NEW revs
    PROVE  LET c == AfterClosure(StopIfRunning(e), revs)
           IN  /\ ExecutionOK(c)
               /\ c = [e EXCEPT !.state = c.state]
               /\ c.state \notin PreDispatch
               /\ e.state = "none" <=> c.state = "none"
               /\ c.state \in ReceiptStates => c.state = e.state
  <1> DEFINE s == StopIfRunning(e)
             c == AfterClosure(s, revs)
  <1>1. /\ ExecutionOK(s)
        /\ s = [e EXCEPT !.state = s.state]
        /\ s.state \notin PreDispatch
        /\ e.state = "none" <=> s.state = "none"
        /\ s.state \in ReceiptStates => s.state = e.state
    BY StopIfRunningOK
  <1> HIDE DEF s
  <1>2. /\ ExecutionOK(c)
        /\ c = [s EXCEPT !.state = c.state]
        /\ c.state \in PreDispatch => c = s
        /\ s.state = "none" <=> c.state = "none"
        /\ c.state \in ReceiptStates => c.state = s.state
    BY <1>1, AfterClosureOK
  <1> HIDE DEF c
  <1>3. c = [e EXCEPT !.state = c.state]
    BY <1>1, <1>2 DEF ExecutionOK, Execution
  <1>4. /\ c.state \notin PreDispatch
        /\ e.state = "none" <=> c.state = "none"
        /\ c.state \in ReceiptStates => c.state = e.state
    BY <1>1, <1>2
  <1>5. QED BY <1>2, <1>3, <1>4 DEF c, s

\* Whatever execution a command persists, the tables keep their types.
LEMMA PersistOK ==
    ASSUME TypeOK, NEW e, ExecutionOK(e), NEW g \in BOOLEAN, Persist(e, g)
    PROVE  /\ execution' = e
           /\ fences' \in [Keys -> 0 .. MaxReservations]
           /\ reservations' \in [Reservation -> ReservationRow]
           /\ attempts' \in [Reservation \X Attempt -> AttemptRow]
  <1>1. CASE e.state = "none"
    BY <1>1 DEF Persist, WriteTables, TypeOK
  <1>2. CASE e.state # "none"
    <2>1. e.reservation \in Reservation /\ e.state \in ExecState
          /\ e.action \in 0 .. MaxActions /\ e.admission \in 0 .. MaxAdmissions
          /\ e.key \in Keys /\ e.attempt \in Attempt
      BY <1>2 DEF ExecutionOK, Execution
    <2>2. fences' \in [Keys -> 0 .. MaxReservations]
      BY <1>2, <2>1, BoundsAreNaturals
         DEF Persist, WriteTables, TypeOK, Reservation
    <2>3. reservations' \in [Reservation -> ReservationRow]
      BY <1>2, <2>1 DEF Persist, WriteTables, WriteReservation, TypeOK,
         ReservationRow
    <2>4. attempts' \in [Reservation \X Attempt -> AttemptRow]
      <3> DEFINE slot == <<e.reservation, e.attempt>>
                 row == [state |-> e.state,
                         started |-> attempts[slot].started
                                        \/ e.state \in CrossedDispatch]
      <3>1. row \in AttemptRow
        BY <2>1 DEF AttemptRow
      <3>2. attempts' = [attempts EXCEPT ![slot] = row]
        BY <1>2 DEF Persist, WriteTables, WriteAttempt
      <3> HIDE DEF row, slot
      <3>3. QED BY <3>1, <3>2 DEF TypeOK
    <2>5. QED BY <2>2, <2>3, <2>4 DEF Persist
  <1>3. QED BY <1>1, <1>2

\* A command that leaves the execution e of the right type, and changes the
\* rest of the state within its types, keeps TypeInv.
LEMMA PersistTypeInv ==
    ASSUME TypeOK, NEW e, ExecutionOK(e), NEW g \in BOOLEAN, Persist(e, g),
           now' = now, revoked' = revoked, foreignKeys' = foreignKeys,
           runState' \in RunState, planValid' \in BOOLEAN,
           actionRev' \in 0 .. MaxActions, actionUntil' \in Time,
           invalidated' \in SUBSET (1 .. MaxActions),
           admissionRev' \in 0 .. MaxAdmissions, admission' \in Admission,
           AdmissionOK', receipts' \in SUBSET (Reservation \X Attempt)
    PROVE  TypeInv'
  BY PersistOK DEF TypeInv, TypeOK, ExecutionOK

\* The null Admission is an Admission.
LEMMA NoAdmissionOK ==
    NoAdmission \in Admission /\ NoAdmission.rev = 0
  BY BoundsAreNaturals DEF NoAdmission, Admission, Time

USE DEF envVars, actionVars, admVars, tableVars

\* The first state after RecordTurn is well typed.
LEMMA TypeInit == Init => TypeInv
  <1> SUFFICES ASSUME Init PROVE TypeInv
    OBVIOUS
  <1>1. NoExecution \in Execution /\ NoExecution.state = "none"
    BY BoundsAreNaturals DEF NoExecution, Execution, ExecState, Time
  <1>2. NoReservation \in ReservationRow /\ NoAttempt \in AttemptRow
    BY BoundsAreNaturals
       DEF NoReservation, ReservationRow, NoAttempt, AttemptRow, ExecState
  <1>3. QED
    BY <1>1, <1>2, NoAdmissionOK, BoundsAreNaturals
       DEF Init, TypeInv, TypeOK, ExecutionOK, AdmissionOK, RunState, Time

\* Every command keeps the types.
LEMMA TypeStep == TypeInv /\ [Next]_vars => TypeInv'
  <1> SUFFICES ASSUME TypeInv, [Next]_vars PROVE TypeInv'
    OBVIOUS
  <1> USE DEF TypeInv
  <1>a. /\ actionRev \in Nat /\ admissionRev \in Nat
        /\ MaxActions \in Nat /\ MaxAdmissions \in Nat
    BY BoundsAreNaturals DEF TypeOK
  <1>b. IssuedActions \subseteq 1 .. MaxActions
    BY <1>a DEF TypeOK, IssuedActions
  <1>c. \A e : RunAfterClosure(e) \in RunState
    BY DEF RunAfterClosure, RunState, TypeOK
  <1>d. \A revs : ExecutionOK(AfterClosure(execution, revs))
    BY AfterClosureOK
  <1>e. \A revs : ExecutionOK(AfterClosure(StopIfRunning(execution), revs))
    BY StopAndCloseOK
  <1>f. admission' = NoAdmission => admission' \in Admission /\ AdmissionOK'
    BY NoAdmissionOK DEF AdmissionOK
  <1>1. ASSUME NEW u \in Time, RecordAction(u) PROVE TypeInv'
    <2>1. Persist(AfterClosure(StopIfRunning(execution), {actionRev}), FALSE)
      BY <1>1 DEF RecordAction
    <2>2. actionRev + 1 \in 0 .. MaxActions
      BY <1>1, <1>a DEF RecordAction
    <2>3. invalidated' \in SUBSET (1 .. MaxActions)
      BY <1>1, <1>a DEF RecordAction, TypeOK
    <2>4. QED
      BY <1>1, <1>c, <1>e, <1>f, <2>1, <2>2, <2>3, PersistTypeInv
         DEF RecordAction, TypeOK
  <1>2. ASSUME NEW k \in Keys, NEW s \in Signers, NEW p \in Time,
               NEW u \in Time, AdmitAction(k, s, p, u)
        PROVE  TypeInv'
    <2>1. admissionRev + 1 \in 0 .. MaxAdmissions
      BY <1>2, <1>a DEF AdmitAction
    <2>2. admission' \in Admission /\ AdmissionOK'
      BY <1>2, <2>1 DEF AdmitAction, Admission, AdmissionOK, TypeOK
    <2>3. QED
      BY <1>2, <2>1, <2>2, PersistTypeInv DEF AdmitAction, TypeOK
  <1>3. ASSUME SupersedeUpstream \/ RecordTurn \/ InvalidateUpstream
        PROVE  TypeInv'
    <2>1. Persist(AfterClosure(execution, IssuedActions), FALSE)
      BY <1>3 DEF SupersedeUpstream, RecordTurn, InvalidateUpstream
    <2>2. runState' \in RunState /\ planValid' \in BOOLEAN
      BY <1>3, <1>c
         DEF SupersedeUpstream, RecordTurn, InvalidateUpstream, RunState
    <2>3. invalidated' \in SUBSET (1 .. MaxActions)
      BY <1>3, <1>b
         DEF SupersedeUpstream, RecordTurn, InvalidateUpstream, TypeOK
    <2>4. QED
      BY <1>3, <1>d, <1>f, <2>1, <2>2, <2>3, PersistTypeInv
         DEF SupersedeUpstream, RecordTurn, InvalidateUpstream, TypeOK
  <1>4. ASSUME RecordResponse \/ RejectIntent \/ CancelRun
               \/ InvalidateResponse \/ ReconcileExecution
        PROVE  TypeInv'
    <2>1. runState' \in RunState
      BY <1>4, <1>c DEF RecordResponse, RejectIntent, CancelRun,
         InvalidateResponse, ReconcileExecution, RunState, TypeOK
    <2>2. QED
      BY <1>4, <2>1, PersistTypeInv DEF RecordResponse, RejectIntent,
         CancelRun, InvalidateResponse, ReconcileExecution, TypeOK,
         AdmissionOK
  <1>5. CASE InvalidateAction
    <2>1. invalidated' \in SUBSET (1 .. MaxActions)
      BY <1>5, <1>a DEF InvalidateAction, TypeOK
    <2>2. Persist(AfterClosure(StopIfRunning(execution), {actionRev}), FALSE)
      BY <1>5 DEF InvalidateAction
    <2>3. QED
      BY <1>5, <1>e, <1>f, <2>1, <2>2, PersistTypeInv
         DEF InvalidateAction, TypeOK, RunState
  <1>6. CASE InvalidateAdmission
    BY <1>6, <1>f, PersistTypeInv DEF InvalidateAdmission, TypeOK, RunState
  <1>7. ASSUME NEW b \in BOOLEAN, NEW l \in Time, NEW r \in Reservation,
               NEW n \in Attempt, ReserveExecution(b, l, r, n)
        PROVE  TypeInv'
    <2> DEFINE e == [state |-> "permit_issued", reservation |-> r,
                     attempt |-> n, action |-> actionRev,
                     admission |-> admission.rev, key |-> admission.key,
                     signer |-> admission.signer, until |-> admission.until,
                     lease |-> l]
    <2>1. admission.rev # 0 /\ actionRev \in 1 .. MaxActions
      BY <1>7, <1>a DEF ReserveExecution, AdmissionRechecked, ActionCurrent,
         TypeOK
    <2>2. ExecutionOK(e)
      BY <2>1, BoundsAreNaturals DEF ExecutionOK, Execution, ExecState,
         Admission, TypeOK, AdmissionOK, Reservation, Attempt
    <2>3. Persist(e, FALSE)
      BY <1>7 DEF ReserveExecution
    <2> HIDE DEF e
    <2>4. QED
      BY <1>7, <2>2, <2>3, PersistTypeInv
         DEF ReserveExecution, TypeOK, AdmissionOK
  <1>8. ASSUME NEW s \in ExecState, execution.state # "none",
               NEW g \in BOOLEAN, Persist([execution EXCEPT !.state = s], g),
               UNCHANGED <<envVars, actionVars, admissionRev>>,
               runState' \in RunState,
               admission' = admission \/ admission' = NoAdmission,
               receipts' \in SUBSET (Reservation \X Attempt)
        PROVE  TypeInv'
    <2>1. ExecutionOK([execution EXCEPT !.state = s])
      BY <1>8, MoveOK
    <2>2. admission' \in Admission /\ AdmissionOK'
      BY <1>8, <1>f DEF TypeOK, AdmissionOK
    <2>3. QED
      BY <1>8, <2>1, <2>2, PersistTypeInv DEF TypeOK
  <1>9. ASSUME NEW b \in BOOLEAN, RecoverPermit(b) PROVE TypeInv'
    <2>1. PICK s \in ExecState :
              Persist([execution EXCEPT !.state = s], FALSE)
      BY <1>9 DEF RecoverPermit, ExecState, PreDispatch
    <2>2. QED
      BY <1>9, <1>8, <2>1 DEF RecoverPermit, PreDispatch, TypeOK
  <1>10. ASSUME NEW b \in BOOLEAN, DeliverPermit(b) \/ StartDispatch(b)
         PROVE  TypeInv'
    <2>1. PICK s \in ExecState :
              Persist([execution EXCEPT !.state = s], FALSE)
      BY <1>10 DEF DeliverPermit, StartDispatch, AdvancePermit, Stopped,
         ExecState
    <2>2. QED
      BY <1>10, <1>8, <2>1
         DEF DeliverPermit, StartDispatch, AdvancePermit, TypeOK
  <1>11. ASSUME NEW b \in BOOLEAN, ActionAdmissionProofFailure(b)
         PROVE  TypeInv'
    <2>1. runState' \in RunState
      BY <1>11 DEF ActionAdmissionProofFailure, RunState
    <2>2. CASE execution.state = "none"
      BY <1>11, <1>f, <2>1, <2>2, PersistTypeInv
         DEF ActionAdmissionProofFailure, GovernedExecution, TypeOK
    <2>3. CASE execution.state # "none"
      <3>1. PICK s \in ExecState :
                Persist([execution EXCEPT !.state = s], TRUE)
        BY <1>11, <2>3 DEF ActionAdmissionProofFailure, GovernedExecution,
           ExecState
      <3>2. QED
        BY <1>11, <1>8, <2>1, <2>3, <3>1
           DEF ActionAdmissionProofFailure, TypeOK
    <2>4. QED BY <2>2, <2>3
  <1>12. ASSUME NEW o \in ReceiptStates, CommitExecutionReceipt(o)
         PROVE  TypeInv'
    <2>1. execution.state # "none" /\ o \in ExecState
      BY <1>12 DEF CommitExecutionReceipt, ReceiptAccepted, InFlight,
         ReceiptStates, ExecState
    <2>2. runState' \in RunState
      BY <1>12 DEF CommitExecutionReceipt, RunAfterReceipt, ReceiptStates,
         RunState
    <2>3. receipts' \in SUBSET (Reservation \X Attempt)
      BY <1>12, <2>1 DEF CommitExecutionReceipt, ExecutionOK, TypeOK
    <2>4. QED
      BY <1>12, <1>8, <2>1, <2>2, <2>3 DEF CommitExecutionReceipt
  <1>13. CASE ExpireExecutionLease
    <2>1. PICK s \in ExecState :
              Persist([execution EXCEPT !.state = s], FALSE)
      BY <1>13 DEF ExpireExecutionLease, ExecState
    <2>2. QED
      BY <1>13, <1>8, <2>1 DEF ExpireExecutionLease, PreDispatch, TypeOK
  <1>14. CASE Environment
    <2>1. now' \in Time /\ revoked' \in SUBSET Signers
          /\ foreignKeys' \in SUBSET Keys
      BY <1>14, BoundsAreNaturals DEF Environment, Tick, RevokeKey,
         ForeignReserve, TypeOK, Time
    <2>2. UNCHANGED <<runState, actionVars, admVars, execution, tableVars>>
      BY <1>14 DEF Environment, Tick, RevokeKey, ForeignReserve
    <2>3. QED
      BY <2>1, <2>2 DEF TypeOK, AdmissionOK, ExecutionOK
  <1>15. CASE UNCHANGED vars
    BY <1>15 DEF vars, TypeOK, AdmissionOK, ExecutionOK
  <1>16. QED
    BY <1>1, <1>2, <1>3, <1>4, <1>5, <1>6, <1>7, <1>9, <1>10, <1>11, <1>12,
       <1>13, <1>14, <1>15
       DEF Next, ContractCommand, ExecutionCommand, ClosingCommand

\* Every variable keeps its type, and an execution that is present always
\* names a Reservation, an attempt, an Action and a key.
THEOREM TypeCorrect == Spec => []TypeOK
  <1>1. Spec => []TypeInv
    BY TypeInit, TypeStep, PTL DEF Spec
  <1>2. TypeInv => TypeOK
    BY DEF TypeInv
  <1>3. QED BY <1>1, <1>2, PTL

-----------------------------------------------------------------------------
(* The Run and the Permit.                                                 *)

RunInv == RunReportsReceipt /\ PermitsFollowAction

\* In a live Run no Receipt has closed the execution.
LEMMA LiveRunHasNoReceipt ==
    ASSUME RunInv, LiveRun PROVE execution.state \notin ReceiptStates
  BY DEF RunInv, RunReportsReceipt, LiveRun, ReceiptStates

\* A step of a live Run after which the execution carries no Receipt keeps
\* the Run's report.
LEMMA LiveStepReports ==
    ASSUME execution'.state \notin ReceiptStates,
           runState' \notin {"succeeded", "failed"},
           runState' = "reconciliation_required"
              => execution'.state = "reconciliation_required"
    PROVE  RunReportsReceipt'
  BY DEF RunReportsReceipt, ReceiptStates

\* A running Run without an execution has nothing to report.
LEMMA RunInit == Init => RunInv
  BY DEF Init, RunInv, RunReportsReceipt, PermitsFollowAction, NoExecution,
     PreDispatch, ReceiptStates

\* One step per command: those of a live Run end in LiveStepReports, the
\* others are examined on their own.
LEMMA RunStep == TypeInv /\ RunInv /\ [Next]_vars => RunInv'
  <1> SUFFICES ASSUME TypeInv, RunInv, [Next]_vars PROVE RunInv'
    OBVIOUS
  <1>a. ExecutionOK(execution) /\ execution \in Execution
    BY DEF TypeInv, ExecutionOK
  <1>b. LiveRun => /\ execution.state \notin ReceiptStates
                   /\ runState \notin {"succeeded", "failed",
                                       "reconciliation_required"}
    BY LiveRunHasNoReceipt DEF LiveRun
  <1>c. PermitsFollowAction /\ RunReportsReceipt
    BY DEF RunInv
  <1>1. ASSUME NEW e, LiveRun, execution' = e, e.state \notin PreDispatch,
               e.state \notin ReceiptStates,
               runState' \in {RunAfterClosure(e), "invalidated"}
        PROVE  RunInv'
    <2>1. RunReportsReceipt'
      BY <1>1, <1>b, LiveStepReports DEF RunAfterClosure
    <2>2. PermitsFollowAction'
      BY <1>1 DEF PermitsFollowAction
    <2>3. QED BY <2>1, <2>2 DEF RunInv
  <1>2. ASSUME NEW u \in Time, RecordAction(u) PROVE RunInv'
    <2> DEFINE e == AfterClosure(StopIfRunning(execution), {actionRev})
    <2>1. /\ e.state \notin PreDispatch
          /\ e.state \in ReceiptStates => e.state = execution.state
      BY <1>a, StopAndCloseOK
    <2>2. execution' = e /\ LiveRun /\ runState' = RunAfterClosure(e)
      BY <1>2 DEF RecordAction, Persist
    <2> HIDE DEF e
    <2>3. QED BY <1>1, <1>b, <2>1, <2>2
  <1>3. CASE InvalidateAction
    <2> DEFINE e == AfterClosure(StopIfRunning(execution), {actionRev})
    <2>1. /\ e.state \notin PreDispatch
          /\ e.state \in ReceiptStates => e.state = execution.state
      BY <1>a, StopAndCloseOK
    <2>2. execution' = e /\ LiveRun /\ runState' = "invalidated"
      BY <1>3 DEF InvalidateAction, Persist
    <2> HIDE DEF e
    <2>3. QED BY <1>1, <1>b, <2>1, <2>2
  <1>4. ASSUME SupersedeUpstream \/ RecordTurn \/ InvalidateUpstream
        PROVE  RunInv'
    <2> DEFINE e == AfterClosure(execution, IssuedActions)
    <2>1. /\ e.state \in PreDispatch
                => e = execution /\ execution.action \notin IssuedActions
          /\ e.state \in ReceiptStates => e.state = execution.state
      BY <1>a, AfterClosureOK
    <2>2. execution.state \in PreDispatch
             => execution.action \in IssuedActions
      BY <1>a, <1>c DEF ExecutionOK, PermitsFollowAction, IssuedActions,
         PreDispatch, TypeInv, TypeOK
    <2>3. /\ execution' = e
          /\ LiveRun
          /\ runState' \in {RunAfterClosure(e), "invalidated"}
      BY <1>4 DEF SupersedeUpstream, RecordTurn, InvalidateUpstream, Persist
    <2> HIDE DEF e
    <2>4. QED BY <1>1, <1>b, <2>1, <2>2, <2>3
  <1>5. ASSUME execution' = execution, UNCHANGED actionVars,
               \/ LiveRun /\ runState' \in {runState, "rejected", "cancelled",
                                          "invalidated",
                                          RunAfterClosure(execution)}
               \/ ClosingRun /\ runState' = "cancelled"
               \/ runState' = runState /\ receipts' = receipts
        PROVE  RunInv'
    <2>1. PermitsFollowAction'
      BY <1>5, <1>c DEF PermitsFollowAction
    <2>2. ClosingRun => execution.state \notin {"succeeded", "compensated",
                                               "failed", "rejected"}
      BY <1>c DEF ClosingRun, RunReportsReceipt
    <2>3. RunReportsReceipt'
      <3>1. CASE LiveRun /\ runState' \in {runState, "rejected",
                      "cancelled", "invalidated", RunAfterClosure(execution)}
        BY <3>1, <1>5, <1>b, LiveStepReports DEF RunAfterClosure
      <3>2. CASE ClosingRun /\ runState' = "cancelled"
        BY <3>2, <1>5, <2>2, LiveStepReports DEF ReceiptStates
      <3>3. CASE runState' = runState /\ receipts' = receipts
        BY <3>3, <1>5, <1>c DEF RunReportsReceipt, CurrentSlot
      <3>4. QED BY <1>5, <3>1, <3>2, <3>3
    <2>4. QED BY <2>1, <2>3 DEF RunInv
  <1>6. ASSUME NEW k \in Keys, NEW s \in Signers, NEW p \in Time,
               NEW u \in Time, AdmitAction(k, s, p, u)
        PROVE  RunInv'
    BY <1>5, <1>6 DEF AdmitAction, Persist
  <1>7. ASSUME RecordResponse \/ RejectIntent \/ CancelRun
               \/ InvalidateResponse \/ ReconcileExecution
               \/ InvalidateAdmission
        PROVE  RunInv'
    BY <1>5, <1>7 DEF RecordResponse, RejectIntent, CancelRun,
       InvalidateResponse, ReconcileExecution, InvalidateAdmission, Persist,
       CancellableRun
  <1>8. ASSUME NEW b \in BOOLEAN, NEW l \in Time, NEW r \in Reservation,
               NEW n \in Attempt, ReserveExecution(b, l, r, n)
        PROVE  RunInv'
    <2>1. /\ execution'.state = "permit_issued"
          /\ execution'.action = actionRev
          /\ LiveRun /\ ActionCurrent
          /\ UNCHANGED <<runState, actionVars>>
      BY <1>8 DEF ReserveExecution, Persist
    <2>2. RunReportsReceipt'
      BY <2>1, <1>b, LiveStepReports DEF ReceiptStates
    <2>3. PermitsFollowAction'
      BY <2>1 DEF PermitsFollowAction, ActionCurrent
    <2>4. QED BY <2>2, <2>3 DEF RunInv
  <1>9. ASSUME NEW s \in ExecState, LiveRun,
               execution' = [execution EXCEPT !.state = s],
               s \notin ReceiptStates, runState' = runState,
               s \in PreDispatch => execution.state \in PreDispatch,
               UNCHANGED actionVars
        PROVE  RunInv'
    <2>1. execution'.state = s /\ execution'.action = execution.action
      BY <1>a, <1>9 DEF Execution
    <2>2. RunReportsReceipt'
      BY <2>1, <1>9, <1>b, LiveStepReports
    <2>3. PermitsFollowAction'
      BY <2>1, <1>9, <1>c DEF PermitsFollowAction
    <2>4. QED BY <2>2, <2>3 DEF RunInv
  <1>10. ASSUME NEW b \in BOOLEAN, RecoverPermit(b) PROVE RunInv'
    <2>1. PICK s \in {"permit_issued", "permit_delivered", "expired"} :
              execution' = [execution EXCEPT !.state = s]
      BY <1>10 DEF RecoverPermit, PreDispatch, Persist
    <2>2. QED
      BY <1>10, <1>9, <2>1
         DEF RecoverPermit, PreDispatch, ReceiptStates, ExecState
  <1>11. ASSUME NEW b \in BOOLEAN, DeliverPermit(b) \/ StartDispatch(b)
         PROVE  RunInv'
    <2>1. \E s \in {"permit_delivered", "dispatch_started", "cancelled",
                    "reconciliation_required"} :
              /\ execution' = [execution EXCEPT !.state = s]
              /\ s = "permit_delivered" => execution.state = "permit_issued"
      BY <1>11 DEF DeliverPermit, StartDispatch, AdvancePermit, Stopped,
         Persist
    <2>2. LiveRun /\ UNCHANGED <<runState, actionVars>>
      BY <1>11 DEF DeliverPermit, StartDispatch, AdvancePermit
    <2>3. QED
      BY <1>9, <2>1, <2>2 DEF PreDispatch, ReceiptStates, ExecState
  <1>12. ASSUME NEW b \in BOOLEAN, ActionAdmissionProofFailure(b)
         PROVE  RunInv'
    <2>1. /\ execution'.state = IF execution.state = "none" THEN "none"
                                ELSE IF execution.state \in CrossedDispatch
                                THEN "reconciliation_required"
                                ELSE "cancelled"
          /\ runState' = IF execution.state \in CrossedDispatch
                         THEN "reconciliation_required"
                         ELSE "waiting_authorization"
      BY <1>12, <1>a DEF ActionAdmissionProofFailure, GovernedExecution,
         Persist, Execution
    <2>2. RunReportsReceipt'
      BY <2>1, LiveStepReports
         DEF ReceiptStates, CrossedDispatch, InFlight
    <2>3. PermitsFollowAction'
      BY <2>1 DEF PermitsFollowAction, PreDispatch
    <2>4. QED BY <2>2, <2>3 DEF RunInv
  <1>13. ASSUME NEW o \in ReceiptStates, CommitExecutionReceipt(o)
         PROVE  RunInv'
    <2>1. /\ execution'.state = o
          /\ CurrentSlot' = CurrentSlot
          /\ runState' = RunAfterReceipt(o)
          /\ CurrentSlot \in receipts'
      BY <1>13, <1>a
         DEF CommitExecutionReceipt, Persist, CurrentSlot, Execution
    <2>2. RunReportsReceipt'
      BY <2>1 DEF RunReportsReceipt, RunAfterReceipt, ReceiptStates
    <2>3. PermitsFollowAction'
      BY <2>1 DEF PermitsFollowAction, PreDispatch, ReceiptStates
    <2>4. QED BY <2>2, <2>3 DEF RunInv
  <1>14. CASE ExpireExecutionLease
    <2>1. /\ execution'.state \in {"reconciliation_required", "expired"}
          /\ execution.state \in {"permit_issued", "permit_delivered",
                                  "dispatch_started"}
          /\ ClosingRun /\ runState' = runState
      BY <1>14, <1>a
         DEF ExpireExecutionLease, Persist, Execution, PreDispatch
    <2>2. RunReportsReceipt'
      BY <2>1, <1>c, LiveStepReports
         DEF RunReportsReceipt, ReceiptStates, ClosingRun
    <2>3. PermitsFollowAction'
      BY <2>1 DEF PermitsFollowAction, PreDispatch
    <2>4. QED BY <2>2, <2>3 DEF RunInv
  <1>15. CASE Environment
    BY <1>5, <1>15 DEF Environment, Tick, RevokeKey, ForeignReserve
  <1>16. CASE UNCHANGED vars
    BY <1>5, <1>16 DEF vars
  <1>17. QED
    BY <1>2, <1>3, <1>4, <1>6, <1>7, <1>8, <1>10, <1>11, <1>12, <1>13,
       <1>14, <1>15, <1>16
       DEF Next, ContractCommand, ExecutionCommand, ClosingCommand

\* The Run reports what its execution came to.
THEOREM RunReports == Spec => []RunReportsReceipt
  <1>1. Spec => [](TypeInv /\ RunInv)
    BY TypeInit, TypeStep, RunInit, RunStep, PTL DEF Spec
  <1>2. RunInv => RunReportsReceipt
    BY DEF RunInv
  <1>3. QED BY <1>1, <1>2, PTL

\* A Permit that can still be dispatched is one of the current, valid Action.
THEOREM PermitsFollow == Spec => []PermitsFollowAction
  <1>1. Spec => [](TypeInv /\ RunInv)
    BY TypeInit, TypeStep, RunInit, RunStep, PTL DEF Spec
  <1>2. RunInv => PermitsFollowAction
    BY DEF RunInv
  <1>3. QED BY <1>1, <1>2, PTL

-----------------------------------------------------------------------------
(* The execution tables.  A step moves the execution within its slot,      *)
(* reserves a slot, or leaves the tables alone.                            *)

MoveStep ==
    /\ \E g \in BOOLEAN : Persist(execution', g)
    /\ execution' = [execution EXCEPT !.state = execution'.state]
    /\ execution.state = "none" <=> execution'.state = "none"
    /\ execution'.state = "permit_issued" => execution.state = "permit_issued"
    /\ foreignKeys' = foreignKeys

ReserveStep ==
    /\ LiveRun
    /\ Persist(execution', FALSE)
    /\ execution'.state = "permit_issued"
    /\ MayReserve(execution'.reservation, execution'.attempt)
    /\ execution'.action = actionRev
    /\ execution'.key = admission.key
    /\ foreignKeys' = foreignKeys

QuietStep ==
    /\ UNCHANGED <<execution, fences, reservations, attempts>>
    /\ \A key \in Keys :
          fences[key] # 0 /\ key \in foreignKeys' => key \in foreignKeys

\* Every command moves the execution within its slot, reserves a new slot,
\* or leaves the execution tables alone.
LEMMA StepShape ==
    ASSUME TypeInv, [Next]_vars PROVE MoveStep \/ ReserveStep \/ QuietStep
  <1>a. ExecutionOK(execution) /\ execution \in Execution
    BY DEF TypeInv, ExecutionOK
  <1>1. ASSUME NEW s, NEW g \in BOOLEAN,
               Persist([execution EXCEPT !.state = s], g),
               execution.state = "none" <=> s = "none",
               s = "permit_issued" => execution.state = "permit_issued",
               foreignKeys' = foreignKeys
        PROVE  MoveStep
    <2>1. execution' = [execution EXCEPT !.state = s] /\ execution'.state = s
      BY <1>1, <1>a DEF Persist, Execution
    <2>2. QED BY <1>1, <2>1 DEF MoveStep
  <1>2. ASSUME NEW g \in BOOLEAN, Persist(execution, g),
               foreignKeys' = foreignKeys
        PROVE  MoveStep
    <2>1. execution' = execution
          /\ execution = [execution EXCEPT !.state = execution.state]
      BY <1>2, <1>a DEF Persist, Execution
    <2>2. QED BY <1>2, <2>1 DEF MoveStep
  <1>3. ASSUME NEW c, Persist(c, FALSE),
               c = [execution EXCEPT !.state = c.state],
               execution.state = "none" <=> c.state = "none",
               c.state = "permit_issued" => execution.state = "permit_issued",
               foreignKeys' = foreignKeys
        PROVE  MoveStep
    <2>1. execution' = c
      BY <1>3 DEF Persist
    <2>2. QED BY <1>3, <2>1 DEF MoveStep
  <1>4. ASSUME NEW u \in Time, RecordAction(u) PROVE MoveStep
    <2>1. Persist(AfterClosure(StopIfRunning(execution), {actionRev}), FALSE)
          /\ foreignKeys' = foreignKeys
      BY <1>4 DEF RecordAction
    <2>2. QED BY <2>1, <1>a, <1>3, StopAndCloseOK DEF PreDispatch
  <1>5. CASE InvalidateAction
    <2>1. Persist(AfterClosure(StopIfRunning(execution), {actionRev}), FALSE)
          /\ foreignKeys' = foreignKeys
      BY <1>5 DEF InvalidateAction
    <2>2. QED BY <2>1, <1>a, <1>3, StopAndCloseOK DEF PreDispatch
  <1>6. ASSUME SupersedeUpstream \/ RecordTurn \/ InvalidateUpstream
        PROVE  MoveStep
    <2>1. Persist(AfterClosure(execution, IssuedActions), FALSE)
          /\ foreignKeys' = foreignKeys
      BY <1>6 DEF SupersedeUpstream, RecordTurn, InvalidateUpstream
    <2>2. QED BY <2>1, <1>a, <1>3, AfterClosureOK DEF PreDispatch
  <1>7. ASSUME NEW k \in Keys, NEW s \in Signers, NEW p \in Time,
               NEW u \in Time, AdmitAction(k, s, p, u)
        PROVE  MoveStep
    BY <1>2, <1>7 DEF AdmitAction
  <1>8. ASSUME RecordResponse \/ RejectIntent \/ CancelRun
               \/ InvalidateResponse \/ ReconcileExecution
               \/ InvalidateAdmission
        PROVE  MoveStep
    BY <1>2, <1>8 DEF RecordResponse, RejectIntent, CancelRun,
       InvalidateResponse, ReconcileExecution, InvalidateAdmission
  <1>9. ASSUME NEW b \in BOOLEAN, NEW l \in Time, NEW r \in Reservation,
               NEW n \in Attempt, ReserveExecution(b, l, r, n)
        PROVE  ReserveStep
    <2> DEFINE e == [state |-> "permit_issued", reservation |-> r,
                     attempt |-> n, action |-> actionRev,
                     admission |-> admission.rev, key |-> admission.key,
                     signer |-> admission.signer, until |-> admission.until,
                     lease |-> l]
    <2>1. /\ Persist(e, FALSE) /\ LiveRun /\ MayReserve(r, n)
          /\ foreignKeys' = foreignKeys
      BY <1>9 DEF ReserveExecution
    <2>2. /\ e.state = "permit_issued" /\ e.reservation = r /\ e.attempt = n
          /\ e.action = actionRev /\ e.key = admission.key
      OBVIOUS
    <2> HIDE DEF e
    <2>3. execution' = e
      BY <2>1 DEF Persist
    <2>4. QED BY <2>1, <2>2, <2>3 DEF ReserveStep
  <1>10. ASSUME NEW b \in BOOLEAN, RecoverPermit(b) PROVE MoveStep
    <2>1. PICK s : /\ Persist([execution EXCEPT !.state = s], FALSE)
                   /\ s \in {execution.state, "expired"}
      BY <1>10 DEF RecoverPermit
    <2>2. execution.state # "none" /\ foreignKeys' = foreignKeys
      BY <1>10 DEF RecoverPermit, PreDispatch
    <2>3. QED BY <1>1, <2>1, <2>2
  <1>11. ASSUME NEW b \in BOOLEAN, DeliverPermit(b) \/ StartDispatch(b)
         PROVE  MoveStep
    <2>1. PICK s \in {"permit_delivered", "dispatch_started", "cancelled",
                     "reconciliation_required"} :
              Persist([execution EXCEPT !.state = s], FALSE)
      BY <1>11 DEF DeliverPermit, StartDispatch, AdvancePermit, Stopped
    <2>2. execution.state # "none" /\ foreignKeys' = foreignKeys
      BY <1>11 DEF DeliverPermit, StartDispatch, AdvancePermit
    <2>3. QED BY <1>1, <2>1, <2>2
  <1>12. ASSUME NEW b \in BOOLEAN, ActionAdmissionProofFailure(b)
         PROVE  MoveStep
    <2>1. foreignKeys' = foreignKeys /\ Persist(GovernedExecution, TRUE)
      BY <1>12 DEF ActionAdmissionProofFailure
    <2>2. CASE execution.state = "none"
      BY <2>1, <2>2, <1>2 DEF GovernedExecution
    <2>3. CASE execution.state # "none"
      <3>1. PICK s \in {"reconciliation_required", "cancelled"} :
                Persist([execution EXCEPT !.state = s], TRUE)
        BY <2>1, <2>3 DEF GovernedExecution
      <3>2. QED BY <1>1, <2>1, <2>3, <3>1
    <2>4. QED BY <2>2, <2>3
  <1>13. ASSUME NEW o \in ReceiptStates, CommitExecutionReceipt(o)
         PROVE  MoveStep
    <2>1. /\ Persist([execution EXCEPT !.state = o], FALSE)
          /\ execution.state # "none" /\ o \notin {"permit_issued", "none"}
          /\ foreignKeys' = foreignKeys
      BY <1>13 DEF CommitExecutionReceipt, ReceiptAccepted, InFlight,
         ReceiptStates
    <2>2. QED BY <1>1, <2>1
  <1>14. CASE ExpireExecutionLease
    <2>1. PICK s \in {"reconciliation_required", "expired"} :
              Persist([execution EXCEPT !.state = s], FALSE)
      BY <1>14 DEF ExpireExecutionLease
    <2>2. execution.state # "none" /\ foreignKeys' = foreignKeys
      BY <1>14 DEF ExpireExecutionLease, PreDispatch
    <2>3. QED BY <1>1, <2>1, <2>2
  <1>15. CASE Environment
    BY <1>15 DEF Environment, Tick, RevokeKey, ForeignReserve, QuietStep
  <1>16. CASE UNCHANGED vars
    BY <1>16 DEF vars, QuietStep
  <1>17. QED
    BY <1>4, <1>5, <1>6, <1>7, <1>8, <1>9, <1>10, <1>11, <1>12, <1>13,
       <1>14, <1>15, <1>16
       DEF Next, ContractCommand, ExecutionCommand, ClosingCommand

\* Only the current slot was ever dispatched.
StartedIsCurrent ==
    \A a \in Slot : attempts[a].started =>
        a = CurrentSlot /\ attempts[a].state \in CrossedDispatch

FencesExclude == \A key \in Keys : fences[key] # 0 => key \notin foreignKeys

\* The inductive invariant of the tables.  StartedIsCurrent is what makes a
\* dispatch unrepeatable: a slot that was left behind was never dispatched.
TableInv ==
    /\ ProjectionMatchesTables
    /\ SingleActiveAttempt
    /\ StartedIsCurrent
    /\ FencesExclude
    /\ execution.state = "none" => execution.reservation = 0

\* The execution tables start empty.
LEMMA TableInit == Init => TableInv
  <1> SUFFICES ASSUME Init PROVE TableInv
    OBVIOUS
  <1>1. \A a \in Slot : attempts[a].state = "none" /\ ~attempts[a].started
    BY DEF Init, Slot, NoAttempt
  <1>2. \A r \in Reservation : reservations[r].state = "none"
    BY DEF Init, NoReservation
  <1>3. QED
    BY <1>1, <1>2 DEF Init, TableInv, ProjectionMatchesTables,
       SingleActiveAttempt, StartedIsCurrent, FencesExclude, NoExecution,
       Terminal

\* What Persist writes, row by row.
LEMMA PersistRows ==
    ASSUME TypeOK, NEW e, ExecutionOK(e), e.state # "none",
           NEW g \in BOOLEAN, Persist(e, g)
    PROVE  LET slot == <<e.reservation, e.attempt>>
           IN  /\ execution' = e
               /\ slot \in Slot
               /\ \A a \in Slot : a # slot => attempts'[a] = attempts[a]
               /\ attempts'[slot].state = e.state
               /\ attempts'[slot].started
                     <=> attempts[slot].started \/ e.state \in CrossedDispatch
               /\ \A r \in Reservation :
                     r # e.reservation => reservations'[r] = reservations[r]
               /\ reservations'[e.reservation].state = e.state
               /\ reservations[e.reservation].state = "none" =>
                     /\ reservations'[e.reservation].action = e.action
                     /\ reservations'[e.reservation].key = e.key
               /\ reservations[e.reservation].state # "none" =>
                     /\ reservations'[e.reservation].action
                           = reservations[e.reservation].action
                     /\ reservations'[e.reservation].key
                           = reservations[e.reservation].key
               /\ fences'[e.key] = e.reservation
               /\ \A key \in Keys : key # e.key => fences'[key] = fences[key]
  <1> DEFINE slot == <<e.reservation, e.attempt>>
  <1>1. /\ e.reservation \in Reservation /\ e.attempt \in Attempt
        /\ e.key \in Keys /\ slot \in Slot
    BY DEF ExecutionOK, Slot
  <1>2. /\ \A a \in Slot : a # slot => attempts'[a] = attempts[a]
        /\ attempts'[slot] =
              [state |-> e.state,
               started |-> attempts[slot].started
                              \/ e.state \in CrossedDispatch]
    BY <1>1 DEF Persist, WriteTables, WriteAttempt, TypeOK, Slot
  <1>3. /\ attempts'[slot].state = e.state
        /\ attempts'[slot].started
              <=> attempts[slot].started \/ e.state \in CrossedDispatch
    <2> HIDE DEF slot
    <2>1. attempts'[slot].state = e.state
      BY <1>2
    <2>2. attempts'[slot].started =
              (attempts[slot].started \/ e.state \in CrossedDispatch)
      BY <1>2
    <2>3. QED BY <2>1, <2>2, Zenon
  <1>4. /\ \A r \in Reservation :
              r # e.reservation => reservations'[r] = reservations[r]
        /\ reservations'[e.reservation] =
              IF reservations[e.reservation].state = "none"
              THEN [state |-> e.state, action |-> e.action,
                    admission |-> e.admission, key |-> e.key]
              ELSE [reservations[e.reservation] EXCEPT !.state = e.state]
    BY <1>1 DEF Persist, WriteTables, WriteReservation, TypeOK
  <1>5. reservations[e.reservation] \in ReservationRow
    BY <1>1 DEF TypeOK
  <1>6. /\ reservations'[e.reservation].state = e.state
        /\ reservations[e.reservation].state = "none" =>
              /\ reservations'[e.reservation].action = e.action
              /\ reservations'[e.reservation].key = e.key
        /\ reservations[e.reservation].state # "none" =>
              /\ reservations'[e.reservation].action
                    = reservations[e.reservation].action
              /\ reservations'[e.reservation].key
                    = reservations[e.reservation].key
    BY <1>4, <1>5 DEF ReservationRow
  <1>7. /\ fences'[e.key] = e.reservation
        /\ \A key \in Keys : key # e.key => fences'[key] = fences[key]
    BY <1>1 DEF Persist, WriteTables, TypeOK
  <1>8. execution' = e
    BY DEF Persist
  <1>9. QED BY <1>1, <1>2, <1>3, <1>4, <1>6, <1>7, <1>8

\* What a step may do to a dispatched attempt.
DispatchKept ==
    \A a \in Slot : attempts[a].started =>
        attempts'[a].started /\ attempts'[a].state \in CrossedDispatch

\* A move within the slot: the other rows stay, and the triggers let a
\* dispatched attempt go nowhere but to reconciliation or to a Receipt.
LEMMA MoveKeepsTables ==
    ASSUME TypeInv, TypeInv', TableInv, MoveStep
    PROVE  TableInv' /\ DispatchKept
  <1> DEFINE e == execution'
             slot == CurrentSlot
  <1>a. PICK g \in BOOLEAN : Persist(e, g)
    BY DEF MoveStep
  <1>b. /\ e.reservation = execution.reservation
        /\ e.attempt = execution.attempt
        /\ e.action = execution.action /\ e.key = execution.key
        /\ CurrentSlot' = slot
    BY DEF MoveStep, TypeInv, ExecutionOK, Execution, CurrentSlot
  <1>1. CASE e.state = "none"
    <2>1. UNCHANGED <<fences, reservations, attempts>>
      BY <1>a, <1>1 DEF Persist, WriteTables
    <2>2. execution.state = "none" /\ foreignKeys' = foreignKeys
      BY <1>1 DEF MoveStep
    <2>3. QED
      BY <1>1, <1>b, <2>1, <2>2 DEF TableInv, ProjectionMatchesTables,
         SingleActiveAttempt, StartedIsCurrent, FencesExclude, DispatchKept
  <1>2. CASE e.state # "none"
    <2>1. execution.state # "none" /\ foreignKeys' = foreignKeys
      BY <1>2 DEF MoveStep
    <2>2. ExecutionOK(e)
      BY DEF TypeInv, ExecutionOK
    <2>3. slot = <<e.reservation, e.attempt>>
      BY <1>b DEF CurrentSlot
    <2>4. /\ slot \in Slot
          /\ \A a \in Slot : a # slot => attempts'[a] = attempts[a]
          /\ attempts'[slot].state = e.state
          /\ attempts'[slot].started
                <=> attempts[slot].started \/ e.state \in CrossedDispatch
          /\ \A r \in Reservation :
                r # e.reservation => reservations'[r] = reservations[r]
          /\ reservations'[e.reservation].state = e.state
          /\ reservations[e.reservation].state # "none" =>
                /\ reservations'[e.reservation].action
                      = reservations[e.reservation].action
                /\ reservations'[e.reservation].key
                      = reservations[e.reservation].key
          /\ fences'[e.key] = e.reservation
          /\ \A key \in Keys : key # e.key => fences'[key] = fences[key]
      BY <1>2, <1>a, <2>2, <2>3, PersistRows DEF TypeInv
    <2>5. /\ reservations[e.reservation].state = execution.state
          /\ reservations[e.reservation].action = e.action
          /\ reservations[e.reservation].key = e.key
          /\ attempts[slot].state = execution.state
          /\ fences[e.key] = e.reservation
      BY <1>b, <2>1 DEF TableInv, ProjectionMatchesTables
    <2>6. ProjectionMatchesTables'
      BY <1>b, <2>1, <2>4, <2>5 DEF ProjectionMatchesTables
    <2>7. SingleActiveAttempt'
      BY <1>b, <2>4 DEF TableInv, SingleActiveAttempt
    <2>8. execution.state \in CrossedDispatch => e.state \in CrossedDispatch
      <3>1. TransitionAllowed(execution.state, e.state, g)
        BY <1>2, <1>a, <2>1, <2>3, <2>5
           DEF Persist, DatabaseAccepts, AttemptRowAccepts
      <3>2. e.state = "permit_issued" => execution.state = "permit_issued"
        BY DEF MoveStep
      <3>3. QED
        BY <3>1, <3>2 DEF TransitionAllowed, CrossedDispatch, InFlight,
           ReceiptStates
    <2>9. attempts[slot].started => e.state \in CrossedDispatch
      BY <2>4, <2>5, <2>8 DEF TableInv, StartedIsCurrent
    <2>10. StartedIsCurrent'
      BY <1>b, <2>4, <2>9 DEF TableInv, StartedIsCurrent
    <2>11. DispatchKept
      BY <2>4, <2>9 DEF TableInv, StartedIsCurrent, DispatchKept
    <2>12. e.reservation # 0
      BY <1>2, <2>2 DEF ExecutionOK, Reservation
    <2>13. FencesExclude'
      BY <2>1, <2>4, <2>5, <2>12 DEF TableInv, FencesExclude
    <2>14. QED
      BY <1>2, <2>6, <2>7, <2>10, <2>11, <2>13 DEF TableInv
  <1>3. QED BY <1>1, <1>2

\* A Reservation starts from a slot that was never dispatched: the Run is
\* live, so the execution is absent, cancelled or expired.
LEMMA ReserveKeepsTables ==
    ASSUME TypeInv, TypeInv', RunInv, TableInv, ReserveStep
    PROVE  TableInv' /\ DispatchKept
  <1> DEFINE e == execution'
             slot == <<e.reservation, e.attempt>>
  <1>a. /\ Persist(e, FALSE) /\ e.state = "permit_issued"
        /\ MayReserve(e.reservation, e.attempt)
        /\ e.action = actionRev /\ e.key = admission.key
        /\ foreignKeys' = foreignKeys
    BY DEF ReserveStep
  <1>b. ExecutionOK(e)
    BY DEF TypeInv, ExecutionOK
  <1>c. execution.state \in {"none", "cancelled", "expired"}
    BY <1>a, LiveRunHasNoReceipt DEF ReserveStep, MayReserve, ReceiptStates
  <1>d. CurrentSlot \in Slot =>
            attempts[CurrentSlot].state = execution.state
            /\ execution.state \in {"cancelled", "expired"}
    BY <1>c DEF TableInv, ProjectionMatchesTables, CurrentSlot, Slot,
       Reservation
  <1>e. \A a \in Slot : ~attempts[a].started
    BY <1>d DEF TableInv, StartedIsCurrent, CrossedDispatch, InFlight,
       ReceiptStates
  <1>f. \A a \in Slot : attempts[a].state \in Terminal \cup {"none"}
    BY <1>d DEF TableInv, SingleActiveAttempt, Terminal
  <1>g. \A r \in Reservation :
            reservations[r].state \in Terminal \cup {"none"}
    BY <1>c DEF TableInv, SingleActiveAttempt, ProjectionMatchesTables,
       Terminal, Reservation
  <1>1. /\ CurrentSlot' = slot /\ slot \in Slot
        /\ \A a \in Slot : a # slot => attempts'[a] = attempts[a]
        /\ attempts'[slot].state = e.state
        /\ attempts'[slot].started
              <=> attempts[slot].started \/ e.state \in CrossedDispatch
        /\ \A r \in Reservation :
              r # e.reservation => reservations'[r] = reservations[r]
        /\ reservations'[e.reservation].state = e.state
        /\ reservations[e.reservation].state = "none" =>
              /\ reservations'[e.reservation].action = e.action
              /\ reservations'[e.reservation].key = e.key
        /\ reservations[e.reservation].state # "none" =>
              /\ reservations'[e.reservation].action
                    = reservations[e.reservation].action
              /\ reservations'[e.reservation].key
                    = reservations[e.reservation].key
        /\ fences'[e.key] = e.reservation
        /\ \A key \in Keys : key # e.key => fences'[key] = fences[key]
    BY <1>a, <1>b, PersistRows DEF TypeInv, CurrentSlot
  <1>2. reservations[e.reservation].state # "none" =>
            /\ reservations[e.reservation].action = e.action
            /\ reservations[e.reservation].key = e.key
    BY <1>a DEF MayReserve, FreshReservation, TableInv,
       ProjectionMatchesTables
  <1>3. ProjectionMatchesTables'
    BY <1>1, <1>2 DEF ProjectionMatchesTables
  <1>4. SingleActiveAttempt'
    BY <1>1, <1>f, <1>g DEF SingleActiveAttempt
  <1>5. \A a \in Slot : ~attempts'[a].started
    BY <1>a, <1>1, <1>e DEF CrossedDispatch, InFlight, ReceiptStates
  <1>6. StartedIsCurrent' /\ DispatchKept
    BY <1>5, <1>e DEF StartedIsCurrent, DispatchKept
  <1>7. FencesExclude'
    <2>1. FenceAccepts(e)
      BY <1>a DEF Persist, DatabaseAccepts
    <2>2. e.reservation # 0 /\ e.key \in Keys
      BY <1>a, <1>b DEF ExecutionOK, Reservation
    <2>3. e.key \notin foreignKeys
      BY <2>1, <2>2 DEF FenceAccepts, TableInv, FencesExclude
    <2>4. QED BY <1>a, <1>1, <2>3 DEF TableInv, FencesExclude
  <1>8. QED BY <1>a, <1>3, <1>4, <1>6, <1>7 DEF TableInv

\* A step that leaves the execution tables alone keeps their invariant.
LEMMA QuietKeepsTables ==
    ASSUME TypeInv, TableInv, QuietStep PROVE TableInv' /\ DispatchKept
  <1>1. CurrentSlot' = CurrentSlot
    BY DEF QuietStep, CurrentSlot
  <1>2. QED
    BY <1>1 DEF QuietStep, TableInv, ProjectionMatchesTables,
       SingleActiveAttempt, StartedIsCurrent, FencesExclude, DispatchKept

\* Every command keeps the invariant of the execution tables, and keeps
\* every dispatch they record.
LEMMA TableStep ==
    TypeInv /\ RunInv /\ TableInv /\ [Next]_vars => TableInv' /\ DispatchKept
  BY TypeStep, StepShape, MoveKeepsTables, ReserveKeepsTables,
     QuietKeepsTables

-----------------------------------------------------------------------------
(* The theorems of the execution.                                          *)

ExecutionInv == TypeInv /\ RunInv /\ TableInv

\* The inductive invariant of the execution authority: types, what the Run
\* reports of its execution, and how the execution tables follow it.
THEOREM ExecutionInvariant == Spec => []ExecutionInv
  <1>1. Init => ExecutionInv
    BY TypeInit, RunInit, TableInit DEF ExecutionInv
  <1>2. ExecutionInv /\ [Next]_vars => ExecutionInv'
    BY TypeStep, RunStep, TableStep DEF ExecutionInv
  <1>3. QED BY <1>1, <1>2, PTL DEF Spec

\* Only the attempt of projection.execution can still make progress.
THEOREM OneActiveAttempt == Spec => []SingleActiveAttempt
  <1>1. ExecutionInv => SingleActiveAttempt
    BY DEF ExecutionInv, TableInv
  <1>2. QED BY <1>1, ExecutionInvariant, PTL

\* The tables agree with the projection after every commit.
THEOREM TablesFollowProjection == Spec => []ProjectionMatchesTables
  <1>1. ExecutionInv => ProjectionMatchesTables
    BY DEF ExecutionInv, TableInv
  <1>2. QED BY <1>1, ExecutionInvariant, PTL

\* An idempotency key is dispatched at most once, and never when its Fence
\* belongs to another Run.
THEOREM OneDispatchPerKey == Spec => []KeyHasOneDispatcher
  <1>1. ASSUME ExecutionInv PROVE KeyHasOneDispatcher
    <2>1. \A a, b \in Slot : attempts[a].started /\ attempts[b].started
              => a = b
      BY <1>1 DEF ExecutionInv, TableInv, StartedIsCurrent
    <2>2. ASSUME NEW a \in Slot, attempts[a].started
          PROVE  reservations[a[1]].key \notin foreignKeys
      <3>1. a = CurrentSlot /\ a[1] = execution.reservation
            /\ execution.reservation \in Reservation
        BY <1>1, <2>2 DEF ExecutionInv, TableInv, StartedIsCurrent,
           CurrentSlot, Slot
      <3>2. execution.state # "none"
        BY <1>1, <3>1 DEF ExecutionInv, TableInv, Reservation
      <3>3. /\ reservations[a[1]].key = execution.key
            /\ execution.key \in Keys
            /\ fences[execution.key] # 0
        BY <1>1, <3>1, <3>2 DEF ExecutionInv, TableInv, Reservation,
           ProjectionMatchesTables, TypeInv, ExecutionOK
      <3>4. QED
        BY <1>1, <3>3 DEF ExecutionInv, TableInv, FencesExclude
    <2>3. QED BY <2>1, <2>2 DEF KeyHasOneDispatcher
  <1>2. QED BY <1>1, ExecutionInvariant, PTL

\* A dispatched attempt is never cancelled, expired or issued again.
THEOREM DispatchIsKept == Spec => DispatchFactKept
  <1>1. ExecutionInv /\ [Next]_vars => [DispatchKept]_vars
    BY TableStep DEF ExecutionInv
  <1>2. QED
    BY <1>1, ExecutionInvariant, PTL DEF Spec, DispatchFactKept, DispatchKept

-----------------------------------------------------------------------------
(* A Run that is opened again.                                             *)

StartsOver ==
    ~LiveRun /\ LiveRun' =>
        /\ execution'.state \notin PreDispatch \cup InFlight
        /\ admission' = NoAdmission

\* The governed disposition withdraws the Admission; the execution it leaves
\* is over, unless the Run goes to reconciliation with it.
LEMMA ProofFailureStartsOver ==
    ASSUME TypeInv, NEW bound \in BOOLEAN, ActionAdmissionProofFailure(bound)
    PROVE  StartsOver
  <1>1. /\ execution' = GovernedExecution
        /\ admission' = NoAdmission
        /\ runState' = IF execution.state \in CrossedDispatch
                       THEN "reconciliation_required"
                       ELSE "waiting_authorization"
    BY DEF ActionAdmissionProofFailure, Persist
  <1>2. CASE execution.state \in CrossedDispatch
    BY <1>1, <1>2 DEF StartsOver, LiveRun
  <1>3. CASE execution.state \notin CrossedDispatch
    <2>1. execution \in Execution
      BY DEF TypeInv, ExecutionOK
    <2>2. execution'.state \in {"none", "cancelled"}
      BY <1>1, <1>3, <2>1 DEF GovernedExecution, Execution
    <2> QED
      BY <1>1, <2>2 DEF StartsOver, PreDispatch, InFlight
  <1> QED
    BY <1>2, <1>3

\* Every other command asks for a live Run, closes it or leaves its state.
LEMMA StepStartsOver == TypeInv /\ [Next]_vars => StartsOver
  <1> SUFFICES ASSUME TypeInv, [Next]_vars PROVE StartsOver
    OBVIOUS
  <1>1. CASE LiveRun
    BY <1>1 DEF StartsOver
  <1>2. CASE runState' = runState
    BY <1>2 DEF StartsOver, LiveRun
  <1>3. CASE runState' \in {"cancelled", "succeeded", "failed", "rejected"}
    BY <1>3 DEF StartsOver, LiveRun
  <1>4. ASSUME NEW bound \in BOOLEAN, ActionAdmissionProofFailure(bound)
        PROVE  StartsOver
    BY <1>4, ProofFailureStartsOver
  <1>5. ASSUME ContractCommand
        PROVE  LiveRun \/ runState' = "cancelled"
    BY <1>5 DEF ContractCommand, RecordAction, AdmitAction,
       SupersedeUpstream, RecordTurn, RecordResponse, RejectIntent, CancelRun,
       InvalidateUpstream, InvalidateAction, InvalidateAdmission,
       InvalidateResponse
  <1>6. ASSUME ExecutionCommand
        PROVE  LiveRun \/ \E bound \in BOOLEAN : ActionAdmissionProofFailure(bound)
    BY <1>6 DEF ExecutionCommand, ReserveExecution, RecoverPermit,
       DeliverPermit, StartDispatch, AdvancePermit
  <1>7. ASSUME ClosingCommand
        PROVE  \/ runState' = runState
               \/ runState' \in {"succeeded", "failed", "rejected"}
    BY <1>7 DEF ClosingCommand, CommitExecutionReceipt, ReconcileExecution,
       ExpireExecutionLease, RunAfterReceipt, ReceiptStates
  <1>8. ASSUME Environment \/ UNCHANGED vars
        PROVE  runState' = runState
    BY <1>8 DEF Environment, Tick, RevokeKey, ForeignReserve, vars
  <1> QED
    BY <1>1, <1>2, <1>3, <1>4, <1>5, <1>6, <1>7, <1>8 DEF Next

\* A closed Run is opened again only without a Permit, a dispatch in flight or
\* an Admission.
THEOREM ReopensEmpty == Spec => ReopenedRunStartsOver
  BY StepStartsOver, TypeInit, TypeStep, PTL
     DEF Spec, ReopenedRunStartsOver, StartsOver
=============================================================================
