------------------------- MODULE ProofVerification -------------------------
(***************************************************************************)
(* The signed proofs that a command carries, verified inside the           *)
(* transaction that consumes them, against the Trust Root of the process   *)
(* and the time of the database, while the Trust Root is being rotated.    *)
(*                                                                         *)
(* The clock and the Trust Root are not rows: a transaction reads each of  *)
(* them once, in this order, and uses them however long it then waits.     *)
(* What it reads and writes in tables is one serializable step.  Which     *)
(* state a Run must be in for a command is ExecutionAuthority's matter and *)
(* that a proof is consumed by one command only CommandLedger's: here      *)
(* every command that passes verification may commit or be refused, and    *)
(* no two commands share a proof.  One tenant, one environment.            *)
(***************************************************************************)
EXTENDS Naturals, FiniteSets

CONSTANTS
    Sessions,   \* transactions that may run at the same time in the process
    Roots,      \* Roots[v] : the keys of the Trust Root snapshot of version v
    Commands,   \* the command envelopes that are sent, some more than once
    Issuer,     \* Issuer[kind] : the configured issuer of a kind of proof
    MaxTime     \* bound on the clock

Versions == DOMAIN Roots
Kinds    == DOMAIN Issuer

ACTION_ADMISSION_PROOF_KINDS ==
    {"Capability", "Authority", "Policy", "ExactAuthorization", "ActionAdmission"}

\* The commands that only an admitted Action allows.
PermitOps ==
    {"ReserveExecution", "RecoverPermit", "DeliverPermit", "StartDispatch"}

\* The commands that replace or withdraw a record that an Admission may rest on.
UpstreamOps ==
    {"RecordContext", "RecordIntent", "RecordDecision", "RecordTurn", "RecordAction", "InvalidateRecord"}

Proofs == UNION {c.proofs : c \in Commands}

-----------------------------------------------------------------------------
(* What constructors let through.                                          *)

\* revoked holds the time of the revocation, if the key has one.
KeyValid(k) ==
    /\ k.kinds # {} /\ k.kinds \subseteq Kinds
    /\ k.validFrom \in Nat \ {0} /\ k.validUntil \in Nat
    /\ k.validFrom < k.validUntil
    /\ \A t \in k.revoked :
         t \in Nat /\ k.validFrom <= t /\ t <= k.validUntil

ClaimsValid(p) ==
    /\ p.issuedAt \in Nat \ {0} /\ p.notBefore \in Nat /\ p.expiresAt \in Nat
    /\ p.issuedAt <= p.notBefore
    /\ p.notBefore < p.expiresAt

ASSUME RootsAssumption ==
    /\ Versions \subseteq Nat \ {0} /\ 1 \in Versions
    /\ \A v \in Versions :
         DOMAIN Roots[v] # {} /\ \A i \in DOMAIN Roots[v] : KeyValid(Roots[v][i])

ASSUME CommandsAssumption ==
    /\ ACTION_ADMISSION_PROOF_KINDS \subseteq Kinds
    /\ MaxTime \in Nat \ {0}
    /\ \A c \in Commands : IsFiniteSet(c.proofs)
    /\ \A p \in Proofs : p.kind \in Kinds /\ ClaimsValid(p)

\* A proof is consumed once: of two commands that carried it one could not commit
\* (CommandLedger), so each command here has proofs of its own.
ASSUME ProofsAssumption ==
    \A c, d \in Commands : c # d => c.proofs \cap d.proofs = {}

TrustsAt(v, i, t) ==
    /\ i \in DOMAIN Roots[v]
    /\ t < Roots[v][i].validUntil
    /\ \A r \in Roots[v][i].revoked : t < r

\* Some root up to version v had the key and version v does not trust it at t.
BarredAt(v, i, t) ==
    /\ \E u \in Versions : u <= v /\ i \in DOMAIN Roots[u]
    /\ ~ TrustsAt(v, i, t)

\* What the operators of the Trust Root owe: a key that has been taken out,
\* has ended or was revoked stays so in later versions.  rotate() compares
\* version numbers and nothing else.
ASSUME NoReinstatement ==
    \A v, w \in Versions :
        v <= w =>
          \A i \in UNION {DOMAIN Roots[u] : u \in Versions}, t \in 1 .. MaxTime :
            BarredAt(v, i, t) => BarredAt(w, i, t)

-----------------------------------------------------------------------------
VARIABLES
    now,        \* the clock of the database
    root,       \* the version current_snapshot() returns
    peak,       \* the highest version that has been installed
    tx,         \* tx[s] : the open transaction of session s
    receipts,   \* the commands whose Receipt is stored
    admission,  \* the proofs bound in the Run's Action Admission, {} if none
    failed,     \* the bundles of proofs that a governed disposition withdrew
    used        \* what a transaction that this step ended relied on

vars == <<now, root, peak, tx, receipts, admission, failed, used>>
rows == <<receipts, admission, failed>>

NoTx  == [stage |-> "none"]
Begun == [stage : {"begun"}, cmd : Commands, at : 1 .. MaxTime, floor : Versions]
Read  == [stage : {"read"}, cmd : Commands, at : 1 .. MaxTime, floor : Versions,
          ver : Versions]
Nothing == [proofs |-> {}, bound |-> {}]
Uses == [proofs : SUBSET Proofs, bound : SUBSET Proofs, at : 1 .. MaxTime,
         floor : Versions]

\* Rows and transactions have their types, and the Admission in force is a bundle
\* of proofs.
TypeOK ==
    /\ now \in 1 .. MaxTime
    /\ root \in Versions /\ peak \in Versions
    /\ tx \in [Sessions -> {NoTx} \cup Begun \cup Read]
    /\ receipts \in SUBSET Commands
    /\ admission \in SUBSET Proofs
    /\ failed \in SUBSET SUBSET Proofs
    /\ used \in {Nothing} \cup Uses

Init ==
    /\ now = 1
    /\ root = 1 /\ peak = 1
    /\ tx = [s \in Sessions |-> NoTx]
    /\ receipts = {} /\ admission = {} /\ failed = {}
    /\ used = Nothing

-----------------------------------------------------------------------------
(* The clock and the Trust Root.                                           *)

Tick ==
    /\ now < MaxTime
    /\ now' = now + 1
    /\ used' = Nothing
    /\ UNCHANGED <<root, peak, tx, rows>>

\* Mutant: any snapshot replaces the current one.
AdvancesNot(v) == v # root

\* rotate() refuses a version that is not above the current one.
Advances(v) == v > root

Rotate(v) ==
    /\ Advances(v)
    /\ root' = v
    /\ peak' = IF v > peak THEN v ELSE peak
    /\ used' = Nothing
    /\ UNCHANGED <<now, tx, rows>>

-----------------------------------------------------------------------------
(* Verification.                                                           *)

OpProofKinds(op) ==
    CASE op = "StartRun"             -> {"InputAdmission"}
      [] op = "RecordContext"        -> {"ContextSnapshot"}
      [] op = "RecordIntent"         -> {"IntentFastPathAdmission"}
      [] op = "RecordDecision"       -> {"DecisionNecessityAdmission"}
      [] op = "RecordTurn"           -> {"TurnCoordinationAdmission"}
      [] op \in {"RecordResponse", "RecordAction"} -> {}
      [] op = "ConsumeResponseSend"  -> {"ResponsePolicy", "ResponseAdmission"}
      [] op = "AdmitAction"          -> ACTION_ADMISSION_PROOF_KINDS
      [] op \in PermitOps \cup {"ExpireExecutionLease"} -> {"ExecutionPermit"}
      [] op = "CancelRun"            -> {"Authority"}
      [] op \in {"CommitExecutionReceipt", "ReconcileExecution"} -> {"ProviderReceipt"}
      [] op = "InvalidateRecord"     -> {"Policy"}
      [] op \in {"RecordOutcome", "ProposeHumanModelCandidate"} -> {"OutcomeObservation"}
      [] op \in {"RecordHumanModelPromotion", "PromoteHumanModelAssertion"} ->
           {"HumanModelPromotion"}
      [] op = "RecordUserConfirmedPromotion" ->
           {"HumanModelPromotion", "HumanModelUserConfirmation"}
      [] op = "RecordOutcomeSupportedPromotion" ->
           {"HumanModelPromotion", "OutcomeObservation"}
      [] op = "CorrectHumanModelAssertion" -> {"HumanModelCorrection"}

RequiredProofKinds(op) == OpProofKinds(op) \cup {"CallerAuthentication"}

\* Mutant: the key's window is compared with the proof's end, not its issue.
VerifyAtEndInWindow(p, expected, v, t) ==
    /\ p.keyId \in DOMAIN Roots[v]
    /\ LET key == Roots[v][p.keyId]
       IN /\ p.subject = expected.subject /\ p.scope = expected.scope
          /\ p.issuer = Issuer[p.kind] /\ p.issuer = key.issuer
          /\ p.kind \in key.kinds
          /\ p.notBefore <= t /\ t < p.expiresAt
          /\ key.validFrom < p.expiresAt /\ t < key.validUntil
          /\ \A r \in key.revoked : t < r
    /\ p.signed

\* TrustRootSnapshotV1::verify_at.  signed: the signature is the key's, over
\* these claims; subject is the command they were issued for, scope stands for
\* its tenant, scope, purpose and policy revision.
VerifyAt(p, expected, v, t) ==
    /\ p.keyId \in DOMAIN Roots[v]
    /\ LET key == Roots[v][p.keyId]
       IN /\ p.subject = expected.subject /\ p.scope = expected.scope
          /\ p.issuer = Issuer[p.kind] /\ p.issuer = key.issuer
          /\ p.kind \in key.kinds
          /\ p.notBefore <= t /\ t < p.expiresAt
          /\ key.validFrom <= p.issuedAt /\ t < key.validUntil
          /\ \A r \in key.revoked : t < r
    /\ p.signed

\* One proof of every required kind and no other proof.
ExactKinds(c) ==
    /\ {p.kind : p \in c.proofs} = RequiredProofKinds(c.op)
    /\ Cardinality(c.proofs) = Cardinality(RequiredProofKinds(c.op))

\* Mutant: for whom a proof was issued is not compared.
VerifyProofsAnyPrincipal(c, v, t) ==
    /\ ExactKinds(c)
    /\ \A p \in c.proofs : p.allows /\ VerifyAt(p, c, v, t)

\* allows: the assertion of the claims is the one that a proof of this kind
\* must make (approve, allow, issue, ...).
VerifyProofs(c, v, t) ==
    /\ ExactKinds(c)
    /\ \A p \in c.proofs : p.allows /\ p.principal = c.principal
    /\ \A p \in c.proofs : VerifyAt(p, c, v, t)

\* The proofs stored with the Admission, for the subject they were issued for
\* and the scope of the command at hand.
ReverifyBound(c, v, t) ==
    /\ {p.kind : p \in admission} = ACTION_ADMISSION_PROOF_KINDS
    /\ \A p \in admission :
         p.allows /\ VerifyAt(p, [subject |-> p.subject, scope |-> c.scope], v, t)

-----------------------------------------------------------------------------
(* Transactions.                                                           *)

\* The transaction begins and reads the clock.
Begin(s, c) ==
    /\ tx[s] = NoTx
    /\ tx' = [tx EXCEPT ![s] =
                [stage |-> "begun", cmd |-> c, at |-> now, floor |-> peak]]
    /\ used' = Nothing
    /\ UNCHANGED <<now, root, peak, rows>>

ReadRoot(s) ==
    /\ tx[s].stage = "begun"
    /\ tx' = [tx EXCEPT ![s] =
                [stage |-> "read", cmd |-> tx[s].cmd, at |-> tx[s].at,
                 floor |-> tx[s].floor, ver |-> root]]
    /\ used' = Nothing
    /\ UNCHANGED <<now, root, peak, rows>>

Verified(s) ==
    tx[s].stage = "read" /\ VerifyProofs(tx[s].cmd, tx[s].ver, tx[s].at)

Use(s, bound) ==
    [proofs |-> tx[s].cmd.proofs, bound |-> bound, at |-> tx[s].at, floor |-> tx[s].floor]

Close(s) == tx' = [tx EXCEPT ![s] = NoTx]

\* An error, a conflict with another transaction or a refusal by the
\* transition: nothing is written.
Rollback(s) ==
    /\ tx[s] # NoTx
    /\ Close(s)
    /\ used' = Nothing
    /\ UNCHANGED <<now, root, peak, rows>>

\* The Receipt of this command is stored: it is returned, once more verified.
Replay(s) ==
    /\ Verified(s) /\ tx[s].cmd \in receipts
    /\ Close(s)
    /\ used' = Use(s, {})
    /\ UNCHANGED <<now, root, peak, rows>>

Store(s) ==
    /\ Verified(s) /\ tx[s].cmd \notin receipts
    /\ Close(s)
    /\ receipts' = receipts \cup {tx[s].cmd}
    /\ UNCHANGED <<now, root, peak>>

\* Any other command; the replacement of a record upstream of the Admission, or an
\* invalidation, may withdraw it with what depended on the earlier record.
Record(s) ==
    /\ Store(s)
    /\ tx[s].cmd.op \notin PermitOps \cup {"AdmitAction"}
    /\ \/ UNCHANGED admission
       \/ tx[s].cmd.op \in UpstreamOps /\ admission' = {}
    /\ used' = Use(s, {})
    /\ UNCHANGED failed

\* The Admission binds its five proofs.
Admit(s) ==
    /\ Store(s)
    /\ tx[s].cmd.op = "AdmitAction"
    /\ admission' = {p \in tx[s].cmd.proofs : p.kind \in ACTION_ADMISSION_PROOF_KINDS}
    /\ used' = Use(s, {})
    /\ UNCHANGED failed

\* Reserve, recover, deliver or dispatch, under an Admission that still holds.
Release(s) ==
    /\ Store(s)
    /\ tx[s].cmd.op \in PermitOps
    /\ admission # {} /\ ReverifyBound(tx[s].cmd, tx[s].ver, tx[s].at)
    /\ used' = Use(s, admission)
    /\ UNCHANGED <<admission, failed>>

\* Mutant: the failed Admission stays.
WithdrawNothing(s) ==
    /\ Store(s)
    /\ tx[s].cmd.op \in PermitOps
    /\ admission # {} /\ ~ ReverifyBound(tx[s].cmd, tx[s].ver, tx[s].at)
    /\ failed' = failed \cup {admission}
    /\ UNCHANGED admission
    /\ used' = Use(s, {})

\* The governed disposition: the Admission no longer verifies, it and what
\* depends on it are withdrawn.
Withdraw(s) ==
    /\ Store(s)
    /\ tx[s].cmd.op \in PermitOps
    /\ admission # {} /\ ~ ReverifyBound(tx[s].cmd, tx[s].ver, tx[s].at)
    /\ failed' = failed \cup {admission}
    /\ admission' = {}
    /\ used' = Use(s, {})

Next ==
    \/ Tick
    \/ \E v \in Versions : Rotate(v)
    \/ \E s \in Sessions :
         \/ \E c \in Commands : Begin(s, c)
         \/ ReadRoot(s) \/ Rollback(s) \/ Replay(s)
         \/ Record(s) \/ Admit(s) \/ Release(s) \/ Withdraw(s)

Spec == Init /\ [][Next]_vars

-----------------------------------------------------------------------------
(* Properties.                                                             *)

Relied == used.proofs \cup used.bound

\* Once a rotation that takes out, ends or revokes a key is installed, no
\* transaction that begins afterwards commits, replays a Receipt or releases an
\* admitted Action on a proof of that key (postgres_authority.rs:2213, 2268,
\* 2737), whatever versions are presented to rotate() later
\* (postgres_authority.rs:161).
RevocationSticks ==
    \A p \in Relied : ~ BarredAt(used.floor, p.keyId, used.at)

\* Every proof that was relied on was used within its own window and within
\* the window of a key of some installed root, its beginning included: verify_at
\* compares only the time of issue with the key's valid_from (production.rs:682).
UsedInWindows ==
    \A p \in Relied :
        /\ p.issuedAt <= used.at /\ used.at < p.expiresAt
        /\ \E v \in Versions :
             /\ v <= peak /\ p.keyId \in DOMAIN Roots[v]
             /\ Roots[v][p.keyId].validFrom <= used.at
             /\ used.at < Roots[v][p.keyId].validUntil

\* A permit is reserved, recovered, delivered or dispatched only on the five
\* approvals of one AdmitAction command, one of each kind, given for that
\* command and its principal, even when Admissions follow one another
\* (postgres_authority.rs:2747-2767, trust_chain.rs:2351).
ReleasedOnOneAdmission ==
    used.bound # {} =>
        \E c \in receipts :
            /\ c.op = "AdmitAction"
            /\ used.bound \subseteq c.proofs
            /\ {p.kind : p \in used.bound} = ACTION_ADMISSION_PROOF_KINDS
            /\ Cardinality(used.bound) = Cardinality(ACTION_ADMISSION_PROOF_KINDS)
            /\ \A p \in used.bound :
                 p.allows /\ p.subject = c.subject /\ p.principal = c.principal

\* A bundle of approvals that failed its recheck is never in force again: the
\* governed disposition withdraws the Admission, and sending its command once
\* more replays a Receipt and binds nothing, under any later Trust Root
\* (postgres_authority.rs:2219-2299, 2407-2427).
FailedBundleStaysOut == admission \notin failed

\* The Admission in force is a bundle of proofs, and none that failed.
AdmissionInv == TypeOK /\ FailedBundleStaysOut
=============================================================================
