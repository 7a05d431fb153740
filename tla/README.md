# IDR: a verification project

IDR is the authority that stands between an agent's intent and an effect in the
world.  A *Run* collects contracts (Input, Context, Intent, Decision, Turn,
Action), an *Admission* of the Action signed by five independent parties, a
*Reservation* of the execution under an idempotency key, a *Permit*, the
*dispatch* to a provider and the provider's *Receipt*.  All of it is decided by
one Rust state machine (`crates/idr-runtime/src/trust_chain.rs`) and stored by a
PostgreSQL authority (`crates/idr-runtime/src/postgres_authority.rs`) whose
tables carry guards of their own (`crates/idr-store/migrations/*.sql`).

This directory holds TLA+ modules translated from that source, the TLC
configurations that check them on small instances, theorems checked by TLAPS,
and `PROJECT.json`, which maps every definition to the lines it models.

File abbreviations below: **TC** `trust_chain.rs`, **PG**
`postgres_authority.rs`, **FS** `idr-store/src/file_store.rs`, **PR**
`idr-protocol/src/production.rs`, **M1**..**M8** the migrations `0001`..`0008`.

## 1. Inventory

| Component | State | Operations | Source | Module |
|---|---|---|---|---|
| Execution authority | projection of a Run: state, current Action, Admission, execution; tables of Fences, Reservations, attempts, Receipts | RecordAction, AdmitAction, ReserveExecution, RecoverPermit, DeliverPermit, StartDispatch, CommitExecutionReceipt, ReconcileExecution, ExpireExecutionLease, CancelRun, InvalidateRecord, governed proof failure | TC 881-2030, PG 2193-2830, M1, M2, M4-M7 | `ExecutionAuthority` |
| Command ledger | aggregate version, command receipts, consumed proofs and nonces, step snapshots | `handle`: replay or compare-and-set and commit | PG 2193-2681, 3063-3173, 3415-3467, M2, M7 | `CommandLedger` |
| Audit checkpoints and anchor | chain of roots in the database, latest checkpoint at an external service, `published_at` marks | commit, publish, mark, `verify_external_anchor` | PG 216-262, 1114-1179, 2833-2911, M5 | `CommandLedger` |
| Startup verification | none of its own: all tables of the tenant | `verify_database_integrity` | PG 1181-2190 | `StartupVerification` |
| Contract lineage | records per kind and revision, dependency edges, invalidated set, bindings of the projection | RecordContext .. RecordAction, InvalidateRecord, supersession, recursive closure | TC 942-1098, PG 3175-3412, M3, M4 | `ContractLineage` |
| Human Model | candidates, promotion decisions, assertions, corrections, the effective view | Propose, RecordPromotion, Promote, Correct | TC 1817-2030, PG, M3 | `ContractLineage` |
| Proof verification and trust root | the snapshot of keys, issuers and revocations | rotate, verify a proof, recheck a bound Admission | PR 589-706, PG 120-215, 2683-2826 | `ProofVerification` |
| Outbox | events with a claim and its lease | claim, acknowledge | PG 853-1013, M1, M7 | `Outbox` |
| File store | snapshot file, anchor file, lock file; in the snapshot the history of contracts, pointers, invalidations, reservations with attempts | commit, receipts, permits, recovery, load | FS | `SnapshotStore`, `ContractStore` |
| Legacy assessment and turn coordination | none: an assessment and a plan | `assess`, the guards, `TurnCoordinationPlanV1::validate` | `legacy.rs`, `guards.rs`, `turn.rs` | `TurnPlan` |
| Protocol objects | value types | field validation | `idr-protocol/src/human_centered/*` | parts in `ContractStore` |
| Step records | one step's state, attempt, lease | start, wait, resume, finish, retry | `orchestrator.rs` | none, see section 12 |
| Attestation, roles, search path | none of its own | HMAC attestation, privileges | M7, M8 | none |
| Interaction client, evaluation, contract-pack verifiers, migrator | none | validation and batch jobs | `packages/`, `research/`, `contracts/`, `tools/` | none |

How they interact.  A client sends a command; `handle` runs it in one
SERIALIZABLE transaction: find a stored command receipt, verify the proofs
against the trust-root snapshot, recheck the proofs stored with the current
Admission when the command is one of the four that use it, run the pure
transition of TC, apply the recursive invalidation closure of the repository,
write the specialised tables (whose triggers may refuse), the audit record, the
checkpoint, the outbox events and the command receipt, and commit.  Afterwards,
outside the transaction, the checkpoint is published at the external anchor and
marked published in a second transaction.  Consumers claim outbox events under a
lease.  At startup the service replays the audit chain, compares the tables with
the projections, and compares its last checkpoint with the anchor's.  The file
store is a second, smaller home for the human-centered contracts, used without
the PostgreSQL authority: every operation locks, loads, decides and replaces the
snapshot.

What is hard here:

* *interleaving*: many clients and many Runs of a tenant meet in the tables;
  every order of commands is possible, the trusted clock and the trust root move
  between any two of them;
* *two layers that both decide*: TC proposes a state, triggers refuse it.  A
  refusal rolls the whole command back, also when the command was the record of
  a failure;
* *time*: leases, Admissions, proofs and Actions expire independently;
* *the dispatch boundary*: after it, an execution is a fact that no
  cancellation, invalidation or expiry may erase, and its Receipt may come late;
* *crashes* between commit, publication and mark; *retries* of commands whose
  answer was lost, kills between the system calls of the file store;
* *derived state*: what was concluded from a record has to fall with it, through
  any number of steps, in two independent implementations (recursive SQL and the
  search of the file store).

What makes each component correct: one dispatch per idempotency key and a
projection that agrees with its tables (execution authority); no current record
rests on an invalidated one, and nothing is withdrawn without cause (lineage,
Human Model); a command takes effect once and every commit advances the version
by one (ledger); the anchor is never ahead of, nor forked from, the database, and
lost publications are recovered (anchor); a database of mixed age is refused and
one the service wrote itself is not (startup); a revoked key stays revoked and
an effect rests on the approvals of one Admission (proofs); an event is settled
by a worker that handled it and none is lost (outbox); an acknowledged change is
never missing and the store opens again after any kill (files); a plan that
validates can be carried out, in the order its mode promises (turns).  The
hazards at their lines are listed in `PROJECT.json`.

## 2. Plan

Done:

1. `ExecutionAuthority`, `ExecutionAuthorityProofs`: the core.
2. `CommandLedger` with the abstract `WitnessedLedger`, and
   `CommandLedgerProofs`: concurrent handlers of a tenant, replay,
   compare-and-set, consumption of proofs, publication at the anchor, crash,
   restore and startup.
3. `StartupVerification`: the other half of the start, table against table.
4. `ContractLineage`: records, edges, supersession and closure, with the Human
   Model on top.  It justifies the flag `planValid` of the core.
5. `ProofVerification`: rotation of the trust root under running transactions.
6. `Outbox`, with liveness.
7. `SnapshotStore` and `ContractStore`: the file store, from below and from
   above.
8. `TurnPlan`: the assessment of a request and the plan made for it.

How the modules fit together: each abstracts what another one details.  The
core has the contracts above the Action as one flag (`ContractLineage` has
them), its bundle of proofs as one signer (`ProofVerification` has five proofs)
and its commits as atomic (`CommandLedger` has the handlers).  `CommandLedger`
takes the integrity check as passed and `StartupVerification` the anchor.
`ContractStore` has each operation as one step, which the lock and the files of
`SnapshotStore` justify, and the coordination plan's references only, whose
groups `TurnPlan` checks.

Every module but the abstract `WitnessedLedger` has its proofs in a module of
their own, and every safety property of the runs is a theorem.  `DatabaseProofs`
holds those of `StartupVerification` and of `Outbox`, the two parts that work on
the tables outside the command transaction; the others are named after the
module they are about.

## 3. ExecutionAuthority

One Run, seen by every command that changes its execution authority.

### State

| Variable | Code |
|---|---|
| `now` | the trusted database clock, read once per transaction |
| `revoked` | revocations of the installed trust-root snapshot |
| `foreignKeys` | Fences of `idr_operation_idempotency_fences` owned by other Runs of the tenant |
| `runState` | `projection.state` (TC `RunStateV1`) |
| `planValid` | are Turn and Decision, on which a new Action rests, current and valid |
| `actionRev`, `actionUntil` | revision and `valid_until` of the current Action record |
| `invalidated` | Action revisions in `projection.invalidated_records` |
| `admissionRev`, `admission` | newest Admission revision; `projection.action_admission` with the signer and the first expiry of its bundle |
| `execution` | `projection.execution` |
| `fences`, `reservations`, `attempts`, `receipts` | the four execution tables |

### Actions

One action is one *committed* command, the whole of `transact_inner`: the Run
gate `require_command_state`, the arm of the transition, the closure
(`apply_repository_invalidation_closure`), and `Persist`, which is the write of
Fence, Reservation and attempt with the triggers that may refuse it
(`DatabaseAccepts`).  A refused command rolls back and is no step.  The guard
`AuthorityAccepts` deserves a remark: the authority view writes the Reservation
by INSERT .. ON CONFLICT DO UPDATE, and the BEFORE INSERT trigger that compares
the Admission's expiry with the clock therefore runs on *every* commit of a Run
that has an execution.

The four commands that use the Admission (`ReserveExecution`, `RecoverPermit`,
`DeliverPermit`, `StartDispatch`) have a second outcome, one action for all of
them: `ActionAdmissionProofFailure`, taken when the bundle of the *current*
Admission no longer verifies or the command is not `bound` to it (another
scope, purpose or policy revision).  It passes neither the Run gate nor the
compare-and-set of the expected version.

Some commands do not change these variables and are no action of this module:
RecordOutcome, ConsumeResponseSend and the Human Model commands.

Data that is abstracted: the five proofs of an Admission are one bundle (the
signer revoked first and the first expiry decide); contracts above the Action
are the flag `planValid`, since every issued Action depends on each of them;
digests, principals and versions are left to `CommandLedger`.

Features and gates of a deployment are taken at their most permissive: a
production profile refuses some commands altogether (PG 2984-3042), which
removes behaviours and adds none.

### The run `execution_authority`

`MCExecutionAuthority`, 717,372 distinct states.

| Property | What it says |
|---|---|
| `TypeOK` | every variable has its type |
| `KeyHasOneDispatcher` | of all attempts of all Reservations under an idempotency key at most one ever starts its dispatch, and none if another Run owns the key |
| `SingleActiveAttempt` | only the attempt the projection names can still make progress |
| `ProjectionMatchesTables` | Reservation, attempt and Fence agree with the projection |
| `RunReportsReceipt` | the Run succeeded, failed or was rejected as its stored Receipt says, and awaits reconciliation only while the execution does |
| `PermitsFollowAction` | a Permit that may still be dispatched is one of the current, valid Action |
| `DispatchFactKept` | a started attempt stays started and moves only between dispatch, reconciliation and Receipt states (action property) |
| `ReopenedRunStartsOver` | a closed Run is opened again only by the governed path, and comes back without Permit, dispatch in flight or Admission (action property) |

Bounds: two keys and two signers (a renewed Admission can differ from the old
one in both), a clock of 0..3 (an Admission can expire before, with and after a
lease, and there is a moment after all of them), two Actions, Admissions,
Reservations and attempts (a replacement and a retry of each).  The properties
relate at most two rows of each kind.  `Keys` and `Signers` are used only by
equality and membership, so permuting them is sound; there is no liveness
property, for which symmetry would not be.

Deadlock is checked and none exists: `RevokeKey` of a revoked key is always
possible, as the installation of an unchanged snapshot is in the code.

### Observations

Behaviours of the model where the code and the repository's documents differ.
None contradicts a property above.

* CancelRun, then a recheck that fails: `action_admission_proof_failure` is
  built without `require_command_state` (PG 2417), and the Run is
  `waiting_authorization` again.  STATE-MACHINES.md:5 has every command pass the
  gate.  `ReopenedRunStartsOver` says what is left of the damage.
* An Action is admitted anew while a Permit of the first Admission is out, and
  the key of the first is revoked: the recheck reads `projection.action_admission`
  (PG 2754), which is the second, and the dispatch goes through.
  ARCHITECTURE.md:22 promises the re-verification of the exact stored bundle.
* A retry under a renewed Admission leaves the first one in the Reservation row
  (M7:634), and startup, which compares the two, stops.  `StartupVerification`
  has the other side of it.
* A Receipt of a dispatched execution is refused in five situations, against the
  Master Spec, line 269: after an Intent is blocked (TC 1230), after CancelRun, in
  a Run that a failed recheck set to `waiting_authorization` and that dispatched
  again, after the Admission expired (the insert guard of M4:296 runs on every
  commit), and after a failed recheck moved a completed execution back to
  reconciliation, where the stored Receipt blocks the only way out.
* The disposition of a failed recheck is refused by the transition table (from
  `expired`) or the insert guard and rolls back, although STATE-MACHINES.md:58
  says that it cannot disappear as a rolled-back error.
* DeliverPermit or StartDispatch after the lease persists `cancelled` (TC 2568),
  where the Master Spec, line 266, wants `expired` and a next attempt; once
  `execution.until` has passed, *every* later commit of that Run is refused; and
  `failed` and `rejected` executions are never retried, although the transition
  table and STATE-MACHINES.md:47 allow it, because their Run is terminal.

### Fairness

None is assumed, and the core states no liveness.  Every command is a client's
choice, the provider promises no Receipt, and no thread of the service drives a
Run forward: a property "an execution eventually closes" would rest on fairness
that nothing in the code provides.

### What is proved

`ExecutionAuthorityProofs` proves all eight properties of the run for every set
of keys and signers and every bound, from the assumptions that the bounds are
natural numbers and the null values are not elements of their sets.

The inductive invariant is `ExecutionInv == TypeInv /\ RunInv /\ TableInv`:

* `TypeInv` adds to `TypeOK` that an execution that exists has a Reservation,
  an attempt and a real key (`ExecutionOK`), and likewise for an Admission:
  without it the write to a table row might fall outside its domain;
* `RunInv` is `RunReportsReceipt /\ PermitsFollowAction`.  They are inductive
  together: that a live Run holds no Receipt is what lets its execution move;
* `TableInv` is `ProjectionMatchesTables /\ SingleActiveAttempt` with three
  facts neither implies: every started attempt is the slot the projection names
  and its execution has crossed the dispatch boundary, so a slot that was left
  behind was never dispatched (`StartedIsCurrent`); a key whose Fence this Run
  owns is not owned by another Run (`FencesExclude`); and the null execution
  names no Reservation.

`StepShape` shows that each of the twenty actions is, for the tables, one of
three: `MoveStep` (one row changes its state along the transition table),
`ReserveStep` (a fresh row, or the next attempt of a finished one), `QuietStep`
(nothing).  The table invariant is then preserved shape by shape, and
`OneDispatchPerKey` and `DispatchIsKept` follow from it.  `ReopensEmpty` goes
through the actions once more: only the governed failure leads out of a closed
state, and it clears what the property names.

## 4. CommandLedger and WitnessedLedger

The ledger of one tenant, seen by several orchestrator processes.  What a
command means is the business of section 3; here a command starts a Run, leads
to an Admission, or uses one.

### State

| Variable | Code |
|---|---|
| `log` | all rows of the tenant: a commit writes events, audit event, outbox event, Receipt, proof consumptions, Run row and checkpoint in one transaction, so the database is the sequence of commits |
| `published` | `idr_audit_checkpoints.published_at` |
| `anchor` | the checkpoint the external anchor holds |
| `commits` | counts commits, the lost ones included: the source of fresh hashes |
| `pc`, `envelope`, `snapshot`, `checkpoint` | where each instance is in `handle` or `verify_external_anchor`, with its command, the state its transaction reads, and the checkpoint it has in hand |
| `exposed` | history: the comparison with the anchor has been bypassed, by a restore under running instances or a start on an emptied database, and not every instance has stopped since |

The position of a commit in the log is its `audit_sequence`.  The code takes it
from a database sequence, which leaves gaps; only the order matters, and
conflicting transactions take their numbers in the order they commit.

### Actions

`Begin`, then one of `Replay`, `Refuse` and `CommitCommand` is `transact_inner`;
`PublishCheckpoint` or `PublishRefused` and `MarkPublished` are the rest of
`handle`, which other instances interleave with.  `CommitCommand` with
`governed` is the disposition of a failed recheck, which consumes the proofs but
does not compare the version.  `Serializable` is what PostgreSQL promises two
transactions that both read and extend the chain of the tenant.  The unique
keys of the tables are left out on purpose: `EffectOnce` shows that they never
fire.  `StartInstance`, `LoadAnchor`, `RepublishTail` and `ReloadAnchor` are
`verify_external_anchor`, one action per call that leaves the process.  `Crash`
ends a process anywhere; `Outage` is a call to the anchor, or the transaction
that marks, that fails (a lost answer to the commit looks the same);
`RestoreDatabase` brings back any earlier state, the empty one included, whether
instances are running or not: the code forbids neither, and nothing in it
notices the restore while an instance serves.

Abstractions: the proofs of an envelope are one, named by its nonce; two
envelopes are the same command when they are equal, as their canonical digest
covers the proofs too (so a repetition with a fresh proof is an
IdempotencyConflict); a hash is a number that is new with every commit.
`verify_database_integrity` is taken to pass (section 5).

### WitnessedLedger

The abstract specification knows a history of commands and a witness.  A
command is applied only to a history that still holds what the witness saw, none
twice; the witness only moves forward; the history may lose its end.  The first
promise has a condition, `unguarded`, which a loss may switch on, and a reopening
only when the history is empty: unguarded, commands are applied whatever the
witness saw, and the witness may be shown what the history has lost.
Transactions, instances, publication and startup do not occur in it.

### Runs

`command_ledger` (424,324 distinct states): two instances, seven envelopes (a
Run that is started, admitted and used; a second Run; a nonce used twice; ids
used for two commands; a repetition with a new proof; a stale version), three
commits, one crash, one outage, one restore to any earlier state at any moment.
Two instances are enough for every overlap the code distinguishes, since a
transaction conflicts with the commits since its snapshot whoever made them;
three commits allow a fork that outgrows the anchored checkpoint (one commit
lost, two made), and a governed disposition of an admitted Run.

| Property | What it says |
|---|---|
| `TypeOK` | every variable has its type |
| `ChainLinear` | every audit event carries the hash of the one before it |
| `EffectOnce` | no command id and no nonce occurs in two commits |
| `VersionsInOrder` | the commits of a Run are numbered without a gap, and an ordinary one is made at the version its sender expected |
| `ServedIsIntact` | while the comparison has not been bypassed, no instance serves a database that lost or forked from what the anchor saw; and a bypass ends when all instances have stopped |
| `MarkedIsAnchored` | `published_at` is set only up to the anchored checkpoint |
| `ImplementsWitnessedLedger` | refinement |
| `TailGetsAnchored` | every committed checkpoint, or a later one, reaches the anchor, unless a restore takes it away, or a call to the anchor has failed and every instance stays up |

`TailGetsAnchored` is checked under this fairness: an instance that has committed
takes its next step (it is a running task that awaits nothing but the anchor),
and a start goes on and is tried again, as a supervisor or operator does with a
process that stopped.  Clients are not fair and a transaction may always be
refused.

`rollback_written` expects a violation: `RollbackRefused`, the Master Spec's
lines 1067 and 1068 (the anchor is compared at the start and in periodic checks,
and a database behind it takes no production writes), fails in nine states.  An
instance commits and anchors a command, the database is restored to before it
while the instance is up, and the instance commits the next one.  The same
happens with every instance stopped during the restore when the database comes
back empty.

### Observations

* After one failed publication nothing publishes while the instance runs: a
  retry is a replay, and no outbox drives the publication, against the Master
  Spec, lines 1039 and 1041 (checkpoint publication is driven by the outbox, and
  a committed state without a reliable record of the message is forbidden).  This
  is the exception `LeftByOutage` in `TailGetsAnchored`; without it TLC finds the
  property violated: a commit, an outage, and instances that stay up.
* Two publications in the other order than the commits: `handle` returns an
  error for a command that is in effect (PG 2859), while STATE-MACHINES.md:10 says
  that rejected commands write nothing.
* Instances that outlive a failover write to the older database, since the
  anchor is compared only at startup, and a database without Runs is served
  whatever the anchor holds (PG 1118): the run `rollback_written`.
* A start compares the latest checkpoint of the database with the anchored one,
  and publishes its own when that has the higher sequence.  A database that
  forked during such an exposure and has outgrown the anchored checkpoint is
  therefore accepted by the next start, and the anchor follows the fork.
* A governed disposition commits at a version its sender did not expect,
  although every command is to be compared (Master Spec, line 292), which is why
  `VersionsInOrder` excepts it.
* A start beside a running instance may be refused on an intact database, since
  checkpoint and anchor are read at different times.

### What is proved

`CommandLedgerProofs` proves, for any instances, envelopes and bounds:

* `LedgerTypes`, from `TypeInv`: `TypeOK` with the shape of the log (`LogInv`:
  hashes grow along it, a Run has no more versions than the log has commits)
  and of the handlers (`HandlerInv`);
* `ChainIsLinear` and `EffectsAreUnique`: inductive with `TypeInv`.  The step
  that needs an argument is the commit: its snapshot is the whole log
  (`NewCommitType`), so the guards on Receipts and nonces speak of all of it;
* `VersionsAreInOrder`, with the fact that the Run rows a commit leaves count
  the commits of each Run so far (`RowsCount`): the version a transaction reads
  is the number of commits before it;
* `MarksAreAnchored`, from `MarkInv`: an instance about to mark holds a
  checkpoint at or below the anchor, whose sequence never falls;
* `ServesIntact` and the refinement `LedgerRefinesWitnessedLedger`, from
  `AnchorInv`: unless `exposed`, the checkpoints in the hands of instances are of
  the log, and a log that is served is intact.  Nothing is assumed about restores:
  one under running instances sets `exposed`, one with all stopped leaves
  nobody's hands full, and a start with everybody down establishes the invariant
  anew from the database as it is (`AnchorStart`).  The refinement needs besides
  that a checkpoint in hand is that of a commit (`RootedInv`).

## 5. StartupVerification

`verify_database_integrity` (PG 1181-2190) on the tables of one tenant, and the
commits of `transact_inner` that fill them.

State: `db`, eleven tables (Receipts, attestations, Run events, audit events,
Run projections, contract records with their current pointers, proofs and their
consumptions, Reservations, checkpoints); `past`, the tables as each commit left
them; per instance its `phase` and the rows it has `seen`.  A commit is named by
its audit sequence, which stands for the digests of its rows.  Attempts and
Fences stand with the Reservation they belong to.

Actions: `Commit` writes all tables in one transaction, the Reservation at every
commit of its Run (PG 3469-3560, M7:624).  `VerifyReceipts`, `VerifyAudit`, `VerifyRuns`,
`VerifyExecution` (once per Run), `VerifyCurrent`, `VerifyRelations`,
`ReadCheckpoint`, `VerifyRecordRoot` and `VerifyExecutionRoot` are the statements
of the verification in their order.  They run on the pool and not in one
transaction, so other instances commit between them, and some compare with rows
an earlier one read.  `RestoreTable` brings one table back from an older backup
while every instance is down.

Run `startup_verification` (1,958,308 states; two instances, two Runs, one kind
of record, five commits, backups at most two commits old).  Five commits are the
shortest history with an Admission, a Reservation, a renewal, a retry and a Run
beside it.

* `ServedIsWhole`: the types, and a database in which one of the tables named in
  `Noticed` is older than the others is not served.
* `QuietStartPasses`: an instance that starts while nothing is committed is
  refused only after a restore named in `Noticed`, or after a retry under a
  renewed Admission.

The two properties meet: a restore is refused if `Noticed` holds and, but for a
renewal and commits beside the start, only then.  `Noticed` is therefore exactly
what the comparisons achieve: seven tables that are missed whenever they are
older, the proofs if one of a stored record is gone, and the Runs if an audit
event is newer than the row of its Run.

What is proved (`DatabaseProofs`, for any instances, Runs, record kinds, commits
and age of a backup): `StartupInvariant`, `TornIsNotServed` and
`QuietStartIsAccepted`.  The assumptions say that the three values for "none" are
no rows and that no kind of record is named like another command.  Neither
property is inductive: whether an instance may go on depends on what it compared
earlier, and whether it is refused on what all commits before it wrote.
`StartupInv` adds

* `PastWhole` and `UntornIsPast`: n commits leave tables that are `Whole`, each row
  and number of commits 1 to n in its place (`Consistent`) and none missing
  (`Complete`), and from one commit to a later one a row changes only together
  with its digest (`MovedOn`).  `ConsistentKept` and `CompleteKept` show that
  `Commit` keeps this, table by table;
* `TornIsPast`: after a restore that can be noticed the tables are those of the
  last commit with one replaced, since no instance serves and so none commits;
* `Compared`: a verification that has got to a phase found that everything it
  compared before agrees.  `TornIsNoticed` shows, table by table, that such a
  database fails one of the comparisons, so no instance gets to the end;
* `UnnoticedIsConsistent`: tables whose restore cannot be noticed still agree
  (`RestoredUnnoticed`).  Commits keep them so, `ConsistentPasses` shows that every
  comparison passes, and the Reservations match unless an Admission was renewed;
* `SeenIsCurrent`: what an undisturbed instance read earlier is still stored.

Observations: what `Noticed` leaves out can pass.  Receipts,
attestations and the proofs of commands without records can be missing, and so
can the row of a Run (inner joins, PG 1274 and 2151-2185).  The chain root of the
newest checkpoint is not compared with the audit chain, so an older cut of
audit, Run, event and Receipt tables *together* passes if the commits it lacks
wrote neither records nor executions; the anchor is what would notice it.  A
loss under running instances is covered by the roots of the next commit.  A
start beside instances that commit can be refused without cause.  The module is
of the Production constructor; Shadow instances attest with a random key
(PG 4105) and do not outlive a restart.

## 6. ContractLineage

The records of one Run, of all thirteen kinds, and what rests on what.

| Variable | Code |
|---|---|
| `run` | `projection.state`, as far as it gates these commands |
| `rev` | the current revision of each kind, in `projection.records` and `idr_contract_current` |
| `edges` | `idr_contract_dependencies` |
| `invalidated` | `projection.invalidated_records` and `idr_contract_invalidations` |
| `binding` | the references the projection keeps to its Decision, Response, Action, Admission, Outcome, candidate and promotion |
| `evidence`, `verdict` | what each candidate lists and each promotion decision says |
| `dispatched` | the Action that was dispatched |
| `named`, `corrected` | history: what was withdrawn on its own account, what an accepted correction was about |

Every command that issues a record goes through `Issue`: the next revision, its
edges (`persist_contract_dependencies`), the closure of the revision it replaces
(`load_recursive_invalidation_closure`) and what
`apply_repository_invalidation_closure` does to bindings and Run.  AdmitAction is
the one command that replaces nothing: `expected_candidate_kind` (TC 603-622)
names no kind for it, so `superseded_record` (PG 2380-2383) is None and an earlier
Admission of the same Action stays in force beside the new one, which gets the
binding.  `Record(k)` is the six commands whose only difference is `Requires`.
`Withdraw` is what the two commands share that withdraw a record on its own
account: `InvalidateRecord`, and `ActionAdmissionProofFailure`, the outcome of
ReserveExecution, RecoverPermit, DeliverPermit and StartDispatch when the proofs of
the bound Admission fail their recheck (PG 2408-2424, TC 869-938), which is taken
in every state of the Run.  When it is taken is left open here; section 7 has the
proofs and the clock.  Windows of validity are
left out: a lapsed record makes the code refuse what is possible here.
Reservation, Permit and dispatch are one step, which section 3 details.

Run `contract_lineage` (509,055 states; any two revisions beyond the first, two
references to evidence).  Two revisions are needed for a record that is replaced
and a ground of it that is replaced too, in both orders.  A Run that ended may
stop, so deadlock is not checked.  Evidence is compared only by equality, which
makes the symmetry sound.

* `LineageInv`: the types, and whatever is in force is the current record of its
  kind and rests on records in force, through every order of revisions,
  invalidations and failed rechecks.  An Admission that was renewed stays in force
  with its Action, and a Receipt may outlive its Action.
* `WithdrawnForCause`: the converse.  A current record that is withdrawn was
  named by InvalidateRecord, is an Admission whose recheck failed, or rests on a
  withdrawn record.
* `BindingsInForce`: no binding outlives its record.
* `ViewIsGrounded`: an assertion in the effective view of the Human Model comes
  from a promoting decision on a candidate in force, and a provisional one from
  two different pieces of evidence.

What is proved (`ContractLineageProofs`, for every bound on reissues and
evidence):

* `ClosureIsReachability`: `Closure`, the recursive query cut off after as many
  rounds as there are edges, is the least set with the root that is closed under
  dependents.  Each round that adds nothing is the last one, and one that adds
  something uses up an edge;
* `LineageHolds`, `BindingsHold`, `WithdrawalsHaveCause` and `ViewGrounded`, from
  the invariant `Inv`.  Beside these four it says that edges join issued records,
  a record to its previous revision or to a kind it depends on (`EdgesTyped`),
  that none of these edges is missing (`EdgesComplete`), and that a later revision
  never rests on an earlier revision of a ground than its predecessor does
  (`EdgesMonotone`).  The last one is needed because the closure also follows the
  edge from a revision to the one before it: a current record can be reached
  through its own old revision, and it is `EdgesMonotone` that then gives it a
  ground of its own that is withdrawn.

Run `correction_view` finds `CorrectionChangesView` violated: the correction of an
assertion names the assertion twice among its edges (PG 3298 and 3302-3323), the
primary key refuses the second, and the transaction is rolled back.  No
correction, rejection or deletion can be committed, while the Master Spec, line
284, wants it to change the effective view.

Observations: an Admission that was replaced is in force until its Action goes,
but no command can use it, because the binding (`BindingsInForce`) names the new
one; when the new one fails its recheck the old one does not come back.  A Run
whose recheck failed before the dispatch stays WaitingAuthorization: no transition
sets it Running again (TC 1195 is StartRun), it can be admitted anew and
dispatched, and then CommitExecutionReceipt is refused (TC 2380-2382).  The query
of the effective view filters on `expires_at` and not on
`valid_until`; the Receipt of a withdrawn Action depends on whichever Action is
current; InvalidateRecord is impossible once the Run is settled, so what was
learned from a settled Run can only be corrected (which fails).

## 7. ProofVerification

Transactions that verify the proofs of their command, and the recheck of those
bound in the current Admission, while the trust root rotates.

State: the clock `now`; `root`, what `current_snapshot()` returns, and `peak`, the
highest version installed; `tx`, per session its command, the time and the root
it has read; `receipts`, `admission` (the bound proofs) and `failed` (bundles a
governed disposition withdrew); `used`, what the transaction that just ended
relied on.

Actions: `Rotate` compares versions only (PG 161).  `Begin` reads the database's
clock and `ReadRoot` the snapshot, each once, whatever happens later.  Then one
of `Replay`, `Record`, `Admit`, `Release` (the four commands that use an
Admission), `Withdraw` (its governed failure) and `Rollback` ends the
transaction.  `VerifyAt` is `TrustRootSnapshotV1::verify_at`, `VerifyProofs` and
`ReverifyBound` are PG 2683-2826.  A signature is valid or not; digests are
equality.  Which state the Run must be in is left open, which adds behaviours.

Run `proof_verification` (354,536 states; two sessions, three versions of the
root, seven commands, a clock of 1..2).  The versions end a key, revoke it and
replace it, with windows that meet at 2; the commands include an approval signed
before its key is valid, one for another principal, a Permit for another scope
and a proof that expires.  Two sessions let a rotation fall between the reads of
one and the commit of the other.

* `UsedInWindows`: a proof is relied on within its window and within its key's,
  although `verify_at` compares the key's beginning only with the time of issue
  (PR 682).
* `RevocationSticks`: what a rotation takes out, ends or revokes is relied on by
  no transaction that begins later, whatever version is presented afterwards.
* `ReleasedOnOneAdmission`: a Permit is released on the five approvals of one
  AdmitAction, for its principal and its subject.
* `AdmissionInv`: the types, and a bundle that failed its recheck is never in
  force again.

`NoReinstatement` is an assumption about the operators: `rotate` would accept a
later version that trusts a revoked key again (REMAINING-RISKS.md:28-30 leaves
the contents of the root to them; Master Spec, lines 233 and 415).

What is proved (`ProofVerificationProofs`, for all commands, sessions, roots and
times): the four properties, as `WindowsHold`, `RevocationHolds`, `OneAdmission` and
`FailedStaysOut`.  The invariant `ProofInv` adds that a transaction has read a root
no older than the newest one when it began (`RootsAdvance`), and that every
Admission, in force or withdrawn, is the bundle of an AdmitAction whose Receipt
is stored (`AdmissionsReceipted`): a bundle that failed cannot come back, because
its command would be replayed.  The assumptions are `NoReinstatement`, that each
version of the root is well-formed, and that no two commands carry the same
proof (`ProofsAssumption`; the consumption of proofs in section 4 sees to it).

Observations: the provider is one per process, so instances rotate at different
times; clock and root are read once, so a commit may land after an expiry or a
rotation; and a Permit command with another scope or policy revision than the
Admission's makes the governed path withdraw the Admission.

## 8. Outbox

State: for each event its `owner` and what is `left` of its claim, `delivered`,
the rows `locked` by open claiming transactions, and for each worker the `name` it
presents, its `hand` (claimed or handled events), the `term` of its claims and the
row its acknowledgement has found and not yet written (`acking`; the history
`overtaken` says which of those were claimed anew meanwhile).  Time is relative:
`Tick` takes one unit from every claim, so no clock is bounded.

Actions: `InsertEvent` with a commit; `ClaimSelect` and then `ClaimCommit` or
`ClaimAbort` are `claim_outbox_events_for_test` (SELECT .. FOR UPDATE SKIP LOCKED,
which locks rows of the table beneath the view, and UPDATE); `Handle` is the
consumer's work (external); `AckScan` and then `AckWrite` or `AckAbort` are
`acknowledge_outbox_event_for_test`; answers may be lost, and a worker may crash
anywhere.  Since migration 7 `idr_outbox_events` is a view: an UPDATE of it finds
its rows without locking them, and the trigger
`idr_attested_authority_view_bridge_v7` (M7 491-541) writes each by primary key
only.  The conditions on `claim_owner`, `delivered_at` and `claim_until` are
therefore those of the search (`AckScan`); the write (`AckWrite`) waits for a lock
and then happens whatever the row says by then.  The write and the commit of the
acknowledgement are one step: between them the row is locked by it, so that
claims pass it over.

Run `outbox` (32,866 states; two workers under the same or different names, two
events, batches of up to two, a lease of one tick).  Two workers and one more
event than a batch of one can hold meet every condition of the queries; a longer
lease only delays.  Names are only compared, so the first worker has the first
name.

* `ClaimInv`: the types, and no two workers hold an event under claims in force.
* `SettledByHandler` (action property): an event is settled only by a process
  that handled it, and while somebody's claim is in force only under its name or
  when the claim was made after the acknowledgement had found the row.
* `EveryEventDelivered` (liveness).

Fairness (`FairSpec`): time passes; claiming transactions of every worker end,
with a commit or with the connection; one worker is reliable, which means that it
polls, that if it is given events again and again it some time handles one within
the lease and some time sends the acknowledgement within it, and that not every
acknowledgement of it is rolled back.  Strong fairness is needed because its claim
may lapse, or another worker may hold the event, before any single try.  Nothing
more is assumed of the other workers, which may crash for ever, or of lost
answers.  Without the clause on the lease the property fails: if every handler
outlives its claim the event is handed out for ever.

What is proved (`DatabaseProofs`, for any workers, names, events, batches and
leases): `ClaimsExclusive` and `HandlerSettles`.  The invariant adds to `ClaimInv`
that locked rows are free (`LockedRowsFree`), that only inserted rows are claimed,
and that a claim that a worker believes in force is in the row, under its name
and for at least as long, unless the event is settled (`ClaimsAreInTheRows`): a row
can only be handed out again after every worker's own term has ended.  About the
acknowledgements it says that a worker has one call under way (`OneCall`), that it
handled the event it acknowledges (`AckedIsHandled`), and that a worker of another
name with a claim in force on that event got it after the search (`AckedInTime`).

Observations:

* A late acknowledgement can settle an event over a newer claim: the first
  worker's acknowledgement finds its row just before the lease ends, the lease
  ends, a second worker's claim commits, and the trigger then sets `delivered_at`
  and clears the claim.  The second worker goes on working on a settled event, and
  its own acknowledgement is refused (`BindingMismatch`).  TLC reaches this in nine
  steps.  The trigger writes every column from the version the search saw, so that
  `delivery_attempts` also falls back to the older count.  The repository's test
  (`crates/idr-store/tests/postgres_vertical_slice.rs`, 2092-2095) sends the stale
  acknowledgement after the second claim has committed, where it is refused.
* The row keeps the worker's name and not the attempt, so a predecessor of the same
  name can settle its successor's claim.
* The two calls are test support in this repository; a consumer is not shipped.

## 9. SnapshotStore

The files below the file store: the snapshot that a rename replaces, the anchor
that grows by a line per snapshot, and the lock.  A snapshot is the sequence of
changes sealed into it.

One action per system call: `AcquireStoreLock`, `LoadSnapshot` (with the check of
the anchor chain and the removal of a torn last line), `RecoverAnchor` (the anchor
is one line behind), `PersistSnapshot` (rename, sync of the directory, line,
newline, sync of the anchor), `ReplyCommitted` (the last sync of the directory,
which the entry of a new anchor file needs, and the reply) and `ReplyUnchanged`.
The removal of a torn line and its syncs are one step.  Faults: `KilledOrIoError` between
any two calls, `PowerLoss` (what was not synced may be gone), and one act of
`RestoreOldSnapshot` or `DeleteAnchor`.

Run `snapshot_store` (7,573 states; two processes, two kinds of change, three
snapshots; processes and changes are symmetric).  Three snapshots allow one to be
acknowledged, one to be cut short and one to be built on it.

* `StoreInv`: the types, and an operation under way has the snapshot that is in
  the file, so that no two build on the same one.
* `WorksFromAcknowledged`: no operation works without a change that was
  acknowledged, after any fault, tampering included.
* `OpensAgain`: nobody but a tamperer can make the store refuse to open, with one
  exception.

What is proved (`SnapshotStoreProofs`, for any processes, changes and number of
snapshots): the three properties, as `StoreSealed`, `AcknowledgedKept` and
`StoreOpensAgain`.  The invariant `SnapshotInv` says who holds the lock (`Mutex`);
what an operation knows of file, anchor and their durable parts at each of its
steps (`Phases`); that the anchor's lines are snapshots of growing length, each a
prefix of the next (`Chain`); that the file or the anchor still has what was
acknowledged, and both have it without tampering (`AckedSomewhere`); and what is
not yet durable (`Durable`).

Observation, the exception: an operation is killed between a write and the sync
of it, a later one builds on the write without syncing it, and then power is
lost.  The anchor's line survives and the rename does not, or a second rename
survives without the first one's line, and every later open reports
RollbackDetected.

## 10. ContractStore

What the snapshot holds, each public operation of FS being one step under the
lock.

State: `records` (the history), `current` (pointers), `invalidated`, `attempts` (per
Action, the attempts of its reservation), `now`, and `held`, the Permits in the hands
of executors.  A reference stands for one contract with its contents, given by
the constant `Contract`.

Actions: `Commit` and `CommitExecutionReceipt` are `commit_internal` with all its
checks, the invalidation of dependents and the withdrawal of attempts;
`IssueExecutionPermit` (whose reply may be lost), `MarkExecutionPermitDelivered`,
`MarkExecutionDispatched`, `RecoverExecutionPermit`, `LosePermit`, `Tick`.  Each
runs `ValidateReservations` on its candidate, as `persist_snapshot` does, and
changes nothing if it fails.

Run `contract_store` (22,226 states): ten contracts (an Intent and a successor
that rests on the Decision it replaces; a Decision, Actions and their
successors; two Actions in one scope; Receipts of two attempts; an Outcome) and
four requests, one of which uses a proof twice; a clock of 1..4 on which leases,
proofs and approvals end at different times.  The clock is bounded, so deadlock
is not checked.

* `SnapshotValid`: the types, and `replay_history` over the records gives pointers
  and invalidations again, so that no operation leaves a snapshot that the next
  load calls corrupt.
* `EffectiveRestsOnEffective`: what `load_current` serves rests on what it serves,
  except for a successor that depends on what its own predecessor carried.
* `LiveAttemptRestsOnEffectiveAction`: an attempt that can still be delivered or
  dispatched, or that is not known to need reconciliation, belongs to an Action in
  force.
* `ReceiptsSettleAttempts`: every Receipt settles one attempt, for good.

What is proved (`ContractStoreProofs`, for all contracts and requests): the four
properties, as `SnapshotStaysValid`, `ServedRestsOnServed`, `LiveAttemptsServed` and
`ReceiptsSettle`.  The invariant adds that there is one pointer per kind and id
(`UniquePointers`), that attempts name only Receipts of the history
(`AttemptsNameRecords`), and that no Action has more attempts than there are
requests (`AttemptsBounded`).  The steps that need an argument: one record more is
one step more of `replay_history` (`ReplayAppends`); the search of
`invalidate_dependents` leaves no open pointer that rests on what it found
(`DependentsFacts`); an attempt that has its Receipt is changed by nothing, since
`ShapeValid` refuses every candidate that would (`SettledNotMoved`).  Assumed are a
finite set of requests, each about a contract, and that a Receipt's state is one
of `ExecutionStateV1`'s.

Run `dispatched_repeated` finds `DispatchedNotRepeated` violated: a Permit that is
presented again after its dispatch and its lease turns the attempt into
`Expired` (FS 698-705 tests the lease before the status), and an expired attempt
is retried.  The comment at FS 593-594 says that dispatched attempts are not
repeated.

Observations: an attempt in ReconciliationRequired can never take its Receipt,
since the Action it names is stale by then (StaleDependency); the `mark_*` calls
are idempotent, so a recovered copy of a Permit may be dispatched twice by two
executors; an operation may report an error although its snapshot is renamed; a
revised Action in the scope of its predecessor can never be reserved.  The clock
is assumed not to go back.

## 11. TurnPlan

The pure half of the protocol: facts are assessed
(`InteractionRuntimeKernelV1::assess` with its three guards), a plan is proposed
for the mode that was selected and validated (`TurnCoordinationPlanV1::validate`,
with `DependencyGraphIsAcyclic` and `DependencyPathExists` as recursive
functions), and a host carries it out.  The host is not in the repository and is
modelled from what the plan means: a contract waits for what is ordered before
it and for its gates.

Run `turn_plan` (402,005 states): all facts and impacts, and all plans over two
responses and two Actions with at most three edges.  Three edges are enough for
cycles of two and three contracts and for paths through a third.  A turn ends,
so deadlock is not checked.

* `AcyclicIffOrdered`: the cycle check agrees with its definition, the existence
  of an order.
* `NoDeadEnd`: every assessment has a plan that validates, and such a plan can be
  carried out to its end.
* `ActsAsAssessed`: the types, nothing of high impact happens before that very
  Action is authorized, and nothing at all after a block.
* `OrderFollowsMode`: in whatever order the host goes on, the mode's first part
  comes first.

What is proved (`TurnPlanProofs`): the four properties, for any finite, non-empty
and disjoint sets of responses and Actions and any bound that leaves room for an
edge to each Action (the code has no such bound).

* `KahnIsSound`: the rounds of `DependencyGraphIsAcyclic` take all nodes exactly
  when there is a ranking that no edge goes against.  The round in which a node
  is taken is its rank; and given a ranking, round n has taken every node of rank
  n or less.  `PlanGraphsDecided` is the instance for a proposed plan.
* `TurnHasNoDeadEnd`: of the contracts left the one of least rank waits for none;
  and each mode that can be assessed has a plan, given explicitly.
* `PlanKeepsOrder`: `done` is closed towards what comes before, so a path that
  `DependencyPathExists` found and that ends in `done` begins in it.
* `TurnActsAsAssessed`, from what assess can answer (`Assessed`) and that the gates
  of what is done are open (`DoneClosed`).

## 12. Model-checked only, or not modelled

* Proved is every safety property of the runs that pass, actions and the
  refinement included.
* `TailGetsAnchored` and `EveryEventDelivered` are liveness under fairness, which
  the prover does not do; they stay with TLC.
* What a recursive function computes is proved by hand (`ReplayIs`,
  `ClosureIsReachability`, `KahnIsSound`): the function is shown to exist round by
  round, and induction is the argument of a least counterexample (`LeastElement`),
  since the library's induction rules, which take an operator, cannot be used.
* `StepRecord` (`orchestrator.rs`) has no caller but tests, and the file says that
  no repository or scheduler for it ships; without one there is no sequence of
  calls to check.  Read alone, `transition` assigns before it validates
  (143-173), so a refused one leaves the record changed.
* The stand-alone gates and the trust of inputs (`input.rs`, `trust.rs`) are value
  types and functions that only tests call.
* Signatures, HMAC attestations, canonical digests and the validation of fields
  are checks of single values without a history.  Database privileges and
  `search_path` are decided by PostgreSQL.
* The interaction client, the evaluation scripts, the contract-pack verifiers
  and the migrator keep no state.
