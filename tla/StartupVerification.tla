------------------------- MODULE StartupVerification -------------------------
(***************************************************************************)
(* verify_database_integrity: what an instance of the PostgreSQL authority *)
(* compares before it serves, and what the commits of transact_inner leave *)
(* for it to compare.  One tenant; an instance that serves commits         *)
(* commands while another one verifies, statement by statement, and a      *)
(* table may come back from an older backup while all instances are down.  *)
(*                                                                         *)
(* A commit is named by its audit sequence number, which also stands for   *)
(* the identities and digests of the rows it writes.  Rows are intact: the *)
(* MACs, digests and columns that are recomputed from one row alone always *)
(* agree, and what is compared here is one table with another.  The        *)
(* comparison with the external anchor that follows is in CommandLedger.   *)
(***************************************************************************)
EXTENDS Naturals, FiniteSetsExt

CONSTANTS
    Instances,    \* processes of the orchestrator
    Runs,         \* Runs of the tenant
    RecordKinds,  \* kinds of contract records, the Admission among them
    NoRow,        \* a Run without a row in idr_runs
    NoCheckpoint, \* no checkpoint in idr_audit_checkpoints
    NoRestore,    \* no table was restored
    MaxCommits,   \* bound on the commits
    MaxAge        \* bound on the commits that a backup is behind

ASSUME BoundsAssumption == MaxCommits \in Nat /\ MaxAge \in Nat

\* No kind of record is named like one of the other commands.
ASSUME RecordKindsAssumption ==
    /\ "action_admission" \in RecordKinds
    /\ RecordKinds \cap {"start", "plain", "reserve", "retry"} = {}

VARIABLES
    db,           \* the tables
    past,         \* past[k]: the tables as commit k left them
    phase,        \* what each instance does
    seen,         \* rows an instance remembers from an earlier statement
    disturbed,    \* instances beside whose verification something was committed
    torn,         \* the table that was restored, and to which commit
    renewed       \* an execution was retried under a renewed Admission

vars == <<db, past, phase, seen, disturbed, torn, renewed>>

Seqs == 1 .. MaxCommits
Upto == 0 .. MaxCommits

Last(S) == Max(S \cup {0})

\* A command starts a Run, records a contract, reserves an execution, tries
\* one again, or does none of these.
Commands == {"start", "plain", "reserve", "retry"} \cup RecordKinds

\* The projection of a Run: its digest, the current record of each kind and
\* the execution with the Admission it is bound to; zero is none.
RunRow ==
    [digest : Seqs, records : [RecordKinds -> Upto],
     execution : [id : Upto, admission : Upto]]

\* A Run without a row is told from every row.
ASSUME NoRowAssumption == NoRow \notin RunRow

AuditRow == [seq : Seqs, run : Runs, prev : Upto]

ReservationRow == [id : Seqs, admission : Seqs, version : Seqs]

CheckpointRow ==
    [seq : Seqs, records : SUBSET Seqs, reservations : SUBSET ReservationRow]

\* No checkpoint is told from every checkpoint.
ASSUME NoCheckpointAssumption == NoCheckpoint \notin CheckpointRow

Tables ==
    {"attestations", "receipts", "run_events", "audit", "runs", "records",
     "current", "proofs", "consumptions", "reservations", "checkpoints"}

\* No restore is told from every restore.
ASSUME NoRestoreAssumption == NoRestore \notin [table : Tables, to : Upto]

Verifying ==
    {"receipts", "audit", "runs", "executions", "relations", "checkpoint",
     "recordRoot", "executionRoot"}

Nothing == [runs |-> [r \in Runs |-> NoRow], checkpoint |-> NoCheckpoint]

Init ==
    /\ db = [attestations |-> {}, receipts |-> {}, run_events |-> {},
             audit |-> {}, runs |-> [r \in Runs |-> NoRow], records |-> {},
             current |-> [r \in Runs |-> [k \in RecordKinds |-> 0]],
             proofs |-> {}, consumptions |-> {}, reservations |-> {},
             checkpoints |-> {}]
    /\ past = [k \in {0} |-> db]
    /\ phase = [i \in Instances |-> "off"]
    /\ seen = [i \in Instances |-> Nothing]
    /\ disturbed = {}
    /\ torn = NoRestore
    /\ renewed = FALSE

--------------------------------------------------------------------------
(* The commit of a command: every table in one transaction. *)

Accepts(r, command) ==
    LET row == db.runs[r]
    IN  CASE command = "start" ->
                /\ row = NoRow
                /\ \A a \in db.audit : a.run # r
          [] command = "reserve" ->
                row # NoRow /\ row.records["action_admission"] # 0
          [] command = "retry" -> row # NoRow /\ row.execution.id # 0
          [] OTHER -> row # NoRow

\* The projection after commit n.
Projection(r, command, n) ==
    LET row == db.runs[r]
        admission == row.records["action_admission"]
    IN  CASE command = "start" ->
                [digest |-> n, records |-> [k \in RecordKinds |-> 0],
                 execution |-> [id |-> 0, admission |-> 0]]
          [] command \in RecordKinds ->
                [row EXCEPT !.digest = n, !.records[command] = n]
          [] command = "reserve" ->
                [row EXCEPT !.digest = n,
                            !.execution = [id |-> n, admission |-> admission]]
          [] command = "retry" ->
                [row EXCEPT !.digest = n, !.execution.admission = admission]
          [] OTHER -> [row EXCEPT !.digest = n]

\* Mutant: a Reservation that exists is left alone.
PersistNewReservation(rows, projection, n) ==
    LET id == projection.execution.id
    IN  IF id = 0 \/ \E row \in rows : row.id = id THEN rows
        ELSE rows \cup {[id |-> id, admission |-> projection.execution.admission,
                         version |-> n]}

\* The Reservation of the projection is written at every commit of its Run;
\* the row that is there keeps its Admission and takes the new version.
PersistReservation(rows, projection, n) ==
    LET id == projection.execution.id
        new == [id |-> id, admission |-> projection.execution.admission,
                version |-> n]
        kept == {[row EXCEPT !.version = n] : row \in {o \in rows : o.id = id}}
    IN  IF id = 0 THEN rows
        ELSE {row \in rows : row.id # id}
                 \cup (IF kept = {} THEN {new} ELSE kept)

Written(r, command, n) ==
    LET projection == Projection(r, command, n)
        recorded == command \in RecordKinds
        records == db.records \cup (IF recorded THEN {n} ELSE {})
        reservations == PersistReservation(db.reservations, projection, n)
    IN  [attestations |-> db.attestations \cup {n},
         receipts |-> db.receipts \cup {n},
         run_events |-> db.run_events \cup {n},
         audit |-> db.audit \cup
             {[seq |-> n, run |-> r, prev |-> Last({a.seq : a \in db.audit})]},
         runs |-> [db.runs EXCEPT ![r] = projection],
         records |-> records,
         current |-> IF recorded THEN [db.current EXCEPT ![r][command] = n]
                     ELSE db.current,
         proofs |-> db.proofs \cup {n},
         consumptions |-> db.consumptions \cup {n},
         reservations |-> reservations,
         checkpoints |-> db.checkpoints \cup
             {[seq |-> n, records |-> records, reservations |-> reservations]}]

Commits == Cardinality(DOMAIN past) - 1

Commit(i, r, command) ==
    LET n == Commits + 1
    IN  /\ phase[i] = "serving"
        /\ n \in Seqs
        /\ Accepts(r, command)
        /\ db' = Written(r, command, n)
        /\ past' = [k \in 0 .. n |-> IF k = n THEN db' ELSE past[k]]
        /\ disturbed' = disturbed \cup {j \in Instances : phase[j] \in Verifying}
        /\ renewed' = (renewed \/ /\ command = "retry"
                                  /\ Projection(r, command, n).execution
                                        # db.runs[r].execution)
        /\ UNCHANGED <<phase, seen, torn>>

--------------------------------------------------------------------------
(* The statements of the verification, in their order. *)

\* Mutant: inner joins, which pass over the rows that are missing.
ReceiptsJoined ==
    \A n \in db.receipts \cap db.attestations \cap db.run_events :
        \A a \in db.audit : a.seq = n => \E c \in db.checkpoints : c.seq = n

\* A stored receipt that joins its attestation has its Run event, its audit
\* event and their checkpoint.
ReceiptsEvidenced ==
    \A n \in db.receipts \cap db.attestations :
        /\ n \in db.run_events
        /\ \E a \in db.audit : a.seq = n
        /\ \E c \in db.checkpoints : c.seq = n

\* Every audit event names the event before it.
AuditChained ==
    \A a \in db.audit :
        a.prev = Last({b.seq : b \in {b \in db.audit : b.seq < a.seq}})

\* The projection of a Run is the one its newest audit event names.
RunsAudited ==
    \A r \in Runs : db.runs[r] # NoRow =>
        db.runs[r].digest = Last({a.seq : a \in {a \in db.audit : a.run = r}})

\* The Admission of the projection is a stored record.
AdmissionRecorded(row) ==
    row.records["action_admission"] = 0
        \/ row.records["action_admission"] \in db.records

\* The Reservation is the one of the projection, at its version.
ExecutionMatches(row) ==
    row.execution.id = 0
        \/ [id |-> row.execution.id, admission |-> row.execution.admission,
            version |-> row.digest] \in db.reservations

\* A current pointer is the record of the projection of its Run.
CurrentMatches ==
    \A r \in Runs, k \in RecordKinds :
        db.current[r][k] # 0 /\ db.runs[r] # NoRow
            => db.runs[r].records[k] = db.current[r][k]

\* Records of a projection have their current pointer, proofs are consumed,
\* and the proofs of a record are stored.
RelationsHold ==
    /\ \A r \in Runs, k \in RecordKinds :
          db.runs[r] # NoRow /\ db.runs[r].records[k] # 0
              => db.current[r][k] = db.runs[r].records[k]
    /\ db.proofs \subseteq db.consumptions
    /\ db.records \subseteq db.proofs

NewestCheckpoint ==
    IF db.checkpoints = {} THEN NoCheckpoint
    ELSE CHOOSE c \in db.checkpoints :
             \A d \in db.checkpoints : d.seq <= c.seq

RecordSetRoot == db.records

ExecutionStateRoot == db.reservations

StartInstance(i) ==
    /\ phase[i] = "off"
    /\ phase' = [phase EXCEPT ![i] = "receipts"]
    /\ UNCHANGED <<db, past, seen, disturbed, torn, renewed>>

\* One statement: the verification goes on with the rows it remembers, or
\* ends in IntegrityViolation.
Compare(i, from, to, holds, rows) ==
    /\ phase[i] = from
    /\ phase' = [phase EXCEPT ![i] = IF holds THEN to ELSE "refused"]
    /\ seen' = [seen EXCEPT ![i] = IF holds THEN rows ELSE Nothing]
    /\ UNCHANGED <<db, past, disturbed, torn, renewed>>

VerifyReceipts(i) ==
    Compare(i, "receipts", "audit", ReceiptsEvidenced, Nothing)

VerifyAudit(i) ==
    Compare(i, "audit", "runs", AuditChained, Nothing)

VerifyRuns(i) ==
    Compare(i, "runs", "executions", RunsAudited,
            [Nothing EXCEPT !.runs = db.runs])

\* The loop over the Runs that were read, each with statements of its own.
VerifyExecution(i, r) ==
    LET row == seen[i].runs[r]
    IN  /\ row # NoRow
        /\ Compare(i, "executions", "executions",
                   AdmissionRecorded(row) /\ ExecutionMatches(row),
                   [seen[i] EXCEPT !.runs[r] = NoRow])

VerifyCurrent(i) ==
    /\ seen[i] = Nothing
    /\ Compare(i, "executions", "relations", CurrentMatches, Nothing)

VerifyRelations(i) ==
    Compare(i, "relations", "checkpoint", RelationsHold, Nothing)

ReadCheckpoint(i) ==
    Compare(i, "checkpoint", "recordRoot", TRUE,
            [Nothing EXCEPT !.checkpoint = NewestCheckpoint])

\* Without a checkpoint there is no root to compare.
VerifyRecordRoot(i) ==
    LET checkpoint == seen[i].checkpoint
    IN  Compare(i, "recordRoot", "executionRoot",
                checkpoint # NoCheckpoint => checkpoint.records = RecordSetRoot,
                seen[i])

VerifyExecutionRoot(i) ==
    LET checkpoint == seen[i].checkpoint
    IN  Compare(i, "executionRoot", "serving",
                checkpoint # NoCheckpoint =>
                    checkpoint.reservations = ExecutionStateRoot,
                Nothing)

StopInstance(i) ==
    /\ phase[i] \in {"serving", "refused"}
    /\ phase' = [phase EXCEPT ![i] = "off"]
    /\ disturbed' = disturbed \ {i}
    /\ UNCHANGED <<db, past, seen, torn, renewed>>

\* While every instance is down, one table comes back as an earlier commit
\* left it.
RestoreTable(t, k) ==
    /\ torn = NoRestore
    /\ \A i \in Instances : phase[i] = "off"
    /\ Commits <= k + MaxAge
    /\ db[t] # past[k][t]
    /\ db' = [db EXCEPT ![t] = past[k][t]]
    /\ torn' = [table |-> t, to |-> k]
    /\ UNCHANGED <<past, phase, seen, disturbed, renewed>>

Next ==
    \/ \E i \in Instances :
          \/ StartInstance(i) \/ StopInstance(i)
          \/ VerifyReceipts(i) \/ VerifyAudit(i) \/ VerifyRuns(i)
          \/ \E r \in Runs : VerifyExecution(i, r)
          \/ VerifyCurrent(i) \/ VerifyRelations(i) \/ ReadCheckpoint(i)
          \/ VerifyRecordRoot(i) \/ VerifyExecutionRoot(i)
          \/ \E r \in Runs, command \in Commands : Commit(i, r, command)
    \/ \E t \in Tables, k \in DOMAIN past : RestoreTable(t, k)

Spec == Init /\ [][Next]_vars

--------------------------------------------------------------------------
(* Properties *)

Database ==
    [attestations : SUBSET Seqs, receipts : SUBSET Seqs,
     run_events : SUBSET Seqs, audit : SUBSET AuditRow,
     runs : [Runs -> RunRow \cup {NoRow}], records : SUBSET Seqs,
     current : [Runs -> [RecordKinds -> Upto]], proofs : SUBSET Seqs,
     consumptions : SUBSET Seqs, reservations : SUBSET ReservationRow,
     checkpoints : SUBSET CheckpointRow]

\* The tables hold rows of their types, an instance is in a phase of the
\* verification and remembers rows only while it verifies.
TypeOK ==
    /\ db \in Database
    /\ DOMAIN past \subseteq Upto
    /\ phase \in [Instances -> Verifying \cup {"off", "serving", "refused"}]
    /\ seen \in [Instances -> [runs : [Runs -> RunRow \cup {NoRow}],
                               checkpoint : CheckpointRow \cup {NoCheckpoint}]]
    /\ \A i \in Instances :
          phase[i] \in {"off", "serving", "refused"} => seen[i] = Nothing
    /\ disturbed \subseteq Instances
    /\ torn \in [table : Tables, to : Upto] \cup {NoRestore}
    /\ renewed \in BOOLEAN

\* What the verification is able to notice.  Receipts and attestations are
\* only followed, never missed; of the proofs, those of records are missed;
\* of the Runs, the ones that are older are noticed and the ones that are
\* gone are not.
Noticed ==
    \/ torn.table \in {"run_events", "audit", "records", "current",
                       "consumptions", "reservations", "checkpoints"}
    \/ torn.table = "proofs" /\ ~(db.records \subseteq db.proofs)
    \/ /\ torn.table = "runs"
       /\ \E a \in db.audit :
             db.runs[a.run] # NoRow /\ db.runs[a.run].digest < a.seq

\* A database in which one table is older than the others is not served.
TornTableRefused ==
    torn # NoRestore /\ Noticed =>
        \A i \in Instances : phase[i] # "serving"

\* What is served has its types and is of one piece.
ServedIsWhole == TypeOK /\ TornTableRefused

\* The verification accepts what the orchestrator itself has written, and
\* whatever it does not notice: an instance that starts while nothing is
\* committed is refused only after a restore that it notices, or when a
\* retry took a renewed Admission that the Reservation row does not take.
QuietStartPasses ==
    \A i \in Instances :
        phase[i] = "refused" /\ i \notin disturbed =>
            (torn # NoRestore /\ Noticed) \/ renewed
=============================================================================
