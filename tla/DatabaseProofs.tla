--------------------------- MODULE DatabaseProofs ---------------------------
(***************************************************************************)
(* Proofs about the two parts of the PostgreSQL authority that work on its  *)
(* tables outside the command transaction.                                  *)
(*                                                                         *)
(* The verification at startup, for every number of instances, Runs, record *)
(* kinds and commits: a database in which one table is older than the       *)
(* others is not served, and what the orchestrator itself wrote is accepted. *)
(*                                                                         *)
(* The outbox, for every number of workers, names and events and every      *)
(* lease: no two workers hold an event under claims that are both in force, *)
(* and only a worker that carried an event out settles it.                  *)
(***************************************************************************)
EXTENDS StartupVerification, Outbox, FiniteSetTheorems, WellFoundedInduction, TLAPS

-----------------------------------------------------------------------------
(* What commits leave in the tables.                                        *)

\* Every commit has a Run event and consumes its proof; the receipts, attestations
\* and proofs that are there are of commits, and records have their proofs.
RowPerCommit(D, n) ==
    /\ D.run_events = 1 .. n /\ D.consumptions = 1 .. n
    /\ D.attestations \subseteq 1 .. n /\ D.receipts \subseteq 1 .. n
    /\ D.proofs \subseteq 1 .. n
    /\ D.records \subseteq D.proofs

\* The audit events are numbered and each names the one before it.
AuditNumbered(D, n) ==
    /\ \A m \in 1 .. n : \E a \in D.audit : a.seq = m
    /\ \A a \in D.audit : a.seq \in 1 .. n /\ a.prev = a.seq - 1

\* The row of a Run is the one that the newest of its audit events names.
RunsFollowAudit(D) ==
    \A r \in Runs : D.runs[r] # NoRow =>
        /\ \E a \in D.audit : a.run = r /\ a.seq = D.runs[r].digest
        /\ \A a \in D.audit : a.run = r => a.seq <= D.runs[r].digest

\* The current pointers are the records of the projections, which are stored; a
\* Run that was never started has none.
CurrentFollowsRuns(D) ==
    \A r \in Runs, k \in RecordKinds :
        /\ (\A a \in D.audit : a.run # r) => D.current[r][k] = 0
        /\ D.runs[r] # NoRow =>
              /\ D.current[r][k] = D.runs[r].records[k]
              /\ D.runs[r].records[k] # 0 => D.runs[r].records[k] \in D.records

\* Every commit has a checkpoint, and the newest one holds what is stored.
CheckpointsFollow(D, n) ==
    /\ \A m \in 1 .. n : \E c \in D.checkpoints : c.seq = m
    /\ \A c \in D.checkpoints :
          /\ c.seq \in 1 .. n
          /\ c.seq = n => c.records = D.records /\ c.reservations = D.reservations

\* An execution has the number of a commit, and no two Runs have the same.
ExecutionsDistinct(D, n) ==
    /\ \A r \in Runs : D.runs[r] # NoRow => D.runs[r].execution.id <= n
    /\ \A q, r \in Runs :
          /\ D.runs[q] # NoRow /\ D.runs[r] # NoRow /\ q # r
          /\ D.runs[q].execution.id = D.runs[r].execution.id
          => D.runs[r].execution.id = 0
    /\ \A row \in D.reservations : row.id <= n

\* The tables agree with each other as far as the verification compares them.
Consistent(D, n) ==
    /\ RowPerCommit(D, n)
    /\ AuditNumbered(D, n)
    /\ RunsFollowAudit(D)
    /\ CurrentFollowsRuns(D)
    /\ CheckpointsFollow(D, n)
    /\ ExecutionsDistinct(D, n)

\* Every commit has its receipt, attestation and proof, and every Run that has
\* an audit event its row.
Complete(D, n) ==
    /\ D.attestations = 1 .. n /\ D.receipts = 1 .. n /\ D.proofs = 1 .. n
    /\ \A r \in Runs : D.runs[r] = NoRow => \A a \in D.audit : a.run # r

\* The tables are those that n commits leave.
Whole(D, n) == Consistent(D, n) /\ Complete(D, n)

\* The Reservation of every projection is stored as the projection has it.
ReservationsMatch(D) ==
    \A r \in Runs : D.runs[r] # NoRow /\ D.runs[r].execution.id # 0 =>
        [id |-> D.runs[r].execution.id, admission |-> D.runs[r].execution.admission,
         version |-> D.runs[r].digest] \in D.reservations

\* Later tables E have moved on from D: a row changes only together with its
\* digest, and neither rows nor pointers disappear.
MovedOn(D, E) ==
    \A r \in Runs :
        /\ D.runs[r] # NoRow =>
              /\ E.runs[r] # NoRow
              /\ D.runs[r] = E.runs[r] \/ D.runs[r].digest < E.runs[r].digest
        /\ \A k \in RecordKinds : D.current[r][k] # 0 => E.current[r][k] # 0

\* An execution is reserved under an Admission.
ExecutionsAdmitted(D) ==
    \A r \in Runs : D.runs[r] # NoRow /\ D.runs[r].execution.id # 0 =>
        /\ D.runs[r].execution.admission # 0
        /\ D.runs[r].records["action_admission"] # 0

-----------------------------------------------------------------------------
(* The inductive invariant.                                                 *)

\* The tables that commits left behind have their types.
PastTyped ==
    /\ Commits \in Upto
    /\ DOMAIN past = 0 .. Commits
    /\ \A k \in 0 .. Commits : past[k] \in Database /\ ExecutionsAdmitted(past[k])
    /\ ExecutionsAdmitted(db)

\* As long as no table was restored, or one was and the verification can notice
\* it, all commits were made on tables of one piece.
PastWhole ==
    torn = NoRestore \/ Noticed =>
        \A k \in 0 .. Commits : Whole(past[k], k) /\ MovedOn(past[k], past[Commits])

\* Without a restore the tables are those of the last commit.
UntornIsPast == torn = NoRestore => db = past[Commits]

\* What was not restored, or not noticeably, is consistent, and has the
\* Reservations of the projections unless an Admission was renewed.
UnnoticedIsConsistent ==
    torn = NoRestore \/ ~Noticed =>
        Consistent(db, Commits) /\ (~renewed => ReservationsMatch(db))

\* After a restore that can be noticed nothing was committed.
TornIsPast ==
    torn # NoRestore /\ Noticed =>
        /\ torn.to \in 0 .. Commits
        /\ db = [past[Commits] EXCEPT ![torn.table] = past[torn.to][torn.table]]
        /\ db[torn.table] # past[Commits][torn.table]
        /\ disturbed = {}

\* An instance beside whose verification nothing was committed remembers what
\* is still in the tables.
SeenIsCurrent ==
    \A i \in Instances : i \notin disturbed =>
        /\ phase[i] = "executions" =>
              \A r \in Runs : seen[i].runs[r] \in {NoRow, db.runs[r]}
        /\ phase[i] \in {"recordRoot", "executionRoot"} =>
              seen[i].checkpoint = NewestCheckpoint

OffIsUndisturbed == \A i \in Instances : phase[i] = "off" => i \notin disturbed

AfterRelations == {"checkpoint", "recordRoot", "executionRoot", "serving"}
AfterCurrent == {"relations"} \cup AfterRelations
AfterRuns == {"executions"} \cup AfterCurrent
AfterReceipts == {"audit", "runs"} \cup AfterRuns

\* What agrees once an instance has got to a phase.
ComparedAt(ph) ==
    /\ ph \in AfterReceipts => ReceiptsEvidenced
    /\ ph \in AfterRuns => RunsAudited
    /\ ph \in AfterCurrent => CurrentMatches
    /\ ph \in AfterRelations => RelationsHold
    /\ ph \in {"executionRoot", "serving"} =>
          (NewestCheckpoint # NoCheckpoint => NewestCheckpoint.records = RecordSetRoot)
    /\ ph = "serving" =>
          (NewestCheckpoint # NoCheckpoint =>
              NewestCheckpoint.reservations = ExecutionStateRoot)

\* What an instance has compared after a restore that can be noticed agrees.
Compared ==
    torn # NoRestore /\ Noticed => \A i \in Instances : ComparedAt(phase[i])

StartupInv ==
    /\ TypeOK
    /\ PastTyped
    /\ PastWhole
    /\ UntornIsPast
    /\ UnnoticedIsConsistent
    /\ TornIsPast
    /\ SeenIsCurrent
    /\ OffIsUndisturbed
    /\ Compared
    /\ QuietStartPasses

-----------------------------------------------------------------------------
(* Numbers: the greatest of a bounded set, and how many commits there are.  *)

LEMMA LeastElement ==
    ASSUME NEW S \in SUBSET Nat, S # {}
    PROVE  \E n \in S : \A m \in S : n <= m
<1>1. IsWellFoundedOn(OpToRel(<, Nat), Nat)
  BY NatLessThanWellFounded
<1>2. PICK n \in S : \A m \in S : ~(<<m, n>> \in OpToRel(<, Nat))
  BY <1>1, WFMin
<1>3. \A m \in S : ~(m < n)
  BY <1>2 DEF OpToRel
<1> QED BY <1>3

\* A bounded set of naturals that is not empty has a greatest element: the
\* least of its bounds.
LEMMA GreatestElement ==
    ASSUME NEW S \in SUBSET Nat, S # {}, NEW b \in Nat, \A x \in S : x <= b
    PROVE  \E n \in S : \A m \in S : m <= n
<1> DEFINE B == {u \in Nat : \A x \in S : x <= u}
<1>1. PICK u \in B : \A v \in B : u <= v
  <2>1. b \in B /\ B \in SUBSET Nat
    OBVIOUS
  <2> HIDE DEF B
  <2> QED BY <2>1, LeastElement
<1>2. u \in S
  <2> SUFFICES ASSUME u \notin S PROVE FALSE
    OBVIOUS
  <2>1. PICK x \in S : TRUE
    OBVIOUS
  <2>2. u \in Nat /\ x \in Nat /\ x <= u /\ x # u
    BY <1>1, <2>1
  <2>3. \A y \in S : y \in Nat /\ y <= u /\ y # u
    BY <1>1
  <2>4. u - 1 \in Nat /\ \A y \in S : y <= u - 1
    BY <2>2, <2>3
  <2>5. u - 1 \in B
    BY <2>4
  <2>6. u <= u - 1
    BY <1>1, <2>5
  <2> QED BY <2>2, <2>6
<1> QED BY <1>1, <1>2

\* Last returns the greatest element, or zero.
LEMMA LastIsGreatest ==
    ASSUME NEW S \in SUBSET Nat, NEW b \in Nat, \A x \in S : x <= b
    PROVE  Last(S) \in S \cup {0} /\ \A x \in S : x <= Last(S)
<1> DEFINE T == S \cup {0}
<1>1. T \in SUBSET Nat /\ T # {} /\ \A x \in T : x <= b
  OBVIOUS
<1> HIDE DEF T
<1>2. \E n \in T : \A m \in T : m <= n
  BY <1>1, GreatestElement
<1>3. \E n \in T : \A m \in T : n >= m
  BY <1>1, <1>2
<1>4. Max(T) \in T /\ \A m \in T : Max(T) >= m
  BY <1>3, Zenon DEF Max
<1>5. Last(S) = Max(T)
  BY Zenon DEF Last, T
<1> QED BY <1>1, <1>4, <1>5 DEF T

LEMMA LastIs ==
    ASSUME NEW S \in SUBSET Nat, NEW m \in S \cup {0}, \A x \in S : x <= m
    PROVE  Last(S) = m
<1>1. m \in Nat
  OBVIOUS
<1>2. Last(S) \in S \cup {0} /\ \A x \in S : x <= Last(S)
  BY <1>1, LastIsGreatest
<1>3. Last(S) \in Nat /\ Last(S) <= m
  <2>1. CASE Last(S) \in S
    BY <2>1
  <2>2. CASE Last(S) = 0
    BY <1>1, <2>2
  <2> QED BY <1>2, <2>1, <2>2
<1>4. m <= Last(S)
  BY <1>2, <1>3
<1> QED BY <1>1, <1>3, <1>4

LEMMA CommitsIs == ASSUME NEW n \in Nat, DOMAIN past = 0 .. n PROVE Commits = n
<1>1. Cardinality(0 .. n) = IF 0 > n THEN 0 ELSE n - 0 + 1
  <2>1. 0 \in Int /\ n \in Int
    OBVIOUS
  <2>2. \A a, b \in Int : Cardinality(a .. b) = IF a > b THEN 0 ELSE b - a + 1
    BY FS_Interval
  <2> QED BY <2>1, <2>2, Zenon
<1> QED BY <1>1 DEF Commits

LEMMA CommitsIsNext ==
    ASSUME NEW n \in Nat, DOMAIN past' = 0 .. n PROVE Commits' = n
<1>1. Cardinality(0 .. n) = IF 0 > n THEN 0 ELSE n - 0 + 1
  <2>1. 0 \in Int /\ n \in Int
    OBVIOUS
  <2>2. \A a, b \in Int : Cardinality(a .. b) = IF a > b THEN 0 ELSE b - a + 1
    BY FS_Interval
  <2> QED BY <2>1, <2>2, Zenon
<1> QED BY <1>1 DEF Commits

-----------------------------------------------------------------------------
(* The newest checkpoint.                                                   *)

LEMMA NewestFacts ==
    ASSUME db.checkpoints \in SUBSET CheckpointRow
    PROVE  /\ NewestCheckpoint \in CheckpointRow \cup {NoCheckpoint}
           /\ db.checkpoints # {} =>
                /\ NewestCheckpoint \in db.checkpoints
                /\ \A d \in db.checkpoints : d.seq <= NewestCheckpoint.seq
<1>1. CASE db.checkpoints = {}
  BY <1>1 DEF NewestCheckpoint
<1>2. CASE db.checkpoints # {}
  <2> DEFINE S == {c.seq : c \in db.checkpoints}
  <2>1. S \in SUBSET Nat /\ S # {} /\ \A x \in S : x <= MaxCommits
    BY <1>2, BoundsAssumption DEF CheckpointRow, Seqs
  <2>2. MaxCommits \in Nat
    BY BoundsAssumption
  <2>3. \E n \in S : \A m \in S : m <= n
    <3> HIDE DEF S
    <3> QED BY <2>1, <2>2, GreatestElement
  <2>4. \E c \in db.checkpoints : \A d \in db.checkpoints : d.seq <= c.seq
    BY <2>3
  <2>5. /\ NewestCheckpoint \in db.checkpoints
        /\ \A d \in db.checkpoints : d.seq <= NewestCheckpoint.seq
    BY <1>2, <2>4, Zenon DEF NewestCheckpoint
  <2> QED BY <2>5
<1> QED BY <1>1, <1>2

-----------------------------------------------------------------------------
(* What a commit writes.                                                    *)

LEMMA SeqsFacts ==
    /\ Seqs \subseteq Upto /\ Seqs \subseteq Nat /\ Upto \subseteq Nat
    /\ 0 \in Upto /\ 0 \notin Seqs
    /\ \A n \in Upto : n # 0 => n \in Seqs
BY BoundsAssumption DEF Seqs, Upto

\* What the projection after a commit has of the one before it.
ProjectionFacts(r, command, n, p) ==
    LET row == db.runs[r]
    IN  /\ p \in RunRow
        /\ p.digest = n
        /\ command = "start" => row = NoRow /\ \A a \in db.audit : a.run # r
        /\ command # "start" => row \in RunRow
        /\ \A k \in RecordKinds :
              p.records[k] = IF command = "start" THEN 0
                             ELSE IF k = command THEN n ELSE row.records[k]
        /\ command = "start" => p.execution.id = 0
        /\ command = "reserve" => p.execution.id = n
        /\ command \notin {"start", "reserve"} => p.execution.id = row.execution.id
        /\ command \notin {"start", "reserve", "retry"} => p.execution = row.execution
        /\ p.execution.id # 0 =>
              p.execution.admission # 0 /\ p.records["action_admission"] # 0

LEMMA ProjectionOfCommit ==
    ASSUME db.runs \in [Runs -> RunRow \cup {NoRow}], ExecutionsAdmitted(db),
           NEW r \in Runs, NEW command \in Commands, NEW n \in Seqs,
           Accepts(r, command)
    PROVE  ProjectionFacts(r, command, n, Projection(r, command, n))
<1> DEFINE row == db.runs[r]
           p == Projection(r, command, n)
           adm == row.records["action_admission"]
<1>0. /\ "action_admission" \in RecordKinds
      /\ n \in Upto /\ n # 0 /\ 0 \in Upto
      /\ command \in RecordKinds => command \notin {"start", "plain", "reserve", "retry"}
  BY RecordKindsAssumption, SeqsFacts
<1>1. row \in RunRow \cup {NoRow}
  OBVIOUS
<1>2. CASE command = "start"
  <2>1. row = NoRow /\ \A a \in db.audit : a.run # r
    BY <1>2 DEF Accepts
  <2>2. p = [digest |-> n, records |-> [k \in RecordKinds |-> 0],
             execution |-> [id |-> 0, admission |-> 0]]
    BY <1>2, <1>0 DEF Projection
  <2>3. p \in RunRow
    BY <2>2, <1>0 DEF RunRow
  <2> HIDE DEF p
  <2> QED BY <1>2, <2>1, <2>2, <2>3 DEF ProjectionFacts, p
<1>3. CASE command # "start"
  <2>1. row \in RunRow
    BY <1>1, <1>3 DEF Accepts
  <2>2. /\ row.digest \in Seqs /\ row.records \in [RecordKinds -> Upto]
        /\ row.execution \in [id : Upto, admission : Upto]
    BY <2>1 DEF RunRow
  <2>3. row # NoRow
    BY <2>1, NoRowAssumption
  <2>4. row.execution.id # 0 => row.execution.admission # 0 /\ adm # 0
    BY <2>3 DEF ExecutionsAdmitted
  <2>5. CASE command \in RecordKinds
    <3>1. p = [row EXCEPT !.digest = n, !.records[command] = n]
      BY <2>5, <1>0 DEF Projection
    <3>3. p.digest = n /\ p.execution = row.execution
      BY <2>1, <3>1 DEF RunRow
    <3>4. p.records = [row.records EXCEPT ![command] = n]
      BY <2>1, <3>1 DEF RunRow
    <3>2. p \in RunRow
      <4>1. p = [digest |-> p.digest, records |-> p.records, execution |-> p.execution]
        BY <2>1, <3>1 DEF RunRow
      <4>2. p.records \in [RecordKinds -> Upto]
        BY <1>0, <2>2, <3>4
      <4> HIDE DEF p, row
      <4> QED BY <2>2, <3>3, <4>1, <4>2 DEF RunRow
    <3> HIDE DEF p
    <3>5. \A k \in RecordKinds : p.records[k] = IF k = command THEN n ELSE row.records[k]
      BY <2>2, <3>4
    <3>6. adm # 0 => p.records["action_admission"] # 0
      BY <1>0, <3>5
    <3> QED BY <1>0, <1>3, <2>1, <2>4, <2>5, <3>2, <3>3, <3>5, <3>6 DEF ProjectionFacts, p
  <2>6. CASE command = "reserve"
    <3>1. p = [row EXCEPT !.digest = n, !.execution = [id |-> n, admission |-> adm]]
      BY <2>6, <1>0 DEF Projection
    <3>2. adm # 0
      BY <2>6 DEF Accepts
    <3>4. p.digest = n /\ p.records = row.records /\ p.execution = [id |-> n, admission |-> adm]
      BY <2>1, <3>1 DEF RunRow
    <3>3. p \in RunRow
      <4>1. p = [digest |-> p.digest, records |-> p.records, execution |-> p.execution]
        BY <2>1, <3>1 DEF RunRow
      <4>2. p.execution \in [id : Upto, admission : Upto]
        BY <1>0, <2>2, <3>4
      <4> HIDE DEF p, row
      <4> QED BY <2>2, <3>4, <4>1, <4>2 DEF RunRow
    <3> HIDE DEF p
    <3> QED BY <1>0, <2>1, <2>6, <3>2, <3>3, <3>4 DEF ProjectionFacts, p
  <2>7. CASE command = "retry"
    <3>1. p = [row EXCEPT !.digest = n, !.execution.admission = adm]
      BY <2>7, <1>0 DEF Projection
    <3>2. row.execution.id # 0
      BY <2>7 DEF Accepts
    <3>4. p.digest = n /\ p.records = row.records
          /\ p.execution = [row.execution EXCEPT !.admission = adm]
      BY <2>1, <3>1 DEF RunRow
    <3>3. p \in RunRow
      <4>1. p = [digest |-> p.digest, records |-> p.records, execution |-> p.execution]
        BY <2>1, <3>1 DEF RunRow
      <4>2. p.execution \in [id : Upto, admission : Upto]
        BY <1>0, <2>2, <3>4
      <4> HIDE DEF p, row
      <4> QED BY <2>2, <3>4, <4>1, <4>2 DEF RunRow
    <3>5. p.execution.id = row.execution.id /\ p.execution.admission = adm
      BY <2>2, <3>4
    <3> HIDE DEF p
    <3> QED BY <1>0, <2>1, <2>4, <2>7, <3>2, <3>3, <3>4, <3>5 DEF ProjectionFacts, p
  <2>8. CASE command = "plain"
    <3>1. p = [row EXCEPT !.digest = n]
      BY <2>8, <1>0 DEF Projection
    <3>2. p \in RunRow
      BY <2>1, <3>1 DEF RunRow
    <3>3. p.digest = n /\ p.records = row.records /\ p.execution = row.execution
      BY <2>1, <3>1 DEF RunRow
    <3> HIDE DEF p
    <3> QED BY <1>0, <2>1, <2>4, <2>8, <3>2, <3>3 DEF ProjectionFacts, p
  <2> QED BY <1>3, <2>5, <2>6, <2>7, <2>8 DEF Commands
<1> QED BY <1>2, <1>3

\* The tables W that a commit writes, one by one.
CommitWrites(r, command, n, W) ==
    LET p == Projection(r, command, n)
    IN  /\ W.attestations = db.attestations \cup {n}
        /\ W.receipts = db.receipts \cup {n}
        /\ W.run_events = db.run_events \cup {n}
        /\ W.audit = db.audit \cup
              {[seq |-> n, run |-> r, prev |-> Last({a.seq : a \in db.audit})]}
        /\ W.runs = [db.runs EXCEPT ![r] = p]
        /\ W.records = db.records \cup (IF command \in RecordKinds THEN {n} ELSE {})
        /\ W.current = IF command \in RecordKinds
                         THEN [db.current EXCEPT ![r][command] = n]
                         ELSE db.current
        /\ W.proofs = db.proofs \cup {n}
        /\ W.consumptions = db.consumptions \cup {n}
        /\ W.reservations = PersistReservation(db.reservations, p, n)
        /\ W.checkpoints = db.checkpoints \cup
              {[seq |-> n, records |-> W.records, reservations |-> W.reservations]}

LEMMA WrittenFields ==
    ASSUME NEW r, NEW command, NEW n
    PROVE  CommitWrites(r, command, n, Written(r, command, n))
BY DEF Written, CommitWrites

\* What is in the Reservations R after a commit whose projection is p.
ReservationFacts(reserved, p, n, R) ==
    LET id == p.execution.id
    IN  /\ R \in SUBSET ReservationRow
        /\ \A x \in R : x \in reserved \/ (x.id = id /\ id # 0)
        /\ \A x \in reserved : x.id # id => x \in R
        /\ id # 0 /\ (\A x \in reserved : x.id # id) =>
              [id |-> id, admission |-> p.execution.admission, version |-> n] \in R
        /\ id # 0 => \A x \in reserved : x.id = id =>
              [id |-> id, admission |-> x.admission, version |-> n] \in R

LEMMA ReservationsOfCommit ==
    ASSUME NEW reserved \in SUBSET ReservationRow, NEW p \in RunRow, NEW n \in Seqs,
           p.execution.id # 0 => p.execution.admission # 0
    PROVE  ReservationFacts(reserved, p, n, PersistReservation(reserved, p, n))
<1> DEFINE id == p.execution.id
           new == [id |-> id, admission |-> p.execution.admission, version |-> n]
           kept == {[row EXCEPT !.version = n] : row \in {o \in reserved : o.id = id}}
           R == PersistReservation(reserved, p, n)
<1>1. p.execution.id \in Upto /\ p.execution.admission \in Upto
  BY DEF RunRow
<1>2. CASE id = 0
  <2>1. R = reserved
    BY <1>2 DEF PersistReservation
  <2>2. \A x \in reserved : x.id # 0
    BY SeqsFacts DEF ReservationRow
  <2> QED BY <1>2, <2>1, <2>2 DEF ReservationFacts
<1>3. CASE id # 0
  <2>1. R = {row \in reserved : row.id # id} \cup (IF kept = {} THEN {new} ELSE kept)
    BY <1>3 DEF PersistReservation
  <2>2. new \in ReservationRow
    BY <1>1, <1>3, SeqsFacts DEF ReservationRow
  <2>3. \A o \in reserved : o.id = id =>
            [o EXCEPT !.version = n] = [id |-> id, admission |-> o.admission, version |-> n]
    BY DEF ReservationRow
  <2>4. \A x \in kept : x \in ReservationRow /\ x.id = id
    <3> SUFFICES ASSUME NEW o \in reserved, o.id = id
                 PROVE  [o EXCEPT !.version = n] \in ReservationRow
                        /\ [o EXCEPT !.version = n].id = id
      OBVIOUS
    <3>1. [o EXCEPT !.version = n] = [id |-> id, admission |-> o.admission, version |-> n]
      BY <2>3
    <3>2. id \in Seqs /\ o.admission \in Seqs
      BY DEF ReservationRow
    <3> QED BY <3>1, <3>2 DEF ReservationRow
  <2>5. \A o \in reserved : o.id = id =>
            [id |-> id, admission |-> o.admission, version |-> n] \in kept
    BY <2>3
  <2>6. kept = {} <=> \A o \in reserved : o.id # id
    BY <2>5
  <2>7. new.id = id
    OBVIOUS
  <2> HIDE DEF kept, new, R
  <2>8. R \in SUBSET ReservationRow
    BY <2>1, <2>2, <2>4
  <2>9. \A x \in R : x \in reserved \/ x.id = id
    BY <2>1, <2>4, <2>7
  <2>10. \A x \in reserved : x.id # id => x \in R
    BY <2>1
  <2>11. (\A x \in reserved : x.id # id) => new \in R
    BY <2>1, <2>6
  <2>12. \A x \in reserved : x.id = id =>
            [id |-> id, admission |-> x.admission, version |-> n] \in R
    BY <2>1, <2>5, <2>6
  <2> QED BY <1>3, <2>8, <2>9, <2>10, <2>11, <2>12 DEF new, R, ReservationFacts
<1> QED BY <1>2, <1>3

\* What the tables of a database are made of.
LEMMA DatabaseFields ==
    ASSUME NEW D \in Database
    PROVE  /\ D.attestations \in SUBSET Seqs /\ D.receipts \in SUBSET Seqs
           /\ D.run_events \in SUBSET Seqs /\ D.audit \in SUBSET AuditRow
           /\ D.runs \in [Runs -> RunRow \cup {NoRow}]
           /\ D.records \in SUBSET Seqs
           /\ D.current \in [Runs -> [RecordKinds -> Upto]]
           /\ D.proofs \in SUBSET Seqs /\ D.consumptions \in SUBSET Seqs
           /\ D.reservations \in SUBSET ReservationRow
           /\ D.checkpoints \in SUBSET CheckpointRow
BY DEF Database

\* The newest audit event is one of them or none.
LEMMA LastAuditTyped ==
    ASSUME db.audit \in SUBSET AuditRow PROVE Last({a.seq : a \in db.audit}) \in Upto
<1> DEFINE S == {a.seq : a \in db.audit}
<1>1. S \in SUBSET Seqs
  BY DEF AuditRow
<1> HIDE DEF S
<1>2. S \in SUBSET Nat /\ \A x \in S : x <= MaxCommits
  BY <1>1, BoundsAssumption DEF Seqs
<1>3. Last(S) \in S \cup {0}
  BY <1>2, BoundsAssumption, LastIsGreatest
<1> QED BY <1>1, <1>3, SeqsFacts DEF S

LEMMA WrittenTyped ==
    ASSUME db \in Database, ExecutionsAdmitted(db),
           NEW r \in Runs, NEW command \in Commands, NEW n \in Seqs,
           Accepts(r, command)
    PROVE  Written(r, command, n) \in Database /\ ExecutionsAdmitted(Written(r, command, n))
<1> DEFINE W == Written(r, command, n)
           p == Projection(r, command, n)
<1>0. n \in Upto
  BY SeqsFacts
<1>w. CommitWrites(r, command, n, W)
  BY WrittenFields
<1>x. W = [attestations |-> W.attestations, receipts |-> W.receipts,
           run_events |-> W.run_events, audit |-> W.audit, runs |-> W.runs,
           records |-> W.records, current |-> W.current, proofs |-> W.proofs,
           consumptions |-> W.consumptions, reservations |-> W.reservations,
           checkpoints |-> W.checkpoints]
  BY DEF Written
<1> HIDE DEF W
<1>1. ProjectionFacts(r, command, n, p)
  BY DatabaseFields, ProjectionOfCommit
<1>2. p \in RunRow /\ (p.execution.id # 0 =>
          p.execution.admission # 0 /\ p.records["action_admission"] # 0)
  BY <1>1 DEF ProjectionFacts
<1>3. /\ W.attestations \in SUBSET Seqs /\ W.receipts \in SUBSET Seqs
      /\ W.run_events \in SUBSET Seqs /\ W.proofs \in SUBSET Seqs
      /\ W.consumptions \in SUBSET Seqs /\ W.records \in SUBSET Seqs
  BY <1>w, DatabaseFields DEF CommitWrites
<1>4. W.audit \in SUBSET AuditRow
  <2> DEFINE l == Last({a.seq : a \in db.audit})
  <2>1. l \in Upto
    BY DatabaseFields, LastAuditTyped
  <2>2. W.audit = db.audit \cup {[seq |-> n, run |-> r, prev |-> l]}
    BY <1>w DEF CommitWrites
  <2> HIDE DEF l
  <2>3. [seq |-> n, run |-> r, prev |-> l] \in AuditRow
    BY <2>1 DEF AuditRow
  <2> QED BY <2>2, <2>3, DatabaseFields
<1>5. W.runs \in [Runs -> RunRow \cup {NoRow}] /\ W.runs = [db.runs EXCEPT ![r] = p]
  <2>1. W.runs = [db.runs EXCEPT ![r] = p]
    BY <1>w DEF CommitWrites
  <2> HIDE DEF p
  <2> QED BY <1>2, <2>1, DatabaseFields
<1>6. W.current \in [Runs -> [RecordKinds -> Upto]]
  <2>1. W.current = IF command \in RecordKinds THEN [db.current EXCEPT ![r][command] = n]
                    ELSE db.current
    BY <1>w DEF CommitWrites
  <2> QED BY <1>0, <2>1, DatabaseFields
<1>7. W.reservations \in SUBSET ReservationRow
  <2>1. W.reservations = PersistReservation(db.reservations, p, n)
    BY <1>w DEF CommitWrites
  <2> HIDE DEF p
  <2>2. db.reservations \in SUBSET ReservationRow
    BY DatabaseFields
  <2>3. ReservationFacts(db.reservations, p, n, W.reservations)
    BY <1>2, <2>1, <2>2, ReservationsOfCommit
  <2> QED BY <2>3 DEF ReservationFacts
<1>8. W.checkpoints \in SUBSET CheckpointRow
  <2>1. W.checkpoints = db.checkpoints \cup
            {[seq |-> n, records |-> W.records, reservations |-> W.reservations]}
    BY <1>w DEF CommitWrites
  <2> QED BY <1>3, <1>7, <2>1, DatabaseFields DEF CheckpointRow
<1>9. W \in Database
  BY <1>3, <1>4, <1>5, <1>6, <1>7, <1>8, <1>x DEF Database
<1>10. ExecutionsAdmitted(W)
  <2>1. \A q \in Runs : W.runs[q] = IF q = r THEN p ELSE db.runs[q]
    <3> HIDE DEF p
    <3> QED BY <1>5, DatabaseFields
  <2> HIDE DEF p
  <2> QED BY <1>2, <2>1 DEF ExecutionsAdmitted
<1> QED BY <1>9, <1>10 DEF W

\* A commit on tables of one piece: what it writes, in the forms used below.
CommitFacts(r, command, n, p, W) ==
    /\ CommitWrites(r, command, n, W)
    /\ ProjectionFacts(r, command, n, p)
    /\ \A q \in Runs : W.runs[q] = IF q = r THEN p ELSE db.runs[q]
    /\ \A q \in Runs, k \in RecordKinds :
          W.current[q][k] = IF q = r /\ k = command THEN n ELSE db.current[q][k]
    /\ ReservationFacts(db.reservations, p, n, W.reservations)
    /\ p # NoRow

LEMMA CommitHasFacts ==
    ASSUME db \in Database, ExecutionsAdmitted(db),
           NEW r \in Runs, NEW command \in Commands, NEW n \in Seqs,
           Accepts(r, command)
    PROVE  CommitFacts(r, command, n, Projection(r, command, n), Written(r, command, n))
<1> DEFINE W == Written(r, command, n)
           p == Projection(r, command, n)
<1>1. CommitWrites(r, command, n, W)
  BY WrittenFields
<1> HIDE DEF W
<1>2. ProjectionFacts(r, command, n, p)
  BY DatabaseFields, ProjectionOfCommit
<1>3. p \in RunRow /\ (p.execution.id # 0 => p.execution.admission # 0)
  BY <1>2 DEF ProjectionFacts
<1>4. W.runs = [db.runs EXCEPT ![r] = p] /\ W.reservations = PersistReservation(db.reservations, p, n)
  BY <1>1 DEF CommitWrites
<1>5. W.current = IF command \in RecordKinds THEN [db.current EXCEPT ![r][command] = n]
                  ELSE db.current
  BY <1>1 DEF CommitWrites
<1> HIDE DEF p
<1>6. \A q \in Runs : W.runs[q] = IF q = r THEN p ELSE db.runs[q]
  BY <1>4, DatabaseFields
<1>7. \A q \in Runs, k \in RecordKinds :
          W.current[q][k] = IF q = r /\ k = command THEN n ELSE db.current[q][k]
  BY <1>5, DatabaseFields
<1>8. ReservationFacts(db.reservations, p, n, W.reservations)
  <2>1. db.reservations \in SUBSET ReservationRow
    BY DatabaseFields
  <2> QED BY <1>3, <1>4, <2>1, ReservationsOfCommit
<1>9. p # NoRow
  BY <1>3, NoRowAssumption
<1> QED BY <1>1, <1>2, <1>6, <1>7, <1>8, <1>9 DEF CommitFacts, W, p

LEMMA RowPerCommitKept ==
    ASSUME NEW m \in Nat, RowPerCommit(db, m), NEW r, NEW command, NEW p, NEW W,
           CommitFacts(r, command, m + 1, p, W)
    PROVE  RowPerCommit(W, m + 1)
<1>1. (1 .. m) \cup {m + 1} = 1 .. (m + 1) /\ 1 .. m \subseteq 1 .. (m + 1)
  OBVIOUS
<1> QED BY <1>1 DEF RowPerCommit, CommitFacts, CommitWrites

LEMMA AuditKept ==
    ASSUME db \in Database, NEW m \in Nat, AuditNumbered(db, m), NEW r, NEW command, NEW p, NEW W,
           CommitFacts(r, command, m + 1, p, W)
    PROVE  AuditNumbered(W, m + 1)
<1> DEFINE S == {a.seq : a \in db.audit}
           new == [seq |-> m + 1, run |-> r, prev |-> m]
<1>1. /\ S \in SUBSET Nat /\ \A x \in S : x <= m
      /\ m \in S \cup {0}
  BY DEF AuditNumbered
<1>2. W.audit = db.audit \cup {[seq |-> m + 1, run |-> r, prev |-> Last(S)]}
  BY DEF CommitFacts, CommitWrites
<1>3. Last(S) = m
  <2> HIDE DEF S
  <2> QED BY <1>1, LastIs
<1>4. W.audit = db.audit \cup {new}
  BY <1>2, <1>3
<1>5. new.seq = m + 1 /\ new.prev = m
  OBVIOUS
<1> HIDE DEF new
<1> QED BY <1>4, <1>5 DEF AuditNumbered

LEMMA RunsKept ==
    ASSUME db \in Database, NEW m \in Nat, AuditNumbered(db, m), RunsFollowAudit(db),
           NEW r \in Runs, NEW command, NEW p, NEW W,
           CommitFacts(r, command, m + 1, p, W)
    PROVE  RunsFollowAudit(W)
<1>1. PICK new : /\ W.audit = db.audit \cup {new}
                 /\ new.seq = m + 1 /\ new.run = r
  <2> DEFINE e == [seq |-> m + 1, run |-> r, prev |-> Last({a.seq : a \in db.audit})]
  <2>1. W.audit = db.audit \cup {e} /\ e.seq = m + 1 /\ e.run = r
    BY DEF CommitFacts, CommitWrites
  <2> QED BY <2>1
<1>2. \A q \in Runs : W.runs[q] = IF q = r THEN p ELSE db.runs[q]
  BY DEF CommitFacts
<1>3. p # NoRow /\ p.digest = m + 1
  BY DEF CommitFacts, ProjectionFacts
<1>4. \A a \in db.audit : a.seq \in Nat /\ a.seq <= m + 1
  BY DEF AuditNumbered
<1> QED BY <1>1, <1>2, <1>3, <1>4 DEF RunsFollowAudit

LEMMA CurrentKept ==
    ASSUME db \in Database, CurrentFollowsRuns(db), NEW n \in Seqs,
           NEW r \in Runs, NEW command, NEW p, NEW W,
           CommitFacts(r, command, n, p, W)
    PROVE  CurrentFollowsRuns(W)
<1>1. /\ \A q \in Runs : W.runs[q] = IF q = r THEN p ELSE db.runs[q]
      /\ \A q \in Runs, k \in RecordKinds :
            W.current[q][k] = IF q = r /\ k = command THEN n ELSE db.current[q][k]
      /\ p # NoRow
  BY DEF CommitFacts
<1>2. W.records = db.records \cup (IF command \in RecordKinds THEN {n} ELSE {})
  BY DEF CommitFacts, CommitWrites
<1>3. /\ \A k \in RecordKinds :
            p.records[k] = IF command = "start" THEN 0
                           ELSE IF k = command THEN n ELSE db.runs[r].records[k]
      /\ command = "start" => db.runs[r] = NoRow
      /\ command # "start" => db.runs[r] # NoRow
  BY NoRowAssumption DEF CommitFacts, ProjectionFacts
<1>4. "start" \notin RecordKinds
  BY RecordKindsAssumption
<1>8. PICK new : W.audit = db.audit \cup {new} /\ new.run = r
  <2> DEFINE e == [seq |-> n, run |-> r, prev |-> Last({a.seq : a \in db.audit})]
  <2>1. W.audit = db.audit \cup {e} /\ e.run = r
    BY DEF CommitFacts, CommitWrites
  <2> QED BY <2>1
<1>9. command = "start" => \A a \in db.audit : a.run # r
  BY DEF CommitFacts, ProjectionFacts
<1> SUFFICES ASSUME NEW q \in Runs, NEW k \in RecordKinds
             PROVE  /\ (\A a \in W.audit : a.run # q) => W.current[q][k] = 0
                    /\ W.runs[q] # NoRow =>
                         /\ W.current[q][k] = W.runs[q].records[k]
                         /\ W.runs[q].records[k] # 0 => W.runs[q].records[k] \in W.records
  BY DEF CurrentFollowsRuns
<1>5. CASE q # r
  BY <1>1, <1>2, <1>5, <1>8 DEF CurrentFollowsRuns
<1>6. CASE q = r /\ command = "start"
  BY <1>1, <1>3, <1>4, <1>6, <1>8, <1>9 DEF CurrentFollowsRuns
<1>7. CASE q = r /\ command # "start"
  BY <1>1, <1>2, <1>3, <1>7, <1>8 DEF CurrentFollowsRuns
<1> QED BY <1>5, <1>6, <1>7

LEMMA CheckpointsKept ==
    ASSUME NEW m \in Nat, CheckpointsFollow(db, m),
           NEW r, NEW command, NEW p, NEW W,
           CommitFacts(r, command, m + 1, p, W)
    PROVE  CheckpointsFollow(W, m + 1)
<1>1. PICK new : /\ W.checkpoints = db.checkpoints \cup {new}
                 /\ new.seq = m + 1 /\ new.records = W.records
                 /\ new.reservations = W.reservations
  <2> DEFINE c == [seq |-> m + 1, records |-> W.records, reservations |-> W.reservations]
  <2>1. /\ W.checkpoints = db.checkpoints \cup {c} /\ c.seq = m + 1
        /\ c.records = W.records /\ c.reservations = W.reservations
    BY DEF CommitFacts, CommitWrites
  <2> QED BY <2>1
<1> QED BY <1>1 DEF CheckpointsFollow

LEMMA ExecutionsKept ==
    ASSUME db \in Database, NEW m \in Nat, ExecutionsDistinct(db, m),
           NEW r \in Runs, NEW command, NEW p, NEW W,
           CommitFacts(r, command, m + 1, p, W)
    PROVE  ExecutionsDistinct(W, m + 1)
<1>1. \A q \in Runs : W.runs[q] = IF q = r THEN p ELSE db.runs[q]
  BY DEF CommitFacts
<1>2. \A q \in Runs : db.runs[q] # NoRow => db.runs[q].execution.id \in Nat
  BY DatabaseFields, SeqsFacts DEF RunRow
<1>3. /\ p.execution.id \in Nat
      /\ \/ p.execution.id = 0
         \/ p.execution.id = m + 1
         \/ db.runs[r] # NoRow /\ p.execution.id = db.runs[r].execution.id
  <2>1. ProjectionFacts(r, command, m + 1, p)
    BY DEF CommitFacts
  <2>2. p.execution.id \in Nat
    BY <2>1, SeqsFacts DEF ProjectionFacts, RunRow
  <2>3. command # "start" => db.runs[r] # NoRow
    BY <2>1, NoRowAssumption DEF ProjectionFacts
  <2> QED BY <2>1, <2>2, <2>3 DEF ProjectionFacts
<1>4. p.execution.id <= m + 1
  BY <1>2, <1>3 DEF ExecutionsDistinct
<1>5. \A q \in Runs : db.runs[q] # NoRow => db.runs[q].execution.id <= m
  BY DEF ExecutionsDistinct
<1>6. \A q \in Runs : q # r /\ db.runs[q] # NoRow /\ db.runs[q].execution.id = p.execution.id
          => p.execution.id = 0
  BY <1>2, <1>3, <1>5 DEF ExecutionsDistinct
<1>7. \A row \in W.reservations : row.id <= m + 1
  <2>1. \A x \in W.reservations : x \in db.reservations \/ x.id = p.execution.id
    BY DEF CommitFacts, ReservationFacts
  <2>2. \A x \in db.reservations : x.id \in Nat /\ x.id <= m
    BY DatabaseFields, SeqsFacts DEF ReservationRow, ExecutionsDistinct
  <2> QED BY <1>4, <2>1, <2>2
<1>8. \A q \in Runs : W.runs[q] # NoRow => W.runs[q].execution.id <= m + 1
  BY <1>1, <1>2, <1>4, <1>5
<1>9. \A q, s \in Runs :
          W.runs[q] # NoRow /\ W.runs[s] # NoRow /\ q # s
          /\ W.runs[q].execution.id = W.runs[s].execution.id
          => W.runs[s].execution.id = 0
  BY <1>1, <1>6 DEF ExecutionsDistinct
<1> QED BY <1>7, <1>8, <1>9 DEF ExecutionsDistinct

\* A commit on consistent tables leaves consistent tables.
LEMMA ConsistentKept ==
    ASSUME db \in Database, ExecutionsAdmitted(db), NEW m \in Nat, m + 1 \in Seqs,
           Consistent(db, m),
           NEW r \in Runs, NEW command \in Commands, Accepts(r, command)
    PROVE  Consistent(Written(r, command, m + 1), m + 1)
<1> DEFINE W == Written(r, command, m + 1)
           p == Projection(r, command, m + 1)
<1>1. CommitFacts(r, command, m + 1, p, W)
  BY CommitHasFacts
<1> HIDE DEF W, p
<1>2. RowPerCommit(W, m + 1)
  BY <1>1, RowPerCommitKept DEF Consistent
<1>3. AuditNumbered(W, m + 1)
  BY <1>1, AuditKept DEF Consistent
<1>4. RunsFollowAudit(W)
  BY <1>1, RunsKept DEF Consistent
<1>5. CurrentFollowsRuns(W)
  BY <1>1, CurrentKept DEF Consistent
<1>6. CheckpointsFollow(W, m + 1)
  BY <1>1, CheckpointsKept DEF Consistent
<1>7. ExecutionsDistinct(W, m + 1)
  BY <1>1, ExecutionsKept DEF Consistent
<1> QED BY <1>2, <1>3, <1>4, <1>5, <1>6, <1>7 DEF Consistent, W

\* A commit on complete tables leaves complete tables.
LEMMA CompleteKept ==
    ASSUME db \in Database, ExecutionsAdmitted(db), NEW m \in Nat, m + 1 \in Seqs,
           Complete(db, m),
           NEW r \in Runs, NEW command \in Commands, Accepts(r, command)
    PROVE  Complete(Written(r, command, m + 1), m + 1)
<1> DEFINE W == Written(r, command, m + 1)
           p == Projection(r, command, m + 1)
<1>1. CommitFacts(r, command, m + 1, p, W)
  BY CommitHasFacts
<1> HIDE DEF W, p
<1>2. (1 .. m) \cup {m + 1} = 1 .. (m + 1)
  OBVIOUS
<1>3. W.attestations = 1 .. (m + 1) /\ W.receipts = 1 .. (m + 1) /\ W.proofs = 1 .. (m + 1)
  BY <1>1, <1>2 DEF CommitFacts, CommitWrites, Complete
<1>4. ASSUME NEW q \in Runs, W.runs[q] = NoRow PROVE \A a \in W.audit : a.run # q
  <2>1. PICK new : W.audit = db.audit \cup {new} /\ new.run = r
    <3> DEFINE e == [seq |-> m + 1, run |-> r, prev |-> Last({a.seq : a \in db.audit})]
    <3>1. W.audit = db.audit \cup {e} /\ e.run = r
      BY <1>1 DEF CommitFacts, CommitWrites
    <3> QED BY <3>1
  <2>2. q # r /\ db.runs[q] = NoRow
    BY <1>1, <1>4 DEF CommitFacts
  <2> QED BY <2>1, <2>2 DEF Complete
<1> QED BY <1>3, <1>4 DEF Complete, W

\* The tables move on with a commit.
LEMMA CommitMovesOn ==
    ASSUME db \in Database, ExecutionsAdmitted(db), NEW m \in Nat, m + 1 \in Seqs, Consistent(db, m),
           NEW r \in Runs, NEW command \in Commands, Accepts(r, command)
    PROVE  MovedOn(db, Written(r, command, m + 1))
<1> DEFINE W == Written(r, command, m + 1)
           p == Projection(r, command, m + 1)
<1>1. CommitFacts(r, command, m + 1, p, W)
  BY CommitHasFacts
<1> HIDE DEF W, p
<1>2. db.runs[r] # NoRow => db.runs[r].digest < p.digest
  <2>1. p.digest = m + 1
    BY <1>1 DEF CommitFacts, ProjectionFacts
  <2>2. db.runs[r] # NoRow => db.runs[r].digest \in 1 .. m
    BY DEF Consistent, RunsFollowAudit, AuditNumbered
  <2> QED BY <2>1, <2>2
<1>3. \A q \in Runs : db.runs[q] # NoRow =>
          W.runs[q] # NoRow /\ (db.runs[q] = W.runs[q] \/ db.runs[q].digest < W.runs[q].digest)
  BY <1>1, <1>2 DEF CommitFacts
<1>4. \A q \in Runs, k \in RecordKinds : db.current[q][k] # 0 => W.current[q][k] # 0
  BY <1>1 DEF CommitFacts
<1> QED BY <1>3, <1>4 DEF MovedOn, W

LEMMA MovedOnTransitive ==
    ASSUME NEW D \in Database, NEW E \in Database, NEW F \in Database,
           MovedOn(D, E), MovedOn(E, F)
    PROVE  MovedOn(D, F)
<1>1. \A r \in Runs :
          /\ D.runs[r] # NoRow => D.runs[r].digest \in Nat
          /\ E.runs[r] # NoRow => E.runs[r].digest \in Nat
          /\ F.runs[r] # NoRow => F.runs[r].digest \in Nat
  BY DatabaseFields, SeqsFacts DEF RunRow
<1>2. \A r \in Runs : D.runs[r] # NoRow =>
          F.runs[r] # NoRow /\ (D.runs[r] = F.runs[r] \/ D.runs[r].digest < F.runs[r].digest)
  <2> SUFFICES ASSUME NEW r \in Runs, D.runs[r] # NoRow
               PROVE  F.runs[r] # NoRow /\ (D.runs[r] = F.runs[r] \/ D.runs[r].digest < F.runs[r].digest)
    OBVIOUS
  <2>1. E.runs[r] # NoRow /\ (D.runs[r] = E.runs[r] \/ D.runs[r].digest < E.runs[r].digest)
    BY DEF MovedOn
  <2>2. F.runs[r] # NoRow /\ (E.runs[r] = F.runs[r] \/ E.runs[r].digest < F.runs[r].digest)
    BY <2>1 DEF MovedOn
  <2> QED BY <1>1, <2>1, <2>2
<1> QED BY <1>2 DEF MovedOn

\* The Reservations still match after a commit, unless a retry took an Admission
\* that the projection's execution did not have.
LEMMA ReservationsStillMatch ==
    ASSUME db \in Database, ExecutionsAdmitted(db), NEW m \in Nat, m + 1 \in Seqs,
           Consistent(db, m), ReservationsMatch(db),
           NEW r \in Runs, NEW command \in Commands, Accepts(r, command),
           command = "retry" =>
               Projection(r, command, m + 1).execution = db.runs[r].execution
    PROVE  ReservationsMatch(Written(r, command, m + 1))
<1> DEFINE W == Written(r, command, m + 1)
           p == Projection(r, command, m + 1)
           id == p.execution.id
<1>1. CommitFacts(r, command, m + 1, p, W)
  BY CommitHasFacts
<1>2. command = "retry" => p.execution = db.runs[r].execution
  OBVIOUS
<1> HIDE DEF W, p
<1>3. /\ \A q \in Runs : W.runs[q] = IF q = r THEN p ELSE db.runs[q]
      /\ ReservationFacts(db.reservations, p, m + 1, W.reservations)
      /\ ProjectionFacts(r, command, m + 1, p)
  BY <1>1 DEF CommitFacts
<1>4. p.digest = m + 1
  BY <1>3 DEF ProjectionFacts
<1>5. ASSUME id # 0
      PROVE  [id |-> id, admission |-> p.execution.admission, version |-> m + 1] \in W.reservations
  <2>1. CASE command = "reserve"
    <3>1. id = m + 1
      BY <1>3, <2>1 DEF ProjectionFacts
    <3>2. \A x \in db.reservations : x.id \in Nat /\ x.id <= m
      BY DatabaseFields, SeqsFacts DEF ReservationRow, Consistent, ExecutionsDistinct
    <3>3. \A x \in db.reservations : x.id # id
      BY <3>1, <3>2
    <3> QED BY <1>3, <1>5, <3>3 DEF ReservationFacts
  <2>2. CASE command # "reserve"
    <3>1. command # "start" /\ p.execution = db.runs[r].execution /\ db.runs[r] # NoRow
      BY <1>2, <1>3, <1>5, <2>2, NoRowAssumption DEF ProjectionFacts
    <3>2. [id |-> id, admission |-> p.execution.admission, version |-> db.runs[r].digest]
              \in db.reservations
      BY <1>5, <3>1 DEF ReservationsMatch
    <3> QED BY <1>3, <1>5, <3>2 DEF ReservationFacts
  <2> QED BY <2>1, <2>2
<1>6. ASSUME NEW q \in Runs, q # r, db.runs[q] # NoRow, db.runs[q].execution.id # 0
      PROVE  [id |-> db.runs[q].execution.id, admission |-> db.runs[q].execution.admission,
              version |-> db.runs[q].digest] \in W.reservations
  <2> DEFINE x == [id |-> db.runs[q].execution.id, admission |-> db.runs[q].execution.admission,
                   version |-> db.runs[q].digest]
  <2>1. x \in db.reservations /\ x.id = db.runs[q].execution.id
    BY <1>6 DEF ReservationsMatch
  <2>2. x.id # id
    <3>1. id = 0 \/ id = m + 1 \/ (db.runs[r] # NoRow /\ id = db.runs[r].execution.id)
      BY <1>3, NoRowAssumption DEF ProjectionFacts
    <3>2. db.runs[q].execution.id \in Nat /\ db.runs[q].execution.id <= m
      BY <1>6, DatabaseFields, SeqsFacts DEF RunRow, Consistent, ExecutionsDistinct
    <3>3. db.runs[r] # NoRow => db.runs[r].execution.id # db.runs[q].execution.id
      BY <1>6 DEF Consistent, ExecutionsDistinct
    <3> QED BY <1>6, <2>1, <3>1, <3>2, <3>3
  <2> HIDE DEF x
  <2>3. x \in W.reservations
    BY <1>3, <2>1, <2>2 DEF ReservationFacts
  <2> QED BY <2>3 DEF x
<1>7. ReservationsMatch(W)
  BY <1>3, <1>4, <1>5, <1>6 DEF ReservationsMatch
<1> QED BY <1>7 DEF W

-----------------------------------------------------------------------------
(* Consistent tables pass every comparison.                                 *)

LEMMA ConsistentAuditChained ==
    ASSUME db \in Database, NEW n \in Nat, Consistent(db, n) PROVE AuditChained
<1> SUFFICES ASSUME NEW a \in db.audit
             PROVE  a.prev = Last({b.seq : b \in {b \in db.audit : b.seq < a.seq}})
  BY DEF AuditChained
<1> DEFINE S == {b.seq : b \in {b \in db.audit : b.seq < a.seq}}
<1>1. a.seq \in 1 .. n /\ a.prev = a.seq - 1
  BY DEF Consistent, AuditNumbered
<1>2. \A b \in db.audit : b.seq \in Nat
  BY DEF Consistent, AuditNumbered
<1>3. \A m \in 1 .. n : \E b \in db.audit : b.seq = m
  BY DEF Consistent, AuditNumbered
<1>4. S \in SUBSET Nat /\ \A x \in S : x <= a.seq - 1
  BY <1>1, <1>2
<1>5. a.seq - 1 \in S \cup {0}
  <2>1. CASE a.seq = 1
    BY <2>1
  <2>2. CASE a.seq # 1
    <3>1. a.seq - 1 \in 1 .. n /\ a.seq - 1 < a.seq
      BY <1>1, <2>2
    <3>2. PICK b \in db.audit : b.seq = a.seq - 1
      BY <1>3, <3>1
    <3> QED BY <3>1, <3>2
  <2> QED BY <2>1, <2>2
<1> HIDE DEF S
<1>6. Last(S) = a.seq - 1
  BY <1>4, <1>5, LastIs
<1> QED BY <1>1, <1>6 DEF S

LEMMA ConsistentRunsAudited ==
    ASSUME db \in Database, NEW n \in Nat, Consistent(db, n) PROVE RunsAudited
<1> SUFFICES ASSUME NEW r \in Runs, db.runs[r] # NoRow
             PROVE  db.runs[r].digest = Last({a.seq : a \in {a \in db.audit : a.run = r}})
  BY DEF RunsAudited
<1> DEFINE S == {a.seq : a \in {a \in db.audit : a.run = r}}
<1>1. \A b \in db.audit : b.seq \in Nat
  BY DEF Consistent, AuditNumbered
<1>2. S \in SUBSET Nat
  BY <1>1
<1>3. db.runs[r].digest \in S /\ \A x \in S : x <= db.runs[r].digest
  BY DEF Consistent, RunsFollowAudit
<1> HIDE DEF S
<1>4. Last(S) = db.runs[r].digest
  BY <1>2, <1>3, LastIs
<1> QED BY <1>4 DEF S

LEMMA WholeNewest ==
    ASSUME db.checkpoints \in SUBSET CheckpointRow, NEW n \in Nat,
           \A m \in 1 .. n : \E c \in db.checkpoints : c.seq = m,
           \A c \in db.checkpoints : c.seq \in 1 .. n
    PROVE  /\ n = 0 => NewestCheckpoint = NoCheckpoint
           /\ n # 0 => /\ NewestCheckpoint \in db.checkpoints
                       /\ NewestCheckpoint.seq = n
                       /\ NewestCheckpoint # NoCheckpoint
<1>1. CASE n = 0
  <2>1. db.checkpoints = {}
    BY <1>1
  <2> QED BY <1>1, <2>1 DEF NewestCheckpoint
<1>2. CASE n # 0
  <2>1. PICK c \in db.checkpoints : c.seq = n
    BY <1>2
  <2>2. NewestCheckpoint \in db.checkpoints /\ c.seq <= NewestCheckpoint.seq
    BY <2>1, NewestFacts
  <2>3. NewestCheckpoint.seq \in 1 .. n
    BY <2>2
  <2>4. NewestCheckpoint # NoCheckpoint
    BY <2>2, NoCheckpointAssumption
  <2> QED BY <1>2, <2>1, <2>2, <2>3, <2>4
<1> QED BY <1>1, <1>2

LEMMA ConsistentPasses ==
    ASSUME db \in Database, NEW n \in Nat, Consistent(db, n)
    PROVE  /\ ReceiptsEvidenced /\ AuditChained /\ RunsAudited
           /\ CurrentMatches /\ RelationsHold
           /\ \A r \in Runs : db.runs[r] # NoRow => AdmissionRecorded(db.runs[r])
           /\ NewestCheckpoint # NoCheckpoint =>
                 /\ NewestCheckpoint.records = RecordSetRoot
                 /\ NewestCheckpoint.reservations = ExecutionStateRoot
<1>1. ReceiptsEvidenced
  BY DEF Consistent, RowPerCommit, AuditNumbered, CheckpointsFollow, ReceiptsEvidenced
<1>2. CurrentMatches
  BY DEF Consistent, CurrentFollowsRuns, CurrentMatches
<1>3. RelationsHold
  BY DEF Consistent, CurrentFollowsRuns, RowPerCommit, RelationsHold
<1>4. \A r \in Runs : db.runs[r] # NoRow => AdmissionRecorded(db.runs[r])
  BY RecordKindsAssumption DEF Consistent, CurrentFollowsRuns, AdmissionRecorded
<1>5. NewestCheckpoint # NoCheckpoint =>
          /\ NewestCheckpoint.records = RecordSetRoot
          /\ NewestCheckpoint.reservations = ExecutionStateRoot
  <2>1. NewestCheckpoint # NoCheckpoint =>
            NewestCheckpoint \in db.checkpoints /\ NewestCheckpoint.seq = n
    BY WholeNewest, DatabaseFields DEF Consistent, CheckpointsFollow
  <2> QED BY <2>1 DEF Consistent, CheckpointsFollow, RecordSetRoot, ExecutionStateRoot
<1> QED BY <1>1, <1>2, <1>3, <1>4, <1>5, ConsistentAuditChained, ConsistentRunsAudited

-----------------------------------------------------------------------------
(* One table that is older than the others fails a comparison.              *)

\* Every comparison that an instance which serves has made.
AllCompared ==
    /\ ReceiptsEvidenced /\ RunsAudited /\ CurrentMatches /\ RelationsHold
    /\ NewestCheckpoint # NoCheckpoint =>
          /\ NewestCheckpoint.records = RecordSetRoot
          /\ NewestCheckpoint.reservations = ExecutionStateRoot

\* The tables D of commit n with table t as an earlier commit left it in E.
Torn(D, E, n, k, t) ==
    /\ D \in Database /\ E \in Database /\ Whole(D, n) /\ Whole(E, k) /\ MovedOn(E, D)
    /\ k < n
    /\ db = [D EXCEPT ![t] = E[t]]
    /\ db[t] # D[t]

LEMMA TornRunEvents ==
    ASSUME NEW D, NEW E, NEW n \in Nat, NEW k \in Nat, Torn(D, E, n, k, "run_events")
    PROVE  ~ReceiptsEvidenced
<1>1. db.receipts = D.receipts /\ db.attestations = D.attestations /\ db.run_events = E.run_events
  BY DEF Torn, Database
<1>2. n \in 1 .. n /\ n \notin 1 .. k
  BY DEF Torn
<1> QED BY <1>1, <1>2 DEF Torn, Whole, Consistent, Complete, RowPerCommit, ReceiptsEvidenced

LEMMA TornAudit ==
    ASSUME NEW D, NEW E, NEW n \in Nat, NEW k \in Nat, Torn(D, E, n, k, "audit")
    PROVE  ~ReceiptsEvidenced
<1>1. db.receipts = D.receipts /\ db.attestations = D.attestations /\ db.audit = E.audit
  BY DEF Torn, Database
<1>2. n \in 1 .. n /\ n \notin 1 .. k
  BY DEF Torn
<1>3. \A a \in E.audit : a.seq # n
  BY <1>2 DEF Torn, Whole, Consistent, AuditNumbered
<1> QED BY <1>1, <1>2, <1>3 DEF Torn, Whole, Consistent, Complete, RowPerCommit, ReceiptsEvidenced

LEMMA TornCheckpoints ==
    ASSUME NEW D, NEW E, NEW n \in Nat, NEW k \in Nat, Torn(D, E, n, k, "checkpoints")
    PROVE  ~ReceiptsEvidenced
<1>1. db.receipts = D.receipts /\ db.attestations = D.attestations /\ db.checkpoints = E.checkpoints
  BY DEF Torn, Database
<1>2. n \in 1 .. n /\ n \notin 1 .. k
  BY DEF Torn
<1>3. \A c \in E.checkpoints : c.seq # n
  BY <1>2 DEF Torn, Whole, Consistent, CheckpointsFollow
<1> QED BY <1>1, <1>2, <1>3 DEF Torn, Whole, Consistent, Complete, RowPerCommit, ReceiptsEvidenced

LEMMA TornConsumptions ==
    ASSUME NEW D, NEW E, NEW n \in Nat, NEW k \in Nat, Torn(D, E, n, k, "consumptions")
    PROVE  ~RelationsHold
<1>1. db.proofs = D.proofs /\ db.consumptions = E.consumptions
  BY DEF Torn, Database
<1>2. n \in 1 .. n /\ n \notin 1 .. k
  BY DEF Torn
<1> QED BY <1>1, <1>2 DEF Torn, Whole, Consistent, Complete, RowPerCommit, RelationsHold

\* The newest checkpoint knows the records and Reservations of its commit.
LEMMA TornNewest ==
    ASSUME NEW D, NEW E, NEW n \in Nat, NEW k \in Nat, NEW t, Torn(D, E, n, k, t),
           db.checkpoints = D.checkpoints
    PROVE  /\ NewestCheckpoint # NoCheckpoint
           /\ NewestCheckpoint.records = D.records
           /\ NewestCheckpoint.reservations = D.reservations
<1>1. D \in Database /\ CheckpointsFollow(D, n) /\ n # 0
  BY DEF Torn, Whole, Consistent
<1>2. db.checkpoints \in SUBSET CheckpointRow
  BY <1>1, DatabaseFields
<1>3. /\ NewestCheckpoint \in D.checkpoints /\ NewestCheckpoint.seq = n
      /\ NewestCheckpoint # NoCheckpoint
  BY <1>1, <1>2, WholeNewest DEF CheckpointsFollow
<1> QED BY <1>1, <1>3 DEF CheckpointsFollow

LEMMA TornRecords ==
    ASSUME NEW D, NEW E, NEW n \in Nat, NEW k \in Nat, Torn(D, E, n, k, "records")
    PROVE  ~AllCompared
<1>1. db.checkpoints = D.checkpoints /\ db.records # D.records
  BY DEF Torn, Database
<1>2. NewestCheckpoint # NoCheckpoint /\ NewestCheckpoint.records = D.records
  BY <1>1, TornNewest
<1> QED BY <1>1, <1>2 DEF AllCompared, RecordSetRoot

LEMMA TornReservations ==
    ASSUME NEW D, NEW E, NEW n \in Nat, NEW k \in Nat, Torn(D, E, n, k, "reservations")
    PROVE  ~AllCompared
<1>1. db.checkpoints = D.checkpoints /\ db.reservations # D.reservations
  BY DEF Torn, Database
<1>2. NewestCheckpoint # NoCheckpoint /\ NewestCheckpoint.reservations = D.reservations
  BY <1>1, TornNewest
<1> QED BY <1>1, <1>2 DEF AllCompared, ExecutionStateRoot

LEMMA TornCurrent ==
    ASSUME NEW D, NEW E, NEW n \in Nat, NEW k \in Nat, Torn(D, E, n, k, "current")
    PROVE  ~(CurrentMatches /\ RelationsHold)
<1>1. db.runs = D.runs /\ db.current = E.current /\ db.current # D.current
  BY DEF Torn, Database
<1>2. E.current \in [Runs -> [RecordKinds -> Upto]] /\ D.current \in [Runs -> [RecordKinds -> Upto]]
  BY DatabaseFields DEF Torn
<1>3. PICK r \in Runs, x \in RecordKinds : E.current[r][x] # D.current[r][x]
  BY <1>1, <1>2
<1>4. E.current[r][x] # 0 => D.current[r][x] # 0
  BY DEF Torn, MovedOn
<1>5. D.current[r][x] # 0
  BY <1>3, <1>4
<1>6. D.runs[r] # NoRow /\ D.runs[r].records[x] = D.current[r][x]
  BY <1>5 DEF Torn, Whole, Consistent, Complete, CurrentFollowsRuns
<1> QED BY <1>1, <1>3, <1>5, <1>6 DEF RelationsHold

LEMMA TornRuns ==
    ASSUME db \in Database, NEW a \in db.audit, db.runs[a.run] # NoRow, db.runs[a.run].digest < a.seq
    PROVE  ~RunsAudited
<1> DEFINE r == a.run
           S == {b.seq : b \in {b \in db.audit : b.run = r}}
<1>1. db.audit \in SUBSET AuditRow /\ r \in Runs
  BY DatabaseFields DEF AuditRow
<1>2. S \in SUBSET Nat /\ a.seq \in S /\ \A x \in S : x <= MaxCommits
  BY <1>1, BoundsAssumption DEF AuditRow, Seqs
<1>3. Last(S) \in S \cup {0} /\ a.seq <= Last(S)
  <2> HIDE DEF S
  <2> QED BY <1>2, BoundsAssumption, LastIsGreatest
<1>4. db.runs[r].digest \in Nat /\ a.seq \in Nat /\ Last(S) \in Nat
  <2>1. db.runs[r] \in RunRow
    BY <1>1, DatabaseFields
  <2> QED BY <1>2, <1>3, <2>1, SeqsFacts DEF RunRow
<1>5. RunsAudited => db.runs[r].digest = Last(S)
  BY <1>1 DEF RunsAudited
<1> HIDE DEF S
<1> QED BY <1>3, <1>4, <1>5

\* What the verification can notice does not pass all of its comparisons.
LEMMA TornIsNoticed ==
    ASSUME db \in Database, NEW D, NEW E, NEW n \in Nat, NEW k \in Nat,
           Torn(D, E, n, k, torn.table), Noticed
    PROVE  ~AllCompared
<1>1. CASE torn.table = "run_events"
  BY <1>1, TornRunEvents DEF AllCompared
<1>2. CASE torn.table = "audit"
  BY <1>2, TornAudit DEF AllCompared
<1>3. CASE torn.table = "records"
  BY <1>3, TornRecords
<1>4. CASE torn.table = "current"
  BY <1>4, TornCurrent DEF AllCompared
<1>5. CASE torn.table = "consumptions"
  BY <1>5, TornConsumptions DEF AllCompared
<1>6. CASE torn.table = "reservations"
  BY <1>6, TornReservations
<1>7. CASE torn.table = "checkpoints"
  BY <1>7, TornCheckpoints DEF AllCompared
<1>8. CASE torn.table = "proofs" /\ ~(db.records \subseteq db.proofs)
  BY <1>8 DEF AllCompared, RelationsHold
<1>9. CASE /\ torn.table = "runs"
           /\ \E a \in db.audit : db.runs[a.run] # NoRow /\ db.runs[a.run].digest < a.seq
  BY <1>9, TornRuns DEF AllCompared
<1> QED BY <1>1, <1>2, <1>3, <1>4, <1>5, <1>6, <1>7, <1>8, <1>9 DEF Noticed

-----------------------------------------------------------------------------
(* The invariant holds in the first state and is kept by every action.      *)

\* What an instance remembers.
SeenRows ==
    [runs : [Runs -> RunRow \cup {NoRow}], checkpoint : CheckpointRow \cup {NoCheckpoint}]

LEMMA NothingSeen == Nothing \in SeenRows
BY DEF Nothing, SeenRows

LEMMA InvRefusesTorn ==
    ASSUME StartupInv PROVE TornTableRefused
<1> SUFFICES ASSUME torn # NoRestore, Noticed, NEW i \in Instances, phase[i] = "serving"
             PROVE  FALSE
  BY DEF TornTableRefused
<1> DEFINE D == past[Commits]
           E == past[torn.to]
<1>1. /\ Commits \in Nat /\ torn.to \in 0 .. Commits
      /\ D \in Database /\ E \in Database
      /\ Whole(D, Commits) /\ Whole(E, torn.to) /\ MovedOn(E, D)
      /\ db = [D EXCEPT ![torn.table] = E[torn.table]]
      /\ db[torn.table] # D[torn.table]
  <2>1. Commits \in Nat /\ Commits \in 0 .. Commits
    BY SeqsFacts DEF StartupInv, PastTyped
  <2>2. torn.to \in 0 .. Commits
    BY DEF StartupInv, TornIsPast
  <2>3. D \in Database /\ E \in Database
    BY <2>1, <2>2 DEF StartupInv, PastTyped
  <2>4. Whole(D, Commits) /\ Whole(E, torn.to) /\ MovedOn(E, D)
    BY <2>1, <2>2 DEF StartupInv, PastWhole
  <2> QED BY <2>1, <2>2, <2>3, <2>4 DEF StartupInv, TornIsPast
<1>2. torn.to \in Nat /\ torn.to < Commits
  <2>1. torn.to # Commits
    <3> SUFFICES ASSUME torn.to = Commits PROVE FALSE
      OBVIOUS
    <3>1. db = [D EXCEPT ![torn.table] = D[torn.table]]
      BY <1>1
    <3>2. db = D
      <4>1. D = [x \in DOMAIN D |-> D[x]]
        BY <1>1 DEF Database
      <4> HIDE DEF D
      <4> QED BY <3>1, <4>1
    <3> QED BY <1>1, <3>2
  <2> QED BY <1>1, <2>1
<1>3. Torn(D, E, Commits, torn.to, torn.table)
  BY <1>1, <1>2 DEF Torn
<1>4. AllCompared
  BY DEF StartupInv, Compared, ComparedAt, AllCompared, AfterReceipts, AfterRuns, AfterCurrent,
     AfterRelations
<1>5. db \in Database
  BY DEF StartupInv, TypeOK
<1> HIDE DEF D, E
<1> QED BY <1>1, <1>2, <1>3, <1>4, <1>5, TornIsNoticed

LEMMA InitStartup == Init => StartupInv
<1> SUFFICES ASSUME Init PROVE StartupInv
  OBVIOUS
<1>1. /\ db = [attestations |-> {}, receipts |-> {}, run_events |-> {},
               audit |-> {}, runs |-> [r \in Runs |-> NoRow], records |-> {},
               current |-> [r \in Runs |-> [k \in RecordKinds |-> 0]],
               proofs |-> {}, consumptions |-> {}, reservations |-> {},
               checkpoints |-> {}]
      /\ past = [k \in {0} |-> db]
      /\ phase = [i \in Instances |-> "off"]
      /\ seen = [i \in Instances |-> Nothing]
      /\ disturbed = {} /\ torn = NoRestore /\ renewed = FALSE
  BY DEF Init
<1>2. Commits = 0
  <2>1. DOMAIN past = 0 .. 0
    BY <1>1
  <2> QED BY <2>1, CommitsIs
<1>3. db \in Database
  BY <1>1, SeqsFacts DEF Database
<1>4. TypeOK
  <2>1. seen \in [Instances -> SeenRows]
    BY <1>1, NothingSeen
  <2>2. DOMAIN past \subseteq Upto
    BY <1>1, SeqsFacts
  <2> QED BY <1>1, <1>3, <2>1, <2>2 DEF TypeOK, SeenRows
<1>5. \A k \in 0 .. Commits : k = 0 /\ past[k] = db
  BY <1>1, <1>2
<1>6. PastTyped
  <2>1. ExecutionsAdmitted(db)
    BY <1>1 DEF ExecutionsAdmitted
  <2>2. Commits \in Upto /\ DOMAIN past = 0 .. Commits
    BY <1>1, <1>2, SeqsFacts
  <2> QED BY <1>3, <1>5, <2>1, <2>2 DEF PastTyped
<1>7. Whole(db, 0) /\ MovedOn(db, db) /\ ReservationsMatch(db)
  <2>1. RowPerCommit(db, 0) /\ AuditNumbered(db, 0)
    BY <1>1 DEF RowPerCommit, AuditNumbered
  <2>2. RunsFollowAudit(db) /\ CurrentFollowsRuns(db) /\ Complete(db, 0)
    BY <1>1 DEF RunsFollowAudit, CurrentFollowsRuns, Complete
  <2>3. CheckpointsFollow(db, 0) /\ ExecutionsDistinct(db, 0)
    BY <1>1 DEF CheckpointsFollow, ExecutionsDistinct
  <2>4. MovedOn(db, db) /\ ReservationsMatch(db)
    BY <1>1 DEF MovedOn, ReservationsMatch
  <2> QED BY <2>1, <2>2, <2>3, <2>4 DEF Whole, Consistent
<1>8. PastWhole /\ UntornIsPast /\ UnnoticedIsConsistent
  BY <1>1, <1>2, <1>5, <1>7 DEF PastWhole, UntornIsPast, UnnoticedIsConsistent, Whole
<1>9. TornIsPast /\ SeenIsCurrent /\ OffIsUndisturbed /\ Compared /\ QuietStartPasses
  BY <1>1 DEF TornIsPast, SeenIsCurrent, OffIsUndisturbed, Compared, QuietStartPasses
<1> QED BY <1>4, <1>6, <1>8, <1>9 DEF StartupInv

\* Steps that leave the tables alone.
LEMMA TablesLeftAlone ==
    ASSUME StartupInv, UNCHANGED <<db, past, torn, renewed>>, disturbed' \subseteq disturbed
    PROVE  PastTyped' /\ PastWhole' /\ UntornIsPast' /\ UnnoticedIsConsistent' /\ TornIsPast'
<1>1. Commits' = Commits /\ (Noticed <=> Noticed')
  BY DEF Commits, Noticed
<1>2. PastTyped'
  BY <1>1 DEF StartupInv, PastTyped
<1>3. PastWhole'
  BY <1>1 DEF StartupInv, PastWhole
<1>4. UntornIsPast'
  BY <1>1 DEF StartupInv, UntornIsPast
<1>5. TornIsPast'
  BY <1>1 DEF StartupInv, TornIsPast
<1>6. UnnoticedIsConsistent'
  BY <1>1 DEF StartupInv, UnnoticedIsConsistent
<1> QED BY <1>2, <1>3, <1>4, <1>5, <1>6

\* One instance gets to another phase with other rows.
LEMMA PhaseKeeps ==
    ASSUME StartupInv, NEW i \in Instances,
           NEW ph \in Verifying \cup {"serving", "refused"}, NEW remembered \in SeenRows,
           phase' = [phase EXCEPT ![i] = ph],
           seen' = [seen EXCEPT ![i] = remembered],
           UNCHANGED <<db, past, disturbed, torn, renewed>>,
           ph \in {"serving", "refused"} => remembered = Nothing,
           ph = "refused" /\ i \notin disturbed => (torn # NoRestore /\ Noticed) \/ renewed,
           i \notin disturbed /\ ph = "executions" =>
               \A r \in Runs : remembered.runs[r] \in {NoRow, db.runs[r]},
           i \notin disturbed /\ ph \in {"recordRoot", "executionRoot"} =>
               remembered.checkpoint = NewestCheckpoint,
           torn # NoRestore /\ Noticed => ComparedAt(ph)
    PROVE  StartupInv'
<1>1. PastTyped' /\ PastWhole' /\ UntornIsPast' /\ UnnoticedIsConsistent' /\ TornIsPast'
  BY TablesLeftAlone
<1>2. phase \in [Instances -> Verifying \cup {"off", "serving", "refused"}]
      /\ seen \in [Instances -> SeenRows]
  BY DEF StartupInv, TypeOK, SeenRows
<1>3. /\ \A j \in Instances : phase'[j] = IF j = i THEN ph ELSE phase[j]
      /\ \A j \in Instances : seen'[j] = IF j = i THEN remembered ELSE seen[j]
  BY <1>2
<1>4. ph # "off"
  BY DEF Verifying
<1>5. TypeOK'
  <2>1. /\ phase' \in [Instances -> Verifying \cup {"off", "serving", "refused"}]
        /\ seen' \in [Instances -> SeenRows]
    BY <1>2
  <2>2. \A j \in Instances : phase'[j] \in {"off", "serving", "refused"} => seen'[j] = Nothing
    BY <1>3, <1>4 DEF StartupInv, TypeOK
  <2>3. Nothing' = Nothing
    BY DEF Nothing
  <2> QED BY <2>1, <2>2, <2>3 DEF StartupInv, TypeOK, SeenRows
<1>6. NewestCheckpoint' = NewestCheckpoint
  BY DEF NewestCheckpoint
<1>7. SeenIsCurrent'
  BY <1>3, <1>6 DEF StartupInv, SeenIsCurrent
<1>8. OffIsUndisturbed'
  BY <1>3, <1>4 DEF StartupInv, OffIsUndisturbed
<1>9. Compared'
  <2>1. \A x : ComparedAt(x)' <=> ComparedAt(x)
    BY DEF ComparedAt, ReceiptsEvidenced, RunsAudited, CurrentMatches, RelationsHold,
       NewestCheckpoint, RecordSetRoot, ExecutionStateRoot
  <2>2. Noticed' <=> Noticed
    BY DEF Noticed
  <2> QED BY <1>3, <2>1, <2>2 DEF StartupInv, Compared
<1>10. QuietStartPasses'
  <2>1. Noticed' <=> Noticed
    BY DEF Noticed
  <2> QED BY <1>3, <2>1 DEF StartupInv, QuietStartPasses
<1> QED BY <1>1, <1>5, <1>7, <1>8, <1>9, <1>10 DEF StartupInv

\* A statement of the verification.  The instance goes on when what it compares
\* agrees; it must have compared everything before and, unless something was
\* committed beside it or a table restored, it agrees.
LEMMA StatementKeeps ==
    ASSUME StartupInv, NEW i \in Instances, NEW from \in Verifying,
           NEW to \in Verifying \cup {"serving"}, NEW remembered \in SeenRows,
           phase[i] = from,
           \/ /\ phase' = [phase EXCEPT ![i] = to]
              /\ seen' = [seen EXCEPT ![i] = remembered]
              /\ torn # NoRestore /\ Noticed /\ ComparedAt(from) => ComparedAt(to)
           \/ /\ phase' = [phase EXCEPT ![i] = "refused"]
              /\ seen' = [seen EXCEPT ![i] = Nothing]
              /\ i \notin disturbed => (torn # NoRestore /\ Noticed) \/ renewed,
           UNCHANGED <<db, past, disturbed, torn, renewed>>,
           to = "serving" => remembered = Nothing,
           i \notin disturbed /\ to = "executions" =>
               \A r \in Runs : remembered.runs[r] \in {NoRow, db.runs[r]},
           i \notin disturbed /\ to \in {"recordRoot", "executionRoot"} =>
               remembered.checkpoint = NewestCheckpoint
    PROVE  StartupInv'
<1>1. torn # NoRestore /\ Noticed => ComparedAt(from)
  BY DEF StartupInv, Compared
<1>2. CASE /\ phase' = [phase EXCEPT ![i] = to]
           /\ seen' = [seen EXCEPT ![i] = remembered]
           /\ torn # NoRestore /\ Noticed /\ ComparedAt(from) => ComparedAt(to)
  <2>1. torn # NoRestore /\ Noticed => ComparedAt(to)
    BY <1>1, <1>2
  <2>2. to \in Verifying \cup {"serving", "refused"} /\ to # "refused"
    BY DEF Verifying
  <2>3. to \in {"serving", "refused"} => remembered = Nothing
    BY <2>2
  <2> QED BY <1>2, <2>1, <2>2, <2>3, PhaseKeeps
<1>3. CASE /\ phase' = [phase EXCEPT ![i] = "refused"]
           /\ seen' = [seen EXCEPT ![i] = Nothing]
           /\ i \notin disturbed => (torn # NoRestore /\ Noticed) \/ renewed
  <2>1. ComparedAt("refused")
    BY DEF ComparedAt, AfterReceipts, AfterRuns, AfterCurrent, AfterRelations
  <2> QED BY <1>3, <2>1, NothingSeen, PhaseKeeps
<1> QED BY <1>2, <1>3

\* Tables of which none was restored noticeably, and of which no Admission was
\* renewed, pass.
LEMMA QuietTablesPass ==
    ASSUME StartupInv, torn = NoRestore \/ ~Noticed, ~renewed
    PROVE  /\ ReceiptsEvidenced /\ AuditChained /\ RunsAudited
           /\ CurrentMatches /\ RelationsHold
           /\ \A r \in Runs : db.runs[r] # NoRow =>
                 AdmissionRecorded(db.runs[r]) /\ ExecutionMatches(db.runs[r])
           /\ NewestCheckpoint # NoCheckpoint =>
                 /\ NewestCheckpoint.records = RecordSetRoot
                 /\ NewestCheckpoint.reservations = ExecutionStateRoot
<1>1. Commits \in Nat /\ Commits \in 0 .. Commits
  BY SeqsFacts DEF StartupInv, PastTyped
<1>2. db \in Database /\ Consistent(db, Commits) /\ ReservationsMatch(db)
  BY <1>1 DEF StartupInv, TypeOK, UnnoticedIsConsistent
<1>3. \A r \in Runs : db.runs[r] # NoRow => ExecutionMatches(db.runs[r])
  BY <1>2 DEF ReservationsMatch, ExecutionMatches
<1> QED BY <1>1, <1>2, <1>3, ConsistentPasses

LEMMA StartInstanceKeeps ==
    ASSUME StartupInv, NEW i \in Instances, StartInstance(i) PROVE StartupInv'
<1>1. seen[i] \in SeenRows /\ seen' = [seen EXCEPT ![i] = seen[i]]
  BY DEF StartupInv, TypeOK, SeenRows, StartInstance
<1>2. ComparedAt("receipts")
  BY DEF ComparedAt, AfterReceipts, AfterRuns, AfterCurrent, AfterRelations
<1>3. "receipts" \in Verifying \cup {"serving", "refused"}
  BY DEF Verifying
<1> QED BY <1>1, <1>2, <1>3, PhaseKeeps DEF StartInstance

LEMMA StopInstanceKeeps ==
    ASSUME StartupInv, NEW i \in Instances, StopInstance(i) PROVE StartupInv'
<1>1. /\ phase' = [phase EXCEPT ![i] = "off"] /\ disturbed' = disturbed \ {i}
      /\ UNCHANGED <<db, past, seen, torn, renewed>>
      /\ phase[i] \in {"serving", "refused"}
  BY DEF StopInstance
<1>2. PastTyped' /\ PastWhole' /\ UntornIsPast' /\ UnnoticedIsConsistent' /\ TornIsPast'
  BY <1>1, TablesLeftAlone
<1>3. phase \in [Instances -> Verifying \cup {"off", "serving", "refused"}]
  BY DEF StartupInv, TypeOK
<1>4. \A j \in Instances : phase'[j] = IF j = i THEN "off" ELSE phase[j]
  BY <1>1, <1>3
<1>5. TypeOK'
  <2>1. phase' \in [Instances -> Verifying \cup {"off", "serving", "refused"}]
    BY <1>1, <1>3
  <2>2. \A j \in Instances : phase'[j] \in {"off", "serving", "refused"} => seen'[j] = Nothing
    BY <1>1, <1>4 DEF StartupInv, TypeOK
  <2>3. Nothing' = Nothing
    BY DEF Nothing
  <2> QED BY <1>1, <2>1, <2>2, <2>3 DEF StartupInv, TypeOK
<1>6. NewestCheckpoint' = NewestCheckpoint
  BY <1>1 DEF NewestCheckpoint
<1>7. SeenIsCurrent'
  BY <1>1, <1>4, <1>6 DEF StartupInv, SeenIsCurrent
<1>8. OffIsUndisturbed'
  BY <1>1, <1>4 DEF StartupInv, OffIsUndisturbed
<1>9. Compared'
  <2>1. \A x : ComparedAt(x)' <=> ComparedAt(x)
    BY <1>1 DEF ComparedAt, ReceiptsEvidenced, RunsAudited, CurrentMatches, RelationsHold,
       NewestCheckpoint, RecordSetRoot, ExecutionStateRoot
  <2>2. Noticed' <=> Noticed
    BY <1>1 DEF Noticed
  <2>3. ComparedAt("off")
    BY DEF ComparedAt, AfterReceipts, AfterRuns, AfterCurrent, AfterRelations
  <2> QED BY <1>1, <1>4, <2>1, <2>2, <2>3 DEF StartupInv, Compared
<1>10. QuietStartPasses'
  <2>1. Noticed' <=> Noticed
    BY <1>1 DEF Noticed
  <2> QED BY <1>1, <1>4, <2>1 DEF StartupInv, QuietStartPasses
<1> QED BY <1>2, <1>5, <1>7, <1>8, <1>9, <1>10 DEF StartupInv

LEMMA VerifyReceiptsKeeps ==
    ASSUME StartupInv, NEW i \in Instances, VerifyReceipts(i) PROVE StartupInv'
<1>1. ComparedAt("receipts") /\ ReceiptsEvidenced => ComparedAt("audit")
  BY DEF ComparedAt, AfterReceipts, AfterRuns, AfterCurrent, AfterRelations
<1>2. "receipts" \in Verifying /\ "audit" \in Verifying
  BY DEF Verifying
<1>3. (torn = NoRestore \/ ~Noticed) /\ ~renewed => ReceiptsEvidenced
  BY QuietTablesPass
<1>4. /\ phase[i] = "receipts"
      /\ UNCHANGED <<db, past, disturbed, torn, renewed>>
      /\ \/ /\ phase' = [phase EXCEPT ![i] = "audit"]
            /\ seen' = [seen EXCEPT ![i] = Nothing]
            /\ ReceiptsEvidenced
         \/ /\ phase' = [phase EXCEPT ![i] = "refused"]
            /\ seen' = [seen EXCEPT ![i] = Nothing]
            /\ ~ReceiptsEvidenced
  BY DEF VerifyReceipts, Compare
<1> QED BY <1>1, <1>2, <1>3, <1>4, NothingSeen, StatementKeeps

LEMMA VerifyAuditKeeps ==
    ASSUME StartupInv, NEW i \in Instances, VerifyAudit(i) PROVE StartupInv'
<1>1. ComparedAt("audit") /\ AuditChained => ComparedAt("runs")
  BY DEF ComparedAt, AfterReceipts, AfterRuns, AfterCurrent, AfterRelations
<1>2. "audit" \in Verifying /\ "runs" \in Verifying
  BY DEF Verifying
<1>3. (torn = NoRestore \/ ~Noticed) /\ ~renewed => AuditChained
  BY QuietTablesPass
<1>4. /\ phase[i] = "audit"
      /\ UNCHANGED <<db, past, disturbed, torn, renewed>>
      /\ \/ /\ phase' = [phase EXCEPT ![i] = "runs"]
            /\ seen' = [seen EXCEPT ![i] = Nothing]
            /\ AuditChained
         \/ /\ phase' = [phase EXCEPT ![i] = "refused"]
            /\ seen' = [seen EXCEPT ![i] = Nothing]
            /\ ~AuditChained
  BY DEF VerifyAudit, Compare
<1> QED BY <1>1, <1>2, <1>3, <1>4, NothingSeen, StatementKeeps

LEMMA VerifyRunsKeeps ==
    ASSUME StartupInv, NEW i \in Instances, VerifyRuns(i) PROVE StartupInv'
<1> DEFINE remembered == [Nothing EXCEPT !.runs = db.runs]
<1>1. ComparedAt("runs") /\ RunsAudited => ComparedAt("executions")
  BY DEF ComparedAt, AfterReceipts, AfterRuns, AfterCurrent, AfterRelations
<1>2. "runs" \in Verifying /\ "executions" \in Verifying
  BY DEF Verifying
<1>3. (torn = NoRestore \/ ~Noticed) /\ ~renewed => RunsAudited
  BY QuietTablesPass
<1>4. db.runs \in [Runs -> RunRow \cup {NoRow}]
  BY DatabaseFields DEF StartupInv, TypeOK
<1>5. remembered = [runs |-> db.runs, checkpoint |-> NoCheckpoint]
  BY DEF Nothing
<1>6. remembered \in SeenRows /\ remembered.runs = db.runs
  BY <1>4, <1>5 DEF SeenRows
<1>7. /\ phase[i] = "runs"
      /\ UNCHANGED <<db, past, disturbed, torn, renewed>>
      /\ \/ /\ phase' = [phase EXCEPT ![i] = "executions"]
            /\ seen' = [seen EXCEPT ![i] = remembered]
            /\ RunsAudited
         \/ /\ phase' = [phase EXCEPT ![i] = "refused"]
            /\ seen' = [seen EXCEPT ![i] = Nothing]
            /\ ~RunsAudited
  BY DEF VerifyRuns, Compare
<1> HIDE DEF remembered
<1> QED BY <1>1, <1>2, <1>3, <1>6, <1>7, StatementKeeps

LEMMA VerifyExecutionKeeps ==
    ASSUME StartupInv, NEW i \in Instances, NEW r \in Runs, VerifyExecution(i, r)
    PROVE  StartupInv'
<1> DEFINE row == seen[i].runs[r]
           remembered == [seen[i] EXCEPT !.runs[r] = NoRow]
           holds == AdmissionRecorded(row) /\ ExecutionMatches(row)
<1>1. "executions" \in Verifying
  BY DEF Verifying
<1>2. seen[i] \in SeenRows /\ row # NoRow
  BY DEF StartupInv, TypeOK, SeenRows, VerifyExecution
<1>3. /\ phase[i] = "executions"
      /\ UNCHANGED <<db, past, disturbed, torn, renewed>>
      /\ \/ /\ phase' = [phase EXCEPT ![i] = "executions"]
            /\ seen' = [seen EXCEPT ![i] = remembered]
            /\ holds
         \/ /\ phase' = [phase EXCEPT ![i] = "refused"]
            /\ seen' = [seen EXCEPT ![i] = Nothing]
            /\ ~holds
  BY DEF VerifyExecution, Compare
<1>4. i \notin disturbed => \A q \in Runs : seen[i].runs[q] \in {NoRow, db.runs[q]}
  BY <1>3 DEF StartupInv, SeenIsCurrent
<1>5. i \notin disturbed /\ (torn = NoRestore \/ ~Noticed) /\ ~renewed => holds
  <2>1. i \notin disturbed => row = db.runs[r]
    BY <1>2, <1>4
  <2> QED BY <1>2, <2>1, QuietTablesPass
<1>6. /\ remembered \in SeenRows
      /\ \A q \in Runs : remembered.runs[q] = IF q = r THEN NoRow ELSE seen[i].runs[q]
  <2>1. /\ seen[i].runs \in [Runs -> RunRow \cup {NoRow}]
        /\ seen[i].checkpoint \in CheckpointRow \cup {NoCheckpoint}
    BY <1>2 DEF SeenRows
  <2>2. remembered = [runs |-> [seen[i].runs EXCEPT ![r] = NoRow],
                      checkpoint |-> seen[i].checkpoint]
    BY <1>2 DEF SeenRows
  <2>3. remembered.runs = [seen[i].runs EXCEPT ![r] = NoRow]
    BY <2>2
  <2>4. [seen[i].runs EXCEPT ![r] = NoRow] \in [Runs -> RunRow \cup {NoRow}]
    BY <2>1
  <2>5. remembered \in SeenRows
    BY <2>1, <2>2, <2>4 DEF SeenRows
  <2> HIDE DEF remembered
  <2> QED BY <2>1, <2>3, <2>5
<1>7. i \notin disturbed => \A q \in Runs : remembered.runs[q] \in {NoRow, db.runs[q]}
  BY <1>4, <1>6
<1> HIDE DEF remembered, holds
<1> QED BY <1>1, <1>3, <1>5, <1>6, <1>7, StatementKeeps


LEMMA VerifyCurrentKeeps ==
    ASSUME StartupInv, NEW i \in Instances, VerifyCurrent(i) PROVE StartupInv'
<1>1. ComparedAt("executions") /\ CurrentMatches => ComparedAt("relations")
  BY DEF ComparedAt, AfterReceipts, AfterRuns, AfterCurrent, AfterRelations
<1>2. "executions" \in Verifying /\ "relations" \in Verifying
  BY DEF Verifying
<1>3. (torn = NoRestore \/ ~Noticed) /\ ~renewed => CurrentMatches
  BY QuietTablesPass
<1>4. /\ phase[i] = "executions"
      /\ UNCHANGED <<db, past, disturbed, torn, renewed>>
      /\ \/ /\ phase' = [phase EXCEPT ![i] = "relations"]
            /\ seen' = [seen EXCEPT ![i] = Nothing]
            /\ CurrentMatches
         \/ /\ phase' = [phase EXCEPT ![i] = "refused"]
            /\ seen' = [seen EXCEPT ![i] = Nothing]
            /\ ~CurrentMatches
  BY DEF VerifyCurrent, Compare
<1> QED BY <1>1, <1>2, <1>3, <1>4, NothingSeen, StatementKeeps

LEMMA VerifyRelationsKeeps ==
    ASSUME StartupInv, NEW i \in Instances, VerifyRelations(i) PROVE StartupInv'
<1>1. ComparedAt("relations") /\ RelationsHold => ComparedAt("checkpoint")
  BY DEF ComparedAt, AfterReceipts, AfterRuns, AfterCurrent, AfterRelations
<1>2. "relations" \in Verifying /\ "checkpoint" \in Verifying
  BY DEF Verifying
<1>3. (torn = NoRestore \/ ~Noticed) /\ ~renewed => RelationsHold
  BY QuietTablesPass
<1>4. /\ phase[i] = "relations"
      /\ UNCHANGED <<db, past, disturbed, torn, renewed>>
      /\ \/ /\ phase' = [phase EXCEPT ![i] = "checkpoint"]
            /\ seen' = [seen EXCEPT ![i] = Nothing]
            /\ RelationsHold
         \/ /\ phase' = [phase EXCEPT ![i] = "refused"]
            /\ seen' = [seen EXCEPT ![i] = Nothing]
            /\ ~RelationsHold
  BY DEF VerifyRelations, Compare
<1> QED BY <1>1, <1>2, <1>3, <1>4, NothingSeen, StatementKeeps

LEMMA ReadCheckpointKeeps ==
    ASSUME StartupInv, NEW i \in Instances, ReadCheckpoint(i) PROVE StartupInv'
<1> DEFINE remembered == [Nothing EXCEPT !.checkpoint = NewestCheckpoint]
<1>1. ComparedAt("checkpoint") => ComparedAt("recordRoot")
  BY DEF ComparedAt, AfterReceipts, AfterRuns, AfterCurrent, AfterRelations
<1>2. "checkpoint" \in Verifying /\ "recordRoot" \in Verifying
  BY DEF Verifying
<1>3. NewestCheckpoint \in CheckpointRow \cup {NoCheckpoint}
  BY NewestFacts, DatabaseFields DEF StartupInv, TypeOK
<1>4. remembered = [runs |-> [r \in Runs |-> NoRow], checkpoint |-> NewestCheckpoint]
  BY DEF Nothing
<1>5. remembered \in SeenRows /\ remembered.checkpoint = NewestCheckpoint
  BY <1>3, <1>4 DEF SeenRows
<1>6. /\ phase[i] = "checkpoint"
      /\ UNCHANGED <<db, past, disturbed, torn, renewed>>
      /\ phase' = [phase EXCEPT ![i] = "recordRoot"]
      /\ seen' = [seen EXCEPT ![i] = remembered]
  BY DEF ReadCheckpoint, Compare
<1>7. /\ "recordRoot" # "serving" /\ "recordRoot" # "executions"
      /\ "recordRoot" \in Verifying \cup {"serving", "refused"}
      /\ "recordRoot" \notin {"serving", "refused"}
  BY <1>2
<1>8. torn # NoRestore /\ Noticed => ComparedAt("recordRoot")
  BY <1>1, <1>6 DEF StartupInv, Compared
<1> HIDE DEF remembered
<1> QED BY <1>5, <1>6, <1>7, <1>8, PhaseKeeps

\* The checkpoint that an instance remembers is the newest one, if nothing was
\* committed beside it or a restore can be noticed.
LEMMA RememberedIsNewest ==
    ASSUME StartupInv, NEW i \in Instances, phase[i] \in {"recordRoot", "executionRoot"},
           i \notin disturbed \/ (torn # NoRestore /\ Noticed)
    PROVE  seen[i].checkpoint = NewestCheckpoint
<1>1. i \notin disturbed
  BY DEF StartupInv, TornIsPast
<1> QED BY <1>1 DEF StartupInv, SeenIsCurrent

LEMMA VerifyRecordRootKeeps ==
    ASSUME StartupInv, NEW i \in Instances, VerifyRecordRoot(i) PROVE StartupInv'
<1> DEFINE checkpoint == seen[i].checkpoint
           holds == checkpoint # NoCheckpoint => checkpoint.records = RecordSetRoot
<1>1. "recordRoot" \in Verifying /\ "executionRoot" \in Verifying
  BY DEF Verifying
<1>2. /\ phase[i] = "recordRoot"
      /\ UNCHANGED <<db, past, disturbed, torn, renewed>>
      /\ \/ /\ phase' = [phase EXCEPT ![i] = "executionRoot"]
            /\ seen' = [seen EXCEPT ![i] = seen[i]]
            /\ holds
         \/ /\ phase' = [phase EXCEPT ![i] = "refused"]
            /\ seen' = [seen EXCEPT ![i] = Nothing]
            /\ ~holds
  BY DEF VerifyRecordRoot, Compare
<1>3. seen[i] \in SeenRows
  BY DEF StartupInv, TypeOK, SeenRows
<1>4. i \notin disturbed \/ (torn # NoRestore /\ Noticed) => checkpoint = NewestCheckpoint
  BY <1>2, RememberedIsNewest
<1>5. i \notin disturbed /\ (torn = NoRestore \/ ~Noticed) /\ ~renewed => holds
  BY <1>4, QuietTablesPass
<1>6. torn # NoRestore /\ Noticed /\ holds /\ ComparedAt("recordRoot") => ComparedAt("executionRoot")
  BY <1>4 DEF ComparedAt, AfterReceipts, AfterRuns, AfterCurrent, AfterRelations
<1> HIDE DEF holds
<1>7. i \notin disturbed => seen[i].checkpoint = NewestCheckpoint
  BY <1>4
<1>8. /\ "executionRoot" # "serving" /\ "executionRoot" # "executions"
      /\ "executionRoot" \in Verifying \cup {"serving"}
  BY <1>1
<1> QED BY <1>1, <1>2, <1>3, <1>5, <1>6, <1>7, <1>8, StatementKeeps

LEMMA VerifyExecutionRootKeeps ==
    ASSUME StartupInv, NEW i \in Instances, VerifyExecutionRoot(i) PROVE StartupInv'
<1> DEFINE checkpoint == seen[i].checkpoint
           holds == checkpoint # NoCheckpoint => checkpoint.reservations = ExecutionStateRoot
<1>1. "executionRoot" \in Verifying
  BY DEF Verifying
<1>2. /\ phase[i] = "executionRoot"
      /\ UNCHANGED <<db, past, disturbed, torn, renewed>>
      /\ \/ /\ phase' = [phase EXCEPT ![i] = "serving"]
            /\ seen' = [seen EXCEPT ![i] = Nothing]
            /\ holds
         \/ /\ phase' = [phase EXCEPT ![i] = "refused"]
            /\ seen' = [seen EXCEPT ![i] = Nothing]
            /\ ~holds
  BY DEF VerifyExecutionRoot, Compare
<1>3. i \notin disturbed \/ (torn # NoRestore /\ Noticed) => checkpoint = NewestCheckpoint
  BY <1>2, RememberedIsNewest
<1>4. i \notin disturbed /\ (torn = NoRestore \/ ~Noticed) /\ ~renewed => holds
  BY <1>3, QuietTablesPass
<1>5. torn # NoRestore /\ Noticed /\ holds /\ ComparedAt("executionRoot") => ComparedAt("serving")
  BY <1>3 DEF ComparedAt, AfterReceipts, AfterRuns, AfterCurrent, AfterRelations
<1> HIDE DEF holds
<1> QED BY <1>1, <1>2, <1>4, <1>5, NothingSeen, StatementKeeps

\* What a restore left unnoticeable stays so: the tables stay consistent.
LEMMA UnnoticedStays ==
    ASSUME db' \in Database, NEW n \in Nat, Consistent(db', n), torn' = torn, ~Noticed
    PROVE  ~Noticed'
<1>1. ~(torn.table \in {"run_events", "audit", "records", "current",
                        "consumptions", "reservations", "checkpoints"})
  BY DEF Noticed
<1>2. db'.records \subseteq db'.proofs
  BY DEF Consistent, RowPerCommit
<1>3. \A a \in db'.audit : db'.runs[a.run] # NoRow => ~(db'.runs[a.run].digest < a.seq)
  <2> SUFFICES ASSUME NEW a \in db'.audit, db'.runs[a.run] # NoRow
               PROVE  ~(db'.runs[a.run].digest < a.seq)
    OBVIOUS
  <2>1. a.run \in Runs /\ a.seq \in Nat
    BY DatabaseFields, SeqsFacts DEF AuditRow
  <2>2. db'.runs[a.run].digest \in Nat
    BY <2>1, DatabaseFields, SeqsFacts DEF RunRow
  <2>3. a.seq <= db'.runs[a.run].digest
    BY <2>1 DEF Consistent, RunsFollowAudit
  <2> QED BY <2>1, <2>2, <2>3
<1> QED BY <1>1, <1>2, <1>3 DEF Noticed

LEMMA CommitKeeps ==
    ASSUME StartupInv, NEW i \in Instances, NEW r \in Runs, NEW command \in Commands,
           Commit(i, r, command)
    PROVE  StartupInv'
<1> DEFINE m == Commits
           n == m + 1
           W == Written(r, command, n)
<1>1. /\ phase[i] = "serving" /\ n \in Seqs /\ Accepts(r, command)
      /\ db' = W
      /\ past' = [k \in 0 .. n |-> IF k = n THEN db' ELSE past[k]]
      /\ disturbed' = disturbed \cup {j \in Instances : phase[j] \in Verifying}
      /\ renewed' = (renewed \/ /\ command = "retry"
                                /\ Projection(r, command, n).execution # db.runs[r].execution)
      /\ UNCHANGED <<phase, seen, torn>>
  BY DEF Commit
<1>2. /\ m \in Nat /\ db \in Database /\ ExecutionsAdmitted(db)
      /\ \A k \in 0 .. m : past[k] \in Database /\ ExecutionsAdmitted(past[k])
  BY SeqsFacts DEF StartupInv, TypeOK, PastTyped
<1>3. db' \in Database /\ ExecutionsAdmitted(db')
  BY <1>1, <1>2, WrittenTyped
<1>4. Commits' = n
  <2>1. DOMAIN past' = 0 .. n /\ n \in Nat
    BY <1>1, <1>2
  <2> QED BY <2>1, CommitsIsNext
<1>a. torn # NoRestore => ~Noticed
  BY <1>1, InvRefusesTorn DEF TornTableRefused
<1>b. Consistent(db, m) /\ (~renewed => ReservationsMatch(db))
  BY <1>a DEF StartupInv, UnnoticedIsConsistent
<1>c. Consistent(db', n)
  BY <1>1, <1>2, <1>b, ConsistentKept
<1>5. torn # NoRestore => ~Noticed'
  <2>1. n \in Nat
    BY <1>2
  <2> HIDE DEF W, n
  <2> QED BY <1>1, <1>3, <1>a, <1>c, <2>1, UnnoticedStays
<1>6. m \in 0 .. m /\ n \in Nat /\ n \in 0 .. n /\ \A k \in 0 .. n : k = n \/ k \in 0 .. m
  BY <1>2
<1>7. \A k \in 0 .. n : past'[k] = IF k = n THEN db' ELSE past[k]
  BY <1>1
<1>8. torn = NoRestore => /\ db = past[m] /\ Whole(db, m)
                          /\ \A k \in 0 .. m : Whole(past[k], k) /\ MovedOn(past[k], db)
  BY <1>6 DEF StartupInv, PastWhole, UntornIsPast
<1>9. torn = NoRestore => Whole(db', n) /\ MovedOn(db, db')
  <2>1. MovedOn(db, db')
    BY <1>1, <1>2, <1>b, CommitMovesOn
  <2>2. torn = NoRestore => Complete(db', n)
    BY <1>1, <1>2, <1>8, CompleteKept DEF Whole
  <2> QED BY <1>c, <2>1, <2>2 DEF Whole
<1>10. ~renewed' => ReservationsMatch(db')
  BY <1>1, <1>2, <1>b, ReservationsStillMatch
<1>11. renewed' \in BOOLEAN /\ (renewed => renewed')
  BY <1>1 DEF StartupInv, TypeOK
<1>12. n \in Upto
  BY <1>1, SeqsFacts
<1>13. TypeOK'
  <2>1. DOMAIN past' \subseteq Upto
    <3>1. DOMAIN past' = 0 .. n
      BY <1>1
    <3>2. 0 .. n \subseteq Upto
      <4>1. \A b \in Nat : \A x \in 0 .. b : 0 .. x \subseteq 0 .. b
        OBVIOUS
      <4> QED BY <1>12, <4>1, BoundsAssumption DEF Upto
    <3> QED BY <3>1, <3>2
  <2>2. disturbed' \subseteq Instances
    BY <1>1 DEF StartupInv, TypeOK
  <2>3. Nothing' = Nothing
    BY DEF Nothing
  <2> HIDE DEF W, n, m
  <2> QED BY <1>1, <1>3, <1>11, <2>1, <2>2, <2>3 DEF StartupInv, TypeOK
<1>14. PastTyped'
  <2>1. DOMAIN past' = 0 .. n
    BY <1>1
  <2> HIDE DEF W, n, m
  <2> QED BY <1>2, <1>3, <1>4, <1>6, <1>7, <1>12, <2>1 DEF PastTyped
<1>15. PastWhole'
  <2> SUFFICES ASSUME torn' = NoRestore \/ Noticed', NEW k \in 0 .. n
               PROVE  Whole(past'[k], k) /\ MovedOn(past'[k], past'[n])
    BY <1>4 DEF PastWhole
  <2>1. torn = NoRestore
    BY <1>1, <1>5
  <2>2. past'[n] = db'
    BY <1>6, <1>7
  <2>3. CASE k = n
    <3>1. MovedOn(db', db')
      BY DEF MovedOn
    <3> QED BY <1>9, <2>1, <2>2, <2>3, <3>1
  <2>4. CASE k # n
    <3>1. k \in 0 .. m /\ past'[k] = past[k]
      BY <1>6, <1>7, <2>4
    <3>2. Whole(past[k], k) /\ MovedOn(past[k], db) /\ MovedOn(db, db')
      BY <1>8, <1>9, <2>1, <3>1
    <3>3. past[k] \in Database
      BY <1>2, <3>1
    <3>4. MovedOn(past[k], db')
      BY <1>2, <1>3, <3>2, <3>3, MovedOnTransitive
    <3> QED BY <2>2, <3>1, <3>2, <3>4
  <2> QED BY <2>3, <2>4
<1>16. UntornIsPast' /\ UnnoticedIsConsistent' /\ TornIsPast' /\ Compared'
  <2>1. past'[n] = db'
    BY <1>6, <1>7
  <2> HIDE DEF W, n, m
  <2> QED BY <1>1, <1>4, <1>5, <1>10, <1>c, <2>1 DEF UntornIsPast, UnnoticedIsConsistent, TornIsPast,
         Compared
<1>17. SeenIsCurrent'
  <2>1. {"executions", "recordRoot", "executionRoot"} \subseteq Verifying
    BY DEF Verifying
  <2>2. \A j \in Instances : j \notin disturbed' =>
            phase'[j] \notin {"executions", "recordRoot", "executionRoot"}
    BY <1>1, <2>1
  <2> QED BY <2>2 DEF SeenIsCurrent
<1>18. OffIsUndisturbed'
  <2>1. "off" \notin Verifying
    BY DEF Verifying
  <2> QED BY <1>1, <2>1 DEF StartupInv, OffIsUndisturbed
<1>19. QuietStartPasses'
  <2> HIDE DEF W, n, m
  <2> QED BY <1>1, <1>11, <1>a DEF StartupInv, QuietStartPasses
<1> QED BY <1>13, <1>14, <1>15, <1>16, <1>17, <1>18, <1>19 DEF StartupInv

\* A database with one table of another one.
LEMMA TableReplaced ==
    ASSUME NEW D \in Database, NEW E \in Database, NEW t \in Tables
    PROVE  /\ [D EXCEPT ![t] = E[t]] \in Database
           /\ [D EXCEPT ![t] = E[t]].runs \in {D.runs, E.runs}
           /\ [D EXCEPT ![t] = E[t]][t] = E[t]
<1> DEFINE F == [D EXCEPT ![t] = E[t]]
<1>1. DOMAIN D = Tables
  BY DEF Database, Tables
<1>2. \A x \in Tables : F[x] = IF x = t THEN E[x] ELSE D[x]
  BY <1>1
<1>3. F = [attestations |-> F.attestations, receipts |-> F.receipts,
           run_events |-> F.run_events, audit |-> F.audit, runs |-> F.runs,
           records |-> F.records, current |-> F.current, proofs |-> F.proofs,
           consumptions |-> F.consumptions, reservations |-> F.reservations,
           checkpoints |-> F.checkpoints]
  <2>1. F = [x \in Tables |-> F[x]]
    BY <1>1
  <2> HIDE DEF F
  <2> QED BY <2>1 DEF Tables
<1>4. /\ F.attestations \in SUBSET Seqs /\ F.receipts \in SUBSET Seqs
      /\ F.run_events \in SUBSET Seqs /\ F.audit \in SUBSET AuditRow
      /\ F.records \in SUBSET Seqs
      /\ F.current \in [Runs -> [RecordKinds -> Upto]]
      /\ F.proofs \in SUBSET Seqs /\ F.consumptions \in SUBSET Seqs
      /\ F.reservations \in SUBSET ReservationRow
      /\ F.checkpoints \in SUBSET CheckpointRow
      /\ F.runs \in {D.runs, E.runs}
  <2> HIDE DEF F
  <2> QED BY <1>2, DatabaseFields DEF Tables
<1>5. F.runs \in [Runs -> RunRow \cup {NoRow}]
  BY <1>4, DatabaseFields
<1> HIDE DEF F
<1>6. F \in Database
  BY <1>3, <1>4, <1>5 DEF Database
<1> QED BY <1>2, <1>4, <1>6 DEF F

\* A restore that cannot be noticed leaves consistent tables: what the newest
\* checkpoint, the audit events and the projections name is still there.
LEMMA RestoredUnnoticed ==
    ASSUME NEW D \in Database, NEW E \in Database, NEW n \in Nat, NEW k \in Nat, k <= n,
           Whole(D, n), Whole(E, k), MovedOn(E, D), NEW t \in Tables,
           NEW F, F = [D EXCEPT ![t] = E[t]],
           t \notin {"run_events", "audit", "records", "current",
                     "consumptions", "reservations", "checkpoints"},
           t = "proofs" => F.records \subseteq F.proofs,
           t = "runs" => \A a \in F.audit :
               F.runs[a.run] # NoRow => ~(F.runs[a.run].digest < a.seq)
    PROVE  Consistent(F, n) /\ (ReservationsMatch(D) => ReservationsMatch(F))
<1>1. \A x \in Tables : F[x] = IF x = t THEN E[x] ELSE D[x]
  BY DEF Database, Tables
<1>2. /\ F.run_events = D.run_events /\ F.audit = D.audit /\ F.records = D.records
      /\ F.current = D.current /\ F.consumptions = D.consumptions
      /\ F.reservations = D.reservations /\ F.checkpoints = D.checkpoints
      /\ F.receipts \in {D.receipts, E.receipts}
      /\ F.attestations \in {D.attestations, E.attestations}
      /\ F.proofs \in {D.proofs, E.proofs} /\ (t # "proofs" => F.proofs = D.proofs)
      /\ F.runs \in {D.runs, E.runs} /\ (t # "runs" => F.runs = D.runs)
  BY <1>1 DEF Tables
<1>3. 1 .. k \subseteq 1 .. n
  OBVIOUS
<1>4. Consistent(D, n) /\ Consistent(E, k)
  BY DEF Whole
<1>5. RowPerCommit(F, n)
  <2>1. F.records \subseteq F.proofs
    BY <1>2, <1>4 DEF Consistent, RowPerCommit
  <2> QED BY <1>2, <1>3, <1>4, <2>1 DEF Consistent, RowPerCommit
<1>6. \A r \in Runs : F.runs[r] # NoRow => F.runs[r] = D.runs[r]
  <2> SUFFICES ASSUME NEW r \in Runs, F.runs[r] # NoRow, t = "runs", F.runs = E.runs
               PROVE  F.runs[r] = D.runs[r]
    BY <1>2
  <2>1. D.runs[r] # NoRow /\ (E.runs[r] = D.runs[r] \/ E.runs[r].digest < D.runs[r].digest)
    BY DEF MovedOn
  <2>2. PICK a \in D.audit : a.run = r /\ a.seq = D.runs[r].digest
    BY <1>4, <2>1 DEF Consistent, RunsFollowAudit
  <2> QED BY <1>2, <2>1, <2>2
<1>7. AuditNumbered(F, n) /\ CheckpointsFollow(F, n)
  BY <1>2, <1>4 DEF Consistent, AuditNumbered, CheckpointsFollow
<1>8. RunsFollowAudit(F) /\ CurrentFollowsRuns(F)
  BY <1>2, <1>4, <1>6 DEF Consistent, RunsFollowAudit, CurrentFollowsRuns
<1>9. ExecutionsDistinct(F, n)
  BY <1>2, <1>4, <1>6 DEF Consistent, ExecutionsDistinct
<1>10. ReservationsMatch(D) => ReservationsMatch(F)
  BY <1>2, <1>6 DEF ReservationsMatch
<1> QED BY <1>5, <1>7, <1>8, <1>9, <1>10 DEF Consistent

LEMMA RestoreTableKeeps ==
    ASSUME StartupInv, NEW t \in Tables, NEW k \in DOMAIN past, RestoreTable(t, k)
    PROVE  StartupInv'
<1>1. /\ torn = NoRestore /\ \A i \in Instances : phase[i] = "off"
      /\ db[t] # past[k][t] /\ db' = [db EXCEPT ![t] = past[k][t]]
      /\ torn' = [table |-> t, to |-> k]
      /\ UNCHANGED <<past, phase, seen, disturbed, renewed>>
  BY DEF RestoreTable
<1>2. k \in 0 .. Commits /\ k \in Upto
  BY DEF StartupInv, TypeOK, PastTyped
<1>3. db \in Database /\ past[k] \in Database /\ ExecutionsAdmitted(db) /\ ExecutionsAdmitted(past[k])
  BY <1>2 DEF StartupInv, TypeOK, PastTyped
<1>4. db' \in Database /\ db'.runs \in {db.runs, past[k].runs} /\ db'[t] = past[k][t]
  <2> DEFINE F == [db EXCEPT ![t] = past[k][t]]
  <2>1. F \in Database /\ F.runs \in {db.runs, past[k].runs} /\ F[t] = past[k][t]
    BY <1>3, TableReplaced
  <2>2. db' = F
    BY <1>1
  <2> HIDE DEF F
  <2> QED BY <2>1, <2>2
<1>5. ExecutionsAdmitted(db')
  BY <1>3, <1>4 DEF ExecutionsAdmitted
<1>6. torn' \in [table : Tables, to : Upto] /\ torn' # NoRestore
      /\ torn'.table = t /\ torn'.to = k
  BY <1>1, <1>2, NoRestoreAssumption
<1>7. Commits' = Commits
  BY <1>1 DEF Commits
<1>8. TypeOK'
  <2>1. Nothing' = Nothing
    BY DEF Nothing
  <2> QED BY <1>1, <1>4, <1>6, <2>1 DEF StartupInv, TypeOK
<1>9. PastTyped'
  BY <1>1, <1>5, <1>7 DEF StartupInv, PastTyped
<1>10. PastWhole'
  BY <1>1, <1>7 DEF StartupInv, PastWhole
<1>11. UntornIsPast'
  BY <1>6 DEF UntornIsPast
<1>12. TornIsPast'
  <2>1. db = past[Commits]
    BY <1>1 DEF StartupInv, UntornIsPast
  <2>2. disturbed = {}
    BY <1>1 DEF StartupInv, TypeOK, OffIsUndisturbed
  <2>3. db' = [past[Commits] EXCEPT ![t] = past[k][t]] /\ db'[t] # past[Commits][t]
    BY <1>1, <1>4, <2>1
  <2> QED BY <1>1, <1>2, <1>6, <1>7, <2>2, <2>3 DEF TornIsPast
<1>15. UnnoticedIsConsistent'
  <2> SUFFICES ASSUME ~Noticed'
               PROVE  Consistent(db', Commits) /\ (~renewed => ReservationsMatch(db'))
    BY <1>1, <1>6, <1>7 DEF UnnoticedIsConsistent
  <2>1. /\ Commits \in Nat /\ Commits \in 0 .. Commits /\ k \in Nat /\ k <= Commits
    BY <1>2, SeqsFacts DEF StartupInv, PastTyped
  <2>2. db = past[Commits] /\ (~renewed => ReservationsMatch(db))
    BY <1>1 DEF StartupInv, UntornIsPast, UnnoticedIsConsistent
  <2>3. Whole(db, Commits) /\ Whole(past[k], k) /\ MovedOn(past[k], db)
    BY <1>1, <1>2, <2>1, <2>2 DEF StartupInv, PastWhole
  <2>4. /\ t \notin {"run_events", "audit", "records", "current",
                      "consumptions", "reservations", "checkpoints"}
        /\ t = "proofs" => db'.records \subseteq db'.proofs
        /\ t = "runs" => \A a \in db'.audit :
               db'.runs[a.run] # NoRow => ~(db'.runs[a.run].digest < a.seq)
    BY <1>6 DEF Noticed
  <2> DEFINE F == [db EXCEPT ![t] = past[k][t]]
  <2>5. db' = F
    BY <1>1
  <2>6. /\ t = "proofs" => F.records \subseteq F.proofs
        /\ t = "runs" => \A a \in F.audit :
               F.runs[a.run] # NoRow => ~(F.runs[a.run].digest < a.seq)
    <3> HIDE DEF F
    <3> QED BY <2>4, <2>5
  <2>7. db \in Database /\ past[k] \in Database /\ t \in Tables
    BY <1>1, <1>3
  <2>8. Consistent(F, Commits) /\ (ReservationsMatch(db) => ReservationsMatch(F))
    <3>1. \A G : G = F => Consistent(G, Commits) /\ (ReservationsMatch(db) => ReservationsMatch(G))
      <4> SUFFICES ASSUME NEW G, G = F
                   PROVE  Consistent(G, Commits) /\ (ReservationsMatch(db) => ReservationsMatch(G))
        OBVIOUS
      <4>1. G = [db EXCEPT ![t] = past[k][t]]
        OBVIOUS
      <4>2. /\ t = "proofs" => G.records \subseteq G.proofs
            /\ t = "runs" => \A a \in G.audit :
                   G.runs[a.run] # NoRow => ~(G.runs[a.run].digest < a.seq)
        <5> HIDE DEF F
        <5> QED BY <2>6
      <4> HIDE DEF F
      <4> QED BY <2>1, <2>3, <2>4, <2>7, <4>1, <4>2, RestoredUnnoticed, Zenon
    <3> QED BY <3>1
  <2> HIDE DEF F
  <2> QED BY <2>2, <2>5, <2>8
<1>13. SeenIsCurrent' /\ OffIsUndisturbed' /\ QuietStartPasses'
  BY <1>1 DEF StartupInv, SeenIsCurrent, OffIsUndisturbed, QuietStartPasses
<1>14. Compared'
  BY <1>1 DEF Compared, ComparedAt, AfterReceipts, AfterRuns, AfterCurrent, AfterRelations
<1> QED BY <1>8, <1>9, <1>10, <1>11, <1>12, <1>13, <1>14, <1>15 DEF StartupInv

LEMMA StutterKeeps == ASSUME StartupInv, UNCHANGED vars PROVE StartupInv'
<1>1. PastTyped' /\ PastWhole' /\ UntornIsPast' /\ UnnoticedIsConsistent' /\ TornIsPast'
  BY TablesLeftAlone DEF vars
<1>2. TypeOK' /\ SeenIsCurrent' /\ OffIsUndisturbed' /\ QuietStartPasses'
  BY DEF vars, StartupInv, TypeOK, SeenIsCurrent, OffIsUndisturbed, QuietStartPasses, Nothing,
     NewestCheckpoint, Noticed
<1>3. Compared'
  BY DEF vars, StartupInv, Compared, ComparedAt, Noticed, ReceiptsEvidenced, RunsAudited,
     CurrentMatches, RelationsHold, NewestCheckpoint, RecordSetRoot, ExecutionStateRoot
<1> QED BY <1>1, <1>2, <1>3 DEF StartupInv

-----------------------------------------------------------------------------
(* The theorems.                                                            *)

\* The invariant of the verification: without a restore the tables are of one
\* piece as the commits of transact_inner left them; after one that can be
\* noticed nothing is committed, and what an instance has compared agrees; after
\* any other the tables are still consistent.
THEOREM StartupInvariant == Spec => []StartupInv
<1>1. Init => StartupInv
  BY InitStartup
<1>2. StartupInv /\ [Next]_vars => StartupInv'
  <2> SUFFICES ASSUME StartupInv, [Next]_vars PROVE StartupInv'
    OBVIOUS
  <2>1. CASE UNCHANGED vars
    BY <2>1, StutterKeeps
  <2>2. ASSUME NEW i \in Instances, StartInstance(i) \/ StopInstance(i) PROVE StartupInv'
    BY <2>2, StartInstanceKeeps, StopInstanceKeeps
  <2>3. ASSUME NEW i \in Instances, VerifyReceipts(i) \/ VerifyAudit(i) \/ VerifyRuns(i)
        PROVE  StartupInv'
    BY <2>3, VerifyReceiptsKeeps, VerifyAuditKeeps, VerifyRunsKeeps
  <2>4. ASSUME NEW i \in Instances, NEW r \in Runs, VerifyExecution(i, r) PROVE StartupInv'
    BY <2>4, VerifyExecutionKeeps
  <2>5. ASSUME NEW i \in Instances, VerifyCurrent(i) \/ VerifyRelations(i) \/ ReadCheckpoint(i)
        PROVE  StartupInv'
    BY <2>5, VerifyCurrentKeeps, VerifyRelationsKeeps, ReadCheckpointKeeps
  <2>6. ASSUME NEW i \in Instances, VerifyRecordRoot(i) \/ VerifyExecutionRoot(i)
        PROVE  StartupInv'
    BY <2>6, VerifyRecordRootKeeps, VerifyExecutionRootKeeps
  <2>7. ASSUME NEW i \in Instances, NEW r \in Runs, NEW command \in Commands, Commit(i, r, command)
        PROVE  StartupInv'
    BY <2>7, CommitKeeps
  <2>8. ASSUME NEW t \in Tables, NEW k \in DOMAIN past, RestoreTable(t, k) PROVE StartupInv'
    BY <2>8, RestoreTableKeeps
  <2> QED BY <2>1, <2>2, <2>3, <2>4, <2>5, <2>6, <2>7, <2>8 DEF Next
<1> QED BY <1>1, <1>2, PTL DEF Spec

\* verify_database_integrity does not let an instance serve tables of which one
\* is older than the others, wherever the comparisons are able to notice it.
THEOREM TornIsNotServed == Spec => []ServedIsWhole
<1>1. StartupInv => ServedIsWhole
  BY InvRefusesTorn DEF ServedIsWhole, StartupInv
<1> QED BY <1>1, StartupInvariant, PTL

\* verify_database_integrity accepts what transact_inner wrote and whatever it
\* cannot notice: an instance that starts while nothing is committed is refused
\* only after a restore that can be noticed, or after a retry under a renewed
\* Admission.
THEOREM QuietStartIsAccepted == Spec => []QuietStartPasses
<1>1. StartupInv => QuietStartPasses
  BY DEF StartupInv
<1> QED BY <1>1, StartupInvariant, PTL

-----------------------------------------------------------------------------
(* The outbox.                                                              *)

\* A row a claiming transaction has locked is free for the taking until that
\* transaction ends: acknowledgements wait for the lock, and others skip it.
LockedRowsFree ==
    \A w \in Workers : \A e \in locked[w] : left[e] = 0 /\ e \notin delivered

\* Only rows that were inserted are claimed.
ClaimedRowsStored == \A e \in Events : left[e] > 0 => e \in 1 .. stored

\* As long as a claim a worker was given is in force, the row names that worker
\* and is claimed at least as long, unless the event has been delivered.
ClaimsAreInTheRows ==
    \A w \in Workers, e \in Events :
        term[w][e] > 0 =>
            e \in delivered \/ (owner[e] = {name[w]} /\ term[w][e] <= left[e])

\* A worker has one call under way at most.
OneCall == \A w \in Workers : locked[w] = {} \/ acking[w] = {}

\* An acknowledgement under way is one of an event the worker has carried out.
AckedIsHandled ==
    \A w \in Workers : \A e \in acking[w] : hand[w][e] = "handled"

\* While an acknowledgement is under way, the event is claimed under another name
\* only if that claim was made after the row was found.
AckedInTime ==
    \A v, w \in Workers : \A e \in acking[v] :
        term[w][e] > 0 => name[v] = name[w] \/ e \in overtaken[v]

OutboxInv ==
    /\ ClaimInv
    /\ LockedRowsFree
    /\ ClaimedRowsStored
    /\ ClaimsAreInTheRows
    /\ OneCall
    /\ AckedIsHandled
    /\ AckedInTime

USE LeaseAssumption

-----------------------------------------------------------------------------
(* The invariant holds in the first state and is kept by every action.      *)

LEMMA InitOutbox == OutboxInit => OutboxInv
BY DEF OutboxInit, OutboxInv, ClaimInv, OutboxTypeOK, LiveClaimsExclusive, LockedRowsFree, ClaimedRowsStored,
   ClaimsAreInTheRows, OneCall, AckedIsHandled, AckedInTime, Events, Hands

\* An insertion adds a row and touches none.
LEMMA InsertEventKeeps == ASSUME OutboxInv, InsertEvent PROVE OutboxInv'
<1>1. stored \in Nat /\ 1 .. stored \subseteq 1 .. stored'
  BY DEF OutboxInv, ClaimInv, OutboxTypeOK, InsertEvent
<1>2. OutboxTypeOK'
  BY <1>1 DEF OutboxInv, ClaimInv, OutboxTypeOK, InsertEvent, ackVars
<1>3. ClaimedRowsStored'
  BY <1>1 DEF OutboxInv, ClaimedRowsStored, InsertEvent
<1> QED BY <1>2, <1>3 DEF OutboxInv, ClaimInv, LiveClaimsExclusive, LockedRowsFree, ClaimsAreInTheRows,
    OneCall, AckedIsHandled, AckedInTime, InsertEvent, ackVars

\* The claiming query locks rows that are available and locked by nobody.
LEMMA ClaimSelectKeeps ==
    ASSUME OutboxInv, NEW w \in Workers, ClaimSelect(w) PROVE OutboxInv'
<1>1. PICK limit \in 1 .. MaxBatch : locked' = [locked EXCEPT ![w] = Selected(limit)]
  BY DEF ClaimSelect
<1>2. /\ Selected(limit) \subseteq 1 .. stored
      /\ \A e \in Selected(limit) : Available(e)
  BY DEF Selected
<1>3. OutboxTypeOK'
  <2>1. locked' \in [Workers -> SUBSET (1 .. stored)]
    BY <1>1, <1>2 DEF OutboxInv, ClaimInv, OutboxTypeOK
  <2>2. \A e \in Selected(limit), v \in Workers : e \notin locked[v]
    BY <1>2 DEF Available, RowLocked
  <2>3. \A u, v \in Workers : u # v => locked'[u] \cap locked'[v] = {}
    BY <1>1, <2>2 DEF OutboxInv, ClaimInv, OutboxTypeOK
  <2> QED BY <2>1, <2>3 DEF OutboxInv, ClaimInv, OutboxTypeOK, ClaimSelect, rows, ackVars
<1>4. LockedRowsFree'
  BY <1>1, <1>2 DEF OutboxInv, ClaimInv, OutboxTypeOK, LockedRowsFree, ClaimSelect, rows, Available
<1>5. OneCall'
  BY <1>1 DEF OutboxInv, ClaimInv, OutboxTypeOK, OneCall, ClaimSelect, Idle, ackVars
<1> QED BY <1>3, <1>4, <1>5 DEF OutboxInv, ClaimInv, LiveClaimsExclusive, ClaimedRowsStored, ClaimsAreInTheRows,
    AckedIsHandled, AckedInTime, ClaimSelect, rows, ackVars

\* No claim on a locked row is in force: the one that is written now is the only one.
LEMMA NoClaimOnLockedRow ==
    ASSUME OutboxInv, NEW w \in Workers, NEW e \in locked[w], NEW v \in Workers
    PROVE  e \in Events /\ term[v][e] = 0
<1>1. e \in Events /\ stored \in 0 .. NumEvents
  BY DEF OutboxInv, ClaimInv, OutboxTypeOK, Events
<1>2. left[e] = 0 /\ e \notin delivered
  BY DEF OutboxInv, LockedRowsFree
<1>3. term[v][e] \in 0 .. Lease
  BY <1>1 DEF OutboxInv, ClaimInv, OutboxTypeOK
<1> QED BY <1>1, <1>2, <1>3 DEF OutboxInv, ClaimsAreInTheRows

LEMMA AckedEvents == ASSUME OutboxInv, NEW w \in Workers PROVE acking[w] \subseteq Events
BY DEF OutboxInv, ClaimInv, OutboxTypeOK, Events

LEMMA ClaimCommitKeeps ==
    ASSUME OutboxInv, NEW w \in Workers, NEW heard \in BOOLEAN, ClaimCommit(w, heard)
    PROVE  OutboxInv'
<1> DEFINE mine == locked[w]
<1>1. /\ mine \subseteq 1 .. stored /\ mine \subseteq Events
      /\ \A e \in mine : e \notin delivered
      /\ \A e \in mine, v \in Workers : v # w => e \notin locked[v]
  BY NoClaimOnLockedRow DEF OutboxInv, ClaimInv, OutboxTypeOK, LockedRowsFree
<1>2. /\ owner' = [e \in Events |-> IF e \in mine THEN {name[w]} ELSE owner[e]]
      /\ left' = [e \in Events |-> IF e \in mine THEN Lease ELSE left[e]]
      /\ locked' = [locked EXCEPT ![w] = {}]
      /\ overtaken' = [v \in Workers |-> overtaken[v] \cup (mine \cap acking[v])]
      /\ UNCHANGED <<name, stored, delivered, acking>>
  BY DEF ClaimCommit
<1>3. /\ hand' \in [Workers -> [Events -> Hands]]
      /\ term' \in [Workers -> [Events -> 0 .. Lease]]
      /\ \A v \in Workers, e \in Events :
            /\ term'[v][e] = IF heard /\ v = w /\ e \in mine THEN Lease ELSE term[v][e]
            /\ v # w => hand'[v][e] = hand[v][e]
  <2>1. term \in [Workers -> [Events -> 0 .. Lease]] /\ hand \in [Workers -> [Events -> Hands]]
    BY DEF OutboxInv, ClaimInv, OutboxTypeOK
  <2>2. CASE heard
    <3>1. /\ hand' = [hand EXCEPT ![w] = [e \in Events |-> IF e \in mine THEN "claimed" ELSE hand[w][e]]]
          /\ term' = [term EXCEPT ![w] = [e \in Events |-> IF e \in mine THEN Lease ELSE term[w][e]]]
      BY <2>2 DEF ClaimCommit
    <3> QED BY <2>1, <2>2, <3>1 DEF Hands
  <2>3. CASE ~heard
    BY <2>1, <2>3 DEF ClaimCommit
  <2> QED BY <2>2, <2>3
<1>4. OutboxTypeOK'
  <2>1. owner' \in [Events -> SUBSET Names] /\ left' \in [Events -> 0 .. Lease]
    BY <1>2 DEF OutboxInv, ClaimInv, OutboxTypeOK
  <2>2. \A e \in Events : \A m, n \in owner'[e] : m = n
    BY <1>2 DEF OutboxInv, ClaimInv, OutboxTypeOK
  <2>3. \A e \in delivered : owner'[e] = {} /\ left'[e] = 0
    BY <1>1, <1>2 DEF OutboxInv, ClaimInv, OutboxTypeOK, Events
  <2>4. /\ locked' \in [Workers -> SUBSET (1 .. stored)]
        /\ \A u, v \in Workers : u # v => locked'[u] \cap locked'[v] = {}
    BY <1>2 DEF OutboxInv, ClaimInv, OutboxTypeOK
  <2>5. acking' \in [Workers -> SUBSET (1 .. stored)] /\ overtaken' \in [Workers -> SUBSET (1 .. stored)]
    BY <1>1, <1>2 DEF OutboxInv, ClaimInv, OutboxTypeOK
  <2> QED BY <1>2, <1>3, <2>1, <2>2, <2>3, <2>4, <2>5 DEF OutboxInv, ClaimInv, OutboxTypeOK
<1>5. \A e \in mine, v \in Workers : term[v][e] = 0
  BY NoClaimOnLockedRow
<1>6. LiveClaimsExclusive'
  BY <1>3, <1>5 DEF OutboxInv, ClaimInv, LiveClaimsExclusive
<1>7. LockedRowsFree'
  <2> SUFFICES ASSUME NEW v \in Workers, NEW e \in locked'[v] PROVE left'[e] = 0 /\ e \notin delivered'
    BY DEF LockedRowsFree
  <2>1. v # w /\ e \in locked[v]
    BY <1>2 DEF OutboxInv, ClaimInv, OutboxTypeOK
  <2>2. e \notin mine /\ e \in Events
    BY <1>1, <2>1, NoClaimOnLockedRow
  <2> QED BY <1>2, <2>1, <2>2 DEF OutboxInv, LockedRowsFree
<1>8. ClaimedRowsStored'
  BY <1>1, <1>2 DEF OutboxInv, ClaimedRowsStored
<1>9. ClaimsAreInTheRows'
  <2> SUFFICES ASSUME NEW v \in Workers, NEW e \in Events, term'[v][e] > 0
               PROVE  e \in delivered \/ (owner'[e] = {name[v]} /\ term'[v][e] <= left'[e])
    BY <1>2 DEF ClaimsAreInTheRows
  <2>1. CASE e \in mine
    <3>1. v = w /\ term'[v][e] = Lease
      BY <1>3, <1>5, <2>1
    <3> QED BY <1>2, <2>1, <3>1
  <2>2. CASE e \notin mine
    BY <1>2, <1>3, <2>2 DEF OutboxInv, ClaimsAreInTheRows
  <2> QED BY <2>1, <2>2
<1>10. AckedIsHandled'
  <2> SUFFICES ASSUME NEW v \in Workers, NEW e \in acking[v] PROVE hand'[v][e] = "handled"
    BY <1>2 DEF AckedIsHandled
  <2>1. e \in Events /\ hand[v][e] = "handled"
    BY AckedEvents DEF OutboxInv, AckedIsHandled
  <2>2. v # w
    BY DEF OutboxInv, OneCall, ClaimCommit
  <2> QED BY <1>3, <2>1, <2>2
<1>11. AckedInTime'
  <2> SUFFICES ASSUME NEW v \in Workers, NEW u \in Workers, NEW e \in acking[v], term'[u][e] > 0
               PROVE  name[v] = name[u] \/ e \in overtaken'[v]
    BY <1>2 DEF AckedInTime
  <2>1. e \in Events
    BY AckedEvents
  <2>2. CASE e \in mine
    BY <1>2, <2>2
  <2>3. CASE e \notin mine
    <3>1. term[u][e] > 0
      BY <1>3, <2>1, <2>3
    <3> QED BY <1>2, <3>1 DEF OutboxInv, AckedInTime
  <2> QED BY <2>2, <2>3
<1>12. OneCall'
  BY <1>2 DEF OutboxInv, ClaimInv, OutboxTypeOK, OneCall
<1> QED BY <1>4, <1>6, <1>7, <1>8, <1>9, <1>10, <1>11, <1>12 DEF OutboxInv, ClaimInv

LEMMA ClaimAbortKeeps == ASSUME OutboxInv, NEW w \in Workers, ClaimAbort(w) PROVE OutboxInv'
<1>1. UNCHANGED <<name, stored, owner, left, delivered, hand, term, acking, overtaken>>
  BY DEF ClaimAbort, rows, ackVars
<1>2. locked' = [locked EXCEPT ![w] = {}]
  BY DEF ClaimAbort
<1>3. /\ locked' \in [Workers -> SUBSET (1 .. stored)]
      /\ \A v \in Workers : locked'[v] = {} \/ locked'[v] = locked[v]
  BY <1>2 DEF OutboxInv, ClaimInv, OutboxTypeOK
<1>4. OutboxTypeOK'
  BY <1>1, <1>3 DEF OutboxInv, ClaimInv, OutboxTypeOK
<1>5. LockedRowsFree'
  BY <1>1, <1>3 DEF OutboxInv, LockedRowsFree
<1>6. LiveClaimsExclusive' /\ ClaimedRowsStored' /\ ClaimsAreInTheRows'
  BY <1>1 DEF OutboxInv, ClaimInv, LiveClaimsExclusive, ClaimedRowsStored, ClaimsAreInTheRows
<1>7. OneCall' /\ AckedIsHandled' /\ AckedInTime'
  BY <1>1, <1>3 DEF OutboxInv, OneCall, AckedIsHandled, AckedInTime
<1> QED BY <1>4, <1>5, <1>6, <1>7 DEF OutboxInv, ClaimInv

LEMMA HandleKeeps ==
    ASSUME OutboxInv, NEW w \in Workers, NEW e \in Events, Handle(w, e) PROVE OutboxInv'
<1>1. hand' \in [Workers -> [Events -> Hands]]
      /\ \A v \in Workers, f \in Events : hand'[v][f] = hand[v][f] \/ hand'[v][f] = "handled"
  BY DEF OutboxInv, ClaimInv, OutboxTypeOK, Handle, Hands
<1>2. UNCHANGED <<name, stored, owner, left, delivered, locked, term, acking, overtaken>>
  BY DEF Handle, rows, ackVars
<1>3. AckedIsHandled'
  BY <1>1, <1>2, AckedEvents DEF OutboxInv, AckedIsHandled
<1> QED BY <1>1, <1>2, <1>3 DEF OutboxInv, ClaimInv, OutboxTypeOK, LiveClaimsExclusive, LockedRowsFree,
    ClaimedRowsStored, ClaimsAreInTheRows, OneCall, AckedInTime

\* Steps that leave the rows alone, let go of locks, claims and acknowledgements,
\* and begin no claim.
LEMMA LettingGoKeeps ==
    ASSUME OutboxInv, UNCHANGED <<name, stored, owner, left, delivered>>,
           locked' \in [Workers -> SUBSET (1 .. stored)],
           \A v \in Workers : locked'[v] \subseteq locked[v],
           hand' \in [Workers -> [Events -> Hands]],
           term' \in [Workers -> [Events -> 0 .. Lease]],
           \A v \in Workers, f \in Events : term'[v][f] = term[v][f] \/ term'[v][f] = 0,
           acking' \in [Workers -> SUBSET (1 .. stored)],
           overtaken' \in [Workers -> SUBSET (1 .. stored)],
           OneCall', AckedIsHandled', AckedInTime'
    PROVE  OutboxInv'
<1>1. OutboxTypeOK'
  BY DEF OutboxInv, ClaimInv, OutboxTypeOK
<1>2. LiveClaimsExclusive'
  <2>1. \A v \in Workers, f \in Events : term'[v][f] > 0 => term[v][f] > 0
    OBVIOUS
  <2> QED BY <2>1 DEF OutboxInv, ClaimInv, LiveClaimsExclusive
<1>3. LockedRowsFree' /\ ClaimedRowsStored'
  BY DEF OutboxInv, LockedRowsFree, ClaimedRowsStored
<1>4. ClaimsAreInTheRows'
  <2> SUFFICES ASSUME NEW v \in Workers, NEW f \in Events, term'[v][f] > 0
               PROVE  f \in delivered \/ (owner[f] = {name[v]} /\ term'[v][f] <= left[f])
    BY DEF ClaimsAreInTheRows
  <2>1. term'[v][f] = term[v][f]
    OBVIOUS
  <2> QED BY <2>1 DEF OutboxInv, ClaimsAreInTheRows
<1> QED BY <1>1, <1>2, <1>3, <1>4 DEF OutboxInv, ClaimInv

\* An acknowledgement that finds its row finds it claimed in this worker's name, so
\* that any claim in force is one of that name.
LEMMA AckScanKeeps ==
    ASSUME OutboxInv, NEW w \in Workers, NEW e \in Events, AckScan(w, e) PROVE OutboxInv'
<1>1. /\ UNCHANGED <<name, stored, owner, left, delivered, locked, overtaken>>
      /\ locked[w] = {} /\ acking[w] = {} /\ hand[w][e] = "handled"
  BY DEF AckScan, Idle, rows
<1>2. /\ locked \in [Workers -> SUBSET (1 .. stored)]
      /\ hand \in [Workers -> [Events -> Hands]]
      /\ term \in [Workers -> [Events -> 0 .. Lease]]
      /\ acking \in [Workers -> SUBSET (1 .. stored)]
      /\ overtaken \in [Workers -> SUBSET (1 .. stored)]
  BY DEF OutboxInv, ClaimInv, OutboxTypeOK
<1>3. CASE Acknowledged(w, e)
  <2>1. acking' = [acking EXCEPT ![w] = {e}] /\ UNCHANGED <<hand, term>>
    BY <1>3 DEF AckScan
  <2>2. e \in 1 .. stored
    BY <1>3 DEF Acknowledged, OutboxInv, ClaimedRowsStored
  <2>3. acking' \in [Workers -> SUBSET (1 .. stored)]
    BY <1>2, <2>1, <2>2
  <2>4. OneCall' /\ AckedIsHandled'
    BY <1>1, <1>2, <2>1 DEF OutboxInv, OneCall, AckedIsHandled
  <2>5. AckedInTime'
    <3> SUFFICES ASSUME NEW v \in Workers, NEW u \in Workers, NEW f \in acking'[v], term[u][f] > 0
                 PROVE  name[v] = name[u] \/ f \in overtaken[v]
      BY <1>1, <2>1 DEF AckedInTime
    <3>1. CASE v # w
      BY <1>2, <2>1, <3>1 DEF OutboxInv, AckedInTime
    <3>2. CASE v = w
      <4>1. f = e
        BY <1>2, <2>1, <3>2
      <4>2. owner[e] = {name[w]} /\ owner[e] = {name[u]}
        BY <1>3, <4>1 DEF Acknowledged, OutboxInv, ClaimsAreInTheRows
      <4> QED BY <3>2, <4>2
    <3> QED BY <3>1, <3>2
  <2> QED BY <1>1, <1>2, <2>1, <2>3, <2>4, <2>5, LettingGoKeeps
<1>4. CASE ~Acknowledged(w, e)
  <2>1. /\ hand' = [hand EXCEPT ![w][e] = "none"]
        /\ term' = [term EXCEPT ![w][e] = 0]
        /\ acking' = acking
    BY <1>4 DEF AckScan, Drop
  <2>2. /\ hand' \in [Workers -> [Events -> Hands]]
        /\ \A v \in Workers : v # w => hand'[v] = hand[v]
    BY <1>2, <2>1 DEF Hands
  <2>3. /\ term' \in [Workers -> [Events -> 0 .. Lease]]
        /\ \A v \in Workers, f \in Events : term'[v][f] = term[v][f] \/ term'[v][f] = 0
    BY <1>2, <2>1
  <2>4. OneCall'
    BY <1>1, <2>1 DEF OutboxInv, OneCall
  <2>5. AckedIsHandled'
    BY <1>1, <2>1, <2>2 DEF OutboxInv, AckedIsHandled
  <2>6. AckedInTime'
    <3> SUFFICES ASSUME NEW v \in Workers, NEW u \in Workers, NEW f \in acking[v], term'[u][f] > 0
                 PROVE  name[v] = name[u] \/ f \in overtaken[v]
      BY <1>1, <2>1 DEF AckedInTime
    <3>1. f \in Events
      BY AckedEvents
    <3>2. term[u][f] > 0
      BY <2>3, <3>1
    <3> QED BY <3>2 DEF OutboxInv, AckedInTime
  <2> QED BY <1>1, <1>2, <2>1, <2>2, <2>3, <2>4, <2>5, <2>6, LettingGoKeeps
<1> QED BY <1>3, <1>4

\* What becomes of the acknowledgements when one ends.
LEMMA AckEnded ==
    ASSUME OutboxInv, NEW w \in Workers, AckForgotten(w)
    PROVE  /\ acking' \in [Workers -> SUBSET (1 .. stored)]
           /\ overtaken' \in [Workers -> SUBSET (1 .. stored)]
           /\ acking'[w] = {}
           /\ \A v \in Workers : v # w => acking'[v] = acking[v] /\ overtaken'[v] = overtaken[v]
  BY DEF OutboxInv, ClaimInv, OutboxTypeOK, AckForgotten

\* The same for the invariants about them.
LEMMA AckEndedKeeps ==
    ASSUME OutboxInv, NEW w \in Workers, AckForgotten(w), name' = name,
           \A v \in Workers : v # w => locked'[v] = locked[v] /\ hand'[v] = hand[v],
           \A v \in Workers, f \in Events : term'[v][f] = term[v][f] \/ term'[v][f] = 0
    PROVE  OneCall' /\ AckedIsHandled' /\ AckedInTime'
<1>1. /\ acking'[w] = {}
      /\ \A v \in Workers : v # w => acking'[v] = acking[v] /\ overtaken'[v] = overtaken[v]
  BY AckEnded
<1>2. OneCall' /\ AckedIsHandled'
  BY <1>1 DEF OutboxInv, OneCall, AckedIsHandled
<1>3. AckedInTime'
  <2> SUFFICES ASSUME NEW v \in Workers, NEW u \in Workers, NEW f \in acking'[v], term'[u][f] > 0
               PROVE  name[v] = name[u] \/ f \in overtaken'[v]
    BY DEF AckedInTime
  <2>1. v # w /\ f \in acking[v] /\ overtaken'[v] = overtaken[v]
    BY <1>1
  <2>2. f \in Events
    BY <2>1, AckedEvents
  <2>3. term[u][f] > 0
    BY <2>2
  <2> QED BY <2>1, <2>3 DEF OutboxInv, AckedInTime
<1> QED BY <1>2, <1>3

\* The trigger settles no row but its own, and no row that is locked.
LEMMA AckWriteKeeps ==
    ASSUME OutboxInv, NEW w \in Workers, NEW e \in Events, NEW heard \in BOOLEAN, AckWrite(w, e, heard)
    PROVE  OutboxInv'
<1>1. e \in 1 .. stored /\ e \in acking[w] /\ AckForgotten(w)
  BY DEF AckWrite, OutboxInv, ClaimInv, OutboxTypeOK
<1>2. /\ delivered' = delivered \cup {e}
      /\ owner' = [owner EXCEPT ![e] = {}]
      /\ left' = [left EXCEPT ![e] = 0]
      /\ UNCHANGED <<name, stored, locked>>
  BY DEF AckWrite
<1>3. /\ hand' \in [Workers -> [Events -> Hands]]
      /\ term' \in [Workers -> [Events -> 0 .. Lease]]
      /\ \A v \in Workers, f \in Events : term'[v][f] = term[v][f] \/ term'[v][f] = 0
      /\ \A v \in Workers : v # w => hand'[v] = hand[v]
  <2>1. hand \in [Workers -> [Events -> Hands]] /\ term \in [Workers -> [Events -> 0 .. Lease]]
    BY DEF OutboxInv, ClaimInv, OutboxTypeOK
  <2>2. CASE heard
    <3>1. hand' = [hand EXCEPT ![w][e] = "none"] /\ term' = [term EXCEPT ![w][e] = 0]
      BY <2>2 DEF AckWrite, Drop
    <3> QED BY <2>1, <3>1 DEF Hands
  <2>3. CASE ~heard
    BY <2>1, <2>3 DEF AckWrite
  <2> QED BY <2>2, <2>3
<1>4. OutboxTypeOK'
  <2>1. owner' \in [Events -> SUBSET Names] /\ left' \in [Events -> 0 .. Lease]
    BY <1>2 DEF OutboxInv, ClaimInv, OutboxTypeOK
  <2>2. \A f \in Events : \A m, n \in owner'[f] : m = n
    BY <1>2 DEF OutboxInv, ClaimInv, OutboxTypeOK
  <2>3. \A f \in delivered' : owner'[f] = {} /\ left'[f] = 0
    BY <1>1, <1>2 DEF OutboxInv, ClaimInv, OutboxTypeOK, Events
  <2>4. delivered' \in SUBSET (1 .. stored)
    BY <1>1, <1>2 DEF OutboxInv, ClaimInv, OutboxTypeOK
  <2>5. acking' \in [Workers -> SUBSET (1 .. stored)] /\ overtaken' \in [Workers -> SUBSET (1 .. stored)]
    BY <1>1, AckEnded
  <2> QED BY <1>2, <1>3, <2>1, <2>2, <2>3, <2>4, <2>5 DEF OutboxInv, ClaimInv, OutboxTypeOK
<1>5. LiveClaimsExclusive'
  BY <1>3 DEF OutboxInv, ClaimInv, LiveClaimsExclusive
<1>6. LockedRowsFree'
  <2>1. \A v \in Workers : locked[v] \subseteq Events /\ e \notin locked[v]
    BY NoClaimOnLockedRow DEF AckWrite, RowLocked
  <2> QED BY <1>2, <2>1 DEF OutboxInv, LockedRowsFree
<1>7. ClaimedRowsStored'
  BY <1>2 DEF OutboxInv, ClaimInv, OutboxTypeOK, ClaimedRowsStored
<1>8. ClaimsAreInTheRows'
  <2> SUFFICES ASSUME NEW v \in Workers, NEW f \in Events, term'[v][f] > 0, f \notin delivered'
               PROVE  owner'[f] = {name[v]} /\ term'[v][f] <= left'[f]
    BY <1>2 DEF ClaimsAreInTheRows
  <2>1. term'[v][f] = term[v][f] /\ f # e /\ f \notin delivered
    BY <1>2, <1>3
  <2>2. owner'[f] = owner[f] /\ left'[f] = left[f]
    BY <1>2, <2>1 DEF OutboxInv, ClaimInv, OutboxTypeOK
  <2> QED BY <2>1, <2>2 DEF OutboxInv, ClaimsAreInTheRows
<1>9. OneCall' /\ AckedIsHandled' /\ AckedInTime'
  BY <1>1, <1>2, <1>3, AckEndedKeeps
<1> QED BY <1>4, <1>5, <1>6, <1>7, <1>8, <1>9 DEF OutboxInv, ClaimInv

LEMMA AckAbortKeeps == ASSUME OutboxInv, NEW w \in Workers, AckAbort(w) PROVE OutboxInv'
<1>1. AckForgotten(w) /\ UNCHANGED <<name, stored, owner, left, delivered, locked, hand, term>>
  BY DEF AckAbort, rows
<1>2. /\ locked \in [Workers -> SUBSET (1 .. stored)]
      /\ hand \in [Workers -> [Events -> Hands]]
      /\ term \in [Workers -> [Events -> 0 .. Lease]]
  BY DEF OutboxInv, ClaimInv, OutboxTypeOK
<1>3. OneCall' /\ AckedIsHandled' /\ AckedInTime'
  BY <1>1, AckEndedKeeps
<1>4. /\ acking' \in [Workers -> SUBSET (1 .. stored)]
      /\ overtaken' \in [Workers -> SUBSET (1 .. stored)]
  BY <1>1, AckEnded
<1> QED BY <1>1, <1>2, <1>3, <1>4, LettingGoKeeps

LEMMA CrashKeeps == ASSUME OutboxInv, NEW w \in Workers, Crash(w) PROVE OutboxInv'
<1>1. AckForgotten(w) /\ UNCHANGED <<name, stored, owner, left, delivered>>
  BY DEF Crash, rows
<1>2. /\ locked' \in [Workers -> SUBSET (1 .. stored)]
      /\ \A v \in Workers : locked'[v] \subseteq locked[v]
      /\ hand' \in [Workers -> [Events -> Hands]]
      /\ term' \in [Workers -> [Events -> 0 .. Lease]]
      /\ \A v \in Workers, f \in Events : term'[v][f] = term[v][f] \/ term'[v][f] = 0
      /\ \A v \in Workers : v # w => locked'[v] = locked[v] /\ hand'[v] = hand[v]
  BY DEF OutboxInv, ClaimInv, OutboxTypeOK, Crash, Hands
<1>3. OneCall' /\ AckedIsHandled' /\ AckedInTime'
  BY <1>1, <1>2, AckEndedKeeps
<1>4. /\ acking' \in [Workers -> SUBSET (1 .. stored)]
      /\ overtaken' \in [Workers -> SUBSET (1 .. stored)]
  BY <1>1, AckEnded
<1> QED BY <1>1, <1>2, <1>3, <1>4, LettingGoKeeps

\* Time takes the same from the row and from what the worker knows of it.
LEMMA TickKeeps == ASSUME OutboxInv, Tick PROVE OutboxInv'
<1>1. /\ left' \in [Events -> 0 .. Lease]
      /\ \A e \in Events : left'[e] = IF left[e] > 0 THEN left[e] - 1 ELSE 0
      /\ term' \in [Workers -> [Events -> 0 .. Lease]]
      /\ \A v \in Workers, e \in Events : term'[v][e] = IF term[v][e] > 0 THEN term[v][e] - 1 ELSE 0
      /\ UNCHANGED <<name, stored, owner, delivered, locked, hand, acking, overtaken>>
  BY DEF OutboxInv, ClaimInv, OutboxTypeOK, Tick, ackVars
<1>2. stored \in 0 .. NumEvents /\ delivered \subseteq Events
  BY DEF OutboxInv, ClaimInv, OutboxTypeOK, Events
<1>3. OutboxTypeOK'
  BY <1>1, <1>2 DEF OutboxInv, ClaimInv, OutboxTypeOK
<1>4. LockedRowsFree'
  <2>1. \A v \in Workers : locked[v] \subseteq Events
    BY NoClaimOnLockedRow
  <2> QED BY <1>1, <2>1 DEF OutboxInv, LockedRowsFree
<1>5. LiveClaimsExclusive'
  <2>1. \A v \in Workers, e \in Events : term'[v][e] > 0 => term[v][e] > 0
    BY <1>1
  <2> QED BY <2>1 DEF OutboxInv, ClaimInv, LiveClaimsExclusive
<1>6. ClaimedRowsStored'
  BY <1>1 DEF OutboxInv, ClaimInv, OutboxTypeOK, ClaimedRowsStored
<1>7. ClaimsAreInTheRows'
  <2> SUFFICES ASSUME NEW v \in Workers, NEW e \in Events, term'[v][e] > 0, e \notin delivered
               PROVE  owner[e] = {name[v]} /\ term'[v][e] <= left'[e]
    BY <1>1 DEF ClaimsAreInTheRows
  <2>1. term[v][e] \in Nat /\ left[e] \in Nat
    BY DEF OutboxInv, ClaimInv, OutboxTypeOK
  <2>2. term[v][e] > 0
    BY <1>1, <2>1
  <2> QED BY <1>1, <2>1, <2>2 DEF OutboxInv, ClaimsAreInTheRows
<1>8. OneCall' /\ AckedIsHandled'
  BY <1>1 DEF OutboxInv, OneCall, AckedIsHandled
<1>9. AckedInTime'
  <2> SUFFICES ASSUME NEW v \in Workers, NEW u \in Workers, NEW e \in acking[v], term'[u][e] > 0
               PROVE  name[v] = name[u] \/ e \in overtaken[v]
    BY <1>1 DEF AckedInTime
  <2>1. e \in Events
    BY AckedEvents
  <2>2. term[u][e] > 0
    BY <1>1, <2>1
  <2> QED BY <2>2 DEF OutboxInv, AckedInTime
<1> QED BY <1>3, <1>4, <1>5, <1>6, <1>7, <1>8, <1>9 DEF OutboxInv, ClaimInv

LEMMA NextKeepsOutbox == OutboxInv /\ [OutboxNext]_outboxVars => OutboxInv'
<1> SUFFICES ASSUME OutboxInv, [OutboxNext]_outboxVars PROVE OutboxInv'
  OBVIOUS
<1>1. CASE UNCHANGED outboxVars
  <2>1. UNCHANGED <<name, stored, owner, left, delivered, locked, hand, term, acking, overtaken>>
    BY <1>1 DEF outboxVars
  <2>2. OutboxTypeOK'
    BY <2>1 DEF OutboxInv, ClaimInv, OutboxTypeOK
  <2>3. LiveClaimsExclusive' /\ LockedRowsFree' /\ ClaimedRowsStored' /\ ClaimsAreInTheRows'
    BY <2>1 DEF OutboxInv, ClaimInv, LiveClaimsExclusive, LockedRowsFree, ClaimedRowsStored, ClaimsAreInTheRows
  <2>4. OneCall' /\ AckedIsHandled' /\ AckedInTime'
    BY <2>1 DEF OutboxInv, OneCall, AckedIsHandled, AckedInTime
  <2> QED BY <2>2, <2>3, <2>4 DEF OutboxInv, ClaimInv
<1>2. CASE InsertEvent
  BY <1>2, InsertEventKeeps
<1>3. CASE Tick
  BY <1>3, TickKeeps
<1>4. ASSUME NEW w \in Workers, ClaimSelect(w) PROVE OutboxInv'
  BY <1>4, ClaimSelectKeeps
<1>5. ASSUME NEW w \in Workers, ClaimEnds(w) PROVE OutboxInv'
  BY <1>5, ClaimAbortKeeps, ClaimCommitKeeps DEF ClaimEnds
<1>6. ASSUME NEW w \in Workers, Crash(w) PROVE OutboxInv'
  BY <1>6, CrashKeeps
<1>7. ASSUME NEW w \in Workers, NEW e \in Events, Handle(w, e) PROVE OutboxInv'
  BY <1>7, HandleKeeps
<1>8. ASSUME NEW w \in Workers, NEW e \in Events, AckScan(w, e) PROVE OutboxInv'
  BY <1>8, AckScanKeeps
<1>9. ASSUME NEW w \in Workers, NEW e \in Events, NEW heard \in BOOLEAN, AckWrite(w, e, heard)
      PROVE  OutboxInv'
  BY <1>9, AckWriteKeeps
<1>10. ASSUME NEW w \in Workers, AckAbort(w) PROVE OutboxInv'
  BY <1>10, AckAbortKeeps
<1> QED BY <1>1, <1>2, <1>3, <1>4, <1>5, <1>6, <1>7, <1>8, <1>9, <1>10 DEF OutboxNext

-----------------------------------------------------------------------------
(* Results.                                                                 *)

\* The outbox keeps its types, and no two workers hold an event under claims that
\* are both in force: claim_outbox locks only rows whose claim has lapsed and the
\* lock is kept until the claim is written.
THEOREM ClaimsExclusive == OutboxSpec => []ClaimInv
<1>1. OutboxInv => ClaimInv
  BY DEF OutboxInv
<1> QED BY <1>1, InitOutbox, NextKeepsOutbox, PTL DEF OutboxSpec

\* Only the trigger of an acknowledgement delivers, and it delivers nothing but the
\* event of that acknowledgement.
LEMMA StepSettles ==
    ASSUME OutboxInv, [OutboxNext]_outboxVars, NEW e \in delivered' \ delivered
    PROVE  \E v \in Workers :
              /\ hand[v][e] = "handled"
              /\ \A w \in Workers :
                    term[w][e] > 0 => name[v] = name[w] \/ e \in overtaken[v]
<1>1. PICK v \in Workers, f \in Events, heard \in BOOLEAN : AckWrite(v, f, heard)
  BY DEF OutboxNext, outboxVars, rows, InsertEvent, Tick, ClaimSelect, ClaimEnds, ClaimAbort, ClaimCommit, Crash, Handle,
     AckScan, AckAbort
<1>2. e = f /\ e \in acking[v]
  BY <1>1 DEF AckWrite
<1>3. hand[v][e] = "handled"
  BY <1>2 DEF OutboxInv, AckedIsHandled
<1>4. ASSUME NEW w \in Workers, term[w][e] > 0 PROVE name[v] = name[w] \/ e \in overtaken[v]
  BY <1>2, <1>4 DEF OutboxInv, AckedInTime
<1> QED BY <1>3, <1>4

\* An event is settled only by a process that carried it out, and while a claim on
\* it is in force only under the name of the worker that has it, or by an
\* acknowledgement that had found the row before that claim was made: the trigger
\* of the view writes by primary key and does not look at the row again.
THEOREM HandlerSettles == OutboxSpec => SettledByHandler
<1>1. OutboxInv /\ [OutboxNext]_outboxVars =>
        [\A e \in delivered' \ delivered :
            \E v \in Workers :
                /\ hand[v][e] = "handled"
                /\ \A w \in Workers :
                      term[w][e] > 0 => name[v] = name[w] \/ e \in overtaken[v]]_outboxVars
  BY StepSettles
<1> QED BY <1>1, InitOutbox, NextKeepsOutbox, PTL DEF OutboxSpec, SettledByHandler
=============================================================================
