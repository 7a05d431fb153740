------------------------ MODULE CommandLedgerProofs ------------------------
(***************************************************************************)
(* Proofs about CommandLedger, for any instances, envelopes and bounds.    *)
(***************************************************************************)
EXTENDS CommandLedger, FiniteSetTheorems, TLAPS

(* Sequences.                                                              *)

\* The prefix of a sequence up to its own length is the sequence.
LEMMA FullPrefix ==
    ASSUME NEW S, NEW s \in Seq(S)
    PROVE  SubSeq(s, 1, Len(s)) = s
  OBVIOUS

\* What a shorter prefix holds.
LEMMA PrefixHolds ==
    ASSUME NEW S, NEW s \in Seq(S), NEW n \in 0 .. Len(s)
    PROVE  /\ SubSeq(s, 1, n) \in Seq(S)
           /\ Len(SubSeq(s, 1, n)) = n
           /\ \A i \in 1 .. n : SubSeq(s, 1, n)[i] = s[i]
  OBVIOUS

\* What a sequence holds after an append.
LEMMA AppendHolds ==
    ASSUME NEW S, NEW s \in Seq(S), NEW x \in S
    PROVE  /\ Append(s, x) \in Seq(S)
           /\ Len(Append(s, x)) = Len(s) + 1
           /\ \A i \in 1 .. Len(s) : Append(s, x)[i] = s[i]
           /\ Append(s, x)[Len(s) + 1] = x
  OBVIOUS


-----------------------------------------------------------------------------
(* Types and the shape of the log.                                         *)

\* Hashes grow along the log, and a Run has no more versions than the log
\* has commits: this keeps versions and hashes within the bound.
LogInv ==
    /\ Len(log) <= commits
    /\ \A i \in 1 .. Len(log) : log[i].root <= commits
    /\ \A i, j \in 1 .. Len(log) : i < j => log[i].root < log[j].root
    /\ \A i \in 1 .. Len(log) : \A r \in Runs : log[i].runs[r].version <= i

\* An open transaction has an envelope, and a checkpoint to publish or to
\* mark is that of a commit.
HandlerInv ==
    \A p \in Instances :
        /\ pc[p] = "open" => envelope[p] \in Envelopes
        /\ pc[p] \in {"publishing", "marking"} => checkpoint[p].seq # 0

TypeInv == TypeOK /\ LogInv /\ HandlerInv

\* The parts of a step that the log does not see.
Quiet == UNCHANGED <<log, commits>>

\* The instance at rest has its types.
LEMMA RestTypes ==
    ASSUME TypeInv, NEW p \in Instances, NEW next \in {"down", "ready"},
           Rest(p, next)
    PROVE  /\ pc' \in [Instances -> {"down"} \cup Starting \cup Serving]
           /\ envelope' \in [Instances -> Envelopes \cup {NoEnvelope}]
           /\ snapshot' \in [Instances -> 0 .. MaxCommits]
           /\ checkpoint' \in [Instances -> Checkpoint]
           /\ HandlerInv'
  BY BoundsTyped
  DEF TypeInv, TypeOK, HandlerInv, Rest, Checkpoint, NoCheckpoint, Serving

\* A log that does not change keeps its invariant.
LEMMA QuietLog == TypeInv /\ Quiet => LogInv'
  BY DEF TypeInv, LogInv, Quiet

\* The checkpoint that a transaction or a start reads.
LEMMA LatestCheckpointType ==
    ASSUME TypeInv
    PROVE  /\ LatestCheckpoint(log) \in Checkpoint
           /\ log # <<>> => /\ LatestCheckpoint(log).seq = Len(log)
                            /\ Len(log) \in 1 .. MaxCommits
                            /\ LatestCheckpoint(log).root = log[Len(log)].root
  <1>1. log \in Seq(Commit) /\ Len(log) <= commits /\ commits \in 0 .. MaxCommits
    BY DEF TypeInv, TypeOK, LogInv
  <1>2. CASE log = <<>>
    BY <1>2, BoundsTyped DEF LatestCheckpoint, Checkpoint, NoCheckpoint
  <1>3. CASE log # <<>>
    <2>1. Len(log) \in 1 .. MaxCommits
      BY <1>1, <1>3, BoundsTyped
    <2>2. log[Len(log)] \in Commit
      BY <1>1, <2>1
    <2> QED
      BY <1>3, <2>1, <2>2, BoundsTyped DEF LatestCheckpoint, Checkpoint, Commit
  <1> QED
    BY <1>2, <1>3

\* The Run rows a transaction reads.
LEMMA RunRowsType ==
    ASSUME TypeInv
    PROVE  /\ RunRows(log) \in [Runs -> RunRow]
           /\ \A r \in Runs : RunRows(log)[r].version <= Len(log)
  <1>1. log \in Seq(Commit)
    BY DEF TypeInv, TypeOK
  <1>2. CASE log = <<>>
    BY <1>2, BoundsTyped DEF RunRows, RunRow
  <1>3. CASE log # <<>>
    <2>1. Len(log) \in 1 .. Len(log) /\ log[Len(log)] \in Commit
      BY <1>1, <1>3
    <2> QED
      BY <1>3, <2>1 DEF RunRows, Commit, TypeInv, LogInv
  <1> QED
    BY <1>2, <1>3

\* The commit that a serializable transaction writes.
LEMMA NewCommitType ==
    ASSUME TypeInv, NEW p \in Instances, NEW governed \in BOOLEAN,
           CommitCommand(p, governed)
    PROVE  /\ Snapshot(p) = log
           /\ envelope[p] \in Envelopes
           /\ NewCommit(p, governed) \in Commit
           /\ NewCommit(p, governed).env = envelope[p]
           /\ NewCommit(p, governed).root = commits + 1
           /\ NewCommit(p, governed).previous = LatestCheckpoint(log).root
           /\ \A r \in Runs :
                 NewCommit(p, governed).runs[r].version <= Len(log) + 1
  <1>1. Snapshot(p) = log
    BY FullPrefix DEF CommitCommand, Serializable, Snapshot, TypeInv, TypeOK
  <1>2. envelope[p] \in Envelopes
    BY DEF CommitCommand, TypeInv, HandlerInv
  <1> DEFINE e == envelope[p]
             row == RunRows(log)[e.run]
             adm == ~governed /\ (row.admitted \/ e.kind = "admit")
             new == [version |-> row.version + 1, admitted |-> adm]
             c == NewCommit(p, governed)
  <1>3. e.run \in Runs
    BY <1>2, EnvelopesTyped
  <1>4. row \in RunRow /\ row.version <= Len(log)
    BY <1>3, RunRowsType
  <1>5. Len(log) \in Nat /\ Len(log) <= commits /\ commits \in 0 .. MaxCommits
        /\ commits < MaxCommits
    BY DEF TypeInv, TypeOK, LogInv, CommitCommand
  <1>6. row.version + 1 \in 1 .. MaxCommits
    BY <1>4, <1>5, BoundsTyped DEF RunRow
  <1>7. adm \in BOOLEAN
    BY <1>4 DEF RunRow
  <1>8. new \in RunRow
    BY <1>6, <1>7 DEF RunRow
  <1>9. [RunRows(log) EXCEPT ![e.run] = new] \in [Runs -> RunRow]
    BY <1>8, RunRowsType
  <1>10. c = [env |-> e, version |-> row.version + 1, governed |-> governed,
              previous |-> LatestCheckpoint(log).root, root |-> commits + 1,
              runs |-> [RunRows(log) EXCEPT ![e.run] = new]]
    BY <1>1 DEF NewCommit
  <1>11. LatestCheckpoint(log).root \in 0 .. MaxCommits
    BY LatestCheckpointType DEF Checkpoint
  <1>12. commits + 1 \in 1 .. MaxCommits
    BY <1>5, BoundsTyped
  <1>13. c \in Commit
    BY <1>2, <1>6, <1>9, <1>10, <1>11, <1>12 DEF Commit
  <1>14. \A r \in Runs : c.runs[r].version <= Len(log) + 1
    <2> TAKE r \in Runs
    <2>1. RunRows(log)[r] \in RunRow /\ RunRows(log)[r].version <= Len(log)
      BY RunRowsType
    <2> QED
      BY <1>3, <1>4, <1>5, <1>10, <2>1, RunRowsType DEF RunRow
  <1> QED
    BY <1>1, <1>2, <1>10, <1>13, <1>14

\* A commit keeps the shape of the log.
LEMMA CommitLog ==
    ASSUME TypeInv, NEW p \in Instances, NEW governed \in BOOLEAN,
           CommitCommand(p, governed)
    PROVE  log' \in Seq(Commit) /\ LogInv'
  <1> DEFINE c == NewCommit(p, governed)
  <1> HIDE DEF c
  <1>1. log \in Seq(Commit) /\ LogInv /\ commits \in 0 .. MaxCommits
    BY DEF TypeInv, TypeOK
  <1>2. log' = Append(log, c) /\ commits' = commits + 1
    BY DEF CommitCommand, c
  <1>3. c \in Commit /\ c.root = commits + 1
        /\ \A r \in Runs : c.runs[r].version <= Len(log) + 1
    BY NewCommitType DEF c
  <1>4. /\ log' \in Seq(Commit)
        /\ Len(log') = Len(log) + 1
        /\ \A i \in 1 .. Len(log) : log'[i] = log[i]
        /\ log'[Len(log) + 1] = c
    BY <1>1, <1>2, <1>3, AppendHolds
  <1>5. Len(log) \in Nat /\ commits \in Nat
    BY <1>1
  <1>6. \A i \in 1 .. Len(log') : i \in 1 .. Len(log) \/ i = Len(log) + 1
    BY <1>4, <1>5
  <1>7. Len(log') <= commits'
    BY <1>1, <1>2, <1>4, <1>5 DEF LogInv
  <1>8. \A i \in 1 .. Len(log) : log[i].root \in Nat
    <2>1. \A i \in 1 .. Len(log) : log[i] \in Commit
      BY <1>1
    <2> QED
      BY <2>1 DEF Commit
  <1>9. \A i \in 1 .. Len(log') : log'[i].root <= commits'
    BY <1>1, <1>2, <1>3, <1>4, <1>5, <1>6, <1>8 DEF LogInv
  <1>10. \A i, j \in 1 .. Len(log') : i < j => log'[i].root < log'[j].root
    <2> SUFFICES ASSUME NEW i \in 1 .. Len(log'), NEW j \in 1 .. Len(log'), i < j
                 PROVE  log'[i].root < log'[j].root
      OBVIOUS
    <2>1. i \in 1 .. Len(log)
      BY <1>4, <1>5, <1>6
    <2>2. CASE j \in 1 .. Len(log)
      BY <2>1, <2>2, <1>1, <1>4 DEF LogInv
    <2>3. CASE j = Len(log) + 1
      <3>1. log[i].root <= commits
        BY <2>1, <1>1 DEF LogInv
      <3> QED
        BY <2>1, <2>3, <3>1, <1>3, <1>4, <1>5, <1>8
    <2> QED
      BY <1>6, <2>2, <2>3
  <1>11. \A i \in 1 .. Len(log') : \A r \in Runs : log'[i].runs[r].version <= i
    BY <1>1, <1>3, <1>4, <1>6 DEF LogInv
  <1> QED
    BY <1>4, <1>7, <1>9, <1>10, <1>11 DEF LogInv

\* A restore keeps the shape of the log.
LEMMA RestoreLog ==
    ASSUME TypeInv, NEW n \in 0 .. MaxCommits, NEW marks,
           RestoreDatabase(n, marks)
    PROVE  /\ log' \in Seq(Commit)
           /\ Len(log') = n /\ n < Len(log)
           /\ \A i \in 1 .. n : log'[i] = log[i]
           /\ LogInv'
  <1>1. log \in Seq(Commit) /\ LogInv /\ commits \in Nat /\ n \in Nat
    BY BoundsTyped DEF TypeInv, TypeOK
  <1>2. n < Len(log) /\ log' = SubSeq(log, 1, n) /\ commits' = commits
    BY DEF RestoreDatabase
  <1>3. n \in 0 .. Len(log) /\ \A i \in 1 .. n : i \in 1 .. Len(log)
    BY <1>1, <1>2
  <1>4. /\ log' \in Seq(Commit) /\ Len(log') = n
        /\ \A i \in 1 .. n : log'[i] = log[i]
    BY <1>1, <1>2, <1>3, PrefixHolds
  <1>5. Len(log') <= commits'
    BY <1>1, <1>2, <1>4 DEF LogInv
  <1>6. LogInv'
    BY <1>1, <1>2, <1>3, <1>4, <1>5 DEF LogInv
  <1> QED
    BY <1>2, <1>4, <1>6

\* The invariant holds at first.
LEMMA TypeInit == Init => TypeInv
  <1> SUFFICES ASSUME Init
               PROVE  TypeInv
    OBVIOUS
  <1>1. exposed \in BOOLEAN
    BY Zenon DEF Init
  <1>2. TypeOK
    BY <1>1, BoundsTyped DEF Init, TypeOK, Checkpoint, NoCheckpoint
  <1>3. LogInv /\ HandlerInv
    BY BoundsTyped DEF Init, LogInv, HandlerInv
  <1> QED
    BY <1>2, <1>3 DEF TypeInv

\* Every step of an instance that handles a command keeps the invariant.
LEMMA HandleTypes ==
    ASSUME TypeInv, NEW p \in Instances, Handle(p)
    PROVE  TypeInv'
  <1> USE BoundsTyped
  <1>1. ASSUME NEW e \in Envelopes, Begin(p, e)
        PROVE  TypeInv'
    <2>1. LogInv'
      BY <1>1, QuietLog DEF Begin, Quiet
    <2>2. Len(log) \in 0 .. MaxCommits
      BY DEF TypeInv, TypeOK, LogInv
    <2> QED
      BY <1>1, <2>1, <2>2
      DEF Begin, TypeInv, TypeOK, HandlerInv, Serving, faultVars
  <1>2. CASE Replay(p) \/ Refuse(p) \/ PublishRefused(p)
    <2>1. Rest(p, "ready") /\ Quiet
          /\ UNCHANGED <<published, anchor, crashes, outages, restores, exposed>>
      BY <1>2 DEF Replay, Refuse, PublishRefused, Quiet, faultVars
    <2>2. LogInv'
      BY <2>1, QuietLog
    <2> QED
      BY <2>1, <2>2, RestTypes DEF TypeInv, TypeOK, Quiet, Serving
  <1>3. ASSUME NEW governed \in BOOLEAN, CommitCommand(p, governed)
        PROVE  TypeInv'
    <2>1. log' \in Seq(Commit) /\ LogInv'
      BY <1>3, CommitLog
    <2>2. commits' \in 0 .. MaxCommits /\ commits + 1 \in 1 .. MaxCommits
          /\ Len(log) + 1 \in 1 .. MaxCommits
      BY <1>3 DEF CommitCommand, TypeInv, TypeOK, LogInv
    <2>3. [seq |-> Len(log) + 1, root |-> commits + 1] \in Checkpoint
      BY <2>2 DEF Checkpoint
    <2>4. checkpoint' \in [Instances -> Checkpoint]
      BY <1>3, <2>3 DEF CommitCommand, TypeInv, TypeOK
    <2>5. pc' \in [Instances -> {"down"} \cup Starting \cup Serving]
          /\ HandlerInv'
      BY <1>3 DEF CommitCommand, TypeInv, TypeOK, HandlerInv, Serving
    <2>6. UNCHANGED <<published, anchor, envelope, snapshot, crashes, outages,
                      restores, exposed>>
      BY <1>3 DEF CommitCommand, faultVars
    <2> QED
      BY <2>1, <2>2, <2>4, <2>5, <2>6 DEF TypeInv, TypeOK
  <1>4. CASE PublishCheckpoint(p)
    <2>1. LogInv'
      BY <1>4, QuietLog DEF PublishCheckpoint, Quiet
    <2> QED
      BY <1>4, <2>1
      DEF PublishCheckpoint, TypeInv, TypeOK, HandlerInv, Serving, faultVars
  <1>5. CASE MarkPublished(p)
    <2>1. Rest(p, "ready") /\ Quiet
          /\ UNCHANGED <<anchor, crashes, outages, restores, exposed>>
      BY <1>5 DEF MarkPublished, Quiet, faultVars
    <2>2. LogInv'
      BY <2>1, QuietLog
    <2>3. published' \in SUBSET (1 .. MaxCommits)
      <3>1. checkpoint[p] \in Checkpoint /\ published \in SUBSET (1 .. MaxCommits)
        BY DEF TypeInv, TypeOK
      <3>2. checkpoint[p].seq # 0
        BY <1>5 DEF MarkPublished, TypeInv, HandlerInv
      <3>3. checkpoint[p].seq \in 1 .. MaxCommits
        BY <3>1, <3>2 DEF Checkpoint
      <3> QED
        BY <1>5, <3>1, <3>3 DEF MarkPublished
    <2> QED
      BY <2>1, <2>2, <2>3, RestTypes DEF TypeInv, TypeOK, Quiet, Serving
  <1> QED
    BY <1>1, <1>2, <1>3, <1>4, <1>5 DEF Handle

\* Every step of a start keeps the invariant.
LEMMA VerifyTypes ==
    ASSUME TypeInv, NEW p \in Instances, VerifyExternalAnchor(p)
    PROVE  TypeInv'
  <1>1. LogInv'
    <2>1. Quiet
      BY DEF VerifyExternalAnchor, StartInstance, LoadAnchor, RepublishTail,
             ReloadAnchor, Quiet
    <2> QED
      BY <2>1, QuietLog
  <1>2. CASE StartInstance(p)
    <2>1. checkpoint' \in [Instances -> Checkpoint] /\ exposed' \in BOOLEAN
      BY <1>2, LatestCheckpointType DEF StartInstance, TypeInv, TypeOK
    <2> QED
      BY <1>1, <1>2, <2>1
      DEF StartInstance, TypeInv, TypeOK, HandlerInv, Starting, Serving, faultVars
  <1>3. CASE LoadAnchor(p)
    <2>1. UNCHANGED <<log, published, commits, anchor, crashes, outages, restores,
                    exposed>>
      BY <1>3 DEF LoadAnchor, faultVars
    <2>2. CASE AnchorBehind(checkpoint[p])
      BY <1>1, <1>3, <2>1, <2>2
      DEF LoadAnchor, TypeInv, TypeOK, HandlerInv, Starting
    <2>3. CASE ~AnchorBehind(checkpoint[p])
      <3>1. PICK next \in {"down", "ready"} : Rest(p, next)
        BY <1>3, <2>3 DEF LoadAnchor
      <3> QED
        BY <1>1, <2>1, <3>1, RestTypes DEF TypeInv, TypeOK
    <2> QED
      BY <2>2, <2>3
  <1>4. CASE RepublishTail(p)
    <2>1. UNCHANGED <<log, published, commits, crashes, outages, restores, exposed>>
      BY <1>4 DEF RepublishTail, faultVars
    <2>2. CASE AnchorAccepts(checkpoint[p])
      BY <1>1, <1>4, <2>1, <2>2
      DEF RepublishTail, TypeInv, TypeOK, HandlerInv, Starting
    <2>3. CASE ~AnchorAccepts(checkpoint[p])
      <3>1. Rest(p, "down") /\ UNCHANGED anchor
        BY <1>4, <2>3 DEF RepublishTail
      <3> QED
        BY <1>1, <2>1, <3>1, RestTypes DEF TypeInv, TypeOK
    <2> QED
      BY <2>2, <2>3
  <1>5. CASE ReloadAnchor(p)
    <2>1. UNCHANGED <<log, published, commits, anchor, crashes, outages, restores,
                    exposed>>
      BY <1>5 DEF ReloadAnchor, faultVars
    <2>2. PICK next \in {"down", "ready"} : Rest(p, next)
      BY <1>5 DEF ReloadAnchor
    <2> QED
      BY <1>1, <2>1, <2>2, RestTypes DEF TypeInv, TypeOK
  <1> QED
    BY <1>2, <1>3, <1>4, <1>5 DEF VerifyExternalAnchor

\* Every fault keeps the invariant.
LEMMA FaultTypes ==
    ASSUME TypeInv
    PROVE  /\ \A p \in Instances : Crash(p) \/ Outage(p) => TypeInv'
           /\ Restore => TypeInv'
  <1> USE BoundsTyped
  <1>1. ASSUME NEW p \in Instances, Crash(p) \/ Outage(p)
        PROVE  TypeInv'
    <2>1. PICK next \in {"down", "ready"} : Rest(p, next)
      BY <1>1 DEF Crash, Outage
    <2>2. UNCHANGED <<log, published, commits, anchor, restores, exposed>>
          /\ crashes' \in 0 .. MaxCrashes /\ outages' \in 0 .. MaxOutages
      BY <1>1 DEF Crash, Outage, TypeInv, TypeOK
    <2>3. LogInv'
      BY <2>2, QuietLog DEF Quiet
    <2> QED
      BY <2>1, <2>2, <2>3, RestTypes DEF TypeInv, TypeOK
  <1>2. ASSUME NEW n \in 0 .. MaxCommits, NEW marks \in SUBSET (published \cap 1 .. n),
               RestoreDatabase(n, marks)
        PROVE  TypeInv'
    <2>1. log' \in Seq(Commit) /\ LogInv'
      BY <1>2, RestoreLog
    <2>2. published' \in SUBSET (1 .. MaxCommits) /\ restores' \in 0 .. MaxRestores
          /\ exposed' \in BOOLEAN
      BY <1>2 DEF RestoreDatabase, TypeInv, TypeOK
    <2>3. pc' \in [Instances -> {"down"} \cup Starting \cup Serving]
          /\ envelope' \in [Instances -> Envelopes \cup {NoEnvelope}]
          /\ snapshot' \in [Instances -> 0 .. MaxCommits]
          /\ HandlerInv'
      BY <1>2 DEF RestoreDatabase, TypeInv, TypeOK, HandlerInv, Serving
    <2> QED
      BY <1>2, <2>1, <2>2, <2>3 DEF RestoreDatabase, TypeInv, TypeOK
  <1> QED
    BY <1>1, <1>2 DEF Restore

\* Every step keeps the invariant.
LEMMA TypeStep == TypeInv /\ [Next]_vars => TypeInv'
  <1> SUFFICES ASSUME TypeInv, [Next]_vars
               PROVE  TypeInv'
    OBVIOUS
  <1>1. CASE UNCHANGED vars
    BY <1>1 DEF vars, TypeInv, TypeOK, LogInv, HandlerInv
  <1>2. CASE Next
    BY <1>2, HandleTypes, VerifyTypes, FaultTypes DEF Next
  <1> QED
    BY <1>1, <1>2

\* TypeInv holds in every reachable state.
LEMMA TypeInvariance == Spec => []TypeInv
  BY TypeInit, TypeStep, PTL DEF Spec

\* Every variable keeps its type, for any instances, envelopes and bounds.
THEOREM LedgerTypes == Spec => []TypeOK
  BY TypeInvariance, PTL DEF TypeInv

-----------------------------------------------------------------------------
(* The chain and the uniqueness of effects.                                *)

\* Only a commit and a restore change the log.
LEMMA LogMoves ==
    ASSUME [Next]_vars
    PROVE  \/ UNCHANGED log
           \/ \E p \in Instances, governed \in BOOLEAN : CommitCommand(p, governed)
           \/ \E n \in 0 .. MaxCommits, marks \in SUBSET published :
                 RestoreDatabase(n, marks)
  <1>1. CASE UNCHANGED vars
    BY <1>1 DEF vars
  <1>2. ASSUME NEW p \in Instances, Handle(p)
        PROVE  \/ UNCHANGED log
               \/ \E governed \in BOOLEAN : CommitCommand(p, governed)
    BY <1>2 DEF Handle, Begin, Replay, Refuse, PublishCheckpoint, PublishRefused,
               MarkPublished
  <1>3. ASSUME NEW p \in Instances,
               VerifyExternalAnchor(p) \/ Crash(p) \/ Outage(p)
        PROVE  UNCHANGED log
    BY <1>3 DEF VerifyExternalAnchor, StartInstance, LoadAnchor, RepublishTail,
               ReloadAnchor, Crash, Outage
  <1>4. ASSUME Restore
        PROVE  \E n \in 0 .. MaxCommits, marks \in SUBSET published :
                  RestoreDatabase(n, marks)
    BY <1>4 DEF Restore
  <1> QED
    BY <1>1, <1>2, <1>3, <1>4 DEF Next

\* What a commit adds to the log: an event that carries the hash of the one
\* before it, of a command and a nonce that are new.
LEMMA CommitAdds ==
    ASSUME TypeInv, NEW p \in Instances, NEW governed \in BOOLEAN,
           CommitCommand(p, governed)
    PROVE  /\ Len(log') = Len(log) + 1
           /\ \A i \in 1 .. Len(log) : log'[i] = log[i]
           /\ log'[Len(log) + 1].env = envelope[p]
           /\ log'[Len(log) + 1].root = commits + 1
           /\ log'[Len(log) + 1].previous =
                 IF Len(log) = 0 THEN 0 ELSE log[Len(log)].root
           /\ \A i \in 1 .. Len(log) : /\ log[i].env.id # envelope[p].id
                                       /\ log[i].env.nonce # envelope[p].nonce
           /\ envelope[p] \in Envelopes
  <1> DEFINE c == NewCommit(p, governed)
  <1>1. log \in Seq(Commit)
    BY DEF TypeInv, TypeOK
  <1>2. /\ Snapshot(p) = log /\ envelope[p] \in Envelopes /\ c \in Commit
        /\ c.env = envelope[p] /\ c.root = commits + 1
        /\ c.previous = LatestCheckpoint(log).root
    BY NewCommitType
  <1>3. log' = Append(log, c)
    BY DEF CommitCommand
  <1> HIDE DEF c
  <1>4. /\ Len(log') = Len(log) + 1
        /\ \A i \in 1 .. Len(log) : log'[i] = log[i]
        /\ log'[Len(log) + 1] = c
    BY <1>1, <1>2, <1>3, AppendHolds
  <1>5. LatestCheckpoint(log).root = IF Len(log) = 0 THEN 0 ELSE log[Len(log)].root
    BY <1>1 DEF LatestCheckpoint, NoCheckpoint
  <1>6. ReceiptsOf(log, envelope[p]) = {} /\ NonceUnused(log, envelope[p])
    BY <1>2 DEF CommitCommand
  <1>7. \A i \in 1 .. Len(log) : /\ log[i].env.id # envelope[p].id
                                 /\ log[i].env.nonce # envelope[p].nonce
    BY <1>6 DEF ReceiptsOf, NonceUnused
  <1> QED
    BY <1>2, <1>4, <1>5, <1>7

\* A commit, a restore and every other step keep the chain linear.
LEMMA ChainStep == TypeInv /\ ChainLinear /\ [Next]_vars => ChainLinear'
  <1> SUFFICES ASSUME TypeInv, ChainLinear, [Next]_vars
               PROVE  ChainLinear'
    OBVIOUS
  <1>1. CASE UNCHANGED log
    BY <1>1 DEF ChainLinear
  <1>2. ASSUME NEW p \in Instances, NEW governed \in BOOLEAN,
               CommitCommand(p, governed)
        PROVE  ChainLinear'
    <2>1. Len(log) \in Nat
      BY DEF TypeInv, TypeOK
    <2> SUFFICES ASSUME NEW i \in 1 .. Len(log')
                 PROVE  log'[i].previous = IF i = 1 THEN 0 ELSE log'[i - 1].root
      BY DEF ChainLinear
    <2>2. CASE i \in 1 .. Len(log)
      <3>1. i = 1 \/ i - 1 \in 1 .. Len(log)
        BY <2>1, <2>2
      <3> QED
        BY <1>2, <2>2, <3>1, CommitAdds DEF ChainLinear
    <2>3. CASE i = Len(log) + 1
      <3>1. CASE Len(log) = 0
        BY <1>2, <2>3, <3>1, CommitAdds
      <3>2. CASE Len(log) # 0
        <4>1. Len(log) \in 1 .. Len(log) /\ i - 1 = Len(log) /\ i # 1
          BY <2>1, <2>3, <3>2
        <4> QED
          BY <1>2, <2>3, <3>2, <4>1, CommitAdds
      <3> QED
        BY <3>1, <3>2
    <2> QED
      BY <1>2, <2>1, <2>2, <2>3, CommitAdds
  <1>3. ASSUME NEW n \in 0 .. MaxCommits, NEW marks, RestoreDatabase(n, marks)
        PROVE  ChainLinear'
    <2>1. n \in Nat /\ Len(log) \in Nat
      BY BoundsTyped DEF TypeInv, TypeOK
    <2> SUFFICES ASSUME NEW i \in 1 .. Len(log')
                 PROVE  log'[i].previous = IF i = 1 THEN 0 ELSE log'[i - 1].root
      BY DEF ChainLinear
    <2>2. /\ i \in 1 .. n /\ i \in 1 .. Len(log)
          /\ i = 1 \/ i - 1 \in 1 .. n
      BY <1>3, <2>1, RestoreLog
    <2> QED
      BY <1>3, <2>2, RestoreLog DEF ChainLinear
  <1> QED
    BY <1>1, <1>2, <1>3, LogMoves

\* The audit chain of a tenant is linear, however the transactions of the
\* instances overlap, crash or are restored away: SERIALIZABLE isolation is
\* what the proof needs.
THEOREM ChainIsLinear == Spec => []ChainLinear
  <1>1. Init => ChainLinear
    BY DEF Init, ChainLinear
  <1> QED
    BY <1>1, TypeInvariance, ChainStep, PTL DEF Spec

\* A commit, a restore and every other step keep effects unique.
LEMMA EffectStep == TypeInv /\ EffectOnce /\ [Next]_vars => EffectOnce'
  <1> SUFFICES ASSUME TypeInv, EffectOnce, [Next]_vars
               PROVE  EffectOnce'
    OBVIOUS
  <1>1. CASE UNCHANGED log
    BY <1>1 DEF EffectOnce
  <1>2. ASSUME NEW p \in Instances, NEW governed \in BOOLEAN,
               CommitCommand(p, governed)
        PROVE  EffectOnce'
    <2>1. Len(log) \in Nat
      BY DEF TypeInv, TypeOK
    <2>2. \A i \in 1 .. Len(log') : i \in 1 .. Len(log) \/ i = Len(log) + 1
      BY <1>2, <2>1, CommitAdds
    <2> QED
      BY <1>2, <2>2, CommitAdds DEF EffectOnce
  <1>3. ASSUME NEW n \in 0 .. MaxCommits, NEW marks, RestoreDatabase(n, marks)
        PROVE  EffectOnce'
    <2>1. n \in Nat /\ Len(log) \in Nat
      BY BoundsTyped DEF TypeInv, TypeOK
    <2>2. Len(log') = n /\ \A i \in 1 .. n : i \in 1 .. Len(log) /\ log'[i] = log[i]
      BY <1>3, <2>1, RestoreLog
    <2> QED
      BY <2>2 DEF EffectOnce
  <1> QED
    BY <1>1, <1>2, <1>3, LogMoves

\* No command takes effect twice and no proof is consumed twice, through
\* retries, lost answers and concurrent instances.
THEOREM EffectsAreUnique == Spec => []EffectOnce
  <1>1. Init => EffectOnce
    BY DEF Init, EffectOnce
  <1> QED
    BY <1>1, TypeInvariance, EffectStep, PTL DEF Spec

-----------------------------------------------------------------------------
(* The versions of the Runs.                                               *)

\* The commits of Run r among the first n of the sequence l.
CommitsOf(l, n, r) == {j \in 1 .. n : l[j].env.run = r}

\* The rows a commit leaves count the commits of every Run.
RowsCount ==
    \A i \in 1 .. Len(log) : \A r \in Runs :
        log[i].runs[r].version = Cardinality(CommitsOf(log, i, r))

VersionInv == RowsCount /\ VersionsInOrder

\* Two logs with the same first n commits.
Agree(l, m, n) == \A i \in 1 .. n : l[i] = m[i]

\* Counting one commit more, and counting in two logs that agree.
LEMMA CommitsOfFacts ==
    ASSUME NEW l, NEW m, NEW n \in Nat, NEW r, Agree(l, m, n)
    PROVE  /\ CommitsOf(l, n, r) = CommitsOf(m, n, r)
           /\ IsFiniteSet(CommitsOf(l, n, r)) /\ Cardinality(CommitsOf(l, n, r)) \in Nat
           /\ Cardinality(CommitsOf(l, n + 1, r)) =
                 IF l[n + 1].env.run = r THEN Cardinality(CommitsOf(l, n, r)) + 1
                                         ELSE Cardinality(CommitsOf(l, n, r))
  <1>1. CommitsOf(l, n, r) = CommitsOf(m, n, r)
    BY DEF CommitsOf, Agree
  <1>2. IsFiniteSet(CommitsOf(l, n, r))
    <2>1. IsFiniteSet(1 .. n)
      BY FS_Interval
    <2>2. CommitsOf(l, n, r) \in SUBSET (1 .. n)
      BY DEF CommitsOf
    <2> QED
      BY <2>1, <2>2, FS_Subset
  <1>3. n + 1 \notin CommitsOf(l, n, r)
    BY DEF CommitsOf
  <1>4. CASE l[n + 1].env.run = r
    <2>1. CommitsOf(l, n + 1, r) = CommitsOf(l, n, r) \cup {n + 1}
      BY <1>4 DEF CommitsOf
    <2> QED
      BY <1>1, <1>2, <1>3, <1>4, <2>1, FS_AddElement, FS_CardinalityType
  <1>5. CASE l[n + 1].env.run # r
    <2>1. CommitsOf(l, n + 1, r) = CommitsOf(l, n, r)
      BY <1>5 DEF CommitsOf
    <2> QED
      BY <1>1, <1>2, <1>5, <2>1, FS_CardinalityType
  <1> QED
    BY <1>4, <1>5

\* One entry of VersionsInOrder.
VersionAt(l, i) ==
    LET before == Cardinality(CommitsOf(l, i - 1, l[i].env.run))
    IN  /\ l[i].version = before + 1
        /\ ~l[i].governed => l[i].env.expected = before

LEMMA VersionsAt ==
    /\ VersionsInOrder <=> \A i \in 1 .. Len(log) : VersionAt(log, i)
    /\ VersionsInOrder' <=> \A i \in 1 .. Len(log') : VersionAt(log', i)
  BY DEF VersionsInOrder, VersionAt, CommitsOf

\* The rows a transaction reads count the commits so far.
LEMMA RowsRead ==
    ASSUME TypeInv, RowsCount, NEW r \in Runs
    PROVE  RunRows(log)[r].version = Cardinality(CommitsOf(log, Len(log), r))
  <1>1. log \in Seq(Commit) /\ Len(log) \in Nat
    BY DEF TypeInv, TypeOK
  <1>2. CASE log = <<>>
    <2>1. CommitsOf(log, Len(log), r) = {}
      BY <1>2 DEF CommitsOf
    <2> QED
      BY <1>2, <2>1, FS_EmptySet DEF RunRows
  <1>3. CASE log # <<>>
    <2>1. Len(log) \in 1 .. Len(log)
      BY <1>1, <1>3
    <2> QED
      BY <1>3, <2>1 DEF RunRows, RowsCount
  <1> QED
    BY <1>2, <1>3

\* A commit is numbered after the ones the transaction has read.
LEMMA CommitVersion ==
    ASSUME TypeInv, VersionInv, NEW p \in Instances, NEW governed \in BOOLEAN,
           CommitCommand(p, governed)
    PROVE  VersionInv'
  <1> DEFINE n == Len(log)
             e == envelope[p]
             c == NewCommit(p, governed)
             rows == RunRows(log)
  <1>1. /\ n \in Nat /\ Len(log') = n + 1
        /\ \A i \in 1 .. n : log'[i] = log[i]
        /\ e \in Envelopes
    BY CommitAdds DEF TypeInv, TypeOK
  <1>2. e.run \in Runs
    BY <1>1, EnvelopesTyped
  <1>3. Snapshot(p) = log /\ log'[n + 1] = c
    <2>1. log \in Seq(Commit) /\ c \in Commit /\ Snapshot(p) = log
      BY NewCommitType DEF TypeInv, TypeOK
    <2>2. log' = Append(log, c)
      BY DEF CommitCommand
    <2> QED
      BY <2>1, <2>2, AppendHolds
  <1>4. /\ c.env = e /\ c.governed = governed /\ c.version = rows[e.run].version + 1
        /\ c.runs[e.run].version = rows[e.run].version + 1
        /\ \A r \in Runs \ {e.run} : c.runs[r].version = rows[r].version
    <2>1. rows \in [Runs -> RunRow]
      BY RunRowsType
    <2> QED
      BY <1>2, <1>3, <2>1 DEF NewCommit
  <1>5. ~governed => e.expected = rows[e.run].version
    BY <1>3 DEF CommitCommand, TransitionAccepts
  <1>6. \A r \in Runs : /\ rows[r].version = Cardinality(CommitsOf(log, n, r))
                        /\ CommitsOf(log', n, r) = CommitsOf(log, n, r)
                        /\ Cardinality(CommitsOf(log', n, r)) \in Nat
                        /\ Cardinality(CommitsOf(log', n + 1, r)) =
                              IF c.env.run = r THEN Cardinality(CommitsOf(log', n, r)) + 1
                                               ELSE Cardinality(CommitsOf(log', n, r))
    <2> SUFFICES ASSUME NEW r \in Runs
                 PROVE  /\ rows[r].version = Cardinality(CommitsOf(log, n, r))
                        /\ CommitsOf(log', n, r) = CommitsOf(log, n, r)
                        /\ Cardinality(CommitsOf(log', n, r)) \in Nat
                        /\ Cardinality(CommitsOf(log', n + 1, r)) =
                              IF c.env.run = r THEN Cardinality(CommitsOf(log', n, r)) + 1
                                               ELSE Cardinality(CommitsOf(log', n, r))
      OBVIOUS
    <2>1. rows[r].version = Cardinality(CommitsOf(log, n, r))
      BY RowsRead DEF VersionInv
    <2>2. Agree(log', log, n)
      BY <1>1 DEF Agree
    <2> HIDE DEF c, rows, e, n
    <2> QED
      BY <1>1, <1>3, <2>1, <2>2, CommitsOfFacts
  <1> HIDE DEF c, rows, e, n
  <1>7. ASSUME NEW i \in 1 .. n, NEW k \in 0 .. i, NEW r
        PROVE  CommitsOf(log', k, r) = CommitsOf(log, k, r)
    BY <1>1, <1>7 DEF CommitsOf
  <1>8. RowsCount'
    <2> SUFFICES ASSUME NEW i \in 1 .. n + 1, NEW r \in Runs
                 PROVE  log'[i].runs[r].version = Cardinality(CommitsOf(log', i, r))
      BY <1>1 DEF RowsCount
    <2>1. CASE i \in 1 .. n
      <3>1. CommitsOf(log', i, r) = CommitsOf(log, i, r)
        BY <2>1, <1>1, <1>7
      <3> QED
        BY <2>1, <3>1, <1>1 DEF VersionInv, RowsCount, n
    <2>2. CASE i = n + 1
      BY <2>2, <1>1, <1>2, <1>3, <1>4, <1>6
    <2> QED
      BY <2>1, <2>2, <1>1
  <1>9. VersionsInOrder'
    <2> SUFFICES ASSUME NEW i \in 1 .. n + 1 PROVE VersionAt(log', i)
      BY <1>1, VersionsAt
    <2>1. CASE i \in 1 .. n
      <3>1. VersionAt(log, i)
        BY <2>1, VersionsAt DEF VersionInv, n
      <3>2. i - 1 \in 0 .. i
        BY <2>1, <1>1
      <3>3. CommitsOf(log', i - 1, log[i].env.run) = CommitsOf(log, i - 1, log[i].env.run)
        BY <2>1, <3>2, <1>7
      <3> QED
        BY <2>1, <3>1, <3>3, <1>1 DEF VersionAt
    <2>2. CASE i = n + 1
      <3>1. i - 1 = n
        BY <2>2, <1>1
      <3> QED
        BY <2>2, <3>1, <1>2, <1>3, <1>4, <1>5, <1>6 DEF VersionAt
    <2> QED
      BY <2>1, <2>2, <1>1
  <1> QED
    BY <1>8, <1>9 DEF VersionInv

LEMMA VersionStep == TypeInv /\ VersionInv /\ [Next]_vars => VersionInv'
  <1> SUFFICES ASSUME TypeInv, VersionInv, [Next]_vars
               PROVE  VersionInv'
    OBVIOUS
  <1>1. CASE UNCHANGED log
    BY <1>1 DEF VersionInv, RowsCount, VersionsInOrder, CommitsOf
  <1>2. ASSUME NEW p \in Instances, NEW governed \in BOOLEAN,
               CommitCommand(p, governed)
        PROVE  VersionInv'
    BY <1>2, CommitVersion
  <1>3. ASSUME NEW n \in 0 .. MaxCommits, NEW marks, RestoreDatabase(n, marks)
        PROVE  VersionInv'
    <2>1. n \in Nat /\ Len(log) \in Nat
      BY BoundsTyped DEF TypeInv, TypeOK
    <2>2. Len(log') = n /\ n < Len(log) /\ \A i \in 1 .. n : log'[i] = log[i]
      BY <1>3, RestoreLog DEF RestoreDatabase
    <2>3. ASSUME NEW i \in 1 .. n, NEW k \in 0 .. i, NEW r
          PROVE  CommitsOf(log', k, r) = CommitsOf(log, k, r)
      BY <2>1, <2>2, <2>3 DEF CommitsOf
    <2>4. RowsCount'
      <3> SUFFICES ASSUME NEW i \in 1 .. n, NEW r \in Runs
                   PROVE  log'[i].runs[r].version = Cardinality(CommitsOf(log', i, r))
        BY <2>2 DEF RowsCount
      <3>1. i \in 0 .. i /\ i \in 1 .. Len(log)
        BY <2>1, <2>2
      <3>2. CommitsOf(log', i, r) = CommitsOf(log, i, r)
        BY <3>1, <2>3
      <3> QED
        BY <3>1, <3>2, <2>2 DEF VersionInv, RowsCount
    <2>5. VersionsInOrder'
      <3> SUFFICES ASSUME NEW i \in 1 .. n PROVE VersionAt(log', i)
        BY <2>2, VersionsAt
      <3>1. i - 1 \in 0 .. i /\ i \in 1 .. Len(log)
        BY <2>1, <2>2
      <3>2. VersionAt(log, i)
        BY <3>1, VersionsAt DEF VersionInv
      <3>3. CommitsOf(log', i - 1, log[i].env.run) = CommitsOf(log, i - 1, log[i].env.run)
        BY <3>1, <2>3
      <3> QED
        BY <3>2, <3>3, <2>2 DEF VersionAt
    <2> QED
      BY <2>4, <2>5 DEF VersionInv
  <1> QED
    BY <1>1, <1>2, <1>3, LogMoves

\* The commits of a Run are numbered without a gap, and a command that is not a
\* governed disposition is committed at the version its sender expected, however
\* the transactions overlap and whatever a restore takes away.
THEOREM VersionsAreInOrder == Spec => []VersionsInOrder
  <1>1. Init => VersionInv
    BY DEF Init, VersionInv, RowsCount, VersionsInOrder
  <1>2. VersionInv => VersionsInOrder
    BY DEF VersionInv
  <1> QED
    BY <1>1, <1>2, TypeInvariance, VersionStep, PTL DEF Spec

-----------------------------------------------------------------------------
(* The anchor.                                                             *)

\* The checkpoint is one of the log.
Recorded(c) == c.seq \in 1 .. Len(log) /\ log[c.seq].root = c.root

\* Marks and anchored checkpoints keep their order: the anchor's sequence
\* never falls, so what was published once stays at or below it.
MarkInv ==
    /\ MarkedIsAnchored
    /\ \A p \in Instances : pc[p] = "marking" => checkpoint[p].seq <= anchor.seq

\* The anchor's sequence does not fall.
LEMMA AnchorGrows ==
    ASSUME TypeInv, NEW c \in Checkpoint, AnchorAccepts(c)
    PROVE  anchor.seq <= c.seq
  BY BoundsTyped DEF TypeInv, TypeOK, Checkpoint, AnchorAccepts

\* Every step keeps the marks at or below the anchor.
LEMMA MarkStep == TypeInv /\ MarkInv /\ [Next]_vars => MarkInv'
  <1> SUFFICES ASSUME TypeInv, MarkInv, [Next]_vars
               PROVE  MarkInv'
    OBVIOUS
  <1> USE BoundsTyped
  <1>1. /\ published \in SUBSET (1 .. MaxCommits) /\ anchor \in Checkpoint
        /\ checkpoint \in [Instances -> Checkpoint]
        /\ pc \in [Instances -> {"down"} \cup Starting \cup Serving]
        /\ anchor.seq \in Nat
        /\ \A p \in Instances : checkpoint[p].seq \in Nat
    BY DEF TypeInv, TypeOK, Checkpoint
  <1>2. CASE UNCHANGED vars
    BY <1>2 DEF vars, MarkInv, MarkedIsAnchored
  <1>3. ASSUME NEW p \in Instances, anchor' = checkpoint[p],
               AnchorAccepts(checkpoint[p]), UNCHANGED <<published, checkpoint>>,
               NEW next, pc' = [pc EXCEPT ![p] = next]
        PROVE  MarkInv'
    <2>1. anchor.seq <= checkpoint[p].seq
      BY <1>1, <1>3, AnchorGrows
    <2>2. MarkedIsAnchored'
      <3> SUFFICES ASSUME NEW n \in published
                   PROVE  n <= checkpoint[p].seq
        BY <1>3 DEF MarkedIsAnchored
      <3>1. n \in Nat /\ n <= anchor.seq
        BY <1>1 DEF MarkInv, MarkedIsAnchored
      <3> QED
        BY <1>1, <2>1, <3>1
    <2>3. ASSUME NEW q \in Instances, pc'[q] = "marking"
          PROVE  checkpoint'[q].seq <= anchor'.seq
      <3>1. CASE q = p
        BY <1>1, <1>3, <3>1
      <3>2. CASE q # p
        <4>1. checkpoint[q].seq <= anchor.seq
          BY <1>1, <1>3, <2>3, <3>2 DEF MarkInv
        <4> QED
          BY <1>1, <1>3, <2>1, <4>1
      <3> QED
        BY <3>1, <3>2
    <2> QED
      BY <2>2, <2>3 DEF MarkInv
  <1>4. ASSUME NEW p \in Instances, NEW next \in {"down", "ready"},
               Rest(p, next), UNCHANGED <<published, anchor>>
        PROVE  MarkInv'
    BY <1>1, <1>4 DEF Rest, MarkInv, MarkedIsAnchored
  <1>5. ASSUME NEW p \in Instances, NEW next, next # "marking",
               pc' = [pc EXCEPT ![p] = next],
               \A q \in Instances : q # p => checkpoint'[q] = checkpoint[q],
               UNCHANGED <<published, anchor>>
        PROVE  MarkInv'
    BY <1>1, <1>5 DEF MarkInv, MarkedIsAnchored
  <1>6. ASSUME NEW p \in Instances, Handle(p)
        PROVE  MarkInv'
    <2>1. CASE \E e \in Envelopes : Begin(p, e)
      BY <2>1, <1>5 DEF Begin
    <2>2. CASE Replay(p) \/ Refuse(p) \/ PublishRefused(p)
      BY <2>2, <1>4 DEF Replay, Refuse, PublishRefused
    <2>3. CASE \E governed \in BOOLEAN : CommitCommand(p, governed)
      BY <2>3, <1>1, <1>5 DEF CommitCommand
    <2>4. CASE PublishCheckpoint(p)
      BY <2>4, <1>3 DEF PublishCheckpoint
    <2>5. CASE MarkPublished(p)
      <3>1. /\ published' \in SUBSET (published \cup {checkpoint[p].seq})
            /\ pc[p] = "marking" /\ Rest(p, "ready") /\ UNCHANGED anchor
        BY <2>5 DEF MarkPublished
      <3>2. MarkedIsAnchored'
        BY <3>1 DEF MarkInv, MarkedIsAnchored
      <3> QED
        BY <1>1, <3>1, <3>2 DEF MarkInv, Rest
    <2> QED
      BY <1>6, <2>1, <2>2, <2>3, <2>4, <2>5 DEF Handle
  <1>7. ASSUME NEW p \in Instances, VerifyExternalAnchor(p)
        PROVE  MarkInv'
    <2>1. CASE StartInstance(p)
      <3>1. PICK next \in {"ready", "loading"} : pc' = [pc EXCEPT ![p] = next]
        BY <2>1 DEF StartInstance
      <3> QED
        BY <2>1, <3>1, <1>1, <1>5 DEF StartInstance
    <2>2. CASE LoadAnchor(p)
      <3>1. CASE AnchorBehind(checkpoint[p])
        BY <2>2, <3>1, <1>5 DEF LoadAnchor
      <3>2. CASE ~AnchorBehind(checkpoint[p])
        <4>1. PICK next \in {"down", "ready"} : Rest(p, next)
          BY <2>2, <3>2 DEF LoadAnchor
        <4> QED
          BY <2>2, <4>1, <1>4 DEF LoadAnchor
      <3> QED
        BY <3>1, <3>2
    <2>3. CASE RepublishTail(p)
      <3>1. CASE AnchorAccepts(checkpoint[p])
        BY <2>3, <3>1, <1>3 DEF RepublishTail
      <3>2. CASE ~AnchorAccepts(checkpoint[p])
        BY <2>3, <3>2, <1>4 DEF RepublishTail
      <3> QED
        BY <3>1, <3>2
    <2>4. CASE ReloadAnchor(p)
      <3>1. PICK next \in {"down", "ready"} : Rest(p, next)
        BY <2>4 DEF ReloadAnchor
      <3> QED
        BY <2>4, <3>1, <1>4 DEF ReloadAnchor
    <2> QED
      BY <1>7, <2>1, <2>2, <2>3, <2>4 DEF VerifyExternalAnchor
  <1>8. ASSUME NEW p \in Instances, Crash(p) \/ Outage(p)
        PROVE  MarkInv'
    <2>1. PICK next \in {"down", "ready"} : Rest(p, next)
      BY <1>8 DEF Crash, Outage
    <2> QED
      BY <1>8, <2>1, <1>4 DEF Crash, Outage
  <1>9. ASSUME NEW n \in 0 .. MaxCommits, NEW marks \in SUBSET (published \cap 1 .. n),
               RestoreDatabase(n, marks)
        PROVE  MarkInv'
    BY <1>1, <1>9 DEF RestoreDatabase, MarkInv, MarkedIsAnchored
  <1> QED
    BY <1>2, <1>6, <1>7, <1>8, <1>9 DEF Next, Restore

\* published_at is set only for checkpoints the anchor had accepted, even
\* when instances crash or publish out of order.
THEOREM MarksAreAnchored == Spec => []MarkedIsAnchored
  <1>1. Init => MarkInv
    BY DEF Init, MarkInv, MarkedIsAnchored
  <1>2. MarkInv => MarkedIsAnchored
    BY DEF MarkInv
  <1> QED
    BY <1>1, <1>2, TypeInvariance, MarkStep, PTL DEF Spec

\* Unless the comparison with the anchor has been bypassed, the checkpoints
\* that instances hold are of the log, and a log that is served is intact.
AnchorInv ==
    ~exposed =>
        /\ \A p \in Instances :
              pc[p] \in Starting \cup {"publishing", "marking"}
                  => Recorded(checkpoint[p])
        /\ (\E p \in Instances : pc[p] \in Serving) => Intact

\* A checkpoint stays one of the log when the log grows.
LEMMA RecordedGrows ==
    ASSUME TypeInv, NEW p \in Instances, NEW governed \in BOOLEAN,
           CommitCommand(p, governed), NEW c, Recorded(c)
    PROVE  c.seq \in 1 .. Len(log') /\ log'[c.seq].root = c.root
  <1>1. Len(log) \in Nat
    BY DEF TypeInv, TypeOK
  <1> QED
    BY <1>1, CommitAdds DEF Recorded

\* Intact, in terms of Recorded.
LEMMA IntactRecorded ==
    ASSUME TypeInv
    PROVE  Intact <=> anchor.seq = 0 \/ Recorded(anchor)
  <1>1. anchor.seq \in Nat /\ Len(log) \in Nat
    BY BoundsTyped DEF TypeInv, TypeOK, Checkpoint
  <1> QED
    BY <1>1 DEF Intact, Recorded

\* A step that leaves log and anchor alone, gives an instance a checkpoint
\* of the log where it needs one, and lets none serve a log that is not
\* intact.
LEMMA AnchorQuiet ==
    ASSUME TypeInv, AnchorInv, ~exposed, NEW p \in Instances,
           UNCHANGED <<log, anchor>>, NEW next, pc' = [pc EXCEPT ![p] = next],
           \A q \in Instances : q # p => checkpoint'[q] = checkpoint[q],
           next \in Starting \cup {"publishing", "marking"}
               => Recorded(checkpoint'[p]),
           next \in Serving /\ pc[p] \notin Serving => Intact
    PROVE  AnchorInv'
  <1>1. pc \in [Instances -> {"down"} \cup Starting \cup Serving]
    BY DEF TypeInv, TypeOK
  <1>2. \A q \in Instances : pc'[q] = IF q = p THEN next ELSE pc[q]
    BY <1>1
  <1>3. (\E q \in Instances : pc'[q] \in Serving) => Intact'
    BY <1>2 DEF AnchorInv, Intact
  <1>4. \A q \in Instances :
           pc'[q] \in Starting \cup {"publishing", "marking"}
               => Recorded(checkpoint'[q])
    BY <1>2 DEF AnchorInv
  <1> QED
    BY <1>3, <1>4 DEF AnchorInv, Recorded

\* An instance comes to rest; if it serves then, it did before, or the log
\* is intact.
LEMMA AnchorRest ==
    ASSUME TypeInv, AnchorInv, ~exposed, NEW p \in Instances,
           UNCHANGED <<log, anchor>>, NEW next \in {"down", "ready"},
           Rest(p, next), next = "ready" /\ pc[p] \notin Serving => Intact
    PROVE  AnchorInv'
  <1>1. \A q \in Instances : q # p => checkpoint'[q] = checkpoint[q]
    BY DEF Rest, TypeInv, TypeOK
  <1>2. /\ next \notin Starting \cup {"publishing", "marking"}
        /\ pc' = [pc EXCEPT ![p] = next]
        /\ next \in Serving => next = "ready"
    BY DEF Rest, Starting, Serving
  <1> QED
    BY <1>1, <1>2, AnchorQuiet

\* An instance moves the anchor to its own checkpoint.
LEMMA AnchorMoves ==
    ASSUME TypeInv, AnchorInv, ~exposed, NEW p \in Instances,
           Recorded(checkpoint[p]), anchor' = checkpoint[p],
           UNCHANGED <<log, checkpoint>>, NEW next,
           pc' = [pc EXCEPT ![p] = next],
           pc[p] \in Starting \cup {"publishing", "marking"}
    PROVE  AnchorInv'
  <1>1. /\ Len(log) \in Nat /\ pc \in [Instances -> {"down"} \cup Starting \cup Serving]
        /\ log \in Seq(Commit)
    BY DEF TypeInv, TypeOK
  <1>2. Intact'
    BY <1>1 DEF Intact, Recorded
  <1>3. \A q \in Instances :
           pc'[q] \in Starting \cup {"publishing", "marking"}
               => Recorded(checkpoint'[q])
    BY <1>1 DEF AnchorInv
  <1> QED
    BY <1>2, <1>3 DEF AnchorInv, Recorded

\* A commit is made by an instance that serves, so the log was intact.
LEMMA AnchorCommit ==
    ASSUME TypeInv, AnchorInv, ~exposed, NEW p \in Instances,
           NEW governed \in BOOLEAN, CommitCommand(p, governed)
    PROVE  AnchorInv'
  <1>1. /\ Len(log) \in Nat /\ anchor.seq \in Nat /\ log' \in Seq(Commit)
        /\ pc \in [Instances -> {"down"} \cup Starting \cup Serving]
        /\ checkpoint \in [Instances -> Checkpoint]
    BY BoundsTyped, CommitLog DEF TypeInv, TypeOK, Checkpoint
  <1>2. /\ pc[p] \in Serving /\ anchor' = anchor
        /\ pc' = [pc EXCEPT ![p] = "publishing"]
        /\ checkpoint' = [checkpoint EXCEPT ![p] =
                             [seq |-> Len(log) + 1, root |-> commits + 1]]
    BY DEF CommitCommand, Serving
  <1>3. anchor.seq = 0 \/ Recorded(anchor)
    BY <1>2, IntactRecorded DEF AnchorInv
  <1>4. Len(log') = Len(log) + 1 /\ log'[Len(log) + 1].root = commits + 1
    BY CommitAdds
  <1>5. anchor.seq = 0 \/ (anchor.seq \in 1 .. Len(log')
                            /\ log'[anchor.seq].root = anchor.root)
    BY <1>3, RecordedGrows
  <1>6. Intact'
    BY <1>1, <1>2, <1>4, <1>5 DEF Intact
  <1>7. ASSUME NEW q \in Instances,
               pc'[q] \in Starting \cup {"publishing", "marking"}
        PROVE  Recorded(checkpoint[q])' \/ q = p
    <2>1. CASE q # p
      <3>1. Recorded(checkpoint[q]) /\ checkpoint'[q] = checkpoint[q]
        BY <1>1, <1>2, <1>7, <2>1 DEF AnchorInv
      <3>2. checkpoint[q].seq \in 1 .. Len(log')
            /\ log'[checkpoint[q].seq].root = checkpoint[q].root
        BY <3>1, RecordedGrows
      <3> QED
        BY <3>1, <3>2 DEF Recorded
    <2> QED
      BY <2>1
  <1>8. Recorded(checkpoint[p])'
    BY <1>1, <1>2, <1>4 DEF Recorded
  <1> QED
    BY <1>6, <1>7, <1>8 DEF AnchorInv

\* Handling a command keeps AnchorInv.
LEMMA AnchorHandle ==
    ASSUME TypeInv, AnchorInv, ~exposed, NEW p \in Instances, Handle(p)
    PROVE  AnchorInv'
  <1>1. CASE \E e \in Envelopes : Begin(p, e)
    <2>1. /\ pc[p] \in Serving /\ pc' = [pc EXCEPT ![p] = "open"]
          /\ UNCHANGED <<log, anchor, checkpoint>>
      BY <1>1 DEF Begin, Serving
    <2>2. "open" \notin Starting \cup {"publishing", "marking"}
      BY DEF Starting
    <2> QED
      BY <2>1, <2>2, AnchorQuiet
  <1>2. CASE Replay(p) \/ Refuse(p) \/ PublishRefused(p) \/ MarkPublished(p)
    <2>1. pc[p] \in Serving /\ UNCHANGED <<log, anchor>> /\ Rest(p, "ready")
      BY <1>2 DEF Replay, Refuse, PublishRefused, MarkPublished, Serving
    <2> QED
      BY <2>1, AnchorRest
  <1>3. CASE \E governed \in BOOLEAN : CommitCommand(p, governed)
    BY <1>3, AnchorCommit
  <1>4. CASE PublishCheckpoint(p)
    <2>1. /\ pc[p] = "publishing" /\ anchor' = checkpoint[p]
          /\ UNCHANGED <<log, checkpoint>>
          /\ pc' = [pc EXCEPT ![p] = "marking"]
      BY <1>4 DEF PublishCheckpoint
    <2>2. Recorded(checkpoint[p])
      BY <2>1 DEF AnchorInv
    <2> QED
      BY <2>1, <2>2, AnchorMoves
  <1> QED
    BY <1>1, <1>2, <1>3, <1>4 DEF Handle

\* A start reads the database as it is, whatever went before: with everybody
\* else down it establishes AnchorInv, and otherwise keeps it.
LEMMA AnchorStart ==
    ASSUME TypeInv, AnchorInv, NEW p \in Instances, StartInstance(p)
    PROVE  AnchorInv'
  <1> SUFFICES ASSUME ~exposed'
               PROVE  AnchorInv'
    BY DEF AnchorInv
  <1>1. /\ UNCHANGED <<log, anchor>>
        /\ pc' = [pc EXCEPT ![p] = IF log = <<>> THEN "ready" ELSE "loading"]
        /\ checkpoint' = [checkpoint EXCEPT ![p] = LatestCheckpoint(log)]
        /\ checkpoint \in [Instances -> Checkpoint]
        /\ pc \in [Instances -> {"down"} \cup Starting \cup Serving]
        /\ ~exposed \/ ~SomeoneUp
        /\ log = <<>> => ~(anchor.seq > 0)
    BY DEF StartInstance, TypeInv, TypeOK
  <1>2. \A q \in Instances : q # p =>
           /\ pc'[q] = pc[q] /\ checkpoint'[q] = checkpoint[q]
           /\ exposed => pc[q] = "down"
    BY <1>1 DEF SomeoneUp
  <1>3. "down" \notin Serving \cup Starting \cup {"publishing", "marking"}
    BY DEF Serving, Starting
  <1>4. \A q \in Instances : q # p =>
           /\ pc'[q] \in Starting \cup {"publishing", "marking"}
                 => Recorded(checkpoint'[q])
           /\ pc'[q] \in Serving => Intact
    BY <1>2, <1>3 DEF AnchorInv
  <1>5. CASE log = <<>>
    <2>1. pc'[p] = "ready" /\ "ready" \notin Starting \cup {"publishing", "marking"}
      BY <1>1, <1>5 DEF Starting
    <2>2. Intact
      <3>1. anchor.seq \in Nat
        BY BoundsTyped DEF TypeInv, TypeOK, Checkpoint
      <3> QED
        BY <1>1, <1>5, <3>1 DEF Intact
    <2> QED
      BY <1>1, <1>4, <2>1, <2>2 DEF AnchorInv, Intact, Recorded
  <1>6. CASE log # <<>>
    <2>1. Recorded(LatestCheckpoint(log))
      <3>1. Len(log) \in 1 .. Len(log)
        BY <1>6, LatestCheckpointType
      <3> QED
        BY <1>6, <3>1, LatestCheckpointType DEF Recorded
    <2>2. checkpoint'[p] = LatestCheckpoint(log)
          /\ pc'[p] = "loading" /\ "loading" \notin Serving
      BY <1>1, <1>6 DEF Serving
    <2> QED
      BY <1>1, <1>4, <2>1, <2>2 DEF AnchorInv, Intact, Recorded
  <1> QED
    BY <1>5, <1>6

\* The later steps of a start keep AnchorInv.
LEMMA AnchorVerify ==
    ASSUME TypeInv, AnchorInv, ~exposed, NEW p \in Instances,
           LoadAnchor(p) \/ RepublishTail(p) \/ ReloadAnchor(p)
    PROVE  AnchorInv'
  <1>1. pc[p] \in Starting /\ Recorded(checkpoint[p]) /\ UNCHANGED log
    BY DEF LoadAnchor, RepublishTail, ReloadAnchor, AnchorInv, Starting
  <1>2. CASE LoadAnchor(p)
    <2>1. UNCHANGED <<log, anchor>> /\ "behind" \notin Serving
      BY <1>2 DEF LoadAnchor, Serving
    <2>2. CASE AnchorBehind(checkpoint[p])
      <3>1. UNCHANGED checkpoint /\ pc' = [pc EXCEPT ![p] = "behind"]
        BY <1>2, <2>2 DEF LoadAnchor
      <3> QED
        BY <1>1, <2>1, <3>1, AnchorQuiet
    <2>3. CASE ~AnchorBehind(checkpoint[p])
      <3>1. PICK next \in {"down", "ready"} :
               Rest(p, next) /\ (next = "ready" => anchor = checkpoint[p])
        BY <1>2, <2>3 DEF LoadAnchor, AnchorMatches
      <3>2. next = "ready" => Intact
        BY <1>1, <3>1, IntactRecorded
      <3> QED
        BY <2>1, <3>1, <3>2, AnchorRest
    <2> QED
      BY <2>2, <2>3
  <1>3. CASE RepublishTail(p)
    <2>1. CASE AnchorAccepts(checkpoint[p])
      <3>1. /\ anchor' = checkpoint[p] /\ UNCHANGED checkpoint
            /\ pc' = [pc EXCEPT ![p] = "reloading"]
        BY <1>3, <2>1 DEF RepublishTail
      <3> QED
        BY <1>1, <3>1, AnchorMoves
    <2>2. CASE ~AnchorAccepts(checkpoint[p])
      <3>1. Rest(p, "down") /\ UNCHANGED anchor
        BY <1>3, <2>2 DEF RepublishTail
      <3> QED
        BY <1>1, <3>1, AnchorRest
    <2> QED
      BY <2>1, <2>2
  <1>4. CASE ReloadAnchor(p)
    <2>1. PICK next \in {"down", "ready"} :
             Rest(p, next) /\ (next = "ready" => anchor = checkpoint[p])
      BY <1>4 DEF ReloadAnchor, AnchorMatches
    <2>2. next = "ready" => Intact
      BY <1>1, <2>1, IntactRecorded
    <2>3. UNCHANGED <<log, anchor>>
      BY <1>4 DEF ReloadAnchor
    <2> QED
      BY <2>1, <2>2, <2>3, AnchorRest
  <1> QED
    BY <1>2, <1>3, <1>4

\* Only a restore and a start change what is exposed.
LEMMA ExposedMoves ==
    ASSUME NEW p \in Instances
    PROVE  /\ Handle(p) => UNCHANGED exposed
           /\ VerifyExternalAnchor(p) => StartInstance(p) \/ UNCHANGED exposed
           /\ Crash(p) \/ Outage(p) => UNCHANGED exposed
  <1>1. Handle(p) => UNCHANGED exposed
    BY DEF Handle, Begin, Replay, Refuse, CommitCommand, PublishCheckpoint,
           PublishRefused, MarkPublished, faultVars
  <1>2. VerifyExternalAnchor(p) => StartInstance(p) \/ UNCHANGED exposed
    BY DEF VerifyExternalAnchor, LoadAnchor, RepublishTail, ReloadAnchor, faultVars
  <1>3. Crash(p) \/ Outage(p) => UNCHANGED exposed
    BY DEF Crash, Outage
  <1> QED
    BY <1>1, <1>2, <1>3

\* Every step keeps AnchorInv.
LEMMA AnchorStep == TypeInv /\ AnchorInv /\ [Next]_vars => AnchorInv'
  <1> SUFFICES ASSUME TypeInv, AnchorInv, [Next]_vars
               PROVE  AnchorInv'
    OBVIOUS
  <1>1. CASE UNCHANGED vars
    BY <1>1 DEF vars, AnchorInv, Intact, Recorded
  <1>2. ASSUME exposed, UNCHANGED exposed
        PROVE  AnchorInv'
    BY <1>2 DEF AnchorInv
  <1>3. ASSUME NEW p \in Instances, Handle(p)
        PROVE  AnchorInv'
    BY <1>2, <1>3, AnchorHandle, ExposedMoves
  <1>4. ASSUME NEW p \in Instances, VerifyExternalAnchor(p)
        PROVE  AnchorInv'
    BY <1>2, <1>4, AnchorStart, AnchorVerify, ExposedMoves DEF VerifyExternalAnchor
  <1>5. ASSUME NEW p \in Instances, Crash(p) \/ Outage(p)
        PROVE  AnchorInv'
    <2>1. PICK next \in {"down", "ready"} :
             Rest(p, next) /\ (next = "ready" => pc[p] \in Serving)
      BY <1>5 DEF Crash, Outage, Serving
    <2>2. UNCHANGED <<log, anchor>>
      BY <1>5 DEF Crash, Outage
    <2>3. CASE ~exposed
      BY <2>1, <2>2, <2>3, AnchorRest
    <2> QED
      BY <1>2, <1>5, <2>3, ExposedMoves
  <1>6. ASSUME NEW n \in 0 .. MaxCommits, NEW marks, RestoreDatabase(n, marks)
        PROVE  AnchorInv'
    <2> SUFFICES ASSUME ~exposed'
                 PROVE  AnchorInv'
      BY DEF AnchorInv
    <2>1. \A p \in Instances : pc[p] = "down" /\ pc'[p] = "down"
      BY <1>6 DEF RestoreDatabase, SomeoneUp
    <2>2. "down" \notin Serving \cup Starting \cup {"publishing", "marking"}
      BY DEF Serving, Starting
    <2> QED
      BY <2>1, <2>2 DEF AnchorInv
  <1> QED
    BY <1>1, <1>3, <1>4, <1>5, <1>6 DEF Next, Restore

\* AnchorInv holds in every reachable state.
LEMMA AnchorInvariance == Spec => []AnchorInv
  <1>1. Init => AnchorInv
    BY DEF Init, AnchorInv, Intact, Starting, Serving, NoCheckpoint
  <1> QED
    BY <1>1, TypeInvariance, AnchorStep, PTL DEF Spec

\* Whatever the database is restored to, and whether instances are running
\* then or not: a database that lost or forked from what the anchor has seen
\* is served only by instances that were not made to compare the two, the
\* ones that were up during a restore or started on an emptied database, and
\* by those beside them; when they have all stopped, it is served no more.
THEOREM ServesIntact == Spec => []ServedIsIntact
  <1>1. AnchorInv => ServedIsIntact
    BY DEF AnchorInv, ServedIsIntact
  <1> QED
    BY <1>1, AnchorInvariance, PTL

-----------------------------------------------------------------------------
(* Refinement.                                                             *)

\* The abstract history of a log.
Entry == [id : CommandIds, root : 1 .. MaxCommits]
EntryOf(c) == [id |-> c.env.id, root |-> c.root]
History(l) == [i \in 1 .. Len(l) |-> EntryOf(l[i])]

\* The history of a log is a sequence of the same length.
LEMMA HistoryType ==
    ASSUME NEW l \in Seq(Commit)
    PROVE  /\ History(l) \in Seq(Entry)
           /\ Len(History(l)) = Len(l)
           /\ \A i \in 1 .. Len(l) : History(l)[i] = EntryOf(l[i])
  <1>1. \A i \in 1 .. Len(l) : l[i] \in Commit
    OBVIOUS
  <1>2. \A c \in Commit : EntryOf(c) \in Entry
    BY EnvelopesTyped DEF Commit, EntryOf, Entry
  <1>3. \A i \in 1 .. Len(l) : EntryOf(l[i]) \in Entry
    BY <1>1, <1>2
  <1>4. Len(l) \in Nat
    OBVIOUS
  <1> QED
    BY <1>3, <1>4 DEF History

\* A longer log has the longer history.
LEMMA HistoryAppend ==
    ASSUME NEW l \in Seq(Commit), NEW c \in Commit
    PROVE  History(Append(l, c)) = Append(History(l), EntryOf(c))
  <1> DEFINE e == EntryOf(c)
             h == History(l)
             g == History(Append(l, c))
  <1>1. e \in Entry
    BY EnvelopesTyped DEF Commit, EntryOf, Entry
  <1>2. h \in Seq(Entry) /\ Len(h) = Len(l)
        /\ \A i \in 1 .. Len(l) : h[i] = EntryOf(l[i])
    BY HistoryType
  <1>3. /\ Append(l, c) \in Seq(Commit)
        /\ Len(Append(l, c)) = Len(l) + 1
        /\ \A i \in 1 .. Len(l) : Append(l, c)[i] = l[i]
        /\ Append(l, c)[Len(l) + 1] = c
    BY AppendHolds
  <1>4. g \in Seq(Entry) /\ Len(g) = Len(l) + 1
        /\ \A i \in 1 .. Len(l) + 1 : g[i] = EntryOf(Append(l, c)[i])
    BY <1>3, HistoryType
  <1> HIDE DEF e, h, g
  <1>5. /\ Append(h, e) \in Seq(Entry) /\ Len(Append(h, e)) = Len(l) + 1
        /\ \A i \in 1 .. Len(l) : Append(h, e)[i] = h[i]
        /\ Append(h, e)[Len(l) + 1] = e
    BY <1>1, <1>2, AppendHolds
  <1>6. Len(l) \in Nat
    OBVIOUS
  <1>7. \A i \in 1 .. Len(l) + 1 : Append(h, e)[i] = g[i]
    <2> SUFFICES ASSUME NEW i \in 1 .. Len(l) + 1
                 PROVE  Append(h, e)[i] = g[i]
      OBVIOUS
    <2>1. CASE i \in 1 .. Len(l)
      BY <2>1, <1>2, <1>3, <1>4, <1>5
    <2>2. CASE i = Len(l) + 1
      BY <2>2, <1>3, <1>4, <1>5 DEF e
    <2>3. i \in 1 .. Len(l) \/ i = Len(l) + 1
      BY <1>6
    <2> QED
      BY <2>1, <2>2, <2>3
  <1>8. g = Append(h, e)
    BY <1>4, <1>5, <1>7
  <1> QED
    BY <1>8 DEF e, h, g

\* A shorter log has the shorter history.
LEMMA HistoryPrefix ==
    ASSUME NEW l \in Seq(Commit), NEW n \in 0 .. Len(l)
    PROVE  History(SubSeq(l, 1, n)) = SubSeq(History(l), 1, n)
  <1> DEFINE h == History(l)
             g == History(SubSeq(l, 1, n))
  <1>1. h \in Seq(Entry) /\ Len(h) = Len(l)
        /\ \A i \in 1 .. Len(l) : h[i] = EntryOf(l[i])
    BY HistoryType
  <1>2. /\ SubSeq(l, 1, n) \in Seq(Commit) /\ Len(SubSeq(l, 1, n)) = n
        /\ \A i \in 1 .. n : SubSeq(l, 1, n)[i] = l[i]
    BY PrefixHolds
  <1>3. g \in Seq(Entry) /\ Len(g) = n
        /\ \A i \in 1 .. n : g[i] = EntryOf(SubSeq(l, 1, n)[i])
    BY <1>2, HistoryType
  <1> HIDE DEF h, g
  <1>4. /\ SubSeq(h, 1, n) \in Seq(Entry) /\ Len(SubSeq(h, 1, n)) = n
        /\ \A i \in 1 .. n : SubSeq(h, 1, n)[i] = h[i]
    BY <1>1, PrefixHolds
  <1>5. \A i \in 1 .. n : i \in 1 .. Len(l)
    OBVIOUS
  <1>6. g = SubSeq(h, 1, n)
    BY <1>1, <1>2, <1>3, <1>4, <1>5
  <1> QED
    BY <1>6 DEF h, g

\* A commit is an Apply of the abstract ledger.
LEMMA CommitApplies ==
    ASSUME TypeInv, AnchorInv, NEW p \in Instances, NEW governed \in BOOLEAN,
           CommitCommand(p, governed)
    PROVE  Abstract!Apply
  <1> DEFINE c == NewCommit(p, governed)
  <1>1. /\ log \in Seq(Commit) /\ c \in Commit /\ log' = Append(log, c)
        /\ c.env = envelope[p] /\ c.root = commits + 1
        /\ envelope[p] \in Envelopes /\ anchor' = anchor /\ exposed' = exposed
    BY NewCommitType DEF TypeInv, TypeOK, CommitCommand, faultVars
  <1> HIDE DEF c
  <1>2. History(log') = Append(History(log), EntryOf(c))
    BY <1>1, HistoryAppend
  <1>3. Len(History(log)) = Len(log)
        /\ \A i \in 1 .. Len(log) : History(log)[i] = EntryOf(log[i])
    BY <1>1, HistoryType
  <1>4. /\ envelope[p].id \in CommandIds /\ commits + 1 \in 1 .. MaxCommits
        /\ EntryOf(c) = [id |-> envelope[p].id, root |-> commits + 1]
    BY <1>1, EnvelopesTyped, BoundsTyped
    DEF EntryOf, CommitCommand, TypeInv, TypeOK
  <1>5. \A i \in 1 .. Len(log) :
           log[i].env.id # envelope[p].id /\ log[i].root # commits + 1
    <2> TAKE i \in 1 .. Len(log)
    <2>1. log[i].root <= commits /\ commits \in Nat
      BY DEF TypeInv, TypeOK, LogInv
    <2>2. log[i] \in Commit
      BY <1>1
    <2> QED
      BY <2>1, <2>2, CommitAdds DEF Commit
  <1>6. exposed \/ anchor.seq = 0 \/ Recorded(anchor)
    BY IntactRecorded DEF AnchorInv, CommitCommand, Serving
  <1>7. Len(log) \in Nat /\ anchor.seq \in Nat
    BY <1>1, BoundsTyped DEF TypeInv, TypeOK, Checkpoint
  <1>8. Abstract!Intact \/ exposed
    BY <1>3, <1>6, <1>7 DEF Abstract!Intact, Recorded, History, EntryOf
  <1>9. \E id \in CommandIds, root \in 1 .. MaxCommits :
           /\ \A i \in 1 .. Len(History(log)) :
                 History(log)[i].id # id /\ History(log)[i].root # root
           /\ History(log') = Append(History(log), [id |-> id, root |-> root])
    <2>1. \A i \in 1 .. Len(History(log)) :
             History(log)[i].id # envelope[p].id
             /\ History(log)[i].root # commits + 1
      <3> TAKE i \in 1 .. Len(History(log))
      <3>1. i \in 1 .. Len(log)
        BY <1>3
      <3>2. History(log)[i] = EntryOf(log[i])
        BY <1>3, <3>1
      <3>3. EntryOf(log[i]).id = log[i].env.id /\ EntryOf(log[i]).root = log[i].root
        BY DEF EntryOf
      <3> QED
        BY <1>5, <3>1, <3>2, <3>3
    <2> QED
      BY <1>2, <1>4, <2>1
  <1> QED
    BY <1>1, <1>8, <1>9 DEF Abstract!Apply, History, EntryOf

\* A publication, by a handler or by a start, is a Witness: of a checkpoint
\* of the log, or of one the log has lost when nobody compares.
LEMMA PublicationWitnesses ==
    ASSUME TypeInv, NEW c \in Checkpoint, exposed \/ Recorded(c), c.seq # 0,
           c.root # 0, AnchorAccepts(c), anchor' = c, UNCHANGED <<log, exposed>>
    PROVE  Abstract!Witness
  <1>1. log \in Seq(Commit) /\ c.seq \in Nat /\ c.root \in 1 .. MaxCommits
    BY BoundsTyped DEF TypeInv, TypeOK, Checkpoint
  <1>2. anchor.seq <= c.seq
    BY AnchorGrows
  <1>3. Len(History(log)) = Len(log)
        /\ \A i \in 1 .. Len(log) : History(log)[i] = EntryOf(log[i])
    BY <1>1, HistoryType
  <1>4. c = [seq |-> c.seq, root |-> c.root]
    BY DEF Checkpoint
  <1>5. CASE Recorded(c)
    <2>1. c.seq \in 1 .. Len(log) /\ log[c.seq].root = c.root
      BY <1>5 DEF Recorded
    <2>2. c.seq \in 1 .. Len(History(log)) /\ History(log)[c.seq] = EntryOf(log[c.seq])
      BY <1>3, <2>1
    <2>3. EntryOf(log[c.seq]).root = log[c.seq].root
      BY DEF EntryOf
    <2>4. \E n \in 1 .. Len(History(log)) :
             /\ anchor.seq <= n
             /\ anchor' = [seq |-> n, root |-> History(log)[n].root]
      BY <1>2, <1>4, <2>1, <2>2, <2>3
    <2> QED
      BY <2>4 DEF Abstract!Witness, History, EntryOf
  <1>6. CASE exposed
    <2>1. c \in [seq : Nat, root : 1 .. MaxCommits]
      BY <1>1, <1>4
    <2> QED
      BY <1>2, <1>6, <2>1 DEF Abstract!Witness
  <1> QED
    BY <1>5, <1>6

\* A restore is a Lose.
LEMMA RestoreLoses ==
    ASSUME TypeInv, NEW n \in 0 .. MaxCommits, NEW marks,
           RestoreDatabase(n, marks)
    PROVE  Abstract!Lose
  <1>1. /\ log \in Seq(Commit) /\ n \in 0 .. Len(log)
        /\ log' = SubSeq(log, 1, n) /\ anchor' = anchor
    BY BoundsTyped DEF RestoreDatabase, TypeInv, TypeOK
  <1>2. History(log') = SubSeq(History(log), 1, n) /\ Len(History(log)) = Len(log)
    BY <1>1, HistoryPrefix, HistoryType
  <1>3. \E k \in 0 .. Len(History(log)) : History(log') = SubSeq(History(log), 1, k)
    BY <1>1, <1>2
  <1>4. exposed' \in {exposed, TRUE}
    BY DEF RestoreDatabase, SomeoneUp, TypeInv, TypeOK
  <1> QED
    BY <1>1, <1>3, <1>4 DEF Abstract!Lose, History, EntryOf

\* A start is a Reopen.
LEMMA StartReopens ==
    ASSUME TypeInv, NEW p \in Instances, StartInstance(p)
    PROVE  Abstract!Reopen
  <1>1. UNCHANGED <<log, anchor>> /\ exposed' \in BOOLEAN
        /\ (exposed' => exposed \/ log = <<>>)
    BY DEF StartInstance, SomeoneUp, TypeInv, TypeOK
  <1>2. log = <<>> => History(log) = <<>>
    BY DEF History
  <1> QED
    BY <1>1, <1>2 DEF Abstract!Reopen, History, EntryOf

\* Where an instance holds a checkpoint, it is that of a commit.
RootedInv ==
    \A p \in Instances :
        /\ checkpoint[p].seq # 0 => checkpoint[p].root # 0
        /\ pc[p] \in Starting => checkpoint[p].seq # 0

\* Every step keeps RootedInv.
LEMMA RootedStep == TypeInv /\ RootedInv /\ [Next]_vars => RootedInv'
  <1> SUFFICES ASSUME TypeInv, RootedInv, [Next]_vars
               PROVE  RootedInv'
    OBVIOUS
  <1>1. /\ pc \in [Instances -> {"down"} \cup Starting \cup Serving]
        /\ checkpoint \in [Instances -> Checkpoint] /\ commits \in Nat
    BY DEF TypeInv, TypeOK
  <1>2. ASSUME NEW p \in Instances, NEW next, pc' = [pc EXCEPT ![p] = next],
               UNCHANGED checkpoint, next \in Starting => pc[p] \in Starting
        PROVE  RootedInv'
    BY <1>1, <1>2 DEF RootedInv
  <1>3. ASSUME NEW p \in Instances, NEW next \in {"down", "ready"}, Rest(p, next)
        PROVE  RootedInv'
    BY <1>1, <1>3 DEF Rest, RootedInv, NoCheckpoint, Starting
  <1>4. CASE UNCHANGED vars
    BY <1>4 DEF vars, RootedInv
  <1>5. ASSUME NEW p \in Instances, Handle(p)
        PROVE  RootedInv'
    <2>1. CASE (\E e \in Envelopes : Begin(p, e)) \/ PublishCheckpoint(p)
      BY <2>1, <1>2 DEF Begin, PublishCheckpoint, Starting
    <2>2. CASE Replay(p) \/ Refuse(p) \/ PublishRefused(p) \/ MarkPublished(p)
      BY <2>2, <1>3 DEF Replay, Refuse, PublishRefused, MarkPublished
    <2>3. CASE \E governed \in BOOLEAN : CommitCommand(p, governed)
      BY <2>3, <1>1 DEF CommitCommand, RootedInv, Starting
    <2> QED
      BY <1>5, <2>1, <2>2, <2>3 DEF Handle
  <1>6. ASSUME NEW p \in Instances, VerifyExternalAnchor(p)
        PROVE  RootedInv'
    <2>1. CASE StartInstance(p)
      <3>1. /\ checkpoint' = [checkpoint EXCEPT ![p] = LatestCheckpoint(log)]
            /\ pc' = [pc EXCEPT ![p] = IF log = <<>> THEN "ready" ELSE "loading"]
        BY <2>1 DEF StartInstance
      <3>2. CASE log = <<>>
        BY <1>1, <3>1, <3>2 DEF RootedInv, LatestCheckpoint, NoCheckpoint, Starting
      <3>3. CASE log # <<>>
        <4>1. log[Len(log)] \in Commit
          BY <3>3, LatestCheckpointType DEF TypeInv, TypeOK
        <4>2. LatestCheckpoint(log).seq # 0 /\ LatestCheckpoint(log).root # 0
          BY <3>3, <4>1, LatestCheckpointType DEF Commit
        <4> QED
          BY <1>1, <3>1, <4>2 DEF RootedInv
      <3> QED
        BY <3>2, <3>3
    <2>2. CASE LoadAnchor(p)
      <3>1. \/ UNCHANGED checkpoint /\ pc' = [pc EXCEPT ![p] = "behind"]
            \/ \E next \in {"down", "ready"} : Rest(p, next)
        BY <2>2 DEF LoadAnchor
      <3> QED
        BY <2>2, <3>1, <1>2, <1>3 DEF LoadAnchor, Starting
    <2>3. CASE RepublishTail(p)
      <3>1. \/ UNCHANGED checkpoint /\ pc' = [pc EXCEPT ![p] = "reloading"]
            \/ Rest(p, "down")
        BY <2>3 DEF RepublishTail
      <3> QED
        BY <2>3, <3>1, <1>2, <1>3 DEF RepublishTail, Starting
    <2>4. CASE ReloadAnchor(p)
      BY <2>4, <1>3 DEF ReloadAnchor
    <2> QED
      BY <1>6, <2>1, <2>2, <2>3, <2>4 DEF VerifyExternalAnchor
  <1>7. ASSUME NEW p \in Instances, Crash(p) \/ Outage(p)
        PROVE  RootedInv'
    BY <1>3, <1>7 DEF Crash, Outage
  <1>8. ASSUME NEW n \in 0 .. MaxCommits, NEW marks, RestoreDatabase(n, marks)
        PROVE  RootedInv'
    BY <1>1, <1>8 DEF RestoreDatabase, RootedInv, Starting
  <1> QED
    BY <1>4, <1>5, <1>6, <1>7, <1>8 DEF Next, Restore

\* Every step is one of the abstract ledger, or changes nothing it sees.
LEMMA RefinementStep ==
    ASSUME TypeInv, AnchorInv, RootedInv, [Next]_vars
    PROVE  [Abstract!Next]_(Abstract!vars)
  <1>1. ASSUME UNCHANGED <<log, anchor, exposed>>
        PROVE  UNCHANGED Abstract!vars
    BY <1>1 DEF Abstract!vars
  <1>2. CASE UNCHANGED vars
    BY <1>1, <1>2 DEF vars
  <1>3. ASSUME NEW p \in Instances, Handle(p)
        PROVE  [Abstract!Next]_(Abstract!vars)
    <2>1. CASE \E governed \in BOOLEAN : CommitCommand(p, governed)
      BY <2>1, CommitApplies DEF Abstract!Next
    <2>2. CASE PublishCheckpoint(p)
      <3>1. /\ exposed \/ Recorded(checkpoint[p])
            /\ checkpoint[p] \in Checkpoint
            /\ AnchorAccepts(checkpoint[p]) /\ anchor' = checkpoint[p]
            /\ UNCHANGED <<log, exposed>>
        BY <2>2 DEF PublishCheckpoint, AnchorInv, TypeInv, TypeOK, faultVars
      <3>2. checkpoint[p].seq # 0 /\ checkpoint[p].root # 0
        BY <2>2 DEF PublishCheckpoint, TypeInv, HandlerInv, RootedInv
      <3> QED
        BY <3>1, <3>2, PublicationWitnesses DEF Abstract!Next
    <2>3. CASE (\E e \in Envelopes : Begin(p, e)) \/ Replay(p) \/ Refuse(p)
               \/ PublishRefused(p) \/ MarkPublished(p)
      <3>1. UNCHANGED <<log, anchor>>
        BY <2>3 DEF Begin, Replay, Refuse, PublishRefused, MarkPublished
      <3> QED
        BY <1>1, <1>3, <3>1, ExposedMoves
    <2> QED
      BY <1>3, <2>1, <2>2, <2>3 DEF Handle
  <1>4. ASSUME NEW p \in Instances,
               VerifyExternalAnchor(p) \/ Crash(p) \/ Outage(p)
        PROVE  [Abstract!Next]_(Abstract!vars)
    <2>1. CASE RepublishTail(p) /\ AnchorAccepts(checkpoint[p])
      <3>1. /\ exposed \/ Recorded(checkpoint[p])
            /\ checkpoint[p] \in Checkpoint
            /\ AnchorAccepts(checkpoint[p]) /\ anchor' = checkpoint[p]
            /\ UNCHANGED <<log, exposed>>
        BY <2>1 DEF RepublishTail, AnchorInv, TypeInv, TypeOK, Starting, faultVars
      <3>2. checkpoint[p].seq # 0 /\ checkpoint[p].root # 0
        BY <2>1 DEF RepublishTail, RootedInv, Starting
      <3> QED
        BY <3>1, <3>2, PublicationWitnesses DEF Abstract!Next
    <2>2. CASE StartInstance(p)
      BY <2>2, StartReopens DEF Abstract!Next
    <2>3. CASE ~(RepublishTail(p) /\ AnchorAccepts(checkpoint[p]))
               /\ ~StartInstance(p)
      <3>1. UNCHANGED <<log, anchor>>
        BY <1>4, <2>3 DEF VerifyExternalAnchor, LoadAnchor, RepublishTail,
                         ReloadAnchor, Crash, Outage
      <3> QED
        BY <1>1, <1>4, <2>3, <3>1, ExposedMoves
    <2> QED
      BY <2>1, <2>2, <2>3
  <1>5. ASSUME NEW n \in 0 .. MaxCommits, NEW marks, RestoreDatabase(n, marks)
        PROVE  [Abstract!Next]_(Abstract!vars)
    BY <1>5, RestoreLoses DEF Abstract!Next
  <1> QED
    BY <1>2, <1>3, <1>4, <1>5 DEF Next, Restore

\* The concurrent ledger with its separate publication, crashes and restores
\* implements the atomic, witnessed ledger: no command takes effect twice and
\* the anchor never goes back, whatever is restored, and while the comparison
\* with the anchor is not bypassed nothing is added to a history that has
\* lost what the anchor saw, and only what it holds is anchored.
THEOREM LedgerRefinesWitnessedLedger == Spec => ImplementsWitnessedLedger
  <1>1. Init => Abstract!Init /\ RootedInv
    BY DEF Init, Abstract!Init, NoCheckpoint, RootedInv, Starting
  <1>2. TypeInv /\ AnchorInv /\ RootedInv /\ [Next]_vars
            => [Abstract!Next]_(Abstract!vars)
    BY RefinementStep
  <1> QED
    BY <1>1, <1>2, TypeInvariance, AnchorInvariance, RootedStep, PTL
    DEF Spec, ImplementsWitnessedLedger, Abstract!Spec
=============================================================================
