--------------------------- MODULE CommandLedger ---------------------------
(***************************************************************************)
(* The command ledger of one tenant: instances of the orchestrator handle  *)
(* command envelopes concurrently, each in one SERIALIZABLE transaction    *)
(* that answers a repeated command from its stored Receipt or checks the   *)
(* proofs' nonces and the expected aggregate version and extends the audit *)
(* chain.  After the commit, outside the transaction, the checkpoint is    *)
(* published at the external anchor and marked as published.  Instances    *)
(* crash, the anchor may be out of order, the database may be restored to  *)
(* an earlier state, and every start first compares the database with the  *)
(* anchor.                                                                 *)
(*                                                                         *)
(* Abstractions.  All tables are written by one commit, so the database is *)
(* the sequence of commits: an entry carries the envelope (Receipt, proof  *)
(* consumption), the audit event with the hash of its predecessor, and the *)
(* Run rows it leaves.  A hash is a number that is new with every commit.  *)
(* What a command means is left to ExecutionAuthority: here it starts a    *)
(* Run, leads to an Admission, or uses the Admission.  The proofs of an    *)
(* envelope are one, named by its nonce; that it does not verify, or that  *)
(* the transition refuses, is the step Refuse.                             *)
(***************************************************************************)
EXTENDS Naturals, Sequences, FiniteSets

CONSTANTS
    Instances,     \* orchestrator processes, one command at a time each
    Envelopes,     \* the command envelopes clients send
    CommandIds,
    Runs,
    Nonces,
    NoEnvelope,
    MaxCommits,    \* bound on commits, the lost ones included
    MaxCrashes,    \* bound on crashes of instances
    MaxOutages,    \* bound on failed calls to the anchor or the marking
    MaxRestores    \* bound on restores of the database

Kinds == {"start", "admit", "execute"}

ASSUME EnvelopesTyped ==
    Envelopes \subseteq [id : CommandIds, run : Runs, expected : Nat,
                         kind : Kinds, nonce : Nonces]

ASSUME NoEnvelopeIsNone == NoEnvelope \notin Envelopes

ASSUME BoundsTyped ==
    /\ MaxCommits \in Nat
    /\ MaxCrashes \in Nat
    /\ MaxOutages \in Nat
    /\ MaxRestores \in Nat

VARIABLES
    log,        \* the committed transactions of the tenant, in order
    published,  \* idr_audit_checkpoints with published_at
    commits,    \* commits so far, the source of fresh hashes
    anchor,     \* the checkpoint the external anchor holds
    pc,         \* where each instance is
    envelope,   \* the command it handles
    snapshot,   \* the length of the log its transaction reads
    checkpoint, \* the checkpoint it publishes or compares
    crashes, outages, restores,
    exposed     \* history: the comparison with the anchor has been bypassed

faultVars == <<crashes, outages, restores, exposed>>
vars == <<log, published, commits, anchor, pc, envelope, snapshot,
          checkpoint, crashes, outages, restores, exposed>>

-----------------------------------------------------------------------------
(* Types.                                                                  *)

RunRow == [version : 0 .. MaxCommits, admitted : BOOLEAN]
Commit == [env : Envelopes, version : 1 .. MaxCommits, governed : BOOLEAN,
           previous : 0 .. MaxCommits, root : 1 .. MaxCommits,
           runs : [Runs -> RunRow]]

\* AuditCheckpointV1; the position in the log is its audit_sequence.
Checkpoint == [seq : 0 .. MaxCommits, root : 0 .. MaxCommits]
NoCheckpoint == [seq |-> 0, root |-> 0]

Starting == {"loading", "behind", "reloading"}
Serving == {"ready", "open", "publishing", "marking"}

\* Every variable has its type.
TypeOK ==
    /\ log \in Seq(Commit)
    /\ published \in SUBSET (1 .. MaxCommits)
    /\ commits \in 0 .. MaxCommits
    /\ anchor \in Checkpoint
    /\ pc \in [Instances -> {"down"} \cup Starting \cup Serving]
    /\ envelope \in [Instances -> Envelopes \cup {NoEnvelope}]
    /\ snapshot \in [Instances -> 0 .. MaxCommits]
    /\ checkpoint \in [Instances -> Checkpoint]
    /\ crashes \in 0 .. MaxCrashes
    /\ outages \in 0 .. MaxOutages
    /\ restores \in 0 .. MaxRestores
    /\ exposed \in BOOLEAN

-----------------------------------------------------------------------------
(* What a transaction reads in the database db, a prefix of the log.       *)

LatestCheckpoint(db) ==
    IF db = <<>> THEN NoCheckpoint
                 ELSE [seq |-> Len(db), root |-> db[Len(db)].root]

RunRows(db) ==
    IF db = <<>> THEN [r \in Runs |-> [version |-> 0, admitted |-> FALSE]]
                 ELSE db[Len(db)].runs

\* Mutant: the Receipt is looked up by the digest of the command.
ReceiptsByDigest(db, e) == {i \in 1 .. Len(db) : db[i].env = e}

\* The rows of idr_command_receipts with the command's id.
ReceiptsOf(db, e) == {i \in 1 .. Len(db) : db[i].env.id = e.id}

\* check_proof_replay.
NonceUnused(db, e) == \A i \in 1 .. Len(db) : db[i].env.nonce # e.nonce

\* reverify_bound_action_admission_proofs finds a bundle that no longer
\* verifies; an absent Admission is an error and no disposition.
RecheckMayFail(db, e) == e.kind = "execute" /\ RunRows(db)[e.run].admitted

\* Mutant: the version is compared on the way in, as a lower bound.
VersionReached(db, e) ==
    LET row == RunRows(db)[e.run]
    IN  /\ e.expected <= row.version
        /\ e.kind = "start" <=> row.version = 0
        /\ e.kind = "execute" => row.admitted

\* The transition accepts the command: only StartRun finds no Run, and the
\* expected version is the Run's.
TransitionAccepts(db, e) ==
    LET row == RunRows(db)[e.run]
    IN  /\ e.expected = row.version
        /\ e.kind = "start" <=> row.version = 0
        /\ e.kind = "execute" => row.admitted

-----------------------------------------------------------------------------
(* The transaction of handle.                                              *)

Snapshot(p) == SubSeq(log, 1, snapshot[p])

\* The instance goes on to pc `next' with nothing in hand.
Rest(p, next) ==
    /\ pc' = [pc EXCEPT ![p] = next]
    /\ envelope' = [envelope EXCEPT ![p] = NoEnvelope]
    /\ snapshot' = [snapshot EXCEPT ![p] = 0]
    /\ checkpoint' = [checkpoint EXCEPT ![p] = NoCheckpoint]

Begin(p, e) ==
    /\ pc[p] = "ready"
    /\ pc' = [pc EXCEPT ![p] = "open"]
    /\ envelope' = [envelope EXCEPT ![p] = e]
    /\ snapshot' = [snapshot EXCEPT ![p] = Len(log)]
    /\ UNCHANGED <<log, published, commits, anchor, checkpoint, faultVars>>

\* The Receipt of the same command is returned, and nothing is published.
Replay(p) ==
    /\ pc[p] = "open"
    /\ \E i \in ReceiptsOf(Snapshot(p), envelope[p]) :
          Snapshot(p)[i].env = envelope[p]
    /\ Rest(p, "ready")
    /\ UNCHANGED <<log, published, commits, anchor, faultVars>>

\* An error, a failed proof, an IdempotencyConflict, a ProofReplay, an
\* AggregateVersionConflict or a serialization failure: all rolls back.
Refuse(p) ==
    /\ pc[p] = "open"
    /\ Rest(p, "ready")
    /\ UNCHANGED <<log, published, commits, anchor, faultVars>>

\* Mutant: READ COMMITTED.
SnapshotIgnored(p) == TRUE

\* Two transactions of a tenant that overlap read and write the end of its
\* audit chain: PostgreSQL lets one of them commit.
Serializable(p) == snapshot[p] = Len(log)

NewCommit(p, governed) ==
    LET db == Snapshot(p)
        e == envelope[p]
        row == RunRows(db)[e.run]
    IN  [env |-> e, version |-> row.version + 1, governed |-> governed,
         previous |-> LatestCheckpoint(db).root, root |-> commits + 1,
         runs |-> [RunRows(db) EXCEPT ![e.run] =
                      [version |-> row.version + 1,
                       admitted |-> ~governed /\ (row.admitted
                                                    \/ e.kind = "admit")]]]

\* Every table of the command, the outbox event and the checkpoint included.
CommitCommand(p, governed) ==
    LET db == Snapshot(p)
        e == envelope[p]
    IN  /\ pc[p] = "open"
        /\ commits < MaxCommits
        /\ ReceiptsOf(db, e) = {}
        /\ NonceUnused(db, e)
        /\ IF governed THEN RecheckMayFail(db, e)
                       ELSE TransitionAccepts(db, e)
        /\ Serializable(p)
        /\ log' = Append(log, NewCommit(p, governed))
        /\ commits' = commits + 1
        /\ pc' = [pc EXCEPT ![p] = "publishing"]
        /\ checkpoint' = [checkpoint EXCEPT ![p] =
                             [seq |-> Len(log) + 1, root |-> commits + 1]]
        /\ UNCHANGED <<published, anchor, envelope, snapshot, faultVars>>

-----------------------------------------------------------------------------
(* Publication, after the commit.                                          *)

\* Mutant: the anchor is a plain upsert.
AnchorOverwrites(c) == TRUE

\* InMemoryAuditCheckpointAnchorV1::publish.
AnchorAccepts(c) ==
    anchor.seq < c.seq \/ anchor = c

\* Mutant: publication is sent off and not awaited.
PublishUnawaited(p) ==
    /\ pc[p] = "publishing"
    /\ pc' = [pc EXCEPT ![p] = "marking"]
    /\ UNCHANGED <<log, published, commits, anchor, envelope, snapshot,
                   checkpoint, faultVars>>

PublishCheckpoint(p) ==
    /\ pc[p] = "publishing"
    /\ AnchorAccepts(checkpoint[p])
    /\ anchor' = checkpoint[p]
    /\ pc' = [pc EXCEPT ![p] = "marking"]
    /\ UNCHANGED <<log, published, commits, envelope, snapshot, checkpoint,
                   faultVars>>

\* A later checkpoint is there already: handle returns the error.
PublishRefused(p) ==
    /\ pc[p] = "publishing"
    /\ ~AnchorAccepts(checkpoint[p])
    /\ Rest(p, "ready")
    /\ UNCHANGED <<log, published, commits, anchor, faultVars>>

\* An UPDATE of a checkpoint that a restore took away changes no row.
MarkPublished(p) ==
    LET c == checkpoint[p]
    IN  /\ pc[p] = "marking"
        /\ published' =
              IF c.seq <= Len(log) /\ log[c.seq].root = c.root
              THEN published \cup {c.seq} ELSE published
        /\ Rest(p, "ready")
        /\ UNCHANGED <<log, commits, anchor, faultVars>>

-----------------------------------------------------------------------------
(* Start: verify_external_anchor.                                          *)

\* Some instance is running.
SomeoneUp == \E q \in Instances : pc[q] # "down"

\* Only tenants with a Run are compared with the anchor: an emptied database
\* is served without a comparison.  A start with everybody down otherwise
\* ends an exposure.
StartInstance(p) ==
    /\ pc[p] = "down"
    /\ pc' = [pc EXCEPT ![p] = IF log = <<>> THEN "ready" ELSE "loading"]
    /\ checkpoint' = [checkpoint EXCEPT ![p] = LatestCheckpoint(log)]
    /\ exposed' = \/ exposed /\ SomeoneUp
                  \/ log = <<>> /\ anchor.seq > 0
    /\ UNCHANGED <<log, published, commits, anchor, envelope, snapshot,
                   crashes, outages, restores>>

\* Mutant: an unpublished tail is left for the next command.
TailLeft(c) == FALSE

AnchorBehind(c) == anchor.seq < c.seq

\* Mutant: the sequences are compared the wrong way round.
AnchorPassed(c) == c.seq <= anchor.seq

AnchorMatches(c) == anchor = c

\* Mutant: a refused start leaves the process in a state of its own.
LoadAnchorOrHalt(p) ==
    /\ pc[p] = "loading"
    /\ IF AnchorBehind(checkpoint[p])
       THEN /\ pc' = [pc EXCEPT ![p] = "behind"]
            /\ UNCHANGED <<envelope, snapshot, checkpoint>>
       ELSE Rest(p, IF AnchorMatches(checkpoint[p]) THEN "ready" ELSE "halted")
    /\ UNCHANGED <<log, published, commits, anchor, faultVars>>

LoadAnchor(p) ==
    /\ pc[p] = "loading"
    /\ IF AnchorBehind(checkpoint[p])
       THEN /\ pc' = [pc EXCEPT ![p] = "behind"]
            /\ UNCHANGED <<envelope, snapshot, checkpoint>>
       ELSE Rest(p, IF AnchorMatches(checkpoint[p]) THEN "ready" ELSE "down")
    /\ UNCHANGED <<log, published, commits, anchor, faultVars>>

RepublishTail(p) ==
    /\ pc[p] = "behind"
    /\ IF AnchorAccepts(checkpoint[p])
       THEN /\ anchor' = checkpoint[p]
            /\ pc' = [pc EXCEPT ![p] = "reloading"]
            /\ UNCHANGED <<envelope, snapshot, checkpoint>>
       ELSE Rest(p, "down") /\ UNCHANGED anchor
    /\ UNCHANGED <<log, published, commits, faultVars>>

ReloadAnchor(p) ==
    /\ pc[p] = "reloading"
    /\ Rest(p, IF AnchorMatches(checkpoint[p]) THEN "ready" ELSE "down")
    /\ UNCHANGED <<log, published, commits, anchor, faultVars>>

-----------------------------------------------------------------------------
(* Faults.                                                                 *)

\* The process ends; an open transaction rolls back.
Crash(p) ==
    /\ pc[p] # "down"
    /\ crashes < MaxCrashes
    /\ crashes' = crashes + 1
    /\ Rest(p, "down")
    /\ UNCHANGED <<log, published, commits, anchor, outages, restores, exposed>>

\* The call to the anchor, or the transaction that marks, fails: handle
\* returns the error, and a start fails.
Outage(p) ==
    /\ pc[p] \in Starting \cup {"publishing", "marking"}
    /\ outages < MaxOutages
    /\ outages' = outages + 1
    /\ Rest(p, IF pc[p] \in Starting THEN "down" ELSE "ready")
    /\ UNCHANGED <<log, published, commits, anchor, crashes, restores, exposed>>

\* The database comes back with its first n commits, possibly none, and some
\* of the marks.  Connections of running instances break, but nothing makes
\* them compare the database with the anchor again.
RestoreDatabase(n, marks) ==
    /\ restores < MaxRestores
    /\ n < Len(log)
    /\ restores' = restores + 1
    /\ log' = SubSeq(log, 1, n)
    /\ published' = marks
    /\ pc' = [p \in Instances |-> IF pc[p] = "open" THEN "ready" ELSE pc[p]]
    /\ envelope' = [p \in Instances |->
                       IF pc[p] = "open" THEN NoEnvelope ELSE envelope[p]]
    /\ snapshot' = [p \in Instances |-> 0]
    /\ exposed' = (exposed \/ SomeoneUp)
    /\ UNCHANGED <<commits, anchor, checkpoint, crashes, outages>>

-----------------------------------------------------------------------------
Init ==
    /\ log = <<>>
    /\ published = {}
    /\ commits = 0
    /\ anchor = NoCheckpoint
    /\ pc = [p \in Instances |-> "down"]
    /\ envelope = [p \in Instances |-> NoEnvelope]
    /\ snapshot = [p \in Instances |-> 0]
    /\ checkpoint = [p \in Instances |-> NoCheckpoint]
    /\ crashes = 0 /\ outages = 0 /\ restores = 0 /\ exposed = FALSE

Handle(p) ==
    \/ \E e \in Envelopes : Begin(p, e)
    \/ Replay(p)
    \/ Refuse(p)
    \/ \E governed \in BOOLEAN : CommitCommand(p, governed)
    \/ PublishCheckpoint(p)
    \/ PublishRefused(p)
    \/ MarkPublished(p)

VerifyExternalAnchor(p) ==
    StartInstance(p) \/ LoadAnchor(p) \/ RepublishTail(p) \/ ReloadAnchor(p)

Restore ==
    \E n \in 0 .. MaxCommits :
        \E marks \in SUBSET (published \cap 1 .. n) : RestoreDatabase(n, marks)

Next ==
    \/ \E p \in Instances :
          Handle(p) \/ VerifyExternalAnchor(p) \/ Crash(p) \/ Outage(p)
    \/ Restore

Spec == Init /\ [][Next]_vars

\* An instance that is up takes its next step, and one that is down is
\* started again.  Nothing makes a client send a command, and nothing keeps
\* a transaction from being refused.
Fairness ==
    \A p \in Instances :
        /\ WF_vars(VerifyExternalAnchor(p))
        /\ WF_vars(PublishCheckpoint(p) \/ PublishRefused(p))
FairSpec == Spec /\ Fairness

-----------------------------------------------------------------------------
(* Safety.                                                                 *)

\* The audit chain is linear: every event carries the hash of the event
\* before it, whatever transactions of the tenant overlapped, crashed or
\* were restored away.
ChainLinear ==
    \A i \in 1 .. Len(log) :
        log[i].previous = IF i = 1 THEN 0 ELSE log[i - 1].root

\* A command takes effect at most once and a proof is consumed at most once,
\* through retries, lost answers and concurrent instances: the unique keys
\* of the migrations, which this model does not enforce, never fire.
EffectOnce ==
    \A i, j \in 1 .. Len(log) :
        \/ log[i].env.id = log[j].env.id
        \/ log[i].env.nonce = log[j].env.nonce
        => i = j

\* The commits of a Run are numbered without a gap, and one that is not a
\* governed disposition is made at the version its sender expected.
VersionsInOrder ==
    \A i \in 1 .. Len(log) :
        LET earlier == {j \in 1 .. i - 1 : log[j].env.run = log[i].env.run}
        IN  /\ log[i].version = Cardinality(earlier) + 1
            /\ ~log[i].governed => log[i].env.expected = Cardinality(earlier)

\* The database holds what the anchor has seen.
Intact ==
    \/ anchor.seq = 0
    \/ anchor.seq <= Len(log) /\ log[anchor.seq].root = anchor.root

\* A database that was restored to before the anchored checkpoint, or has
\* forked from it, is not served, with two exceptions, and the formula names
\* them: instances that were up during the restore, for nothing compares the
\* database with the anchor while they serve, and those that started on an
\* emptied database, which verify_external_anchor passes over.  Once all of
\* them have stopped, verify_external_anchor protects the database again.
ServedIsIntact ==
    ~exposed /\ (\E p \in Instances : pc[p] \in Serving) => Intact

\* What the design asks for: at the start and in periodic checks the database
\* is compared with the anchor, and nothing is written to one that has fallen
\* behind it.  The code's only comparison is the start's.
RollbackRefused == [][Len(log') > Len(log) => Intact]_vars

\* published_at is set only for a checkpoint the anchor had accepted.
MarkedIsAnchored == \A n \in published : n <= anchor.seq

-----------------------------------------------------------------------------
(* The abstract ledger.                                                    *)

Abstract == INSTANCE WitnessedLedger WITH
    history <- [i \in 1 .. Len(log) |->
                   [id |-> log[i].env.id, root |-> log[i].root]],
    witness <- anchor,
    unguarded <- exposed,
    Roots <- 1 .. MaxCommits

\* The ledger implements WitnessedLedger.
ImplementsWitnessedLedger == Abstract!Spec

-----------------------------------------------------------------------------
(* Liveness.                                                               *)

\* A call to the anchor has failed, and no instance is down or starting.
LeftByOutage == outages > 0 /\ \A p \in Instances : pc[p] \in Serving

\* Every committed checkpoint, or a later one, reaches the anchor: by the
\* instance that committed it or, if that crashed, by the next start.  Only an
\* outage of the anchor leaves a checkpoint behind, and only as long as every
\* instance stays up: handle does not publish again, the next start does.
TailGetsAnchored ==
    \A n \in 1 .. MaxCommits :
        (Len(log) >= n) ~> (anchor.seq >= n \/ Len(log) < n \/ LeftByOutage)
=============================================================================
