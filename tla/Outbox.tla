------------------------------- MODULE Outbox -------------------------------
(***************************************************************************)
(* The transactional outbox of the Postgres authority: events that a       *)
(* command's transaction inserted, claimed by workers under a lease,       *)
(* carried out by them and acknowledged.                                   *)
(*                                                                         *)
(* Events are numbered in the order of (available_at, created_at).  The    *)
(* database's clock is not a variable: a row keeps what is left of its     *)
(* claim, and Tick takes one unit from every claim.  Workers are           *)
(* processes that do one thing at a time; several of them, or one and its  *)
(* restarted successor, may present the same worker_ref.                   *)
(*                                                                         *)
(* Since migration 7 idr_outbox_events is a view.  A SELECT ... FOR UPDATE *)
(* on it locks rows of the table beneath, but an UPDATE of it locks none:  *)
(* it finds its rows, and a trigger then writes each one by primary key.   *)
(* An acknowledgement is two steps here for that reason; a claim is not,   *)
(* since it holds the locks.  delivery_attempts is written and reported    *)
(* but never read, and is left out, and so is the filter on the trust      *)
(* domain and the environment: all rows here are of one of them.           *)
(***************************************************************************)
EXTENDS Naturals, FiniteSets

CONSTANTS
    Workers,        \* worker processes
    Names,          \* worker_refs
    NumEvents,      \* how many events the commands insert
    MaxBatch,       \* bound on the limit a worker asks for
    Lease,          \* lease_seconds, in ticks
    Reliable        \* the worker whose progress is assumed

ASSUME ReliableAssumption == Reliable \in Workers
ASSUME LeaseAssumption ==
    NumEvents \in Nat /\ MaxBatch \in Nat /\ Lease \in Nat \ {0}

VARIABLES
    name,       \* name[w] : the worker_ref the process w is configured with
    stored,     \* how many events have been inserted
    owner,      \* owner[e] : claim_owner, as a set of at most one name
    left,       \* left[e]  : what is left until claim_until; 0 once lapsed
    delivered,  \* the events whose delivered_at is set
    locked,     \* locked[w] : rows locked by w's open claiming transaction
    hand,       \* hand[w][e] : what w knows and has done of the event
    term,       \* term[w][e] : what is left of the claim w was given
    acking,     \* acking[w] : the event whose row w's acknowledgement has found and
                \* not yet written, as a set of at most one
    overtaken   \* overtaken[w] : those of them claimed anew since (history)

rows == <<name, stored, owner, left, delivered>>
ackVars == <<acking, overtaken>>
outboxVars == <<name, stored, owner, left, delivered, locked, hand, term,
                acking, overtaken>>

Events == 1 .. NumEvents
Hands  == {"none", "claimed", "handled"}

\* The rows and what the workers know of them have their types; a row is claimed
\* by at most one name and locked by at most one transaction.
OutboxTypeOK ==
    /\ name \in [Workers -> Names]
    /\ stored \in 0 .. NumEvents
    /\ owner \in [Events -> SUBSET Names]
    /\ \A e \in Events : \A m, n \in owner[e] : m = n
    /\ left \in [Events -> 0 .. Lease]
    /\ delivered \in SUBSET (1 .. stored)
    /\ \A e \in delivered : owner[e] = {} /\ left[e] = 0
    /\ locked \in [Workers -> SUBSET (1 .. stored)]
    /\ \A v, w \in Workers : v # w => locked[v] \cap locked[w] = {}
    /\ hand \in [Workers -> [Events -> Hands]]
    /\ term \in [Workers -> [Events -> 0 .. Lease]]
    /\ acking \in [Workers -> SUBSET (1 .. stored)]
    /\ overtaken \in [Workers -> SUBSET (1 .. stored)]

-----------------------------------------------------------------------------
(* The rows.                                                               *)

OutboxInit ==
    /\ name \in [Workers -> Names]
    /\ stored = 0
    /\ owner = [e \in Events |-> {}]
    /\ left = [e \in Events |-> 0]
    /\ delivered = {}
    /\ locked = [w \in Workers |-> {}]
    /\ hand = [w \in Workers |-> [e \in Events |-> "none"]]
    /\ term = [w \in Workers |-> [e \in Events |-> 0]]
    /\ acking = [w \in Workers |-> {}]
    /\ overtaken = [w \in Workers |-> {}]

\* A command's transaction commits, its outbox row with it.
InsertEvent ==
    /\ stored < NumEvents
    /\ stored' = stored + 1
    /\ UNCHANGED <<name, owner, left, delivered, locked, hand, term, ackVars>>

RowLocked(e) == \E w \in Workers : e \in locked[w]

\* Mutant: a claim that lapsed is not taken over.
AvailableOnce(e) == e \notin delivered /\ owner[e] = {} /\ ~RowLocked(e)

\* Mutant: a claim in force does not keep others away.
AvailableAlways(e) == e \notin delivered /\ ~RowLocked(e)

\* Rows the claiming query sees: undelivered, unclaimed or claimed until a
\* time that has come, and not locked by another transaction.
Available(e) == e \notin delivered /\ left[e] = 0 /\ ~RowLocked(e)

\* The first `limit' available rows in order.
Selected(limit) ==
    LET open == {e \in 1 .. stored : Available(e)}
    IN  {e \in open : Cardinality({f \in open : f < e}) < limit}

\* The worker has no call under way.
Idle(w) == locked[w] = {} /\ acking[w] = {}

\* The SELECT ... FOR UPDATE SKIP LOCKED of a claim.
ClaimSelect(w) ==
    /\ Idle(w)
    /\ \E limit \in 1 .. MaxBatch :
          /\ Selected(limit) # {}
          /\ locked' = [locked EXCEPT ![w] = Selected(limit)]
    /\ UNCHANGED <<rows, hand, term, ackVars>>

\* The claim's UPDATE is committed.  `heard' is FALSE when the answer is lost:
\* the rows are claimed, the worker does not know of them.
ClaimCommit(w, heard) ==
    LET mine == locked[w] IN
    /\ mine # {}
    /\ owner' = [e \in Events |-> IF e \in mine THEN {name[w]} ELSE owner[e]]
    /\ left' = [e \in Events |-> IF e \in mine THEN Lease ELSE left[e]]
    /\ locked' = [locked EXCEPT ![w] = {}]
    /\ hand' = IF heard
                 THEN [hand EXCEPT ![w] =
                         [e \in Events |-> IF e \in mine THEN "claimed" ELSE @[e]]]
                 ELSE hand
    /\ term' = IF heard
                 THEN [term EXCEPT ![w] =
                         [e \in Events |-> IF e \in mine THEN Lease ELSE @[e]]]
                 ELSE term
    /\ overtaken' = [v \in Workers |-> overtaken[v] \cup (mine \cap acking[v])]
    /\ UNCHANGED <<name, stored, delivered, acking>>

\* The claiming transaction is rolled back.
ClaimAbort(w) ==
    /\ locked[w] # {}
    /\ locked' = [locked EXCEPT ![w] = {}]
    /\ UNCHANGED <<rows, hand, term, ackVars>>

ClaimEnds(w) == ClaimAbort(w) \/ \E heard \in BOOLEAN : ClaimCommit(w, heard)

\* The event's work is carried out by the worker, in its lease or after it.
Handle(w, e) ==
    /\ Idle(w)
    /\ hand[w][e] = "claimed"
    /\ hand' = [hand EXCEPT ![w][e] = "handled"]
    /\ UNCHANGED <<rows, locked, term, ackVars>>

\* Mutant: claim_owner is not compared.
AcknowledgedByAnyone(w, e) == e \notin delivered /\ left[e] > 0

\* What the acknowledging UPDATE requires of a row it finds.
Acknowledged(w, e) ==
    /\ owner[e] = {name[w]}
    /\ e \notin delivered
    /\ left[e] > 0

\* An answer to an acknowledgement: the worker is done with the event.
Drop(w, e) ==
    /\ hand' = [hand EXCEPT ![w][e] = "none"]
    /\ term' = [term EXCEPT ![w][e] = 0]

\* The acknowledging UPDATE looks for its row, which it does not lock.  When
\* there is none it is refused (BindingMismatch), and the worker drops the event.
AckScan(w, e) ==
    /\ Idle(w)
    /\ hand[w][e] = "handled"
    /\ IF Acknowledged(w, e)
         THEN acking' = [acking EXCEPT ![w] = {e}] /\ UNCHANGED <<hand, term>>
         ELSE Drop(w, e) /\ UNCHANGED acking
    /\ UNCHANGED <<rows, locked, overtaken>>

AckForgotten(w) ==
    /\ acking' = [acking EXCEPT ![w] = {}]
    /\ overtaken' = [overtaken EXCEPT ![w] = {}]

\* idr_attested_authority_view_bridge_v7 for the row that was found: the row of
\* that outbox_id is written once no other transaction has it locked, whatever
\* has become of it meanwhile, and the transaction commits.  When the answer is
\* lost, the worker still holds the event and may try again.
AckWrite(w, e, heard) ==
    /\ e \in acking[w]
    /\ ~RowLocked(e)
    /\ delivered' = delivered \cup {e}
    /\ owner' = [owner EXCEPT ![e] = {}]
    /\ left' = [left EXCEPT ![e] = 0]
    /\ AckForgotten(w)
    /\ IF heard THEN Drop(w, e) ELSE UNCHANGED <<hand, term>>
    /\ UNCHANGED <<name, stored, locked>>

\* The acknowledging transaction is rolled back.
AckAbort(w) ==
    /\ acking[w] # {}
    /\ AckForgotten(w)
    /\ UNCHANGED <<rows, locked, hand, term>>

\* The worker process ends and forgets what it held; its transaction is rolled
\* back.
Crash(w) ==
    /\ AckForgotten(w)
    /\ locked' = [locked EXCEPT ![w] = {}]
    /\ hand' = [hand EXCEPT ![w] = [e \in Events |-> "none"]]
    /\ term' = [term EXCEPT ![w] = [e \in Events |-> 0]]
    /\ UNCHANGED rows

\* clock_timestamp() moves on.
Tick ==
    /\ left' = [e \in Events |-> IF left[e] > 0 THEN left[e] - 1 ELSE 0]
    /\ term' = [w \in Workers |-> [e \in Events |->
                  IF term[w][e] > 0 THEN term[w][e] - 1 ELSE 0]]
    /\ UNCHANGED <<name, stored, owner, delivered, locked, hand, ackVars>>

OutboxNext ==
    \/ InsertEvent
    \/ Tick
    \/ \E w \in Workers :
          \/ ClaimSelect(w)
          \/ ClaimEnds(w)
          \/ AckAbort(w)
          \/ Crash(w)
          \/ \E e \in Events :
                \/ Handle(w, e)
                \/ AckScan(w, e)
                \/ \E heard \in BOOLEAN : AckWrite(w, e, heard)

\* Time passes, and one worker can be relied on: it polls, and when it is again
\* and again given events it does not always miss the lease: some time it carries
\* one out within it, some time it also sends the acknowledgement within it, and
\* not every acknowledgement is rolled back.  Of the other workers it is only
\* assumed that their claiming transactions end, with a commit or with the
\* connection.
Fairness ==
    /\ WF_outboxVars(Tick)
    /\ \A w \in Workers : WF_outboxVars(ClaimEnds(w))
    /\ SF_outboxVars(ClaimSelect(Reliable))
    /\ SF_outboxVars(ClaimCommit(Reliable, TRUE))
    /\ SF_outboxVars(\E e \in Events : term[Reliable][e] > 0 /\ Handle(Reliable, e))
    /\ SF_outboxVars(\E e \in Events : Acknowledged(Reliable, e) /\ AckScan(Reliable, e))
    /\ SF_outboxVars(\E e \in Events : AckWrite(Reliable, e, TRUE))

OutboxSpec == OutboxInit /\ [][OutboxNext]_outboxVars
FairSpec == OutboxSpec /\ Fairness

-----------------------------------------------------------------------------
(* Properties.                                                             *)

\* No two workers hold an event under claims that are both still in force by
\* the database's clock, whatever names they present: a second worker gets the
\* event only once the first one's claim has lapsed or was given back.
LiveClaimsExclusive ==
    \A v, w \in Workers, e \in Events :
        term[v][e] > 0 /\ term[w][e] > 0 => v = w

\* The claims in the rows and in the hands of the workers agree in type, and no
\* two workers hold an event.
ClaimInv == OutboxTypeOK /\ LiveClaimsExclusive

\* An event is settled only by a process that carried it out, and while a
\* worker's claim on it is in force only under that worker's name, unless that
\* worker was given the event after the acknowledgement had found the row: no
\* lapsed claim, repeated or late acknowledgement or crash ends an event nobody
\* handled or one that was in somebody else's hands when the acknowledgement
\* came.  (The trigger writes by primary key, so a claim made between the search
\* and the write is overridden; and the row keeps the name and not the attempt,
\* so a predecessor of the same name can always settle it.)
SettledByHandler ==
    [][\A e \in delivered' \ delivered :
          \E v \in Workers :
              /\ hand[v][e] = "handled"
              /\ \A w \in Workers :
                    term[w][e] > 0 => name[v] = name[w] \/ e \in overtaken[v]]_outboxVars

\* Every event a command committed is delivered in the end, through crashes,
\* lapsed claims and lost answers.
EveryEventDelivered ==
    \A e \in Events : e <= stored ~> e \in delivered
=============================================================================
