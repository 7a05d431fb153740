------------------------- MODULE MCContractStore -------------------------
EXTENDS ContractStore, TLC

CONSTANTS i1, i2, d1, d2, a1, a2, b1, e1, e2, o1, q1, q2, q3, q4

Plain ==
    [kind |-> "Intent", id |-> "I", revision |-> 1, predecessor |-> None,
     dependencies |-> {}, names |-> {}, context |-> "turn", scope |-> None,
     authority |-> {}, automatic |-> FALSE, mayAutomate |-> {}, highImpact |-> FALSE,
     reversible |-> TRUE, preAction |-> FALSE, validUntil |-> 4, request |-> None,
     state |-> None, started |-> 1, completed |-> 1, proofExpiresAt |-> 5, satisfied |-> FALSE]

Naming(contract, kind, id, names) ==
    [contract EXCEPT !.kind = kind, !.id = id, !.names = names, !.dependencies = names]

Action(id, names) ==
    [Naming(Plain, "Action", id, names) EXCEPT
        !.scope = "s", !.automatic = TRUE, !.authority = {"operator"}]

Receipt(id, request, state, started) ==
    [Naming(Plain, "ExecutionReceipt", id, {a1}) EXCEPT
        !.request = request, !.state = state, !.started = started, !.completed = started]

\* An Intent and its successor, which depends on the Decision made from the first;
\* the Decision's successor, which comes when the Decision is no longer effective;
\* an Action and its successor; a second Action in the same idempotency scope; the
\* receipts of two attempts; an Outcome.
Contracts ==
    i1 :> Plain
    @@ i2 :> [Plain EXCEPT !.revision = 2, !.predecessor = i1, !.dependencies = {d1}]
    @@ d1 :> [Naming(Plain, "Decision", "D", {i1}) EXCEPT
                !.authority = {"operator"}, !.mayAutomate = {"s"}]
    @@ d2 :> [Naming(Plain, "Decision", "D", {i2}) EXCEPT !.revision = 2, !.predecessor = d1]
    @@ a1 :> Action("A", {d1})
    @@ a2 :> [Action("A", {d1}) EXCEPT !.revision = 2, !.predecessor = a1]
    @@ b1 :> Action("B", {})
    @@ e1 :> Receipt("E", q1, "Failed", 2)
    @@ e2 :> Receipt("F", q2, "Succeeded", 3)
    @@ o1 :> [Naming(Plain, "Outcome", "O", {a1, e2}) EXCEPT !.satisfied = TRUE]

Asks(action, attempt, proof, leaseIssuedAt, leaseUntil) ==
    [action |-> action, attempt |-> attempt, authorization |-> proof, proof |-> proof,
     leaseIssuedAt |-> leaseIssuedAt, leaseUntil |-> leaseUntil,
     proofExpiresAt |-> leaseUntil, approvalExpiresAt |-> 4]

\* q4 uses q1's proof again.
PermitRequests ==
    q1 :> Asks(a1, 1, "p1", 1, 3)
    @@ q2 :> Asks(a1, 2, "p2", 2, 4)
    @@ q3 :> Asks(b1, 1, "p3", 1, 4)
    @@ q4 :> Asks(a1, 2, "p1", 1, 4)

\* TLC evaluates a definition that a constant is replaced by at every use of the
\* constant; the definitions above it evaluates once.
TheContract == Contracts
TheRequest == PermitRequests
=============================================================================
