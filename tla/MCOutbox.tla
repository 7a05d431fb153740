------------------------------ MODULE MCOutbox ------------------------------
(* Two worker processes that present the same worker_ref or different ones. *)
(* Names are only compared, so the first process may have the first name.   *)
EXTENDS Outbox

CONSTANTS w1, w2, first, recovery

MCInit == OutboxInit /\ name[w1] = first
MCSpec == MCInit /\ [][OutboxNext]_outboxVars /\ Fairness
=============================================================================
