------------------------ MODULE MCProofVerification ------------------------
EXTENDS ProofVerification, TLC

KindNames ==
    ACTION_ADMISSION_PROOF_KINDS \cup {"CallerAuthentication", "ExecutionPermit"}

MCIssuer == [k \in KindNames |-> IF k = "Authority" THEN "board" ELSE "desk"]

Desk == [issuer |-> "desk", kinds |-> KindNames \ {"Authority"},
         validFrom |-> 1, validUntil |-> 4, revoked |-> {}]
Old  == [issuer |-> "board", kinds |-> {"Authority"},
         validFrom |-> 1, validUntil |-> 2, revoked |-> {}]
New  == [Old EXCEPT !.validFrom = 2, !.validUntil = 4]

\* The old key ends at 2.  Version 2 would extend it, but revokes it from 2 on,
\* and brings the new key, valid from 2; version 3 has the new one only.
RootOf(v) ==
    CASE v = 1 -> [desk |-> Desk, old |-> Old]
      [] v = 2 -> [desk |-> Desk, old |-> [Old EXCEPT !.validUntil = 3, !.revoked = {2}], new |-> New]
      [] v = 3 -> [desk |-> Desk, new |-> New]
MCRootsDef == [v \in 1 .. 3 |-> RootOf(v)]
MCRoots == MCRootsDef

\* The proofs of one command, its authority signed by the key i at time t.
ProofsOf(name, kinds, i, t) ==
    {[id |-> <<name, k>>, kind |-> k, issuer |-> MCIssuer[k],
      keyId |-> IF k = "Authority" THEN i ELSE "desk", subject |-> name,
      scope |-> "home", principal |-> "agent", allows |-> TRUE, signed |-> TRUE,
      issuedAt |-> t, notBefore |-> t, expiresAt |-> 4] : k \in kinds}

Command(name, op, kinds, i, t) ==
    [name |-> name, op |-> op, subject |-> name, scope |-> "home",
     principal |-> "agent",
     proofs |-> ProofsOf(name, kinds \cup {"CallerAuthentication"}, i, t)]

AdmitOld == Command("admit_old", "AdmitAction", ACTION_ADMISSION_PROOF_KINDS, "old", 1)
AdmitNew == Command("admit_new", "AdmitAction", ACTION_ADMISSION_PROOF_KINDS, "new", 2)
\* Signed by the new key before that key is valid.
AdmitEarly == Command("admit_early", "AdmitAction", ACTION_ADMISSION_PROOF_KINDS, "new", 1)
\* One of its approvals was given to another principal.
AdmitLent ==
    [Command("admit_lent", "AdmitAction", ACTION_ADMISSION_PROOF_KINDS, "old", 1) EXCEPT
        !.proofs = {[p EXCEPT !.principal = IF p.kind = "Policy" THEN "other" ELSE @] : p \in @}]
Dispatch == Command("dispatch", "StartDispatch", {"ExecutionPermit"}, "desk", 1)
\* For another scope than the Admission's.
Recover ==
    [Command("recover", "RecoverPermit", {"ExecutionPermit"}, "desk", 1) EXCEPT
        !.scope = "away", !.proofs = {[p EXCEPT !.scope = "away"] : p \in @}]
\* Its proof expires at 2.
Redraft ==
    [Command("redraft", "RecordAction", {}, "desk", 1) EXCEPT
        !.proofs = {[p EXCEPT !.expiresAt = 2] : p \in @}]

MCCommandsDef ==
    {AdmitOld, AdmitNew, AdmitEarly, AdmitLent, Dispatch, Recover, Redraft}
MCCommands == MCCommandsDef

SessionSymmetry == Permutations(Sessions)

=============================================================================
