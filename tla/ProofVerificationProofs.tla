---------------------- MODULE ProofVerificationProofs ----------------------
(***************************************************************************)
(* Proofs about proof verification, for every set of commands, every        *)
(* sequence of Trust Roots that reinstates no key, any number of            *)
(* transactions and any clock.                                              *)
(***************************************************************************)
EXTENDS ProofVerification, FiniteSetTheorems, TLAPS

-----------------------------------------------------------------------------
(* The inductive invariant.                                                 *)

\* A transaction reads a Trust Root that is no older than the newest one that was
\* installed when it began, and no Trust Root is ever older than one before it.
RootsAdvance ==
    /\ root = peak
    /\ \A s \in Sessions :
          /\ tx[s].stage \in {"begun", "read"} => tx[s].floor <= peak
          /\ tx[s].stage = "read" => tx[s].floor <= tx[s].ver /\ tx[s].ver <= peak

\* The bundle holds the approvals of this AdmitAction command, as verify_proofs saw
\* them.
BundleOf(c, bundle) ==
    /\ c.op = "AdmitAction"
    /\ bundle = {p \in c.proofs : p.kind \in ACTION_ADMISSION_PROOF_KINDS}
    /\ ExactKinds(c)
    /\ \A p \in c.proofs : p.allows /\ p.principal = c.principal /\ p.subject = c.subject

\* Every Admission, in force or withdrawn, came from a command whose Receipt is stored.
AdmissionsReceipted ==
    /\ admission # {} => \E c \in receipts : BundleOf(c, admission)
    /\ \A b \in failed : b # {} /\ \E c \in receipts : BundleOf(c, b)

ProofInv ==
    /\ AdmissionInv
    /\ RootsAdvance
    /\ AdmissionsReceipted
    /\ RevocationSticks
    /\ UsedInWindows
    /\ ReleasedOnOneAdmission

-----------------------------------------------------------------------------
(* What verification establishes.                                           *)

\* One proof of each required kind: a selection of them by kind has as many proofs
\* as kinds.
LEMMA OneOfEachKind ==
    ASSUME NEW c \in Commands, ExactKinds(c), NEW kinds \in SUBSET RequiredProofKinds(c.op)
    PROVE  /\ {p.kind : p \in {q \in c.proofs : q.kind \in kinds}} = kinds
           /\ Cardinality({q \in c.proofs : q.kind \in kinds}) = Cardinality(kinds)
<1> DEFINE required == RequiredProofKinds(c.op)
           chosen == {q \in c.proofs : q.kind \in kinds}
           kindOf == [p \in c.proofs |-> p.kind]
           kindOfChosen == [p \in chosen |-> p.kind]
<1>1. /\ {p.kind : p \in c.proofs} = required /\ Cardinality(c.proofs) = Cardinality(required)
      /\ IsFiniteSet(c.proofs)
  BY CommandsAssumption DEF ExactKinds
<1>2. {p.kind : p \in chosen} = kinds
  BY <1>1
<1>3. kindOf \in Surjection(c.proofs, required)
  BY <1>1 DEF Surjection
<1>4. kindOf \in Injection(c.proofs, required)
  <2> HIDE DEF kindOf, required
  <2> QED BY <1>1, <1>3, FS_SurjSameCardinalityImpliesInj
<1>5. \A p, q \in c.proofs : p.kind = q.kind => p = q
  BY <1>4 DEF Injection, IsInjective
<1>6. kindOfChosen \in Bijection(chosen, kinds)
  BY <1>2, <1>5 DEF Bijection, Injection, Surjection, IsInjective
<1>7. ExistsBijection(chosen, kinds) /\ IsFiniteSet(chosen)
  <2>1. IsFiniteSet(chosen)
    BY <1>1, FS_Subset
  <2> QED BY <1>6, <2>1 DEF ExistsBijection
<1>8. Cardinality(kinds) = Cardinality(chosen)
  <2> HIDE DEF chosen
  <2> QED BY <1>7, FS_Bijection
<1> QED BY <1>2, <1>8

LEMMA AdmitNeedsFive == ACTION_ADMISSION_PROOF_KINDS \subseteq RequiredProofKinds("AdmitAction")
BY DEF RequiredProofKinds, OpProofKinds, PermitOps

LEMMA ReadTx ==
    ASSUME ProofInv, NEW s \in Sessions, tx[s].stage = "read"
    PROVE  /\ tx[s] \in Read /\ tx[s].cmd \in Commands /\ tx[s].at \in 1 .. MaxTime
           /\ tx[s].floor \in Versions /\ tx[s].ver \in Versions
           /\ tx[s].floor <= tx[s].ver /\ tx[s].ver <= peak
           /\ tx[s].cmd.proofs \subseteq Proofs
<1>1. tx[s] \in Read
  BY DEF ProofInv, AdmissionInv, TypeOK, NoTx, Begun, Read
<1>2. /\ tx[s].cmd \in Commands /\ tx[s].at \in 1 .. MaxTime
      /\ tx[s].floor \in Versions /\ tx[s].ver \in Versions
  BY <1>1 DEF Read
<1> QED BY <1>1, <1>2 DEF ProofInv, RootsAdvance, Proofs

\* A proof that verify_at accepts is trusted by the Trust Root it was checked with,
\* and so is barred by none that was installed before.
LEMMA AcceptedProof ==
    ASSUME ProofInv, NEW s \in Sessions, tx[s].stage = "read", NEW p \in Proofs, NEW expected,
           VerifyAt(p, expected, tx[s].ver, tx[s].at)
    PROVE  /\ ~ BarredAt(tx[s].floor, p.keyId, tx[s].at)
           /\ p.issuedAt <= tx[s].at /\ tx[s].at < p.expiresAt
           /\ \E v \in Versions :
                 /\ v <= peak /\ p.keyId \in DOMAIN Roots[v]
                 /\ Roots[v][p.keyId].validFrom <= tx[s].at
                 /\ tx[s].at < Roots[v][p.keyId].validUntil
<1> DEFINE v == tx[s].ver
           t == tx[s].at
           key == Roots[v][p.keyId]
<1>1. /\ v \in Versions /\ tx[s].floor \in Versions /\ tx[s].floor <= v /\ v <= peak /\ t \in 1 .. MaxTime
  BY ReadTx
<1>2. /\ p.keyId \in DOMAIN Roots[v] /\ p.notBefore <= t /\ t < p.expiresAt
      /\ key.validFrom <= p.issuedAt /\ t < key.validUntil /\ \A r \in key.revoked : t < r
  BY DEF VerifyAt
<1>3. p.issuedAt \in Nat /\ p.notBefore \in Nat /\ p.issuedAt <= p.notBefore
  BY CommandsAssumption DEF ClaimsValid
<1>4. key.validFrom \in Nat
  BY <1>1, <1>2, RootsAssumption DEF KeyValid
<1>5. t \in Nat
  BY <1>1, CommandsAssumption
<1>6. p.issuedAt <= t
  BY <1>2, <1>3, <1>5
<1>7. key.validFrom <= t
  BY <1>2, <1>3, <1>4, <1>5
<1>8. ~ BarredAt(tx[s].floor, p.keyId, t)
  <2>1. TrustsAt(v, p.keyId, t)
    BY <1>2 DEF TrustsAt
  <2>2. ~ BarredAt(v, p.keyId, t)
    BY <2>1 DEF BarredAt
  <2>3. p.keyId \in UNION {DOMAIN Roots[u] : u \in Versions}
    BY <1>1, <1>2
  <2> QED BY <1>1, <2>2, <2>3, NoReinstatement
<1> QED BY <1>1, <1>2, <1>6, <1>7, <1>8

\* Whatever a transaction that ends relied on was accepted by its verification.
LEMMA ReliedIsAccepted ==
    ASSUME ProofInv, NEW s \in Sessions, Verified(s), NEW bound \in SUBSET Proofs, used' = Use(s, bound),
           \A p \in bound : \E expected : VerifyAt(p, expected, tx[s].ver, tx[s].at),
           peak' = peak
    PROVE  RevocationSticks' /\ UsedInWindows' /\ used' \in Uses /\ used'.bound = bound
<1>1. tx[s].stage = "read" /\ \A p \in tx[s].cmd.proofs : VerifyAt(p, tx[s].cmd, tx[s].ver, tx[s].at)
  BY DEF Verified, VerifyProofs
<1>2. /\ used'.proofs = tx[s].cmd.proofs /\ used'.bound = bound
      /\ used'.at = tx[s].at /\ used'.floor = tx[s].floor
  BY DEF Use
<1>3. used' \in Uses
  BY <1>1, ReadTx DEF Use, Uses
<1>4. ASSUME NEW p \in used'.proofs \cup used'.bound
      PROVE  /\ p \in Proofs
             /\ \E expected : VerifyAt(p, expected, tx[s].ver, tx[s].at)
  BY <1>1, <1>2, ReadTx
<1>5. ASSUME NEW p \in used'.proofs \cup used'.bound
      PROVE  /\ ~ BarredAt(used'.floor, p.keyId, used'.at)
             /\ p.issuedAt <= used'.at /\ used'.at < p.expiresAt
             /\ \E v \in Versions :
                   /\ v <= peak /\ p.keyId \in DOMAIN Roots[v]
                   /\ Roots[v][p.keyId].validFrom <= used'.at
                   /\ used'.at < Roots[v][p.keyId].validUntil
  <2>1. PICK expected : VerifyAt(p, expected, tx[s].ver, tx[s].at)
    BY <1>4
  <2>2. p \in Proofs
    BY <1>4
  <2> QED BY <1>1, <1>2, <2>1, <2>2, AcceptedProof
<1>6. RevocationSticks'
  BY <1>5 DEF RevocationSticks, Relied, BarredAt, TrustsAt
<1>7. UsedInWindows'
  BY <1>5 DEF UsedInWindows, Relied
<1> QED BY <1>2, <1>3, <1>6, <1>7

-----------------------------------------------------------------------------
(* The invariant holds in the first state and is kept by every action.      *)

\* A step that ends no transaction relies on nothing.
LEMMA NothingRelied ==
    ASSUME used' = Nothing
    PROVE  RevocationSticks' /\ UsedInWindows' /\ ReleasedOnOneAdmission' /\ used' \in {Nothing} \cup Uses
<1>1. used'.proofs = {} /\ used'.bound = {}
  BY DEF Nothing
<1> QED BY <1>1 DEF RevocationSticks, UsedInWindows, ReleasedOnOneAdmission, Relied

LEMMA InitProof == Init => ProofInv
<1> SUFFICES ASSUME Init PROVE ProofInv
  OBVIOUS
<1>1. used.proofs = {} /\ used.bound = {}
  BY DEF Init, Nothing
<1>2. RevocationSticks /\ UsedInWindows /\ ReleasedOnOneAdmission
  BY <1>1 DEF RevocationSticks, UsedInWindows, ReleasedOnOneAdmission, Relied
<1>3. AdmissionInv
  BY RootsAssumption, CommandsAssumption DEF Init, AdmissionInv, TypeOK, FailedBundleStaysOut
<1>4. RootsAdvance
  BY DEF Init, RootsAdvance, NoTx
<1>5. AdmissionsReceipted
  BY DEF Init, AdmissionsReceipted
<1> QED BY <1>2, <1>3, <1>4, <1>5 DEF ProofInv

LEMMA TickKeeps == ASSUME ProofInv, Tick PROVE ProofInv'
<1>1. now' \in 1 .. MaxTime
  BY CommandsAssumption DEF Tick, ProofInv, AdmissionInv, TypeOK
<1>2. AdmissionInv'
  BY <1>1, NothingRelied DEF Tick, rows, ProofInv, AdmissionInv, TypeOK, FailedBundleStaysOut
<1>3. RootsAdvance' /\ AdmissionsReceipted'
  BY DEF Tick, rows, ProofInv, RootsAdvance, AdmissionsReceipted
<1> QED BY <1>2, <1>3, NothingRelied DEF Tick, ProofInv

\* The version that is installed is above every one before it.
LEMMA RotateKeeps == ASSUME ProofInv, NEW v \in Versions, Rotate(v) PROVE ProofInv'
<1>1. /\ v > peak /\ root' = v /\ peak' = v /\ used' = Nothing
      /\ UNCHANGED <<now, tx, receipts, admission, failed>>
  BY DEF Rotate, Advances, rows, ProofInv, RootsAdvance
<1>2. AdmissionInv'
  BY <1>1, NothingRelied DEF ProofInv, AdmissionInv, TypeOK, FailedBundleStaysOut
<1>3. RootsAdvance'
  <2>1. peak \in Nat /\ v \in Nat /\ peak <= v
    BY <1>1, RootsAssumption DEF ProofInv, AdmissionInv, TypeOK
  <2>2. ASSUME NEW s \in Sessions, tx[s].stage \in {"begun", "read"} PROVE tx[s].floor <= v
    <3>1. tx[s].floor \in Versions /\ tx[s].floor <= peak
      BY <2>2 DEF ProofInv, AdmissionInv, TypeOK, RootsAdvance, NoTx, Begun, Read
    <3>2. tx[s].floor \in Nat
      BY <3>1, RootsAssumption
    <3> QED BY <2>1, <3>1, <3>2
  <2>3. ASSUME NEW s \in Sessions, tx[s].stage = "read" PROVE tx[s].floor <= tx[s].ver /\ tx[s].ver <= v
    <3>1. tx[s].ver \in Nat /\ tx[s].ver <= peak /\ tx[s].floor <= tx[s].ver
      BY <2>3, ReadTx, RootsAssumption
    <3> QED BY <2>1, <3>1
  <2> QED BY <1>1, <2>2, <2>3 DEF RootsAdvance
<1>4. AdmissionsReceipted'
  BY <1>1 DEF ProofInv, AdmissionsReceipted
<1> QED BY <1>1, <1>2, <1>3, <1>4, NothingRelied DEF ProofInv

LEMMA BeginKeeps ==
    ASSUME ProofInv, NEW s \in Sessions, NEW c \in Commands, Begin(s, c) PROVE ProofInv'
<1> DEFINE new == [stage |-> "begun", cmd |-> c, at |-> now, floor |-> peak]
<1>1. /\ tx' = [tx EXCEPT ![s] = new] /\ used' = Nothing
      /\ UNCHANGED <<now, root, peak, receipts, admission, failed>>
  BY DEF Begin, rows
<1>2. new \in Begun /\ new.stage = "begun" /\ new.floor = peak
  BY DEF Begun, ProofInv, AdmissionInv, TypeOK
<1>3. /\ tx' \in [Sessions -> {NoTx} \cup Begun \cup Read]
      /\ \A z \in Sessions : tx'[z] = IF z = s THEN new ELSE tx[z]
  BY <1>1, <1>2 DEF ProofInv, AdmissionInv, TypeOK
<1> HIDE DEF new
<1>4. AdmissionInv'
  BY <1>1, <1>3, NothingRelied DEF ProofInv, AdmissionInv, TypeOK, FailedBundleStaysOut
<1>5. RootsAdvance'
  <2>1. peak <= peak
    BY RootsAssumption DEF ProofInv, AdmissionInv, TypeOK
  <2> QED BY <1>1, <1>2, <1>3, <2>1 DEF ProofInv, RootsAdvance
<1>6. AdmissionsReceipted'
  BY <1>1 DEF ProofInv, AdmissionsReceipted
<1> QED BY <1>1, <1>4, <1>5, <1>6, NothingRelied DEF ProofInv

LEMMA ReadRootKeeps == ASSUME ProofInv, NEW s \in Sessions, ReadRoot(s) PROVE ProofInv'
<1> DEFINE new == [stage |-> "read", cmd |-> tx[s].cmd, at |-> tx[s].at, floor |-> tx[s].floor,
                   ver |-> root]
<1>1. /\ tx[s].stage = "begun" /\ tx' = [tx EXCEPT ![s] = new] /\ used' = Nothing
      /\ UNCHANGED <<now, root, peak, receipts, admission, failed>>
  BY DEF ReadRoot, rows
<1>2. tx[s] \in Begun /\ tx[s].floor <= peak /\ root = peak
  BY <1>1 DEF ProofInv, AdmissionInv, TypeOK, RootsAdvance, NoTx, Begun, Read
<1>3. new \in Read /\ new.stage = "read" /\ new.floor = tx[s].floor /\ new.ver = peak
  BY <1>2 DEF Begun, Read, ProofInv, AdmissionInv, TypeOK
<1>4. /\ tx' \in [Sessions -> {NoTx} \cup Begun \cup Read]
      /\ \A z \in Sessions : tx'[z] = IF z = s THEN new ELSE tx[z]
  BY <1>1, <1>3 DEF ProofInv, AdmissionInv, TypeOK
<1> HIDE DEF new
<1>5. AdmissionInv'
  BY <1>1, <1>4, NothingRelied DEF ProofInv, AdmissionInv, TypeOK, FailedBundleStaysOut
<1>6. RootsAdvance'
  <2>1. peak <= peak
    BY RootsAssumption DEF ProofInv, AdmissionInv, TypeOK
  <2> QED BY <1>1, <1>2, <1>3, <1>4, <2>1 DEF ProofInv, RootsAdvance
<1>7. AdmissionsReceipted'
  BY <1>1 DEF ProofInv, AdmissionsReceipted
<1> QED BY <1>1, <1>5, <1>6, <1>7, NothingRelied DEF ProofInv

\* A transaction that ends leaves the others as they are.
LEMMA CloseKeepsTx ==
    ASSUME ProofInv, NEW s \in Sessions, Close(s), UNCHANGED <<root, peak>>
    PROVE  tx' \in [Sessions -> {NoTx} \cup Begun \cup Read] /\ RootsAdvance'
<1>1. /\ tx' \in [Sessions -> {NoTx} \cup Begun \cup Read]
      /\ \A z \in Sessions : tx'[z] = IF z = s THEN NoTx ELSE tx[z]
  BY DEF Close, ProofInv, AdmissionInv, TypeOK
<1>2. NoTx.stage = "none"
  BY DEF NoTx
<1> QED BY <1>1, <1>2 DEF ProofInv, RootsAdvance

LEMMA RollbackKeeps == ASSUME ProofInv, NEW s \in Sessions, Rollback(s) PROVE ProofInv'
<1>1. used' = Nothing /\ Close(s) /\ UNCHANGED <<now, root, peak, receipts, admission, failed>>
  BY DEF Rollback, rows
<1>2. AdmissionInv'
  BY <1>1, NothingRelied, CloseKeepsTx DEF ProofInv, AdmissionInv, TypeOK, FailedBundleStaysOut
<1>3. AdmissionsReceipted'
  BY <1>1 DEF ProofInv, AdmissionsReceipted
<1> QED BY <1>1, <1>2, <1>3, NothingRelied, CloseKeepsTx DEF ProofInv

LEMMA ReplayKeeps == ASSUME ProofInv, NEW s \in Sessions, Replay(s) PROVE ProofInv'
<1>1. /\ Verified(s) /\ Close(s) /\ used' = Use(s, {})
      /\ UNCHANGED <<now, root, peak, receipts, admission, failed>>
  BY DEF Replay, rows
<1>2. RevocationSticks' /\ UsedInWindows' /\ used' \in Uses /\ used'.bound = {}
  BY <1>1, ReliedIsAccepted
<1>3. AdmissionInv'
  BY <1>1, <1>2, CloseKeepsTx DEF ProofInv, AdmissionInv, TypeOK, FailedBundleStaysOut
<1>4. AdmissionsReceipted' /\ ReleasedOnOneAdmission'
  BY <1>1, <1>2 DEF ProofInv, AdmissionsReceipted, ReleasedOnOneAdmission
<1> QED BY <1>1, <1>2, <1>3, <1>4, CloseKeepsTx DEF ProofInv

LEMMA StoreFacts ==
    ASSUME ProofInv, NEW s \in Sessions, Store(s)
    PROVE  /\ Verified(s) /\ tx[s].stage = "read" /\ tx[s].cmd \in Commands \ receipts
           /\ receipts' = receipts \cup {tx[s].cmd} /\ receipts' \in SUBSET Commands
           /\ UNCHANGED <<now, root, peak>>
           /\ tx' \in [Sessions -> {NoTx} \cup Begun \cup Read] /\ RootsAdvance'
<1>1. tx[s].stage = "read"
  BY DEF Store, Verified
<1>2. tx[s].cmd \in Commands
  BY <1>1, ReadTx
<1> QED BY <1>1, <1>2, CloseKeepsTx DEF Store, ProofInv, AdmissionInv, TypeOK

LEMMA RecordKeeps == ASSUME ProofInv, NEW s \in Sessions, Record(s) PROVE ProofInv'
<1>1. /\ Store(s) /\ used' = Use(s, {}) /\ failed' = failed
      /\ admission' = admission \/ admission' = {}
  BY DEF Record
<1>2. RevocationSticks' /\ UsedInWindows' /\ used' \in Uses /\ used'.bound = {}
  BY <1>1, StoreFacts, ReliedIsAccepted
<1>3. {} \notin failed
  BY DEF ProofInv, AdmissionsReceipted
<1>4. AdmissionInv'
  BY <1>1, <1>2, <1>3, StoreFacts DEF ProofInv, AdmissionInv, TypeOK, FailedBundleStaysOut
<1>5. AdmissionsReceipted' /\ ReleasedOnOneAdmission'
  BY <1>1, <1>2, StoreFacts DEF ProofInv, AdmissionsReceipted, ReleasedOnOneAdmission
<1> QED BY <1>1, <1>2, <1>4, <1>5, StoreFacts DEF ProofInv

\* The bundle of a command that has no Receipt yet is none of those that failed.
LEMMA AdmitKeeps == ASSUME ProofInv, NEW s \in Sessions, Admit(s) PROVE ProofInv'
<1> DEFINE c == tx[s].cmd
<1>1. /\ Store(s) /\ used' = Use(s, {}) /\ failed' = failed /\ c.op = "AdmitAction"
      /\ admission' = {p \in c.proofs : p.kind \in ACTION_ADMISSION_PROOF_KINDS}
  BY DEF Admit
<1>2. RevocationSticks' /\ UsedInWindows' /\ used' \in Uses /\ used'.bound = {}
  BY <1>1, StoreFacts, ReliedIsAccepted
<1>3. c \in Commands /\ c \notin receipts /\ c \in receipts' /\ c.proofs \subseteq Proofs
  BY <1>1, StoreFacts, ReadTx
<1>4. BundleOf(c, admission')
  <2>1. ExactKinds(c) /\ \A p \in c.proofs : p.allows /\ p.principal = c.principal
    BY <1>1, StoreFacts DEF Verified, VerifyProofs
  <2>2. \A p \in c.proofs : p.subject = c.subject
    BY <1>1, StoreFacts DEF Verified, VerifyProofs, VerifyAt
  <2> QED BY <1>1, <2>1, <2>2 DEF BundleOf
<1>5. admission' # {}
  <2>1. {p.kind : p \in admission'} = ACTION_ADMISSION_PROOF_KINDS
    BY <1>1, <1>3, <1>4, AdmitNeedsFive, OneOfEachKind DEF BundleOf
  <2> QED BY <2>1 DEF ACTION_ADMISSION_PROOF_KINDS
<1>6. admission' \notin failed
  <2> SUFFICES ASSUME admission' \in failed PROVE FALSE
    OBVIOUS
  <2>1. PICK d \in receipts : BundleOf(d, admission')
    BY DEF ProofInv, AdmissionsReceipted
  <2>2. d \in Commands /\ d # c
    BY <1>3 DEF ProofInv, AdmissionInv, TypeOK
  <2>3. admission' \subseteq c.proofs /\ admission' \subseteq d.proofs
    BY <1>4, <2>1 DEF BundleOf
  <2> QED BY <1>3, <1>5, <2>2, <2>3, ProofsAssumption
<1>7. AdmissionInv'
  BY <1>1, <1>2, <1>3, <1>6, StoreFacts DEF ProofInv, AdmissionInv, TypeOK, FailedBundleStaysOut
<1>8. AdmissionsReceipted'
  BY <1>1, <1>3, <1>4, StoreFacts DEF ProofInv, AdmissionsReceipted
<1>9. ReleasedOnOneAdmission'
  BY <1>2 DEF ReleasedOnOneAdmission
<1> QED BY <1>1, <1>2, <1>7, <1>8, <1>9, StoreFacts DEF ProofInv

LEMMA ReleaseKeeps == ASSUME ProofInv, NEW s \in Sessions, Release(s) PROVE ProofInv'
<1>1. /\ Store(s) /\ admission # {} /\ ReverifyBound(tx[s].cmd, tx[s].ver, tx[s].at)
      /\ used' = Use(s, admission) /\ UNCHANGED <<admission, failed>>
  BY DEF Release
<1>2. \A p \in admission : \E expected : VerifyAt(p, expected, tx[s].ver, tx[s].at)
  BY <1>1 DEF ReverifyBound
<1>3. admission \in SUBSET Proofs
  BY DEF ProofInv, AdmissionInv, TypeOK
<1>4. RevocationSticks' /\ UsedInWindows' /\ used' \in Uses /\ used'.bound = admission
  BY <1>1, <1>2, <1>3, StoreFacts, ReliedIsAccepted
<1>5. AdmissionInv'
  BY <1>1, <1>4, StoreFacts DEF ProofInv, AdmissionInv, TypeOK, FailedBundleStaysOut
<1>6. AdmissionsReceipted'
  BY <1>1, StoreFacts DEF ProofInv, AdmissionsReceipted
<1>7. ReleasedOnOneAdmission'
  <2>1. PICK c \in receipts : BundleOf(c, admission)
    BY <1>1 DEF ProofInv, AdmissionsReceipted
  <2>2. c \in Commands /\ c \in receipts'
    BY <1>1, StoreFacts DEF ProofInv, AdmissionInv, TypeOK
  <2>3. /\ {p.kind : p \in admission} = ACTION_ADMISSION_PROOF_KINDS
        /\ Cardinality(admission) = Cardinality(ACTION_ADMISSION_PROOF_KINDS)
    BY <2>1, <2>2, AdmitNeedsFive, OneOfEachKind DEF BundleOf
  <2>4. /\ c.op = "AdmitAction" /\ admission \subseteq c.proofs
        /\ \A p \in admission : p.allows /\ p.subject = c.subject /\ p.principal = c.principal
    BY <2>1 DEF BundleOf
  <2> QED BY <1>4, <2>2, <2>3, <2>4 DEF ReleasedOnOneAdmission
<1> QED BY <1>1, <1>4, <1>5, <1>6, <1>7, StoreFacts DEF ProofInv

LEMMA WithdrawKeeps == ASSUME ProofInv, NEW s \in Sessions, Withdraw(s) PROVE ProofInv'
<1>1. /\ Store(s) /\ admission # {} /\ used' = Use(s, {})
      /\ failed' = failed \cup {admission} /\ admission' = {}
  BY DEF Withdraw
<1>2. RevocationSticks' /\ UsedInWindows' /\ used' \in Uses /\ used'.bound = {}
  BY <1>1, StoreFacts, ReliedIsAccepted
<1>3. {} \notin failed'
  BY <1>1 DEF ProofInv, AdmissionsReceipted
<1>4. AdmissionInv'
  BY <1>1, <1>2, <1>3, StoreFacts DEF ProofInv, AdmissionInv, TypeOK, FailedBundleStaysOut
<1>5. AdmissionsReceipted' /\ ReleasedOnOneAdmission'
  BY <1>1, <1>2, StoreFacts DEF ProofInv, AdmissionsReceipted, ReleasedOnOneAdmission
<1> QED BY <1>1, <1>2, <1>4, <1>5, StoreFacts DEF ProofInv

LEMMA NextKeepsProof == ProofInv /\ [Next]_vars => ProofInv'
<1> SUFFICES ASSUME ProofInv, [Next]_vars PROVE ProofInv'
  OBVIOUS
<1>1. CASE UNCHANGED vars
  BY <1>1 DEF vars, ProofInv, AdmissionInv, TypeOK, FailedBundleStaysOut, RootsAdvance, AdmissionsReceipted,
     RevocationSticks, UsedInWindows, ReleasedOnOneAdmission, Relied
<1>2. CASE Next
  BY <1>2, TickKeeps, RotateKeeps, BeginKeeps, ReadRootKeeps, RollbackKeeps, ReplayKeeps, RecordKeeps,
     AdmitKeeps, ReleaseKeeps, WithdrawKeeps DEF Next
<1> QED BY <1>1, <1>2

-----------------------------------------------------------------------------
(* Results.                                                                 *)

THEOREM ProofInvariant == Spec => []ProofInv
BY InitProof, NextKeepsProof, PTL DEF Spec

\* No transaction that begins after a key was taken out, ended or revoked relies on
\* a proof of that key, whatever is presented to rotate() later.
THEOREM RevocationHolds == Spec => []RevocationSticks
<1>1. ProofInv => RevocationSticks
  BY DEF ProofInv
<1> QED BY <1>1, ProofInvariant, PTL

\* Every proof relied on is used within its own window and within that of its key
\* in an installed root, though verify_at never compares the key's valid_from with
\* the time of use.
THEOREM WindowsHold == Spec => []UsedInWindows
<1>1. ProofInv => UsedInWindows
  BY DEF ProofInv
<1> QED BY <1>1, ProofInvariant, PTL

\* A permit is released only on the five approvals of one AdmitAction command.
THEOREM OneAdmission == Spec => []ReleasedOnOneAdmission
<1>1. ProofInv => ReleasedOnOneAdmission
  BY DEF ProofInv
<1> QED BY <1>1, ProofInvariant, PTL

\* A bundle of approvals that failed its recheck is never in force again.
THEOREM FailedStaysOut == Spec => []AdmissionInv
<1>1. ProofInv => AdmissionInv
  BY DEF ProofInv
<1> QED BY <1>1, ProofInvariant, PTL
=============================================================================
