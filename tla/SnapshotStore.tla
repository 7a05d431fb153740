--------------------------- MODULE SnapshotStore ---------------------------
(***************************************************************************)
(* The files of FileHumanCenteredContractStoreV1: the snapshot, replaced by *)
(* a rename, the append-only anchor beside it, and the lock file that every *)
(* operation of every process holds from its load to its reply.  What is   *)
(* recorded is abstract here: a snapshot is the sequence of changes sealed *)
(* into it, so its sequence number is its length, and two snapshots have   *)
(* the same digest exactly when they are equal (SHA-256 over the contents  *)
(* and the previous digest).                                               *)
(*                                                                         *)
(* Between any two of its system calls an operation may be killed or get   *)
(* an I/O error; the machine may lose power, and then whatever no sync has *)
(* made durable may be gone; and somebody may put an older copy of the     *)
(* snapshot in place, or delete the anchor.                                *)
(***************************************************************************)
EXTENDS Naturals, Sequences, SequencesExt

CONSTANTS
    Processes,      \* threads and processes that opened the store
    Changes,        \* what an operation may seal into the next snapshot
    MaxSequence,    \* bound: snapshots sealed
    None            \* no process holds the lock

ASSUME SequenceAssumption == MaxSequence \in Nat
ASSUME NoneAssumption == None \notin Processes

VARIABLES
    file,           \* the snapshot at the store's path
    syncedFile,     \* the snapshot a power loss leaves at the path
    anchor,         \* the committed lines of the anchor file
    syncedAnchor,   \* how many of them a power loss leaves
    torn,           \* the anchor ends in bytes without a newline
    lock,           \* the process that holds the lock file
    pc,             \* where each process is in its operation
    current,        \* the snapshot each operation loaded, then its candidate
    acked,          \* the longest snapshot whose operation replied Ok
    tampered,       \* an older snapshot was put in place, or the anchor deleted
    skipped,        \* an operation ended between a write and the sync of it
    lost            \* ... and power was lost later

vars == <<file, syncedFile, anchor, syncedAnchor, torn, lock, pc, current,
          acked, tampered, skipped, lost>>

Snapshots == UNION {[1..n -> Changes] : n \in 0..MaxSequence}

Steps == {"idle", "locked", "recover", "recover_torn", "recover_written", "recover_synced",
          "loaded", "renamed", "synced", "torn", "written", "anchored"}

\* Every variable has its type, and no more of the anchor is durable than was
\* written.
TypeOK ==
    /\ file \in Snapshots /\ syncedFile \in Snapshots
    /\ anchor \in Seq(Snapshots) /\ syncedAnchor \in 0..Len(anchor)
    /\ torn \in BOOLEAN
    /\ lock \in Processes \cup {None}
    /\ pc \in [Processes -> Steps]
    /\ current \in [Processes -> Snapshots]
    /\ acked \in Snapshots
    /\ tampered \in BOOLEAN /\ skipped \in BOOLEAN /\ lost \in BOOLEAN

Init ==
    /\ file = <<>> /\ syncedFile = <<>>
    /\ anchor = <<>> /\ syncedAnchor = 0 /\ torn = FALSE
    /\ lock = None
    /\ pc = [p \in Processes |-> "idle"]
    /\ current = [p \in Processes |-> <<>>]
    /\ acked = <<>>
    /\ tampered = FALSE /\ skipped = FALSE /\ lost = FALSE

Goto(p, step) == pc' = [pc EXCEPT ![p] = step]

\* The operation returns: the lock file is closed and what was loaded is dropped
\* (the next operation loads again before it looks at anything).
Return(p) ==
    /\ Goto(p, "idle")
    /\ lock' = None
    /\ current' = [current EXCEPT ![p] = <<>>]

-----------------------------------------------------------------------------
(* Loading *)

\* Mutant: the lock file is opened and not locked.
LockFileOpened(p) ==
    /\ pc[p] = "idle"
    /\ lock' = p
    /\ Goto(p, "locked")
    /\ UNCHANGED <<file, syncedFile, anchor, syncedAnchor, torn, current, acked, tampered, skipped, lost>>

\* lock_exclusive on the lock file.
AcquireStoreLock(p) ==
    /\ pc[p] = "idle" /\ lock = None
    /\ lock' = p
    /\ Goto(p, "locked")
    /\ UNCHANGED <<file, syncedFile, anchor, syncedAnchor, torn, current, acked, tampered, skipped, lost>>

\* Mutant: any snapshot the anchor has a line for will do.
AnchorReaches(snapshot) ==
    IF snapshot = <<>> THEN anchor = <<>> ELSE Len(anchor) >= Len(snapshot)

\* The anchor's last line is for this very snapshot, or both are empty.
AnchorMatches(snapshot) ==
    IF snapshot = <<>> THEN anchor = <<>>
                       ELSE anchor # <<>> /\ Last(anchor) = snapshot

\* The snapshot is the one next to the last line: its anchor was never completed.
AnchorOneBehind(snapshot) ==
    /\ snapshot # <<>>
    /\ IF anchor = <<>> THEN Len(snapshot) = 1
                        ELSE Len(snapshot) = Len(Last(anchor)) + 1 /\ Front(snapshot) = Last(anchor)

ValidateAnchorChain ==
    \A i \in 1..Len(anchor) :
        /\ Len(anchor[i]) = i
        /\ i > 1 => Front(anchor[i]) = anchor[i - 1]

\* read_anchor_records, once the chain is found valid, discards the bytes after
\* the last newline and syncs the anchor and the directory.  These are one step:
\* nothing but the cut awaits the syncs, unless an operation had skipped one before.
DiscardTornTail ==
    IF torn /\ ValidateAnchorChain
    THEN torn' = FALSE /\ syncedAnchor' = Len(anchor) /\ syncedFile' = file
    ELSE UNCHANGED <<torn, syncedAnchor, syncedFile>>

\* load_snapshot: read and validate, compare with the anchor.
LoadSnapshot(p) ==
    /\ pc[p] = "locked"
    /\ DiscardTornTail
    /\ IF ValidateAnchorChain /\ (AnchorMatches(file) \/ AnchorOneBehind(file))
       THEN /\ Goto(p, IF AnchorMatches(file) THEN "loaded" ELSE "recover")
            /\ current' = [current EXCEPT ![p] = file]
            /\ UNCHANGED lock
       ELSE Return(p)
    /\ UNCHANGED <<file, anchor, acked, tampered, skipped, lost>>

-----------------------------------------------------------------------------
(* append_anchor, within a recovery or after a rename: the line, its newline, *)
(* the sync of the anchor file, the sync of the directory.                   *)

WriteAnchorLine(p, from, to) ==
    /\ pc[p] = from
    /\ torn' = TRUE
    /\ Goto(p, to)
    /\ UNCHANGED <<file, syncedFile, anchor, syncedAnchor, lock, current, acked, tampered, skipped, lost>>

WriteAnchorNewline(p, from, to) ==
    /\ pc[p] = from
    /\ torn' = FALSE
    /\ anchor' = Append(anchor, current[p])
    /\ Goto(p, to)
    /\ UNCHANGED <<file, syncedFile, syncedAnchor, lock, current, acked, tampered, skipped, lost>>

\* The first line is in a new file, of which the directory has yet to be synced.
SyncAnchor(p, from, to) ==
    /\ pc[p] = from
    /\ syncedAnchor' = IF Len(anchor) = 1 THEN syncedAnchor ELSE Len(anchor)
    /\ Goto(p, to)
    /\ UNCHANGED <<file, syncedFile, anchor, torn, lock, current, acked, tampered, skipped, lost>>

SyncDirectory(p, from, to) ==
    /\ pc[p] = from
    /\ syncedFile' = file
    /\ Goto(p, to)
    /\ UNCHANGED <<file, anchor, syncedAnchor, torn, lock, current, acked, tampered, skipped, lost>>

\* The directory after an append: the rename, if it was not synced, and the entry
\* of the anchor file.
SyncAnchorEntry(p, from, to) ==
    /\ pc[p] = from
    /\ syncedFile' = file
    /\ syncedAnchor' = Len(anchor)
    /\ Goto(p, to)
    /\ UNCHANGED <<file, anchor, torn, lock, current, acked, tampered, skipped, lost>>

\* validate_or_recover_anchor, for a snapshot one ahead of the anchor.
RecoverAnchor(p) ==
    \/ WriteAnchorLine(p, "recover", "recover_torn")
    \/ WriteAnchorNewline(p, "recover_torn", "recover_written")
    \/ SyncAnchor(p, "recover_written", "recover_synced")
    \/ SyncAnchorEntry(p, "recover_synced", "loaded")

-----------------------------------------------------------------------------
(* Replying, with or without a new snapshot *)

\* A read, a refusal or a change already made: nothing is written.
ReplyUnchanged(p) ==
    /\ pc[p] = "loaded"
    /\ Return(p)
    /\ UNCHANGED <<file, syncedFile, anchor, syncedAnchor, torn, acked, tampered, skipped, lost>>

\* seal_next_snapshot, then persist_snapshot up to its rename.
Rename(p) ==
    /\ pc[p] = "loaded"
    /\ Len(current[p]) < MaxSequence
    /\ \E change \in Changes :
        /\ current' = [current EXCEPT ![p] = Append(current[p], change)]
        /\ file' = Append(current[p], change)
    /\ Goto(p, "renamed")
    /\ UNCHANGED <<syncedFile, anchor, syncedAnchor, torn, lock, acked, tampered, skipped, lost>>

\* Mutant: the anchor before the directory.
PersistAnchorFirst(p) ==
    \/ Rename(p)
    \/ WriteAnchorLine(p, "renamed", "torn")
    \/ WriteAnchorNewline(p, "torn", "written")
    \/ SyncAnchor(p, "written", "synced")
    \/ SyncDirectory(p, "synced", "anchored")

\* The rest of persist_snapshot: the directory first, then the anchor.
PersistSnapshot(p) ==
    \/ Rename(p)
    \/ SyncDirectory(p, "renamed", "synced")
    \/ WriteAnchorLine(p, "synced", "torn")
    \/ WriteAnchorNewline(p, "torn", "written")
    \/ SyncAnchor(p, "written", "anchored")

\* The directory sync of append_anchor, and the reply.
ReplyCommitted(p) ==
    /\ pc[p] = "anchored"
    /\ syncedFile' = file
    /\ syncedAnchor' = Len(anchor)
    /\ acked' = current[p]
    /\ Return(p)
    /\ UNCHANGED <<file, anchor, torn, tampered, skipped, lost>>

-----------------------------------------------------------------------------
(* Faults *)

\* The process is killed, or a call fails and `?` returns its error: the files
\* stay as they are and the lock file is released.
KilledOrIoError(p) ==
    /\ pc[p] # "idle"
    /\ Return(p)
    /\ skipped' = (skipped \/ syncedFile # file \/ syncedAnchor # Len(anchor))
    /\ UNCHANGED <<file, syncedFile, anchor, syncedAnchor, torn, acked, tampered, lost>>

\* What was not synced may be lost: the rename, the last lines of the anchor.
PowerLoss ==
    /\ file' \in {file, syncedFile}
    /\ syncedFile' = file'
    /\ \E n \in syncedAnchor..Len(anchor) :
        /\ anchor' = SubSeq(anchor, 1, n)
        /\ syncedAnchor' = n
        /\ torn' \in IF torn \/ n < Len(anchor) THEN BOOLEAN ELSE {FALSE}
    /\ pc' = [p \in Processes |-> "idle"]
    /\ lock' = None
    /\ current' = [p \in Processes |-> <<>>]
    /\ lost' = skipped
    /\ UNCHANGED <<acked, tampered, skipped>>

\* An older copy of the snapshot (or none) is put in place.
RestoreOldSnapshot ==
    /\ ~tampered /\ lock = None
    /\ \E n \in 0..Len(file) - 1 : file' = SubSeq(file, 1, n)
    /\ syncedFile' = file'
    /\ tampered' = TRUE
    /\ UNCHANGED <<anchor, syncedAnchor, torn, lock, pc, current, acked, skipped, lost>>

DeleteAnchor ==
    /\ ~tampered /\ lock = None
    /\ anchor' = <<>> /\ syncedAnchor' = 0 /\ torn' = FALSE
    /\ tampered' = TRUE
    /\ UNCHANGED <<file, syncedFile, lock, pc, current, acked, skipped, lost>>

-----------------------------------------------------------------------------
Operation(p) ==
    \/ AcquireStoreLock(p)
    \/ LoadSnapshot(p)
    \/ RecoverAnchor(p)
    \/ ReplyUnchanged(p)
    \/ PersistSnapshot(p)
    \/ ReplyCommitted(p)
    \/ KilledOrIoError(p)

Next ==
    \/ \E p \in Processes : Operation(p)
    \/ PowerLoss
    \/ RestoreOldSnapshot
    \/ DeleteAnchor

Spec == Init /\ [][Next]_vars

-----------------------------------------------------------------------------
(* What the store promises *)

\* An operation never works from a snapshot that lacks a change some operation
\* was told is committed: not after kills, failed calls or a power loss at any
\* point of persist_snapshot, and not after one of the two files was tampered
\* with (load_snapshot compares the two).
WorksFromAcknowledged ==
    \A p \in Processes :
        pc[p] \in Steps \ {"idle", "locked"} => IsPrefix(acked, current[p])

\* Two operations never both work from the same snapshot: the candidate of one
\* is sealed on top of everything the other has renamed into place.
SealedOnTheFile ==
    \A p \in Processes :
        pc[p] \in Steps \ {"idle", "locked"} => current[p] = file

\* Every operation under way has the snapshot of the file, and all state its type.
StoreInv == TypeOK /\ SealedOnTheFile

\* The store opens again: left alone by everybody else, it never reports
\* RollbackDetected or CorruptAnchor, wherever an operation was cut short.
\* The exception takes two faults: an operation ends between a write and the sync
\* of it, a later one builds on that write without syncing it, and then power is
\* lost (a recovered anchor line survives and the rename it is for does not, or a
\* second rename survives and the first one's anchor line does not).
OpensAgain ==
    tampered \/ lost \/ (ValidateAnchorChain /\ (AnchorMatches(file) \/ AnchorOneBehind(file)))

=============================================================================
