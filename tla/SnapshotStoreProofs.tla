------------------------ MODULE SnapshotStoreProofs ------------------------
(***************************************************************************)
(* Proofs about the file store, for every number of processes, changes and  *)
(* snapshots: no operation works from a snapshot that lacks an acknowledged  *)
(* change, two operations never work side by side, and the store opens      *)
(* again after any one fault at any point.                                  *)
(***************************************************************************)
EXTENDS SnapshotStore, SequenceTheorems, TLAPS

-----------------------------------------------------------------------------
(* The inductive invariant.                                                 *)

\* AnchorMatches(s) and AnchorOneBehind(s), for any lines the anchor may have.
Matches(lines, s) == IF s = <<>> THEN lines = <<>> ELSE lines # <<>> /\ Last(lines) = s

Behind(lines, s) ==
    /\ s # <<>>
    /\ IF lines = <<>> THEN Len(s) = 1
                       ELSE Len(s) = Len(Last(lines)) + 1 /\ Front(s) = Last(lines)

\* Whoever is in an operation holds the lock file.
Mutex == \A p \in Processes : pc[p] # "idle" => lock = p

Working      == Steps \ {"idle", "locked"}
Anchored     == {"loaded", "written", "anchored", "recover_written", "recover_synced"}
Unanchored   == {"recover", "recover_torn", "renamed", "synced", "torn"}
DirectorySynced == {"synced", "torn", "written", "anchored"}

\* What an operation at a step knows of the files: it works on the file's own
\* snapshot, which is the anchor's last line or the one next to it, and which of
\* the two is durable.
Knows(step, snapshot) ==
    /\ step \in Working => snapshot = file
    /\ step \in Anchored => Matches(anchor, file)
    /\ step \in Unanchored => Behind(anchor, file)
    /\ step \in DirectorySynced => syncedFile = file

Phases == \A p \in Processes : Knows(pc[p], current[p])

\* The anchor's lines are snapshots of growing length, each a prefix of all later
\* ones.
ChainOf(lines) ==
    \A i \in 1 .. Len(lines) :
        /\ Len(lines[i]) = i
        /\ \A j \in 1 .. i : IsPrefix(lines[j], lines[i])

Chain == ChainOf(anchor)

\* The file holds the acknowledged changes, now and after a power loss.
FileHasAcked == IsPrefix(acked, file) /\ IsPrefix(acked, syncedFile)

\* The anchor has the line of the acknowledged snapshot, and it is durable.
AnchorHasAcked == acked = <<>> \/ (Len(acked) <= syncedAnchor /\ anchor[Len(acked)] = acked)

\* Tampering reaches one of the two files: the other still has what was acknowledged.
AckedSomewhere ==
    /\ FileHasAcked \/ AnchorHasAcked
    /\ tampered \/ (FileHasAcked /\ AnchorHasAcked)

\* A line was written, and the directory not synced since.
Appended == {"written", "anchored", "recover_written", "recover_synced"}
Unsynced == {"renamed"} \cup Appended

\* What is not durable while no operation was cut short before a sync: the rename
\* of the operation under way, or the line it has just written, and nothing else.
AwaitingSync ==
    /\ \A p \in Processes : pc[p] = "renamed" => syncedAnchor = Len(anchor) /\ Matches(anchor, syncedFile)
    /\ \A p \in Processes :
          pc[p] \in Appended => syncedFile = file /\ syncedAnchor \in {Len(anchor) - 1, Len(anchor)}
    /\ (\A p \in Processes : pc[p] \notin Unsynced) => syncedFile = file /\ syncedAnchor = Len(anchor)

Durable ==
    /\ lost => skipped
    /\ tampered \/ skipped \/ AwaitingSync
    /\ tampered \/ lost \/ Matches(anchor, file) \/ Behind(anchor, file)

SnapshotInv == TypeOK /\ Mutex /\ Phases /\ Chain /\ AckedSomewhere /\ Durable

-----------------------------------------------------------------------------
(* Snapshots and prefixes.                                                  *)

LEMMA SnapshotsAreSequences ==
    \A s : s \in Snapshots <=> s \in Seq(Changes) /\ Len(s) <= MaxSequence
<1>1. ASSUME NEW s \in Snapshots PROVE s \in Seq(Changes) /\ Len(s) <= MaxSequence
  <2>1. PICK n \in 0 .. MaxSequence : s \in [1 .. n -> Changes]
    BY DEF Snapshots
  <2>2. n \in Nat
    BY SequenceAssumption
  <2> QED BY <2>1, <2>2, IsASeq, LenProperties, SequenceAssumption
<1>2. ASSUME NEW s \in Seq(Changes), Len(s) <= MaxSequence PROVE s \in Snapshots
  <2>1. Len(s) \in 0 .. MaxSequence /\ s \in [1 .. Len(s) -> Changes]
    BY <1>2, LenProperties, SequenceAssumption
  <2> QED BY <2>1 DEF Snapshots
<1> QED BY <1>1, <1>2

LEMMA EmptySnapshot == <<>> \in Snapshots
<1>1. 0 <= MaxSequence
  BY SequenceAssumption
<1>2. ASSUME NEW s \in Seq(Changes), Len(s) = 0 PROVE s \in Snapshots
  <2>1. Len(s) <= MaxSequence
    BY <1>1, <1>2
  <2> QED BY <2>1, SnapshotsAreSequences
<1> QED BY <1>2, EmptySeq

LEMMA PrefixPointwise ==
    ASSUME NEW s \in Seq(Changes), NEW t \in Seq(Changes)
    PROVE  IsPrefix(s, t) <=> Len(s) <= Len(t) /\ \A i \in 1 .. Len(s) : s[i] = t[i]
<1>1. SubSeq(s, 1, Len(s)) = s
  OBVIOUS
<1>2. ASSUME Len(s) <= Len(t)
      PROVE  /\ SubSeq(t, 1, Len(s)) \in Seq(Changes)
             /\ Len(SubSeq(t, 1, Len(s))) = Len(s)
             /\ \A i \in 1 .. Len(s) : SubSeq(t, 1, Len(s))[i] = t[i]
  BY <1>2, SubSeqProperties
<1>3. ASSUME Len(s) <= Len(t), \A i \in 1 .. Len(s) : s[i] = t[i] PROVE s = SubSeq(t, 1, Len(s))
  BY <1>2, <1>3, SeqEqual
<1> QED BY <1>1, <1>2, <1>3 DEF IsPrefix

LEMMA PrefixFacts ==
    ASSUME NEW s \in Seq(Changes), NEW t \in Seq(Changes)
    PROVE  /\ IsPrefix(<<>>, t) /\ IsPrefix(t, t)
           /\ IsPrefix(s, t) /\ Len(s) = Len(t) => s = t
           /\ \A u \in Seq(Changes) : IsPrefix(s, t) /\ IsPrefix(t, u) => IsPrefix(s, u)
           /\ \A c \in Changes : IsPrefix(t, Append(t, c))
<1>1. IsPrefix(<<>>, t) /\ IsPrefix(t, t)
  <2>1. <<>> \in Seq(Changes) /\ Len(<<>>) = 0 /\ Len(t) \in Nat
    BY EmptySeq, LenProperties
  <2>2. IsPrefix(t, t) <=> Len(t) <= Len(t) /\ \A i \in 1 .. Len(t) : t[i] = t[i]
    BY PrefixPointwise
  <2>3. ASSUME NEW e \in Seq(Changes), Len(e) = 0 PROVE IsPrefix(e, t)
    <3>1. IsPrefix(e, t) <=> Len(e) <= Len(t) /\ \A i \in 1 .. Len(e) : e[i] = t[i]
      BY PrefixPointwise
    <3> QED BY <2>1, <2>3, <3>1
  <2>4. IsPrefix(<<>>, t)
    BY <2>1, <2>3
  <2> QED BY <2>1, <2>2, <2>4
<1>2. IsPrefix(s, t) /\ Len(s) = Len(t) => s = t
  BY PrefixPointwise, SeqEqual
<1>3. ASSUME NEW u \in Seq(Changes), IsPrefix(s, t), IsPrefix(t, u) PROVE IsPrefix(s, u)
  BY <1>3, PrefixPointwise
<1>4. ASSUME NEW c \in Changes PROVE IsPrefix(t, Append(t, c))
  <2>1. Append(t, c) \in Seq(Changes)
    BY AppendProperties
  <2>2. IsPrefix(t, Append(t, c)) <=>
          Len(t) <= Len(Append(t, c)) /\ \A i \in 1 .. Len(t) : t[i] = Append(t, c)[i]
    BY <2>1, PrefixPointwise
  <2>3. Len(Append(t, c)) = Len(t) + 1 /\ \A i \in 1 .. Len(t) : Append(t, c)[i] = t[i]
    BY AppendProperties
  <2> QED BY <2>2, <2>3, LenProperties
<1> QED BY <1>1, <1>2, <1>3, <1>4

LEMMA FrontFacts ==
    ASSUME NEW t \in Seq(Changes), t # <<>>
    PROVE  /\ Front(t) \in Seq(Changes) /\ Len(Front(t)) = Len(t) - 1 /\ IsPrefix(Front(t), t)
           /\ \A s \in Seq(Changes) : IsPrefix(s, t) /\ Len(s) = Len(t) - 1 => s = Front(t)
<1>1. Len(t) \in Nat /\ Len(t) >= 1
  BY EmptySeq
<1>2. /\ Front(t) \in Seq(Changes) /\ Len(Front(t)) = Len(t) - 1
      /\ \A i \in 1 .. Len(t) - 1 : Front(t)[i] = t[i]
  <2>1. \A i \in 1 .. Len(t) - 1 : t[i] \in Changes
    BY LenProperties
  <2>2. 1 \in Int /\ Len(t) - 1 \in Int
    BY <1>1
  <2>3. /\ SubSeq(t, 1, Len(t) - 1) \in Seq(Changes)
        /\ Len(SubSeq(t, 1, Len(t) - 1)) = IF 1 <= Len(t) - 1 THEN (Len(t) - 1) - 1 + 1 ELSE 0
        /\ \A i \in 1 .. (Len(t) - 1) - 1 + 1 : SubSeq(t, 1, Len(t) - 1)[i] = t[1 + i - 1]
    BY <2>1, <2>2, SubSeqProperties
  <2>4. \A i \in 1 .. Len(t) - 1 : 1 + i - 1 = i /\ i \in 1 .. (Len(t) - 1) - 1 + 1
    BY <1>1
  <2>5. Len(SubSeq(t, 1, Len(t) - 1)) = Len(t) - 1
    <3>1. CASE 1 <= Len(t) - 1
      BY <2>3, <3>1, <1>1
    <3>2. CASE Len(t) = 1
      BY <2>3, <3>2
    <3>3. \A n \in Nat : n >= 1 => n = 1 \/ 1 <= n - 1
      OBVIOUS
    <3> QED BY <1>1, <3>1, <3>2, <3>3
  <2>6. \A i \in 1 .. Len(t) - 1 : SubSeq(t, 1, Len(t) - 1)[i] = t[i]
    BY <2>3, <2>4
  <2> QED BY <2>3, <2>5, <2>6 DEF Front
<1>3. IsPrefix(Front(t), t)
  BY <1>1, <1>2, PrefixPointwise
<1>4. ASSUME NEW s \in Seq(Changes), IsPrefix(s, t), Len(s) = Len(t) - 1 PROVE s = Front(t)
  BY <1>2, <1>4, PrefixPointwise, SeqEqual
<1> QED BY <1>2, <1>3, <1>4

LEMMA FrontOfAppend ==
    ASSUME NEW t \in Seq(Changes), NEW c \in Changes
    PROVE  /\ Append(t, c) \in Seq(Changes) /\ Len(Append(t, c)) = Len(t) + 1
           /\ Append(t, c) # <<>> /\ Front(Append(t, c)) = t
<1>1. Append(t, c) \in Seq(Changes) /\ Len(Append(t, c)) = Len(t) + 1 /\ Append(t, c) # <<>>
  BY AppendProperties
<1>2. IsPrefix(t, Append(t, c))
  BY PrefixFacts
<1>3. Len(t) = Len(Append(t, c)) - 1
  BY <1>1, LenProperties
<1> QED BY <1>1, <1>2, <1>3, FrontFacts

-----------------------------------------------------------------------------
(* The anchor's lines.                                                      *)

LEMMA LineTypes ==
    ASSUME NEW lines \in Seq(Snapshots)
    PROVE  /\ Len(lines) \in Nat
           /\ lines = <<>> <=> Len(lines) = 0
           /\ \A i \in 1 .. Len(lines) : lines[i] \in Snapshots /\ lines[i] \in Seq(Changes)
<1>1. Len(lines) \in Nat /\ (lines = <<>> <=> Len(lines) = 0)
  BY EmptySeq, LenProperties
<1>2. \A i \in 1 .. Len(lines) : lines[i] \in Snapshots
  BY LenProperties
<1> QED BY <1>1, <1>2, SnapshotsAreSequences

\* A snapshot that matches has as many changes as there are lines.
LEMMA LastLine ==
    ASSUME NEW lines \in Seq(Snapshots), ChainOf(lines), NEW s \in Seq(Changes)
    PROVE  /\ Matches(lines, s) => Len(s) = Len(lines) /\ (Len(lines) > 0 => lines[Len(lines)] = s)
           /\ Behind(lines, s) => /\ s # <<>> /\ Len(s) = Len(lines) + 1
                                  /\ Len(lines) > 0 => lines[Len(lines)] = Front(s)
<1>1. CASE lines = <<>>
  <2>1. Len(lines) = 0
    BY <1>1, EmptySeq
  <2>2. Matches(lines, s) => s = <<>>
    BY <1>1 DEF Matches
  <2>3. Behind(lines, s) => s # <<>> /\ Len(s) = 1
    BY <1>1 DEF Behind
  <2> QED BY <2>1, <2>2, <2>3, EmptySeq
<1>2. CASE lines # <<>>
  <2>1. Len(lines) \in Nat /\ Len(lines) > 0
    BY <1>2, LineTypes
  <2>2. Len(lines) \in 1 .. Len(lines)
    BY <2>1
  <2>3. Len(lines[Len(lines)]) = Len(lines) /\ Last(lines) = lines[Len(lines)]
    BY <2>2 DEF ChainOf, Last
  <2>4. Matches(lines, s) => lines[Len(lines)] = s
    BY <1>2, <2>3 DEF Matches
  <2>5. Behind(lines, s) => s # <<>> /\ Len(s) = Len(lines) + 1 /\ lines[Len(lines)] = Front(s)
    BY <1>2, <2>3 DEF Behind
  <2> QED BY <2>1, <2>3, <2>4, <2>5
<1> QED BY <1>1, <1>2

LEMMA LinesArePrefixes ==
    ASSUME NEW lines \in Seq(Snapshots), ChainOf(lines), NEW s \in Seq(Changes),
           Matches(lines, s) \/ Behind(lines, s), NEW i \in 1 .. Len(lines)
    PROVE  IsPrefix(lines[i], s)
<1>1. /\ Len(lines) \in Nat /\ Len(lines) > 0 /\ Len(lines) \in 1 .. Len(lines)
      /\ lines[i] \in Seq(Changes) /\ lines[Len(lines)] \in Seq(Changes)
  BY LineTypes
<1>2. IsPrefix(lines[i], lines[Len(lines)])
  BY <1>1 DEF ChainOf
<1>3. CASE Matches(lines, s)
  BY <1>1, <1>2, <1>3, LastLine
<1>4. CASE Behind(lines, s)
  <2>1. s # <<>> /\ lines[Len(lines)] = Front(s)
    BY <1>1, <1>4, LastLine
  <2>2. IsPrefix(lines[Len(lines)], s)
    BY <2>1, FrontFacts
  <2> QED BY <1>1, <1>2, <2>2, PrefixFacts
<1> QED BY <1>3, <1>4

\* The chain the lines form is the one read_anchor_records validates.
LEMMA ChainValidates ==
    ASSUME NEW lines \in Seq(Snapshots), ChainOf(lines), NEW i \in 1 .. Len(lines)
    PROVE  Len(lines[i]) = i /\ (i > 1 => Front(lines[i]) = lines[i - 1])
<1>1. Len(lines[i]) = i
  BY DEF ChainOf
<1>2. ASSUME i > 1 PROVE Front(lines[i]) = lines[i - 1]
  <2>1. Len(lines) \in Nat /\ i \in Nat /\ i - 1 \in 1 .. Len(lines) /\ i - 1 \in 1 .. i
    BY <1>2, LineTypes
  <2>2. lines[i] \in Seq(Changes) /\ lines[i - 1] \in Seq(Changes)
    BY <2>1, LineTypes
  <2>3. Len(lines[i - 1]) = Len(lines[i]) - 1 /\ IsPrefix(lines[i - 1], lines[i])
    BY <1>1, <2>1 DEF ChainOf
  <2>4. lines[i] # <<>>
    BY <1>1, <1>2, EmptySeq
  <2> QED BY <2>2, <2>3, <2>4, FrontFacts
<1> QED BY <1>1, <1>2

\* The line of the next snapshot extends the chain.
LEMMA AppendLine ==
    ASSUME NEW lines \in Seq(Snapshots), ChainOf(lines), NEW s \in Snapshots, Behind(lines, s)
    PROVE  /\ Append(lines, s) \in Seq(Snapshots) /\ Len(Append(lines, s)) = Len(lines) + 1
           /\ \A i \in 1 .. Len(lines) : Append(lines, s)[i] = lines[i]
           /\ ChainOf(Append(lines, s)) /\ Matches(Append(lines, s), s)
<1> DEFINE more == Append(lines, s)
<1>1. /\ more \in Seq(Snapshots) /\ more # <<>> /\ Len(more) = Len(lines) + 1
      /\ \A i \in 1 .. Len(lines) : more[i] = lines[i]
      /\ more[Len(lines) + 1] = s
  BY AppendProperties
<1>2. Len(lines) \in Nat /\ s \in Seq(Changes)
  BY LineTypes, SnapshotsAreSequences
<1>3. s # <<>> /\ Len(s) = Len(lines) + 1
  BY <1>2, LastLine
<1>4. Matches(more, s)
  BY <1>1, <1>3 DEF Matches, Last
<1>5. \A i \in 1 .. Len(lines) : IsPrefix(lines[i], s)
  BY <1>2, LinesArePrefixes
<1>6. IsPrefix(s, s)
  BY <1>2, PrefixFacts
<1>7. ChainOf(more)
  <2> SUFFICES ASSUME NEW i \in 1 .. Len(more)
               PROVE  Len(more[i]) = i /\ \A j \in 1 .. i : IsPrefix(more[j], more[i])
    BY DEF ChainOf
  <2>1. CASE i \in 1 .. Len(lines)
    <3>1. \A j \in 1 .. i : j \in 1 .. Len(lines)
      BY <1>2, <2>1
    <3> QED BY <1>1, <2>1, <3>1 DEF ChainOf
  <2>2. CASE i = Len(lines) + 1
    <3>1. \A j \in 1 .. i : j \in 1 .. Len(lines) \/ j = i
      BY <1>2, <2>2
    <3> QED BY <1>1, <1>3, <1>5, <1>6, <2>2, <3>1
  <2> QED BY <1>1, <1>2, <2>1, <2>2
<1> QED BY <1>1, <1>4, <1>7

\* What is left when the last lines are lost is a chain still; when it is just the
\* last one, its snapshot is one ahead.
LEMMA CutLines ==
    ASSUME NEW lines \in Seq(Snapshots), ChainOf(lines), NEW n \in 0 .. Len(lines)
    PROVE  /\ SubSeq(lines, 1, n) \in Seq(Snapshots) /\ Len(SubSeq(lines, 1, n)) = n
           /\ \A i \in 1 .. n : SubSeq(lines, 1, n)[i] = lines[i]
           /\ ChainOf(SubSeq(lines, 1, n))
           /\ n = Len(lines) => SubSeq(lines, 1, n) = lines
           /\ \A s \in Seq(Changes) :
                 Matches(lines, s) /\ n = Len(lines) - 1 => Behind(SubSeq(lines, 1, n), s)
<1> DEFINE cut == SubSeq(lines, 1, n)
<1>1. Len(lines) \in Nat /\ n \in Nat /\ n \in Int /\ 1 \in Int
  BY LineTypes
<1>2. \A i \in 1 .. n : lines[i] \in Snapshots
  BY <1>1, LineTypes
<1>3. /\ cut \in Seq(Snapshots)
      /\ Len(cut) = IF 1 <= n THEN n - 1 + 1 ELSE 0
      /\ \A i \in 1 .. n - 1 + 1 : cut[i] = lines[1 + i - 1]
  BY <1>1, <1>2, SubSeqProperties
<1>4. Len(cut) = n
  BY <1>1, <1>3
<1>5. \A i \in 1 .. n : cut[i] = lines[i]
  <2>1. \A i \in 1 .. n : i \in 1 .. n - 1 + 1 /\ 1 + i - 1 = i
    BY <1>1
  <2> QED BY <1>3, <2>1
<1>6. ChainOf(cut)
  <2> SUFFICES ASSUME NEW i \in 1 .. n
               PROVE  Len(cut[i]) = i /\ \A j \in 1 .. i : IsPrefix(cut[j], cut[i])
    BY <1>4 DEF ChainOf
  <2>1. i \in 1 .. Len(lines) /\ \A j \in 1 .. i : j \in 1 .. n
    BY <1>1
  <2> QED BY <1>5, <2>1 DEF ChainOf
<1>7. n = Len(lines) => cut = lines
  BY SubSeqFull
<1>8. ASSUME NEW s \in Seq(Changes), Matches(lines, s), n = Len(lines) - 1 PROVE Behind(cut, s)
  <2>1. Len(lines) \in 1 .. Len(lines) /\ Len(lines) > 0 /\ Len(s) = Len(lines) /\ lines[Len(lines)] = s
    BY <1>1, <1>8, LastLine
  <2>2. s # <<>>
    BY <2>1, EmptySeq
  <2>3. CASE n = 0
    <3>1. cut = <<>> /\ Len(s) = 1
      BY <1>3, <1>4, <1>8, <2>1, <2>3, LineTypes
    <3> QED BY <2>2, <3>1 DEF Behind
  <2>4. CASE n > 0
    <3>1. cut # <<>> /\ n \in 1 .. n /\ n \in 1 .. Len(lines)
      <4>1. cut # <<>>
        <5> HIDE DEF cut
        <5> QED BY <1>3, <1>4, <2>4, LineTypes
      <4> QED BY <1>1, <2>4, <4>1
    <3>2. Last(cut) = lines[n]
      BY <1>4, <1>5, <3>1 DEF Last
    <3>3. Len(lines[n]) = n /\ (Len(lines) > 1 => Front(s) = lines[Len(lines) - 1])
      BY <2>1, <3>1, ChainValidates
    <3>4. Len(lines) > 1 /\ Len(lines) - 1 = n /\ Len(s) = n + 1
      BY <1>1, <1>8, <2>1, <2>4
    <3> QED BY <2>2, <3>1, <3>2, <3>3, <3>4 DEF Behind
  <2> QED BY <1>1, <2>3, <2>4
<1> QED BY <1>3, <1>4, <1>5, <1>6, <1>7, <1>8

\* seal_next_snapshot: the candidate is one ahead of the anchor its base matches.
LEMMA SealNext ==
    ASSUME NEW lines \in Seq(Snapshots), ChainOf(lines), NEW s \in Seq(Changes), NEW c \in Changes,
           Matches(lines, s)
    PROVE  Behind(lines, Append(s, c))
<1>1. /\ Append(s, c) # <<>> /\ Len(Append(s, c)) = Len(s) + 1 /\ Front(Append(s, c)) = s
  BY FrontOfAppend
<1>2. CASE lines = <<>>
  <2>1. s = <<>>
    BY <1>2 DEF Matches
  <2>2. Len(s) = 0
    BY <2>1, EmptySeq
  <2> QED BY <1>1, <1>2, <2>2 DEF Behind
<1>3. CASE lines # <<>>
  <2>1. Last(lines) = s
    BY <1>3, LastLine, LineTypes DEF Last
  <2> QED BY <1>1, <1>3, <2>1 DEF Behind
<1> QED BY <1>2, <1>3

-----------------------------------------------------------------------------
(* Facts about a state that satisfies the invariant.                        *)

LEMMA SameJudgement ==
    ASSUME NEW s
    PROVE  /\ AnchorMatches(s) <=> Matches(anchor, s)
           /\ AnchorOneBehind(s) <=> Behind(anchor, s)
BY DEF AnchorMatches, AnchorOneBehind, Matches, Behind

LEMMA SnapshotTypes ==
    ASSUME TypeOK
    PROVE  /\ file \in Seq(Changes) /\ syncedFile \in Seq(Changes) /\ acked \in Seq(Changes)
           /\ \A p \in Processes : current[p] \in Snapshots /\ current[p] \in Seq(Changes)
           /\ Len(anchor) \in Nat /\ syncedAnchor \in Nat
BY SnapshotsAreSequences, LineTypes DEF TypeOK

\* The operation that holds the lock file is the only one under way.
LEMMA OthersIdle ==
    ASSUME SnapshotInv, NEW p \in Processes, pc[p] # "idle"
    PROVE  lock = p /\ \A q \in Processes : q # p => pc[q] = "idle"
BY DEF SnapshotInv, Mutex

LEMMA MoveKeepsMutex ==
    ASSUME SnapshotInv, NEW p \in Processes, pc[p] # "idle", NEW step \in Steps, Goto(p, step), lock' = lock
    PROVE  /\ pc' \in [Processes -> Steps] /\ pc'[p] = step
           /\ \A q \in Processes : q # p => pc'[q] = "idle"
           /\ lock' \in Processes \cup {None} /\ Mutex'
<1>1. pc' \in [Processes -> Steps] /\ pc'[p] = step /\ \A q \in Processes : q # p => pc'[q] = pc[q]
  BY DEF SnapshotInv, TypeOK, Goto
<1> QED BY <1>1, OthersIdle DEF SnapshotInv, TypeOK, Mutex

LEMMA ReturnKeepsMutex ==
    ASSUME SnapshotInv, NEW p \in Processes, pc[p] # "idle", Return(p)
    PROVE  /\ pc' \in [Processes -> Steps] /\ \A q \in Processes : pc'[q] = "idle"
           /\ lock' \in Processes \cup {None} /\ Mutex'
           /\ current' \in [Processes -> Snapshots]
<1>1. pc' \in [Processes -> Steps] /\ \A q \in Processes : pc'[q] = "idle"
  <2>1. pc' = [pc EXCEPT ![p] = "idle"] /\ "idle" \in Steps
    BY DEF Return, Goto, Steps
  <2>2. \A q \in Processes : q # p => pc[q] = "idle"
    BY OthersIdle
  <2> QED BY <2>1, <2>2 DEF SnapshotInv, TypeOK
<1>2. <<>> \in Snapshots
  BY EmptySnapshot
<1> QED BY <1>1, <1>2 DEF SnapshotInv, TypeOK, Return, Mutex

\* An operation that is at none of its unsynced steps finds everything durable.
LEMMA NothingAwaited ==
    ASSUME SnapshotInv, NEW p \in Processes, pc[p] # "idle", pc[p] \notin Unsynced, ~tampered, ~skipped
    PROVE  syncedFile = file /\ syncedAnchor = Len(anchor)
<1>1. \A q \in Processes : pc[q] \notin Unsynced
  BY OthersIdle DEF Unsynced, Appended
<1> QED BY <1>1 DEF SnapshotInv, Durable, AwaitingSync

\* The snapshot the anchor vouches for has every acknowledged change, whichever
\* of the two files was tampered with.
LEMMA VouchedHasAcked ==
    ASSUME TypeOK, Chain, AckedSomewhere, Matches(anchor, file) \/ Behind(anchor, file)
    PROVE  IsPrefix(acked, file)
<1>1. CASE FileHasAcked
  BY <1>1 DEF FileHasAcked
<1>2. CASE AnchorHasAcked
  <2>1. CASE acked = <<>>
    BY <2>1, SnapshotTypes, PrefixFacts
  <2>2. CASE acked # <<>>
    <3>1. Len(acked) \in 1 .. Len(anchor) /\ anchor[Len(acked)] = acked
      <4>1. Len(acked) \in Nat \ {0}
        BY <2>2, SnapshotTypes, EmptySeq
      <4> QED BY <1>2, <2>2, <4>1, SnapshotTypes DEF AnchorHasAcked, TypeOK
    <3>2. IsPrefix(anchor[Len(acked)], file)
      BY <3>1, SnapshotTypes, LinesArePrefixes DEF TypeOK, Chain
    <3> QED BY <3>1, <3>2
  <2> QED BY <2>1, <2>2
<1> QED BY <1>1, <1>2 DEF AckedSomewhere

-----------------------------------------------------------------------------
(* The invariant holds in the first state and is kept by every action.      *)

LEMMA InitSnapshot == Init => SnapshotInv
<1> SUFFICES ASSUME Init PROVE SnapshotInv
  OBVIOUS
<1>1. anchor \in Seq(Snapshots) /\ Len(anchor) = 0 /\ anchor = <<>>
  BY EmptySeq DEF Init
<1>2. TypeOK
  <2>1. pc \in [Processes -> Steps] /\ current \in [Processes -> Snapshots]
    BY EmptySnapshot DEF Init, Steps
  <2>2. file \in Snapshots /\ syncedFile \in Snapshots /\ acked \in Snapshots
    BY EmptySnapshot DEF Init
  <2>3. syncedAnchor \in 0 .. Len(anchor)
    BY <1>1 DEF Init
  <2> QED BY <1>1, <2>1, <2>2, <2>3 DEF Init, TypeOK
<1>3. Mutex /\ Phases
  BY DEF Init, Mutex, Phases, Knows, Working, Anchored, Unanchored, DirectorySynced
<1>4. Chain
  BY <1>1 DEF Chain, ChainOf
<1>5. AckedSomewhere
  <2>1. IsPrefix(<<>>, <<>>)
    BY EmptySeq, PrefixFacts
  <2> QED BY <2>1 DEF Init, AckedSomewhere, FileHasAcked, AnchorHasAcked
<1>6. Durable
  BY <1>1 DEF Init, Durable, AwaitingSync, Matches, Unsynced, Appended
<1> QED BY <1>2, <1>3, <1>4, <1>5, <1>6 DEF SnapshotInv

\* An operation that only ends leaves the files to the next one as they are.
LEMMA EndKeeps ==
    ASSUME SnapshotInv, NEW p \in Processes, pc[p] # "idle", Return(p),
           UNCHANGED <<file, syncedFile, anchor, syncedAnchor, acked, tampered, lost>>,
           torn' \in BOOLEAN, skipped' \in BOOLEAN, skipped => skipped',
           skipped' \/ pc[p] \notin Unsynced \/ (syncedFile = file /\ syncedAnchor = Len(anchor))
    PROVE  SnapshotInv'
<1>1. TypeOK' /\ Mutex' /\ \A q \in Processes : pc'[q] = "idle"
  BY ReturnKeepsMutex DEF SnapshotInv, TypeOK
<1>2. Phases'
  BY <1>1 DEF Phases, Knows, Working, Anchored, Unanchored, DirectorySynced
<1>3. Chain' /\ AckedSomewhere'
  BY DEF SnapshotInv, Chain, AckedSomewhere, FileHasAcked, AnchorHasAcked
<1>4. Durable'
  <2>1. tampered \/ skipped' \/ (syncedFile = file /\ syncedAnchor = Len(anchor))
    BY NothingAwaited DEF SnapshotInv, TypeOK
  <2>2. (syncedFile = file /\ syncedAnchor = Len(anchor)) => AwaitingSync'
    BY <1>1 DEF AwaitingSync, Unsynced, Appended
  <2> QED BY <2>1, <2>2 DEF SnapshotInv, Durable
<1> QED BY <1>1, <1>2, <1>3, <1>4 DEF SnapshotInv

LEMMA AcquireKeeps ==
    ASSUME SnapshotInv, NEW p \in Processes, AcquireStoreLock(p) PROVE SnapshotInv'
<1>1. \A q \in Processes : pc[q] = "idle"
  BY NoneAssumption DEF SnapshotInv, Mutex, AcquireStoreLock
<1>2. pc' = [pc EXCEPT ![p] = "locked"] /\ lock' = p /\ "locked" \in Steps
  BY DEF AcquireStoreLock, Goto, Steps
<1>3. /\ pc' \in [Processes -> Steps]
      /\ \A q \in Processes : pc'[q] = IF q = p THEN "locked" ELSE "idle"
  BY <1>1, <1>2 DEF SnapshotInv, TypeOK
<1>4. UNCHANGED <<file, syncedFile, anchor, syncedAnchor, torn, current, acked, tampered, skipped, lost>>
  BY DEF AcquireStoreLock
<1>5. TypeOK' /\ Mutex'
  BY <1>2, <1>3, <1>4 DEF SnapshotInv, TypeOK, Mutex
<1>6. Phases'
  BY <1>3 DEF Phases, Knows, Working, Anchored, Unanchored, DirectorySynced
<1>7. Chain' /\ AckedSomewhere'
  BY <1>4 DEF SnapshotInv, Chain, AckedSomewhere, FileHasAcked, AnchorHasAcked
<1>8. Durable'
  <2>1. AwaitingSync => AwaitingSync'
    BY <1>1, <1>3, <1>4 DEF AwaitingSync, Unsynced, Appended
  <2> QED BY <1>4, <2>1 DEF SnapshotInv, Durable
<1> QED BY <1>5, <1>6, <1>7, <1>8 DEF SnapshotInv

\* With one operation under way, what it knows and what awaits it is all there is.
LEMMA OneUnderWay ==
    ASSUME NEW p \in Processes, NEW step, pc'[p] = step, \A q \in Processes : q # p => pc'[q] = "idle",
           Knows(pc[p], current[p])'
    PROVE  /\ Phases'
           /\ (/\ step = "renamed" => syncedAnchor' = Len(anchor') /\ Matches(anchor', syncedFile')
               /\ step \in Appended => syncedFile' = file' /\ syncedAnchor' \in {Len(anchor') - 1, Len(anchor')}
               /\ step \notin Unsynced => syncedFile' = file' /\ syncedAnchor' = Len(anchor'))
              => AwaitingSync'
<1>1. \A q \in Processes : pc'[q] = step \/ pc'[q] = "idle"
  OBVIOUS
<1>2. Phases'
  BY DEF Phases, Knows, Working, Anchored, Unanchored, DirectorySynced
<1>3. ASSUME /\ step = "renamed" => syncedAnchor' = Len(anchor') /\ Matches(anchor', syncedFile')
             /\ step \in Appended => syncedFile' = file' /\ syncedAnchor' \in {Len(anchor') - 1, Len(anchor')}
             /\ step \notin Unsynced => syncedFile' = file' /\ syncedAnchor' = Len(anchor')
      PROVE  AwaitingSync'
  BY <1>1, <1>3 DEF AwaitingSync, Unsynced, Appended
<1> QED BY <1>2, <1>3

LEMMA LoadKeeps == ASSUME SnapshotInv, NEW p \in Processes, LoadSnapshot(p) PROVE SnapshotInv'
<1>1. /\ pc[p] = "locked" /\ pc[p] # "idle" /\ pc[p] \notin Unsynced
      /\ UNCHANGED <<file, anchor, acked, tampered, skipped, lost>>
  BY DEF LoadSnapshot, Unsynced, Appended
<1>2. /\ torn' \in BOOLEAN
      /\ syncedFile' \in {syncedFile, file}
      /\ syncedAnchor' \in {syncedAnchor, Len(anchor)}
  BY DEF SnapshotInv, TypeOK, LoadSnapshot, DiscardTornTail
<1>3. /\ syncedFile' \in Snapshots /\ syncedAnchor' \in 0 .. Len(anchor) /\ syncedAnchor' >= syncedAnchor
      /\ file \in Snapshots /\ anchor \in Seq(Snapshots)
  BY <1>2, SnapshotTypes DEF SnapshotInv, TypeOK
<1>4. Chain' /\ AckedSomewhere'
  <2>1. FileHasAcked => FileHasAcked'
    BY <1>1, <1>2 DEF FileHasAcked
  <2>2. AnchorHasAcked => AnchorHasAcked'
    <3>1. \A n \in Nat : n <= syncedAnchor => n <= syncedAnchor'
      BY <1>3, SnapshotTypes DEF SnapshotInv
    <3>2. Len(acked) \in Nat
      BY SnapshotTypes, LenProperties DEF SnapshotInv
    <3> QED BY <1>1, <3>1, <3>2 DEF AnchorHasAcked
  <2> QED BY <1>1, <2>1, <2>2 DEF SnapshotInv, Chain, AckedSomewhere
<1>5. tampered \/ skipped \/ (syncedFile' = file /\ syncedAnchor' = Len(anchor))
  BY <1>1, <1>2, NothingAwaited
<1>6. CASE ValidateAnchorChain /\ (AnchorMatches(file) \/ AnchorOneBehind(file))
  <2> DEFINE step == IF AnchorMatches(file) THEN "loaded" ELSE "recover"
  <2>1. Goto(p, step) /\ current' = [current EXCEPT ![p] = file] /\ lock' = lock
    BY <1>6 DEF LoadSnapshot
  <2>2. step \in Steps /\ step \in {"loaded", "recover"}
    BY DEF Steps
  <2>3. /\ pc' \in [Processes -> Steps] /\ pc'[p] = step
        /\ \A q \in Processes : q # p => pc'[q] = "idle"
        /\ lock' \in Processes \cup {None} /\ Mutex'
    BY <1>1, <2>1, <2>2, MoveKeepsMutex
  <2>4. TypeOK'
    BY <1>1, <1>2, <1>3, <2>1, <2>3 DEF SnapshotInv, TypeOK
  <2>5. step = "loaded" => Matches(anchor, file)
    BY SameJudgement
  <2>6. step = "recover" => Behind(anchor, file)
    BY <1>6, SameJudgement
  <2>7. Knows(pc[p], current[p])'
    <3>1. current'[p] = file'
      BY <1>1, <2>1 DEF SnapshotInv, TypeOK
    <3> QED BY <1>1, <2>2, <2>3, <2>5, <2>6, <3>1
            DEF Knows, Working, Anchored, Unanchored, DirectorySynced
  <2>8. Durable'
    <3>1. (syncedFile' = file /\ syncedAnchor' = Len(anchor)) => AwaitingSync'
      BY <1>1, <2>2, <2>3, <2>7, OneUnderWay DEF Unsynced, Appended
    <3> QED BY <1>1, <1>5, <3>1 DEF SnapshotInv, Durable
  <2> QED BY <1>4, <2>3, <2>4, <2>7, <2>8, OneUnderWay DEF SnapshotInv
<1>7. CASE ~(ValidateAnchorChain /\ (AnchorMatches(file) \/ AnchorOneBehind(file)))
  <2>1. Return(p)
    BY <1>7 DEF LoadSnapshot
  <2>2. TypeOK' /\ Mutex' /\ \A q \in Processes : pc'[q] = "idle"
    BY <1>1, <1>2, <1>3, <2>1, ReturnKeepsMutex DEF SnapshotInv, TypeOK
  <2>3. Phases'
    BY <2>2 DEF Phases, Knows, Working, Anchored, Unanchored, DirectorySynced
  <2>4. Durable'
    <3>1. (syncedFile' = file /\ syncedAnchor' = Len(anchor)) => AwaitingSync'
      BY <1>1, <2>2 DEF AwaitingSync, Unsynced, Appended
    <3> QED BY <1>1, <1>5, <3>1 DEF SnapshotInv, Durable
  <2> QED BY <1>4, <2>2, <2>3, <2>4 DEF SnapshotInv
<1> QED BY <1>6, <1>7

\* The line without its newline is no line.
LEMMA WriteLineKeeps ==
    ASSUME SnapshotInv, NEW p \in Processes, NEW from, NEW to, WriteAnchorLine(p, from, to),
           <<from, to>> \in {<<"recover", "recover_torn">>, <<"synced", "torn">>}
    PROVE  SnapshotInv'
<1>1. /\ pc[p] = from /\ pc[p] # "idle" /\ from \notin Unsynced /\ to \in Steps /\ to \notin Unsynced
      /\ to \in Unanchored /\ from \in Unanchored /\ from \in Working
      /\ to \in DirectorySynced => from \in DirectorySynced
  BY DEF WriteAnchorLine, Steps, Unsynced, Appended, Working, Unanchored, DirectorySynced
<1>2. /\ Goto(p, to) /\ torn' = TRUE
      /\ UNCHANGED <<file, syncedFile, anchor, syncedAnchor, lock, current, acked, tampered, skipped, lost>>
  BY DEF WriteAnchorLine
<1>3. /\ pc' \in [Processes -> Steps] /\ pc'[p] = to
      /\ \A q \in Processes : q # p => pc'[q] = "idle"
      /\ lock' \in Processes \cup {None} /\ Mutex'
  BY <1>1, <1>2, MoveKeepsMutex
<1>4. TypeOK'
  BY <1>2, <1>3 DEF SnapshotInv, TypeOK
<1>5. Knows(pc[p], current[p])'
  <2>1. Knows(from, current[p])
    BY <1>1 DEF SnapshotInv, Phases
  <2>2. to \notin Anchored /\ to # "anchored"
    BY <1>1 DEF Anchored, Unanchored
  <2> QED BY <1>1, <1>2, <1>3, <2>1, <2>2 DEF Knows
<1>6. Chain' /\ AckedSomewhere'
  BY <1>2 DEF SnapshotInv, Chain, AckedSomewhere, FileHasAcked, AnchorHasAcked
<1>7. Durable'
  <2>1. tampered \/ skipped \/ (syncedFile = file /\ syncedAnchor = Len(anchor))
    BY <1>1, NothingAwaited
  <2>2. (syncedFile = file /\ syncedAnchor = Len(anchor)) => AwaitingSync'
    BY <1>1, <1>2, <1>3, <1>5, OneUnderWay DEF Unsynced, Appended
  <2> QED BY <1>2, <2>1, <2>2 DEF SnapshotInv, Durable
<1> QED BY <1>3, <1>4, <1>5, <1>6, <1>7, OneUnderWay DEF SnapshotInv

\* The newline completes the line of the file's snapshot.
LEMMA WriteNewlineKeeps ==
    ASSUME SnapshotInv, NEW p \in Processes, NEW from, NEW to, WriteAnchorNewline(p, from, to),
           <<from, to>> \in {<<"recover_torn", "recover_written">>, <<"torn", "written">>}
    PROVE  SnapshotInv'
<1>1. /\ pc[p] = from /\ pc[p] # "idle" /\ from \notin Unsynced /\ to \in Steps
      /\ to \in {"written", "recover_written"}
      /\ to \in Anchored /\ from \in Unanchored /\ from \in Working
      /\ to \in DirectorySynced => from \in DirectorySynced
  BY DEF WriteAnchorNewline, Steps, Unsynced, Appended, Working, Anchored, Unanchored, DirectorySynced
<1>2. /\ Goto(p, to) /\ torn' = FALSE /\ anchor' = Append(anchor, current[p])
      /\ UNCHANGED <<file, syncedFile, syncedAnchor, lock, current, acked, tampered, skipped, lost>>
  BY DEF WriteAnchorNewline
<1>3. /\ pc' \in [Processes -> Steps] /\ pc'[p] = to
      /\ \A q \in Processes : q # p => pc'[q] = "idle"
      /\ lock' \in Processes \cup {None} /\ Mutex'
  BY <1>1, <1>2, MoveKeepsMutex
<1>4. /\ Knows(from, current[p]) /\ current[p] = file /\ Behind(anchor, file)
      /\ file \in Snapshots /\ anchor \in Seq(Snapshots) /\ ChainOf(anchor)
      /\ Len(anchor) \in Nat /\ syncedAnchor \in 0 .. Len(anchor)
  BY <1>1, SnapshotTypes DEF SnapshotInv, TypeOK, Phases, Knows, Chain
<1>5. /\ anchor' \in Seq(Snapshots) /\ Len(anchor') = Len(anchor) + 1
      /\ \A i \in 1 .. Len(anchor) : anchor'[i] = anchor[i]
      /\ ChainOf(anchor') /\ Matches(anchor', file)
  BY <1>2, <1>4, AppendLine
<1>6. TypeOK'
  <2>1. syncedAnchor' \in 0 .. Len(anchor')
    BY <1>2, <1>4, <1>5
  <2> QED BY <1>2, <1>3, <1>5, <2>1 DEF SnapshotInv, TypeOK
<1>7. Knows(pc[p], current[p])'
  <2>1. to \notin Unanchored /\ to # "anchored"
    BY <1>1 DEF Unanchored
  <2> QED BY <1>1, <1>2, <1>3, <1>4, <1>5, <2>1 DEF Knows
<1>8. Chain' /\ AckedSomewhere'
  <2>1. AnchorHasAcked => AnchorHasAcked'
    <3>1. acked # <<>> /\ Len(acked) <= syncedAnchor => Len(acked) \in 1 .. Len(anchor)
      <4>1. acked # <<>> => Len(acked) \in Nat \ {0}
        BY SnapshotTypes, EmptySeq DEF SnapshotInv
      <4> QED BY <1>4, <4>1
    <3> QED BY <1>2, <1>5, <3>1 DEF AnchorHasAcked
  <2> QED BY <1>2, <1>5, <2>1 DEF SnapshotInv, Chain, AckedSomewhere, FileHasAcked
<1>9. Durable'
  <2>1. tampered \/ skipped \/ (syncedFile = file /\ syncedAnchor = Len(anchor))
    BY <1>1, NothingAwaited
  <2>2. (syncedFile = file /\ syncedAnchor = Len(anchor)) => AwaitingSync'
    <3>1. syncedAnchor = Len(anchor) => syncedAnchor' = Len(anchor') - 1
      BY <1>2, <1>4, <1>5
    <3>2. to # "renamed" /\ to \in Unsynced
      BY <1>1 DEF Unsynced, Appended
    <3> QED BY <1>2, <1>3, <1>7, <3>1, <3>2, OneUnderWay
  <2> QED BY <1>2, <1>5, <2>1, <2>2 DEF SnapshotInv, Durable
<1> QED BY <1>3, <1>6, <1>7, <1>8, <1>9, OneUnderWay DEF SnapshotInv

LEMMA SyncAnchorKeeps ==
    ASSUME SnapshotInv, NEW p \in Processes, NEW from, NEW to, SyncAnchor(p, from, to),
           <<from, to>> \in {<<"recover_written", "recover_synced">>, <<"written", "anchored">>}
    PROVE  SnapshotInv'
<1>1. /\ pc[p] = from /\ pc[p] # "idle" /\ from \in {"written", "recover_written"} /\ to \in Steps
      /\ to # "renamed" /\ to \in Unsynced /\ to \notin Unanchored /\ from \in Appended
      /\ from \in Anchored /\ from \in Working
      /\ to \in DirectorySynced => from \in DirectorySynced
  BY DEF SyncAnchor, Steps, Unsynced, Appended, Working, Anchored, Unanchored, DirectorySynced
<1>2. /\ Goto(p, to) /\ syncedAnchor' \in {syncedAnchor, Len(anchor)}
      /\ UNCHANGED <<file, syncedFile, anchor, torn, lock, current, acked, tampered, skipped, lost>>
  BY DEF SyncAnchor
<1>3. /\ pc' \in [Processes -> Steps] /\ pc'[p] = to
      /\ \A q \in Processes : q # p => pc'[q] = "idle"
      /\ lock' \in Processes \cup {None} /\ Mutex'
  BY <1>1, <1>2, MoveKeepsMutex
<1>4. Knows(from, current[p]) /\ Len(anchor) \in Nat /\ syncedAnchor \in 0 .. Len(anchor)
  BY <1>1, SnapshotTypes DEF SnapshotInv, TypeOK, Phases
<1>5. TypeOK'
  <2>1. syncedAnchor' \in 0 .. Len(anchor')
    BY <1>2, <1>4
  <2> QED BY <1>2, <1>3, <2>1 DEF SnapshotInv, TypeOK
<1>6. Knows(pc[p], current[p])'
  BY <1>1, <1>2, <1>3, <1>4 DEF Knows
<1>7. Chain' /\ AckedSomewhere'
  <2>1. AnchorHasAcked => AnchorHasAcked'
    <3>1. Len(acked) \in Nat
      BY SnapshotTypes, LenProperties DEF SnapshotInv
    <3>2. Len(acked) <= syncedAnchor => Len(acked) <= syncedAnchor'
      BY <1>2, <1>4, <3>1
    <3> QED BY <1>2, <3>2 DEF AnchorHasAcked
  <2> QED BY <1>2, <2>1 DEF SnapshotInv, Chain, AckedSomewhere, FileHasAcked
<1>8. Durable'
  <2>1. AwaitingSync => syncedFile = file /\ syncedAnchor \in {Len(anchor) - 1, Len(anchor)}
    BY <1>1 DEF AwaitingSync
  <2>2. (syncedFile = file /\ syncedAnchor \in {Len(anchor) - 1, Len(anchor)}) => AwaitingSync'
    BY <1>1, <1>2, <1>3, <1>6, OneUnderWay
  <2> QED BY <1>2, <2>1, <2>2 DEF SnapshotInv, Durable
<1> QED BY <1>3, <1>5, <1>6, <1>7, <1>8, OneUnderWay DEF SnapshotInv

\* The directory after the rename, and after the append of a recovery.
LEMMA DirectoryKeeps ==
    ASSUME SnapshotInv, NEW p \in Processes, NEW from, NEW to, pc[p] = from, Goto(p, to),
           <<from, to>> \in {<<"recover_synced", "loaded">>, <<"renamed", "synced">>},
           syncedFile' = file, syncedAnchor' \in {syncedAnchor, Len(anchor)},
           from = "recover_synced" => syncedAnchor' = Len(anchor),
           UNCHANGED <<file, anchor, torn, lock, current, acked, tampered, skipped, lost>>
    PROVE  SnapshotInv'
<1>1. /\ pc[p] # "idle" /\ from \in {"renamed", "recover_synced"} /\ to \in Steps
      /\ to \notin Unsynced /\ from \in Working
      /\ to \in Anchored => from \in Anchored
      /\ to \in Unanchored => from \in Unanchored
  BY DEF Steps, Unsynced, Appended, Working, Anchored, Unanchored
<1>2. /\ pc' \in [Processes -> Steps] /\ pc'[p] = to
      /\ \A q \in Processes : q # p => pc'[q] = "idle"
      /\ lock' \in Processes \cup {None} /\ Mutex'
  BY <1>1, MoveKeepsMutex
<1>3. Len(anchor) \in Nat /\ syncedAnchor \in 0 .. Len(anchor) /\ syncedAnchor' \in 0 .. Len(anchor)
      /\ syncedAnchor' >= syncedAnchor
  BY SnapshotTypes DEF SnapshotInv, TypeOK
<1>4. TypeOK'
  BY <1>2, <1>3 DEF SnapshotInv, TypeOK
<1>5. Knows(pc[p], current[p])'
  <2>1. Knows(from, current[p])
    BY <1>1 DEF SnapshotInv, Phases
  <2> QED BY <1>1, <1>2, <2>1 DEF Knows
<1>6. Chain' /\ AckedSomewhere'
  <2>1. AnchorHasAcked => AnchorHasAcked'
    <3>1. Len(acked) \in Nat
      BY SnapshotTypes, LenProperties DEF SnapshotInv
    <3>2. Len(acked) <= syncedAnchor => Len(acked) <= syncedAnchor'
      BY <1>3, <3>1
    <3> QED BY <3>2 DEF AnchorHasAcked
  <2> QED BY <2>1 DEF SnapshotInv, Chain, AckedSomewhere, FileHasAcked
<1>7. Durable'
  <2>1. tampered \/ skipped \/ syncedAnchor' = Len(anchor)
    BY <1>1 DEF SnapshotInv, Durable, AwaitingSync
  <2>2. syncedAnchor' = Len(anchor) => AwaitingSync'
    BY <1>1, <1>2, <1>5, OneUnderWay DEF Unsynced, Appended
  <2> QED BY <2>1, <2>2 DEF SnapshotInv, Durable
<1> QED BY <1>2, <1>4, <1>5, <1>6, <1>7, OneUnderWay DEF SnapshotInv

LEMMA SyncDirectoryKeeps ==
    ASSUME SnapshotInv, NEW p \in Processes, SyncDirectory(p, "renamed", "synced") PROVE SnapshotInv'
BY DirectoryKeeps DEF SyncDirectory

LEMMA SyncAnchorEntryKeeps ==
    ASSUME SnapshotInv, NEW p \in Processes, SyncAnchorEntry(p, "recover_synced", "loaded") PROVE SnapshotInv'
BY DirectoryKeeps DEF SyncAnchorEntry

\* The candidate replaces the snapshot it was sealed on.
LEMMA RenameKeeps == ASSUME SnapshotInv, NEW p \in Processes, Rename(p) PROVE SnapshotInv'
<1>1. pc[p] = "loaded" /\ Len(current[p]) < MaxSequence /\ Goto(p, "renamed")
  BY DEF Rename
<1>2. PICK c \in Changes : /\ current' = [current EXCEPT ![p] = Append(current[p], c)]
                           /\ file' = Append(current[p], c)
  BY DEF Rename
<1>3. UNCHANGED <<syncedFile, anchor, syncedAnchor, torn, lock, acked, tampered, skipped, lost>>
  BY DEF Rename
<1>4. /\ current[p] = file /\ Matches(anchor, file) /\ file \in Seq(Changes) /\ Len(file) \in Nat
      /\ anchor \in Seq(Snapshots) /\ ChainOf(anchor) /\ acked \in Seq(Changes)
  BY <1>1, SnapshotTypes, LenProperties DEF SnapshotInv, TypeOK, Phases, Knows, Working, Anchored, Steps, Chain
<1>5. /\ file' \in Seq(Changes) /\ Len(file') = Len(file) + 1 /\ IsPrefix(file, file')
      /\ Behind(anchor, file')
  BY <1>2, <1>4, FrontOfAppend, PrefixFacts, SealNext
<1>6. /\ pc' \in [Processes -> Steps] /\ pc'[p] = "renamed"
      /\ \A q \in Processes : q # p => pc'[q] = "idle"
      /\ lock' \in Processes \cup {None} /\ Mutex'
  BY <1>1, <1>3, MoveKeepsMutex DEF Steps
<1>7. TypeOK'
  <2>1. file' \in Snapshots
    BY <1>1, <1>4, <1>5, SnapshotsAreSequences, SequenceAssumption
  <2>2. current' \in [Processes -> Snapshots]
    BY <1>2, <2>1 DEF SnapshotInv, TypeOK
  <2> QED BY <1>3, <1>6, <2>1, <2>2 DEF SnapshotInv, TypeOK
<1>8. Knows(pc[p], current[p])'
  <2>1. current'[p] = file'
    BY <1>2 DEF SnapshotInv, TypeOK
  <2> QED BY <1>3, <1>5, <1>6, <2>1 DEF Knows, Anchored, DirectorySynced
<1>9. Chain' /\ AckedSomewhere'
  <2>1. FileHasAcked => FileHasAcked'
    BY <1>3, <1>4, <1>5, PrefixFacts DEF FileHasAcked
  <2> QED BY <1>3, <2>1 DEF SnapshotInv, Chain, AckedSomewhere, AnchorHasAcked
<1>10. Durable'
  <2>1. tampered \/ skipped \/ (syncedFile = file /\ syncedAnchor = Len(anchor))
    BY <1>1, NothingAwaited DEF Unsynced, Appended
  <2>2. (syncedFile = file /\ syncedAnchor = Len(anchor)) => AwaitingSync'
    BY <1>3, <1>4, <1>6, <1>8, OneUnderWay DEF Unsynced, Appended
  <2> QED BY <1>3, <1>5, <2>1, <2>2 DEF SnapshotInv, Durable
<1> QED BY <1>6, <1>7, <1>8, <1>9, <1>10, OneUnderWay DEF SnapshotInv

\* What is acknowledged is in both files, durably.
LEMMA ReplyCommittedKeeps == ASSUME SnapshotInv, NEW p \in Processes, ReplyCommitted(p) PROVE SnapshotInv'
<1>1. /\ pc[p] = "anchored" /\ acked' = current[p] /\ Return(p)
      /\ syncedFile' = file /\ syncedAnchor' = Len(anchor)
      /\ UNCHANGED <<file, anchor, torn, tampered, skipped, lost>>
  BY DEF ReplyCommitted
<1>2. Knows("anchored", current[p]) /\ TypeOK /\ Chain
  BY <1>1 DEF SnapshotInv, Phases
<1>3. /\ current[p] = file /\ Matches(anchor, file) /\ Len(anchor) \in Nat
      /\ file \in Seq(Changes) /\ anchor \in Seq(Snapshots) /\ ChainOf(anchor)
  BY <1>2, SnapshotTypes DEF Knows, Working, Anchored, DirectorySynced, Steps, TypeOK, Chain
<1>4. TypeOK' /\ Mutex' /\ \A q \in Processes : pc'[q] = "idle"
  BY <1>1, <1>2, ReturnKeepsMutex DEF TypeOK
<1>5. Phases'
  BY <1>4 DEF Phases, Knows, Working, Anchored, Unanchored, DirectorySynced
<1>6. FileHasAcked'
  BY <1>1, <1>3, PrefixFacts DEF FileHasAcked
<1>7. AnchorHasAcked'
  <2>1. Len(file) = Len(anchor) /\ (Len(anchor) > 0 => anchor[Len(anchor)] = file) /\ Len(anchor) \in Nat
    BY <1>3, LastLine, LineTypes
  <2>2. file = <<>> \/ Len(file) > 0
    BY <1>3, EmptySeq
  <2> QED BY <1>1, <1>3, <2>1, <2>2 DEF AnchorHasAcked
<1>8. Durable'
  <2>1. AwaitingSync'
    BY <1>1, <1>3, <1>4 DEF AwaitingSync, Unsynced, Appended
  <2> QED BY <1>1, <1>3, <2>1 DEF SnapshotInv, Durable
<1> QED BY <1>1, <1>2, <1>4, <1>5, <1>6, <1>7, <1>8 DEF SnapshotInv, Chain, AckedSomewhere

\* A power loss takes what no sync had made durable, and nothing acknowledged is.
LEMMA PowerLossKeeps == ASSUME SnapshotInv, PowerLoss PROVE SnapshotInv'
<1>1. /\ file' \in {file, syncedFile} /\ syncedFile' = file' /\ lost' = skipped
      /\ pc' = [p \in Processes |-> "idle"] /\ lock' = None /\ current' = [p \in Processes |-> <<>>]
      /\ UNCHANGED <<acked, tampered, skipped>>
  BY DEF PowerLoss
<1>2. PICK n \in syncedAnchor .. Len(anchor) :
        anchor' = SubSeq(anchor, 1, n) /\ syncedAnchor' = n /\ torn' \in BOOLEAN
  BY DEF PowerLoss
<1>3. /\ TypeOK /\ anchor \in Seq(Snapshots) /\ ChainOf(anchor) /\ n \in 0 .. Len(anchor)
      /\ Len(anchor) \in Nat /\ syncedAnchor \in Nat /\ n >= syncedAnchor
      /\ file \in Seq(Changes) /\ syncedFile \in Seq(Changes) /\ acked \in Seq(Changes)
  BY SnapshotTypes DEF SnapshotInv, TypeOK, Chain
<1>4. /\ anchor' \in Seq(Snapshots) /\ Len(anchor') = n /\ ChainOf(anchor')
      /\ \A i \in 1 .. n : anchor'[i] = anchor[i]
      /\ n = Len(anchor) => anchor' = anchor
      /\ \A s \in Seq(Changes) : Matches(anchor, s) /\ n = Len(anchor) - 1 => Behind(anchor', s)
  BY <1>2, <1>3, CutLines
<1>5. TypeOK'
  <2>1. pc' \in [Processes -> Steps] /\ current' \in [Processes -> Snapshots]
    BY <1>1, EmptySnapshot DEF Steps
  <2>2. syncedAnchor' \in 0 .. Len(anchor')
    BY <1>2, <1>3, <1>4
  <2> QED BY <1>1, <1>2, <1>3, <1>4, <2>1, <2>2 DEF TypeOK
<1>6. Mutex' /\ Phases'
  BY <1>1 DEF Mutex, Phases, Knows, Working, Anchored, Unanchored, DirectorySynced
<1>7. AckedSomewhere'
  <2>1. FileHasAcked => FileHasAcked'
    BY <1>1 DEF FileHasAcked
  <2>2. AnchorHasAcked => AnchorHasAcked'
    <3>1. acked # <<>> => Len(acked) \in Nat \ {0}
      BY <1>3, EmptySeq
    <3>2. acked # <<>> /\ Len(acked) <= syncedAnchor => Len(acked) <= n /\ Len(acked) \in 1 .. n
      BY <1>3, <3>1
    <3> QED BY <1>1, <1>2, <1>4, <3>2 DEF AnchorHasAcked
  <2> QED BY <1>1, <2>1, <2>2 DEF SnapshotInv, AckedSomewhere
<1>8. AwaitingSync'
  BY <1>1, <1>2, <1>4 DEF AwaitingSync, Unsynced, Appended
<1>9. ASSUME ~tampered, ~skipped PROVE Matches(anchor', file') \/ Behind(anchor', file')
  <2>1. AwaitingSync /\ (Matches(anchor, file) \/ Behind(anchor, file))
    BY <1>9 DEF SnapshotInv, Durable
  <2>2. CASE \A p \in Processes : pc[p] \notin Unsynced
    <3>1. file' = file /\ n = Len(anchor)
      BY <1>1, <1>2, <2>1, <2>2 DEF AwaitingSync
    <3> QED BY <1>4, <2>1, <3>1
  <2>3. ASSUME NEW p \in Processes, pc[p] = "renamed" PROVE Matches(anchor', file') \/ Behind(anchor', file')
    <3>1. n = Len(anchor) /\ Matches(anchor, syncedFile)
      BY <1>2, <2>1, <2>3 DEF AwaitingSync
    <3> QED BY <1>1, <1>4, <2>1, <3>1
  <2>4. ASSUME NEW p \in Processes, pc[p] \in Appended
        PROVE  Matches(anchor', file') \/ Behind(anchor', file')
    <3>1. file' = file /\ syncedAnchor \in {Len(anchor) - 1, Len(anchor)}
      BY <1>1, <2>1, <2>4 DEF AwaitingSync
    <3>2. Matches(anchor, file)
      BY <2>4 DEF SnapshotInv, Phases, Knows, Anchored, Appended
    <3>3. n = Len(anchor) \/ n = Len(anchor) - 1
      BY <1>3, <3>1
    <3> QED BY <1>3, <1>4, <3>1, <3>2, <3>3
  <2> QED BY <2>2, <2>3, <2>4 DEF Unsynced, Appended
<1>10. Durable'
  BY <1>1, <1>8, <1>9 DEF SnapshotInv, Durable, TypeOK
<1> QED BY <1>4, <1>5, <1>6, <1>7, <1>10 DEF SnapshotInv, Chain

\* Tampering happens once, so the file that is left alone still has everything
\* acknowledged.
LEMMA RestoreKeeps == ASSUME SnapshotInv, RestoreOldSnapshot PROVE SnapshotInv'
<1>1. /\ ~tampered /\ lock = None /\ syncedFile' = file' /\ tampered' = TRUE
      /\ UNCHANGED <<anchor, syncedAnchor, torn, lock, pc, current, acked, skipped, lost>>
  BY DEF RestoreOldSnapshot
<1>2. PICK n \in 0 .. Len(file) - 1 : file' = SubSeq(file, 1, n)
  BY DEF RestoreOldSnapshot
<1>3. file' \in Snapshots
  <2>1. /\ file \in Seq(Changes) /\ Len(file) \in Nat /\ Len(file) <= MaxSequence /\ n \in Int /\ 1 \in Int
        /\ n \in Nat /\ n <= MaxSequence
    BY SnapshotsAreSequences, LenProperties, SequenceAssumption DEF SnapshotInv, TypeOK
  <2>2. \A i \in 1 .. n : file[i] \in Changes
    BY <2>1, LenProperties
  <2>3. file' \in Seq(Changes) /\ Len(file') = IF 1 <= n THEN n - 1 + 1 ELSE 0
    BY <1>2, <2>1, <2>2, SubSeqProperties
  <2>4. Len(file') <= MaxSequence
    BY <2>1, <2>3, SequenceAssumption
  <2> QED BY <2>3, <2>4, SnapshotsAreSequences
<1>4. TypeOK' /\ Mutex'
  BY <1>1, <1>3 DEF SnapshotInv, TypeOK, Mutex
<1>5. Phases'
  <2>1. \A p \in Processes : pc'[p] = "idle"
    BY <1>1, NoneAssumption DEF SnapshotInv, Mutex
  <2> QED BY <2>1 DEF Phases, Knows, Working, Anchored, Unanchored, DirectorySynced
<1>6. AckedSomewhere'
  BY <1>1 DEF SnapshotInv, AckedSomewhere, AnchorHasAcked
<1> QED BY <1>1, <1>4, <1>5, <1>6 DEF SnapshotInv, Chain, Durable

LEMMA DeleteKeeps == ASSUME SnapshotInv, DeleteAnchor PROVE SnapshotInv'
<1>1. /\ ~tampered /\ lock = None /\ anchor' = <<>> /\ syncedAnchor' = 0 /\ torn' = FALSE /\ tampered' = TRUE
      /\ UNCHANGED <<file, syncedFile, lock, pc, current, acked, skipped, lost>>
  BY DEF DeleteAnchor
<1>2. anchor' \in Seq(Snapshots) /\ Len(anchor') = 0
  BY <1>1, EmptySeq
<1>3. syncedAnchor' \in 0 .. Len(anchor')
  BY <1>1, <1>2
<1>4. TypeOK' /\ Mutex'
  BY <1>1, <1>2, <1>3 DEF SnapshotInv, TypeOK, Mutex
<1>5. Phases'
  <2>1. \A p \in Processes : pc'[p] = "idle"
    BY <1>1, NoneAssumption DEF SnapshotInv, Mutex
  <2> QED BY <2>1 DEF Phases, Knows, Working, Anchored, Unanchored, DirectorySynced
<1>6. Chain' /\ AckedSomewhere'
  BY <1>1, <1>2 DEF SnapshotInv, Chain, ChainOf, AckedSomewhere, FileHasAcked
<1> QED BY <1>1, <1>4, <1>5, <1>6 DEF SnapshotInv, Durable

LEMMA OperationKeeps == ASSUME SnapshotInv, NEW p \in Processes, Operation(p) PROVE SnapshotInv'
<1>1. CASE AcquireStoreLock(p)
  BY <1>1, AcquireKeeps
<1>2. CASE LoadSnapshot(p)
  BY <1>2, LoadKeeps
<1>3. CASE RecoverAnchor(p)
  BY <1>3, WriteLineKeeps, WriteNewlineKeeps, SyncAnchorKeeps, SyncAnchorEntryKeeps DEF RecoverAnchor
<1>4. CASE ReplyUnchanged(p)
  BY <1>4, EndKeeps DEF ReplyUnchanged, SnapshotInv, TypeOK, Unsynced, Appended
<1>5. CASE PersistSnapshot(p)
  BY <1>5, RenameKeeps, WriteLineKeeps, WriteNewlineKeeps, SyncAnchorKeeps, SyncDirectoryKeeps
     DEF PersistSnapshot
<1>6. CASE ReplyCommitted(p)
  BY <1>6, ReplyCommittedKeeps
<1>7. CASE KilledOrIoError(p)
  <2>1. /\ skipped' \in BOOLEAN /\ (skipped => skipped')
        /\ skipped' \/ (syncedFile = file /\ syncedAnchor = Len(anchor))
    BY <1>7 DEF KilledOrIoError, SnapshotInv, TypeOK
  <2> QED BY <1>7, <2>1, EndKeeps DEF KilledOrIoError, SnapshotInv, TypeOK
<1> QED BY <1>1, <1>2, <1>3, <1>4, <1>5, <1>6, <1>7 DEF Operation

LEMMA NextKeepsSnapshot == SnapshotInv /\ [Next]_vars => SnapshotInv'
<1> SUFFICES ASSUME SnapshotInv, [Next]_vars PROVE SnapshotInv'
  OBVIOUS
<1>1. CASE UNCHANGED vars
  BY <1>1 DEF vars, SnapshotInv, TypeOK, Mutex, Phases, Knows, Chain, AckedSomewhere, FileHasAcked,
     AnchorHasAcked, Durable, AwaitingSync
<1> QED BY <1>1, OperationKeeps, PowerLossKeeps, RestoreKeeps, DeleteKeeps DEF Next

-----------------------------------------------------------------------------
(* Results.                                                                 *)

THEOREM SnapshotInvariant == Spec => []SnapshotInv
BY InitSnapshot, NextKeepsSnapshot, PTL DEF Spec

\* Every operation under way has the snapshot of the file, however many processes
\* share the store: what one seals is on top of all that others renamed into place.
THEOREM StoreSealed == Spec => []StoreInv
<1>1. SnapshotInv => StoreInv
  BY DEF SnapshotInv, StoreInv, SealedOnTheFile, Phases, Knows, Working
<1> QED BY <1>1, SnapshotInvariant, PTL

\* No operation ever works from a snapshot that lacks an acknowledged change: after
\* kills and I/O errors at every step, power losses, and one of the two files
\* tampered with.
THEOREM AcknowledgedKept == Spec => []WorksFromAcknowledged
<1>1. SnapshotInv => WorksFromAcknowledged
  <2> SUFFICES ASSUME SnapshotInv, NEW p \in Processes, pc[p] \in Working PROVE IsPrefix(acked, current[p])
    BY DEF WorksFromAcknowledged, Working
  <2>1. Knows(pc[p], current[p])
    BY DEF SnapshotInv, Phases
  <2>2. current[p] = file /\ (Matches(anchor, file) \/ Behind(anchor, file))
    BY <2>1 DEF Knows, Working, Anchored, Unanchored, Steps
  <2> QED BY <2>2, VouchedHasAcked DEF SnapshotInv
<1> QED BY <1>1, SnapshotInvariant, PTL

\* The store opens again wherever an operation was cut short, unless it was tampered
\* with or power was lost after an operation had skipped a sync.
THEOREM StoreOpensAgain == Spec => []OpensAgain
<1>1. SnapshotInv => OpensAgain
  <2> SUFFICES ASSUME SnapshotInv PROVE OpensAgain
    OBVIOUS
  <2>1. ValidateAnchorChain
    BY ChainValidates DEF SnapshotInv, TypeOK, Chain, ValidateAnchorChain
  <2> QED BY <2>1, SameJudgement DEF SnapshotInv, Durable, OpensAgain
<1> QED BY <1>1, SnapshotInvariant, PTL
=============================================================================
