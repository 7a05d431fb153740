-------------------------- MODULE WitnessedLedger --------------------------
(***************************************************************************)
(* What the command ledger of a tenant promises, with no word about        *)
(* transactions, instances or crashes: commands take effect one after the  *)
(* other, none twice; an outside witness remembers how far the history had *)
(* come; the history may lose its end, and once it has lost something the  *)
(* witness had seen, nothing is added to it any more.  The last promise    *)
(* rests on a guard that the ledger can be without: when it loses its end  *)
(* under the eyes of those who serve it, or is emptied.  The others hold   *)
(* without the guard.                                                      *)
(***************************************************************************)
EXTENDS Naturals, Sequences

CONSTANTS
    CommandIds,  \* identities of commands
    Roots        \* hashes of histories

VARIABLES
    history,     \* the commands in effect: [id, root], root the hash so far
    witness,     \* [seq, root]: length and last root of the history it saw
    unguarded    \* what is added is not compared with what the witness saw

vars == <<history, witness, unguarded>>

\* The history still holds what the witness saw.
Intact ==
    \/ witness.seq = 0
    \/ /\ witness.seq <= Len(history)
       /\ history[witness.seq].root = witness.root

Init ==
    /\ history = <<>>
    /\ witness = [seq |-> 0, root |-> 0]
    /\ unguarded = FALSE

Apply ==
    /\ Intact \/ unguarded
    /\ \E id \in CommandIds, root \in Roots :
          /\ \A i \in 1 .. Len(history) :
                history[i].id # id /\ history[i].root # root
          /\ history' = Append(history, [id |-> id, root |-> root])
    /\ UNCHANGED <<witness, unguarded>>

\* The witness never goes back.  Unguarded, it may be shown what the history
\* has lost by now.
Witness ==
    /\ \/ \E n \in 1 .. Len(history) :
             /\ witness.seq <= n
             /\ witness' = [seq |-> n, root |-> history[n].root]
       \/ /\ unguarded
          /\ witness' \in [seq : Nat, root : Roots]
          /\ witness.seq <= witness'.seq
    /\ UNCHANGED <<history, unguarded>>

Lose ==
    /\ \E n \in 0 .. Len(history) : history' = SubSeq(history, 1, n)
    /\ unguarded' \in {unguarded, TRUE}
    /\ UNCHANGED witness

\* Whoever serves the history next sets the guard, or serves it empty.
Reopen ==
    /\ unguarded' \in BOOLEAN
    /\ unguarded' => unguarded \/ history = <<>>
    /\ UNCHANGED <<history, witness>>

Next == Apply \/ Witness \/ Lose \/ Reopen

Spec == Init /\ [][Next]_vars
=============================================================================
