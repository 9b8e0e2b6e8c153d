------------------------------ MODULE Delivery ------------------------------
(***************************************************************************)
(* What internal/detection/pipeline promises to the two users of the event *)
(* stream, with every goroutine and channel removed.                       *)
(*                                                                         *)
(* Events are numbered in the order the shared event channel accepted      *)
(* them.  The callbacks see every event once, in that order.  The store    *)
(* receives some of the events the callbacks have seen, never the same one *)
(* twice and never an older one after a newer one.  An event may miss the  *)
(* store (a full channel, a failed write, a shutdown): the pipeline is     *)
(* lossy by design towards the store, and lossless towards the callbacks   *)
(* for as long as it runs.                                                 *)
(***************************************************************************)
EXTENDS Naturals, Sequences

VARIABLES
    accepted,   \* number of events the event channel has accepted
    shown,      \* number of events the callbacks have seen
    kept        \* the events the store has committed, in commit order

dvars == <<accepted, shown, kept>>

(* Every element of s is greater than its predecessors. *)
Increasing(s) == \A i, j \in 1 .. Len(s) : i < j => s[i] < s[j]

DInit ==
    /\ accepted = 0
    /\ shown = 0
    /\ kept = << >>

Accept ==
    /\ accepted' = accepted + 1
    /\ UNCHANGED <<shown, kept>>

Show ==
    /\ shown < accepted
    /\ shown' = shown + 1
    /\ UNCHANGED <<accepted, kept>>

(* One transaction appends a block of events that were shown before, all   *)
(* of them newer than everything already kept.                             *)
Keep ==
    /\ Len(kept') > Len(kept)
    /\ SubSeq(kept', 1, Len(kept)) = kept
    /\ \A i \in 1 .. Len(kept') : kept'[i] \in 1 .. shown
    /\ Increasing(kept')
    /\ UNCHANGED <<accepted, shown>>

DNext == Accept \/ Show \/ Keep

DSpec == DInit /\ [][DNext]_dvars

=============================================================================
