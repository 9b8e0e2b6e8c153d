------------------------------ MODULE MCSensors ------------------------------
(* One sensor at a time, of every kind: its own variables move, the others'  *)
(* stay where they began.                                                    *)
EXTENDS Polling, Watching, TLC

CONSTANTS k1, k2, tcp, udp, p1, p2

MCTables == <<tcp, udp>>
MCInitially == {{p1}, {p1, p2}}
MCTableOf == k1 :> tcp @@ k2 :> tcp

vars == <<feedVars, pollVars, watchVars>>

Unwatched ==
    /\ files = {} /\ operations = 0 /\ raw = <<>>
    /\ overflowed = FALSE /\ replaced = FALSE
    /\ batch = <<>> /\ first = {}

Unpolled ==
    /\ world = Nothing /\ version = [k \in Keys |-> 0] /\ changes = 0
    /\ known = Nothing /\ listing = Nothing /\ todo = {} /\ next = <<>>
    /\ tables = <<>> /\ failures = 0 /\ baseline = {} /\ forgotten = {}

Init == (PollInit /\ Unwatched) \/ (WatchInit /\ Unpolled)

Next ==
    \/ PollNext /\ UNCHANGED watchVars
    \/ WatchNext /\ UNCHANGED pollVars

(* The sensor's goroutine runs; the pipeline reads until the context is      *)
(* done; a select with the context done and a tick or a send ready takes     *)
(* each of them again and again.                                             *)
Fairness ==
    /\ WF_vars(kind \in PollKinds /\ PollStep /\ UNCHANGED watchVars)
    /\ WF_vars(kind \in WatchKinds /\ WatchStep /\ UNCHANGED pollVars)
    /\ WF_vars(~cancelled /\ Take /\ UNCHANGED <<pollVars, watchVars>>)
    /\ SF_vars(End /\ UNCHANGED <<pollVars, watchVars>>)

Spec == Init /\ [][Next]_vars /\ Fairness

=============================================================================
