----------------------------- MODULE RecentLog -----------------------------
(***************************************************************************)
(* What a ring buffer promises: the most recent items, oldest first, the   *)
(* oldest forgotten when there is no room.                                 *)
(***************************************************************************)
EXTENDS Naturals, Sequences

CONSTANTS Capacity, Items

VARIABLE recent

RInit == recent = << >>

(* One more item; nothing else about the log changes. *)
Add(x) ==
    recent' = IF Len(recent) < Capacity
              THEN Append(recent, x)
              ELSE Append(Tail(recent), x)

RNext == \E x \in Items : Add(x)

RSpec == RInit /\ [][RNext]_recent

=============================================================================
