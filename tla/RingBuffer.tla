----------------------------- MODULE RingBuffer -----------------------------
(***************************************************************************)
(* pkg/utils/ringbuffer.go: the buffer of recent events behind the         *)
(* pipeline's statistics.  Its lock makes every operation one step, and    *)
(* Snapshot and Last read without changing anything.                       *)
(***************************************************************************)
EXTENDS Integers, Sequences

CONSTANTS
    Requested,   \* the capacity asked of NewRingBuffer
    Items,
    Zero         \* the zero value of the item type

ASSUME RingAssumption ==
    /\ Requested \in Int
    /\ Zero \notin Items

VARIABLES
    items,   \* rb.items, indexed from 0
    head,    \* next write position
    size     \* current number of items

vars == <<items, head, size>>

Capacity == IF Requested < 1 THEN 1 ELSE Requested

Init ==
    /\ items = [i \in 0 .. Capacity - 1 |-> Zero]
    /\ head = 0
    /\ size = 0

Grown(n) == IF n < Capacity THEN n + 1 ELSE n

Push(x) ==
    /\ items' = [items EXCEPT ![head] = x]
    /\ head' = (head + 1) % Capacity
    /\ size' = Grown(size)

Next == \E x \in Items : Push(x)

Spec == Init /\ [][Next]_vars

(* Mutant of Oldest: the slots are read from 0 when the buffer is full. *)
OldestAtZero(i) == items[i]

(* The i-th slot (from 0) of a full buffer: two copies, the first from     *)
(* head to the end and the second from 0.                                  *)
Oldest(i) == IF i < Capacity - head THEN items[head + i]
                                    ELSE items[i - (Capacity - head)]

(* A copy of the items, oldest first. *)
Snapshot ==
    [i \in 1 .. size |-> IF size < Capacity THEN items[i - 1] ELSE Oldest(i - 1)]

(* Mutant of Start: not taken modulo the capacity. *)
StartUnwrapped(n) == IF head < n THEN 0 ELSE head - n

Start(n) == (head - n + Capacity) % Capacity

(* The n most recent items, or all of them; n is not negative. *)
Last(n) ==
    LET m == IF n > size THEN size ELSE n
        start == Start(m)
    IN  [i \in 1 .. m |->
            IF start + m <= Capacity THEN items[start + i - 1]
            ELSE IF i <= Capacity - start
                 THEN items[start + i - 1]
                 ELSE items[i - 1 - (Capacity - start)]]

-----------------------------------------------------------------------------
(* Properties. *)

(* Until the buffer is full, head is the number of items and the slots     *)
(* behind it are untouched; nothing that was never pushed is handed out.   *)
TypeOK ==
    /\ items \in [0 .. Capacity - 1 -> Items \cup {Zero}]
    /\ head \in 0 .. Capacity - 1
    /\ size \in 0 .. Capacity
    /\ size < Capacity => head = size
    /\ \A i \in 0 .. Capacity - 1 : i < size => items[i] \in Items

(* The two readers agree, wherever head has wrapped to: Last is a suffix   *)
(* of Snapshot.                                                            *)
LastIsSuffix ==
    \A n \in 0 .. Capacity + 1 :
        Last(n) = SubSeq(Snapshot, IF n > size THEN 1 ELSE size - n + 1, size)

(* The buffer implements the log of recent items that the pipeline's ring  *)
(* is: what Snapshot returns is the state of that log.                     *)
R == INSTANCE RecentLog WITH recent <- Snapshot

ImplementsLog == R!RSpec

=============================================================================
