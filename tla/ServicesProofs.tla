--------------------------- MODULE ServicesProofs ---------------------------
(* The services that several callers share, a part for each: the ring buffer *)
(* of recent events, the rate limiter, the router of AI backends, the plugin *)
(* manager and the indicator engine.                                         *)
EXTENDS RingBuffer, RateLimiter, AIRouter, PluginHost, IOCEngine, HostActions,
        SequenceTheorems, FiniteSetTheorems, WellFoundedInduction, TLAPS

-----------------------------------------------------------------------------
(* RingBuffer, for every requested capacity and set of items.                *)
(* TypeOK is inductive: until the buffer is full, head and size agree.       *)

LEMMA CapacityPositive == Capacity \in Nat \ {0}
  BY RingAssumption DEF Capacity

(* Below the divisor % changes nothing. *)
LEMMA ModBelow ==
  ASSUME NEW c \in Nat \ {0}, NEW h \in Nat, h < c
  PROVE  h % c = h
  OBVIOUS

(* From the divisor on, up to its double, % takes it off once. *)
LEMMA ModAbove ==
  ASSUME NEW c \in Nat \ {0}, NEW h \in Nat, c <= h, h < 2 * c
  PROVE  h % c = h - c
  OBVIOUS

(* The next write position. *)
LEMMA HeadStep ==
  ASSUME NEW c \in Nat \ {0}, NEW h \in 0 .. c - 1
  PROVE  (h + 1) % c = IF h + 1 = c THEN 0 ELSE h + 1
  <1>1. CASE h + 1 = c
    <2>1. (h + 1) % c = (h + 1) - c
      BY <1>1, ModAbove
    <2>. QED  BY <1>1, <2>1
  <1>2. CASE h + 1 < c
    BY <1>2, ModBelow
  <1>. QED  BY <1>1, <1>2

-----------------------------------------------------------------------------

(* What one push does to the three fields. *)
LEMMA PushStep ==
  ASSUME TypeOK, NEW x \in Items, Push(x)
  PROVE  /\ items' \in [0 .. Capacity - 1 -> Items \cup {Zero}]
         /\ items'[head] = x
         /\ \A i \in 0 .. Capacity - 1 : i # head => items'[i] = items[i]
         /\ head' = IF head + 1 = Capacity THEN 0 ELSE head + 1
         /\ size' = IF size < Capacity THEN size + 1 ELSE size
  <1>. USE CapacityPositive
  <1>1. items' \in [0 .. Capacity - 1 -> Items \cup {Zero}]
    BY DEF TypeOK, Push
  <1>2. items'[head] = x /\ \A i \in 0 .. Capacity - 1 : i # head => items'[i] = items[i]
    BY DEF TypeOK, Push
  <1>3. head' = IF head + 1 = Capacity THEN 0 ELSE head + 1
    BY HeadStep DEF TypeOK, Push
  <1>4. size' = IF size < Capacity THEN size + 1 ELSE size
    BY DEF TypeOK, Push, Grown
  <1>. QED  BY <1>1, <1>2, <1>3, <1>4

LEMMA TypeInitial == Init => TypeOK
  <1>. SUFFICES ASSUME Init  PROVE  TypeOK
    OBVIOUS
  <1>. USE CapacityPositive
  <1>1. items \in [0 .. Capacity - 1 -> Items \cup {Zero}]
    BY DEF Init
  <1>. QED  BY <1>1 DEF Init, TypeOK

LEMMA TypeInductive == TypeOK /\ [Next]_vars => TypeOK'
  <1>. SUFFICES ASSUME TypeOK, [Next]_vars  PROVE  TypeOK'
    OBVIOUS
  <1>. USE CapacityPositive
  <1>0. Capacity' = Capacity
    BY DEF Capacity
  <1>1. ASSUME NEW x \in Items, Push(x)  PROVE  TypeOK'
    <2>1. items' \in [0 .. Capacity - 1 -> Items \cup {Zero}]
      BY <1>1, PushStep
    <2>2. head' = IF head + 1 = Capacity THEN 0 ELSE head + 1
      BY <1>1, PushStep
    <2>3. size' = IF size < Capacity THEN size + 1 ELSE size
      BY <1>1, PushStep
    <2>4. head' \in 0 .. Capacity - 1 /\ size' \in 0 .. Capacity
      BY <2>2, <2>3 DEF TypeOK
    <2>5. size' < Capacity => head' = size'
      BY <2>2, <2>3 DEF TypeOK
    <2>6. ASSUME NEW i \in 0 .. Capacity - 1, i < size'  PROVE  items'[i] \in Items
      <3>1. CASE i = head
        BY <1>1, <3>1, PushStep
      <3>2. CASE i # head
        <4>1. i < size
          BY <2>3, <2>6, <3>2 DEF TypeOK
        <4>2. items'[i] = items[i]
          BY <1>1, <3>2, PushStep
        <4>. QED  BY <4>1, <4>2 DEF TypeOK
      <3>. QED  BY <3>1, <3>2
    <2>. QED  BY <1>0, <2>1, <2>4, <2>5, <2>6 DEF TypeOK
  <1>2. CASE UNCHANGED vars
    BY <1>0, <1>2 DEF vars, TypeOK
  <1>. QED  BY <1>1, <1>2 DEF Next

(* The state of the buffer is consistent: see TypeOK. *)
THEOREM TypeCorrect == Spec => []TypeOK
  BY TypeInitial, TypeInductive, PTL DEF Spec

-----------------------------------------------------------------------------

(* Everything Snapshot returns was pushed. *)
LEMMA SnapshotType ==
  ASSUME TypeOK
  PROVE  /\ Snapshot \in Seq(Items)
         /\ Len(Snapshot) = size
  <1>. USE CapacityPositive
  <1>1. ASSUME NEW i \in 1 .. size
        PROVE  (IF size < Capacity THEN items[i - 1] ELSE Oldest(i - 1)) \in Items
    <2>1. CASE size < Capacity
      BY <2>1 DEF TypeOK
    <2>2. CASE size = Capacity
      <3>1. CASE i - 1 < Capacity - head
        BY <2>2, <3>1 DEF TypeOK, Oldest
      <3>2. CASE ~(i - 1 < Capacity - head)
        <4>1. i - 1 - (Capacity - head) \in 0 .. Capacity - 1
          BY <2>2, <3>2 DEF TypeOK
        <4>. QED  BY <2>2, <3>2, <4>1 DEF TypeOK, Oldest
      <3>. QED  BY <3>1, <3>2
    <2>. QED  BY <2>1, <2>2 DEF TypeOK
  <1>2. Snapshot \in [1 .. size -> Items]
    BY <1>1 DEF Snapshot
  <1>3. size \in Nat
    BY DEF TypeOK
  <1>. QED  BY <1>2, <1>3

(* An item appended, element by element. *)
LEMMA Appended ==
  ASSUME NEW S, NEW s \in Seq(S), NEW x \in S
  PROVE  Append(s, x) =
             [i \in 1 .. Len(s) + 1 |-> IF i <= Len(s) THEN s[i] ELSE x]
  <1>. DEFINE t == [i \in 1 .. Len(s) + 1 |-> IF i <= Len(s) THEN s[i] ELSE x]
  <1>0. Len(s) \in Nat
    OBVIOUS
  <1>1. ASSUME NEW i \in 1 .. Len(s) + 1
        PROVE  t[i] \in S /\ Append(s, x)[i] = t[i]
    <2>1. CASE i <= Len(s)
      BY <1>0, <2>1, AppendProperties
    <2>2. CASE i = Len(s) + 1
      BY <1>0, <2>2, AppendProperties
    <2>. QED  BY <1>0, <2>1, <2>2
  <1>2. t \in [1 .. Len(s) + 1 -> S]
    BY <1>1
  <1>3. t \in Seq(S) /\ Len(t) = Len(s) + 1
    BY <1>0, <1>2
  <1>. HIDE DEF t
  <1>4. Append(s, x) \in Seq(S) /\ Len(Append(s, x)) = Len(s) + 1
    BY AppendProperties
  <1>5. Append(s, x) = t
    BY <1>1, <1>3, <1>4, SeqEqual
  <1>. QED  BY <1>5 DEF t

(* Forgetting the oldest item and appending one, element by element. *)
LEMMA Shifted ==
  ASSUME NEW S, NEW s \in Seq(S), s # << >>, NEW x \in S
  PROVE  Append(Tail(s), x) =
             [i \in 1 .. Len(s) |-> IF i < Len(s) THEN s[i + 1] ELSE x]
  <1>1. /\ Tail(s) \in Seq(S)
        /\ Len(Tail(s)) = Len(s) - 1
        /\ \A i \in 1 .. Len(Tail(s)) : Tail(s)[i] = s[i + 1]
    BY HeadTailProperties
  <1>2. ASSUME NEW r \in Seq(S)
        PROVE  Append(r, x) = [i \in 1 .. Len(r) + 1 |-> IF i <= Len(r) THEN r[i] ELSE x]
    BY Appended
  <1>3. Append(Tail(s), x) =
           [i \in 1 .. Len(Tail(s)) + 1 |->
               IF i <= Len(Tail(s)) THEN Tail(s)[i] ELSE x]
    BY <1>1, <1>2, Zenon
  <1>4. Len(s) \in Nat
    OBVIOUS
  <1>. QED  BY <1>1, <1>3, <1>4

(* A push into a buffer with room. *)
LEMMA PushWithRoom ==
  ASSUME TypeOK, NEW x \in Items, Push(x), size < Capacity
  PROVE  Snapshot' = Append(Snapshot, x)
  <1>. USE CapacityPositive
  <1>0. Capacity' = Capacity
    BY DEF Capacity
  <1>1. size' = size + 1 /\ head = size /\ head' = IF size + 1 = Capacity THEN 0 ELSE size + 1
    BY PushStep DEF TypeOK
  <1>2. Append(Snapshot, x) =
           [i \in 1 .. size + 1 |-> IF i <= size THEN Snapshot[i] ELSE x]
    BY SnapshotType, Appended
  <1>3. ASSUME NEW i \in 1 .. size + 1
        PROVE  (IF size' < Capacity THEN items'[i - 1] ELSE Oldest(i - 1)')
                 = IF i <= size THEN Snapshot[i] ELSE x
    <2>1. (IF size' < Capacity THEN items'[i - 1] ELSE Oldest(i - 1)') = items'[i - 1]
      BY <1>0, <1>1 DEF Oldest, TypeOK
    <2>2. CASE i <= size
      <3>1. items'[i - 1] = items[i - 1]
        BY <1>1, <2>2, PushStep DEF TypeOK
      <3>2. Snapshot[i] = items[i - 1]
        BY <2>2 DEF Snapshot, TypeOK
      <3>. QED  BY <2>1, <2>2, <3>1, <3>2
    <2>3. CASE i = size + 1
      BY <1>1, <2>1, <2>3, PushStep DEF TypeOK
    <2>. QED  BY <2>2, <2>3 DEF TypeOK
  <1>4. Snapshot' = [i \in 1 .. size + 1 |->
            IF size' < Capacity THEN items'[i - 1] ELSE Oldest(i - 1)']
    BY <1>0, <1>1 DEF Snapshot
  <1>. QED  BY <1>2, <1>3, <1>4

(* A push into a full buffer. *)
LEMMA PushWhenFull ==
  ASSUME TypeOK, NEW x \in Items, Push(x), size = Capacity
  PROVE  Snapshot' = Append(Tail(Snapshot), x)
  <1>. USE CapacityPositive
  <1>0. Capacity' = Capacity
    BY DEF Capacity
  <1>1. size' = Capacity /\ head' = IF head + 1 = Capacity THEN 0 ELSE head + 1
    BY PushStep DEF TypeOK
  <1>2. Append(Tail(Snapshot), x) =
           [i \in 1 .. Capacity |-> IF i < Capacity THEN Snapshot[i + 1] ELSE x]
    <2>1. Snapshot # << >>
      BY SnapshotType
    <2>. QED  BY <2>1, SnapshotType, Shifted
  <1>3. ASSUME NEW i \in 1 .. Capacity
        PROVE  Oldest(i - 1)' = IF i < Capacity THEN Snapshot[i + 1] ELSE x
    <2>1. CASE i < Capacity
      <3>1. Snapshot[i + 1] = Oldest(i)
        BY <2>1 DEF Snapshot
      <3>2. CASE head + 1 = Capacity
        <4>1. Oldest(i - 1)' = items'[i - 1]
          BY <1>0, <1>1, <2>1, <3>2 DEF Oldest
        <4>2. items'[i - 1] = items[i - 1]
          BY <2>1, <3>2, PushStep DEF TypeOK
        <4>3. Oldest(i) = items[i - 1]
          BY <2>1, <3>2 DEF Oldest, TypeOK
        <4>. QED  BY <2>1, <3>1, <4>1, <4>2, <4>3
      <3>3. CASE head + 1 < Capacity /\ i < Capacity - head
        <4>1. Oldest(i - 1)' = items'[head + 1 + (i - 1)]
          BY <1>0, <1>1, <2>1, <3>3 DEF Oldest, TypeOK
        <4>2. head + 1 + (i - 1) = head + i /\ head + i \in 0 .. Capacity - 1 /\ head + i # head
          BY <3>3 DEF TypeOK
        <4>3. items'[head + i] = items[head + i]
          BY <4>2, PushStep
        <4>4. Oldest(i) = items[head + i]
          BY <3>3 DEF Oldest
        <4>. QED  BY <2>1, <3>1, <4>1, <4>2, <4>3, <4>4
      <3>4. CASE head + 1 < Capacity /\ ~(i < Capacity - head)
        <4>1. Oldest(i - 1)' = items'[i - 1 - (Capacity - (head + 1))]
          BY <1>0, <1>1, <2>1, <3>4 DEF Oldest, TypeOK
        <4>2. /\ i - 1 - (Capacity - (head + 1)) = i - (Capacity - head)
              /\ i - (Capacity - head) \in 0 .. Capacity - 1
              /\ i - (Capacity - head) # head
          BY <2>1, <3>4 DEF TypeOK
        <4>3. items'[i - (Capacity - head)] = items[i - (Capacity - head)]
          BY <4>2, PushStep
        <4>4. Oldest(i) = items[i - (Capacity - head)]
          BY <3>4 DEF Oldest
        <4>. QED  BY <2>1, <3>1, <4>1, <4>2, <4>3, <4>4
      <3>. QED  BY <3>2, <3>3, <3>4 DEF TypeOK
    <2>2. CASE i = Capacity
      <3>1. CASE head + 1 = Capacity
        BY <1>0, <1>1, <2>2, <3>1, PushStep DEF Oldest, TypeOK
      <3>2. CASE head + 1 < Capacity
        <4>1. Oldest(i - 1)' = items'[i - 1 - (Capacity - (head + 1))]
          BY <1>0, <1>1, <2>2, <3>2 DEF Oldest, TypeOK
        <4>2. i - 1 - (Capacity - (head + 1)) = head
          BY <2>2 DEF TypeOK
        <4>. QED  BY <2>2, <4>1, <4>2, PushStep
      <3>. QED  BY <3>1, <3>2 DEF TypeOK
    <2>. QED  BY <2>1, <2>2
  <1>4. Snapshot' = [i \in 1 .. Capacity |-> Oldest(i - 1)']
    BY <1>0, <1>1 DEF Snapshot
  <1>. QED  BY <1>2, <1>3, <1>4

(* What Snapshot returns behaves as the log of recent items: the pipeline  *)
(* may treat the buffer as a bounded sequence.                             *)
THEOREM LogImplemented == Spec => ImplementsLog
  <1>1. Init => R!RInit
    <2>. SUFFICES ASSUME Init  PROVE  Snapshot = << >>
      BY DEF R!RInit
    <2>. QED  BY DEF Init, Snapshot
  <1>2. TypeOK /\ [Next]_vars => [R!RNext]_Snapshot
    <2>. SUFFICES ASSUME TypeOK, [Next]_vars  PROVE  [R!RNext]_Snapshot
      OBVIOUS
    <2>1. ASSUME NEW x \in Items, Push(x)  PROVE  R!Add(x)
      <3>1. CASE size < Capacity
        BY <2>1, <3>1, PushWithRoom, SnapshotType DEF R!Add
      <3>2. CASE size = Capacity
        BY <2>1, <3>2, PushWhenFull, SnapshotType, CapacityPositive DEF R!Add
      <3>. QED  BY <3>1, <3>2, CapacityPositive DEF TypeOK
    <2>2. CASE UNCHANGED vars
      <3>1. Snapshot' = Snapshot
        BY <2>2 DEF vars, Snapshot, Oldest, Capacity
      <3>. QED  BY <3>1
    <2>. QED  BY <2>1, <2>2 DEF Next, R!RNext
  <1>. QED  BY <1>1, <1>2, TypeCorrect, PTL DEF Spec, ImplementsLog, R!RSpec

-----------------------------------------------------------------------------

(* Where the read of m items starts. *)
LEMMA StartStep ==
  ASSUME TypeOK, NEW m \in 0 .. size
  PROVE  Start(m) = IF m <= head THEN head - m ELSE head - m + Capacity
  <1>. USE CapacityPositive
  <1>. DEFINE h == head - m + Capacity
  <1>1. h \in Nat /\ h < 2 * Capacity
    BY DEF TypeOK
  <1>2. CASE m <= head
    <2>1. Capacity <= h
      BY <1>2 DEF TypeOK
    <2>2. h % Capacity = h - Capacity
      BY <1>1, <2>1, ModAbove
    <2>. QED  BY <1>2, <2>2 DEF Start, TypeOK
  <1>3. CASE head < m
    <2>1. h < Capacity
      BY <1>3 DEF TypeOK
    <2>2. h % Capacity = h
      BY <1>1, <2>1, ModBelow
    <2>. QED  BY <1>3, <2>2 DEF Start, TypeOK
  <1>. QED  BY <1>2, <1>3 DEF TypeOK

(* What the readers see at each position. *)
LEMMA LastElement ==
  ASSUME TypeOK, NEW m \in 0 .. size, NEW i \in 1 .. m
  PROVE  (IF Start(m) + m <= Capacity THEN items[Start(m) + i - 1]
          ELSE IF i <= Capacity - Start(m)
               THEN items[Start(m) + i - 1]
               ELSE items[i - 1 - (Capacity - Start(m))])
           = Snapshot[size - m + i]
  <1>. USE CapacityPositive
  <1>1. Start(m) = IF m <= head THEN head - m ELSE head - m + Capacity
    BY StartStep
  <1>2. Snapshot[size - m + i] = IF size < Capacity THEN items[size - m + i - 1]
                                                    ELSE Oldest(size - m + i - 1)
    BY DEF Snapshot, TypeOK
  <1>3. CASE size < Capacity
    BY <1>1, <1>2, <1>3 DEF TypeOK
  <1>4. CASE size = Capacity /\ m <= head
    <2>1. Oldest(size - m + i - 1) = items[head - m + i - 1]
      BY <1>4 DEF Oldest, TypeOK
    <2>. QED  BY <1>1, <1>2, <1>4, <2>1 DEF TypeOK
  <1>5. CASE size = Capacity /\ head < m /\ i <= m - head
    <2>1. Oldest(size - m + i - 1) = items[head - m + Capacity + i - 1]
      BY <1>5 DEF Oldest, TypeOK
    <2>. QED  BY <1>1, <1>2, <1>5, <2>1 DEF TypeOK
  <1>6. CASE size = Capacity /\ head < m /\ m - head < i
    <2>1. Oldest(size - m + i - 1) = items[head - m + i - 1]
      BY <1>6 DEF Oldest, TypeOK
    <2>. QED  BY <1>1, <1>2, <1>6, <2>1 DEF TypeOK
  <1>. QED  BY <1>3, <1>4, <1>5, <1>6 DEF TypeOK

(* Last returns the newest part of what Snapshot returns. *)
THEOREM LastCorrect == Spec => []LastIsSuffix
  <1>1. TypeOK => LastIsSuffix
    <2>. SUFFICES ASSUME TypeOK, NEW n \in 0 .. Capacity + 1
                  PROVE  Last(n) = SubSeq(Snapshot, IF n > size THEN 1 ELSE size - n + 1, size)
      BY DEF LastIsSuffix
    <2>. DEFINE m == IF n > size THEN size ELSE n
    <2>1. m \in 0 .. size /\ size \in Nat
      BY CapacityPositive DEF TypeOK
    <2>2. (IF n > size THEN 1 ELSE size - n + 1) = size - m + 1
      BY <2>1, CapacityPositive
    <2>3. Last(n) = [i \in 1 .. m |-> Snapshot[size - m + i]]
      BY <2>1, LastElement DEF Last
    <2>. HIDE DEF m
    <2>4. SubSeq(Snapshot, size - m + 1, size) = [i \in 1 .. m |-> Snapshot[size - m + i]]
      BY <2>1, SnapshotType
    <2>. QED  BY <2>2, <2>3, <2>4
  <1>. QED  BY <1>1, TypeCorrect, PTL

-----------------------------------------------------------------------------
(* RateLimiter: the clean-up is invisible, for every number of clients and   *)
(* every rate.                                                               *)

(* The tokens a record stands for, with the age of the record.               *)
LEMMA RefilledFills ==
    ASSUME NEW t \in 0..Burst, NEW g \in 0..Idle
    PROVE  Least(t + Least(g + 1, Idle), Burst) = Least(Least(t + g, Burst) + 1, Burst)
  BY LimiterAssumption DEF Least, Idle

(* Types and the invariant are kept by every step.                           *)
LimiterInv == LimiterTypeOK /\ CleanupIsInvisible

LEMMA LimiterStarts == LimiterInit => LimiterInv
  BY LimiterAssumption
     DEF LimiterInit, LimiterInv, LimiterTypeOK, CleanupIsInvisible, Refilled, Interval, Idle

LEMMA TickKeeps ==
    ASSUME LimiterInv, LimiterTick
    PROVE  LimiterInv'
  <1>1. LimiterTypeOK'
    BY LimiterAssumption
       DEF LimiterInv, LimiterTypeOK, LimiterTick, Least, Interval, Idle
  <1>2. ASSUME NEW c \in Clients PROVE Refilled(bucket, c)' = full'[c]
    <2>1. bucket' = bucket /\ age'[c] = Least(age[c] + 1, Idle) /\ full'[c] = Least(full[c] + 1, Burst)
      BY DEF LimiterTick, LimiterInv, LimiterTypeOK
    <2>2. full[c] = Refilled(bucket, c)
      BY DEF LimiterInv, CleanupIsInvisible
    <2>3. CASE c \in DOMAIN bucket
      <3>1. bucket[c] \in 0..Burst /\ age[c] \in 0..Idle
        BY <2>3 DEF LimiterInv, LimiterTypeOK
      <3>2. full[c] = Least(bucket[c] + age[c], Burst)
        BY <2>2, <2>3 DEF Refilled
      <3>3. Refilled(bucket, c)' = Least(bucket[c] + Least(age[c] + 1, Idle), Burst)
        BY <2>1, <2>3 DEF Refilled
      <3> QED BY <2>1, <3>1, <3>2, <3>3, RefilledFills
    <2>4. CASE c \notin DOMAIN bucket
      BY <2>1, <2>2, <2>4, LimiterAssumption DEF Refilled, Least
    <2> QED BY <2>3, <2>4
  <1> QED BY <1>1, <1>2 DEF LimiterInv, CleanupIsInvisible

(* What a client that is forgotten would hold has filled up.                 *)
LEMMA ForgottenAreFull ==
    ASSUME LimiterInv, NEW c \in Forgotten
    PROVE  c \in DOMAIN bucket /\ Refilled(bucket, c) = Burst
  BY LimiterAssumption DEF LimiterInv, LimiterTypeOK, Forgotten, Refilled, Least, Idle

LEMMA CleanedAgrees ==
    ASSUME LimiterInv, NEW c \in Clients
    PROVE  Refilled(Cleaned, c) = Refilled(bucket, c)
  <1>1. CASE c \in Forgotten
    BY <1>1, ForgottenAreFull DEF Cleaned, Refilled
  <1>2. CASE c \notin Forgotten
    BY <1>2 DEF Cleaned, Refilled
  <1> QED BY <1>1, <1>2

LEMMA RequestKeeps ==
    ASSUME LimiterInv, NEW c \in Clients, Request(c)
    PROVE  LimiterInv'
  <1> DEFINE due == cleaned >= Interval
             clients == IF due THEN Cleaned ELSE bucket
             tokens == Refilled(clients, c)
  <1>1. /\ DOMAIN clients \subseteq Clients
        /\ \A d \in DOMAIN clients : clients[d] \in 0..Burst
    BY DEF LimiterInv, LimiterTypeOK, Cleaned
  <1>2. \A d \in Clients : Refilled(clients, d) = full[d]
    BY CleanedAgrees DEF LimiterInv, CleanupIsInvisible
  <1>3. /\ bucket' = [d \in DOMAIN clients \cup {c} |->
                         IF d # c THEN clients[d] ELSE Taken(tokens)]
        /\ age' = [age EXCEPT ![c] = 0]
        /\ cleaned' = IF due THEN 0 ELSE cleaned
        /\ full' = [full EXCEPT ![c] = Taken(@)]
    BY DEF Request
  <1>4. tokens = full[c] /\ full[c] \in 0..Burst
    BY <1>2 DEF LimiterInv, LimiterTypeOK
  <1>5. /\ DOMAIN bucket' = DOMAIN clients \cup {c}
        /\ \A d \in DOMAIN clients : d # c => bucket'[d] = clients[d]
        /\ bucket'[c] = Taken(full[c])
    <2> HIDE DEF clients, tokens, due
    <2> QED BY <1>3, <1>4
  <1> HIDE DEF clients, tokens, due
  <1>6. age' \in [Clients -> 0..Idle] /\ full' \in [Clients -> 0..Burst]
    BY <1>3, <1>4, LimiterAssumption DEF LimiterInv, LimiterTypeOK, Idle, Taken
  <1>7. cleaned' \in 0..Interval
    BY <1>3, LimiterAssumption DEF LimiterInv, LimiterTypeOK, Interval
  <1>8. \A d \in DOMAIN bucket' : d \in Clients /\ bucket'[d] \in 0..Burst
    BY <1>1, <1>4, <1>5, LimiterAssumption DEF Taken
  <1>9. ASSUME NEW d \in Clients PROVE Refilled(bucket, d)' = full'[d]
    <2>1. CASE d = c
      <3>1. age'[c] = 0 /\ full'[c] = Taken(full[c])
        BY <1>3 DEF LimiterInv, LimiterTypeOK
      <3> QED BY <2>1, <3>1, <1>4, <1>5, LimiterAssumption DEF Refilled, Least, Taken
    <2>2. CASE d # c
      <3>1. age'[d] = age[d] /\ full'[d] = full[d]
        BY <1>3, <2>2 DEF LimiterInv, LimiterTypeOK
      <3>2. Refilled(bucket, d)' = Refilled(clients, d)
        BY <1>5, <2>2, <3>1 DEF Refilled
      <3> QED BY <1>2, <3>1, <3>2
    <2> QED BY <2>1, <2>2
  <1> QED BY <1>6, <1>7, <1>8, <1>9 DEF LimiterInv, LimiterTypeOK, CleanupIsInvisible

LEMMA LimiterKeeps == LimiterInv /\ [LimiterNext]_limiterVars => LimiterInv'
  <1> SUFFICES ASSUME LimiterInv, [LimiterNext]_limiterVars PROVE LimiterInv' OBVIOUS
  <1>1. CASE LimiterTick BY <1>1, TickKeeps
  <1>2. ASSUME NEW c \in Clients, Request(c) PROVE LimiterInv' BY <1>2, RequestKeeps
  <1>3. CASE UNCHANGED limiterVars
    BY <1>3 DEF limiterVars, LimiterInv, LimiterTypeOK, CleanupIsInvisible, Refilled
  <1> QED BY <1>1, <1>2, <1>3 DEF LimiterNext

(* RateLimit in ratelimit.go: forgetting the clients that have not been seen *)
(* for ten minutes never changes what a request finds, whatever the rate,    *)
(* the number of clients and the times of their requests.                    *)
THEOREM CleanupInvisible == LimiterSpec => []CleanupIsInvisible
  <1>1. LimiterInv => CleanupIsInvisible BY DEF LimiterInv
  <1> QED BY LimiterStarts, LimiterKeeps, <1>1, PTL DEF LimiterSpec

-----------------------------------------------------------------------------
(* AIRouter: whom the answers come from, for every number of callers and of  *)
(* backends and every cooldown.                                              *)

Chat == [at : 0..Len(Backends), attempt : Nat, gone : BOOLEAN,
         tried : SUBSET Names, passed : SUBSET Names, answer : Names \cup {"none", "error"}]

Before(i) == {Backends[j] : j \in 1..(i - 1)}

(* A chat on its way has failed at, or passed over, every backend before the *)
(* one it is at.                                                             *)
OnItsWay(x) ==
    /\ x.at > 0 => x.tried \cup x.passed = Before(x.at) /\ x.answer = "none"
    /\ x.attempt > 0 => x.at > 0

Right(x) ==
    /\ x.answer = "error" => x.tried \cup x.passed = Names
    /\ x.answer \in Names =>
           \E i \in DOMAIN Backends :
               Backends[i] = x.answer /\ x.tried \cup x.passed = Before(i)

RouterInv ==
    /\ chat \in [Chats -> Chat]
    /\ \A c \in Chats : OnItsWay(chat[c]) /\ Right(chat[c])

LEMMA BackendsFacts ==
    /\ Len(Backends) \in Nat /\ 0 \in 0..Len(Backends) /\ 1 \in 0..Len(Backends)
    /\ DOMAIN Backends = 1..Len(Backends)
    /\ \A i \in 1..Len(Backends) : Backends[i] \in Names /\ Before(i + 1) = Before(i) \cup {Backends[i]}
    /\ Before(1) = {}
    /\ Before(Len(Backends) + 1) = Names
    /\ "none" \notin Names /\ "error" \notin Names
  <1>0. 0 \in 0..Len(Backends) /\ 1 \in 0..Len(Backends) BY RouterAssumption
  <1>1. Len(Backends) \in Nat /\ DOMAIN Backends = 1..Len(Backends)
    BY RouterAssumption
  <1>2. ASSUME NEW i \in 1..Len(Backends)
        PROVE  Backends[i] \in Names /\ Before(i + 1) = Before(i) \cup {Backends[i]}
    <2>1. Backends[i] \in Names BY <1>1 DEF Names
    <2>2. 1..((i + 1) - 1) = 1..(i - 1) \cup {i} BY <1>1
    <2> QED BY <2>1, <2>2 DEF Before
  <1>3. 1..(1 - 1) = {} OBVIOUS
  <1>4. Before(1) = {} BY <1>3 DEF Before
  <1>5. 1..((Len(Backends) + 1) - 1) = DOMAIN Backends BY <1>1
  <1>6. Before(Len(Backends) + 1) = Names BY <1>5 DEF Before, Names
  <1>7. "none" \notin Names /\ "error" \notin Names BY RouterAssumption DEF Names
  <1> QED BY <1>0, <1>1, <1>2, <1>4, <1>6, <1>7

LEMMA ChatUpdates ==
    ASSUME NEW x \in Chat, NEW n \in 0..Len(Backends), NEW a \in Names \cup {"none", "error"}
    PROVE  /\ [x EXCEPT !.at = n, !.attempt = 0] \in Chat
           /\ [x EXCEPT !.at = n, !.attempt = 0, !.answer = a] \in Chat
  BY DEF Chat

(* One caller's record changes at a time.                                    *)
LEMMA OneChat ==
    ASSUME RouterInv, NEW c \in Chats, NEW x \in Chat, chat' = [chat EXCEPT ![c] = x],
           OnItsWay(x), Right(x)
    PROVE  RouterInv'
  BY DEF RouterInv, OnItsWay, Right

(* Going on to the next backend, when the current one is out.                *)
LEMMA GoesOn ==
    ASSUME RouterInv, NEW c \in Chats, NEW x \in Chat, x.at = chat[c].at, x.at > 0,
           x.tried \cup x.passed = Before(x.at + 1), x.answer = "none", NextBackend(c, x)
    PROVE  RouterInv'
  <1> USE BackendsFacts
  <1>1. CASE x.at < Len(Backends)
    <2> DEFINE y == [x EXCEPT !.at = @ + 1, !.attempt = 0]
    <2>1. chat' = [chat EXCEPT ![c] = y] BY <1>1 DEF NextBackend
    <2>0. x.at + 1 \in 0..Len(Backends) BY <1>1 DEF Chat
    <2>2. y \in Chat BY <2>0, ChatUpdates
    <2>3. y.at = x.at + 1 /\ y.attempt = 0 /\ y.tried = x.tried /\ y.passed = x.passed
          /\ y.answer = "none"
      BY DEF Chat
    <2> HIDE DEF y
    <2>4. OnItsWay(y) /\ Right(y) BY <2>3, <1>1 DEF OnItsWay, Right, Chat
    <2> QED BY <2>1, <2>2, <2>4, OneChat
  <1>2. CASE ~(x.at < Len(Backends))
    <2> DEFINE y == [x EXCEPT !.at = 0, !.attempt = 0, !.answer = "error"]
    <2>1. chat' = [chat EXCEPT ![c] = y] BY <1>2 DEF NextBackend
    <2>2. y \in Chat BY ChatUpdates
    <2>3. y.at = 0 /\ y.attempt = 0 /\ y.tried = x.tried /\ y.passed = x.passed /\ y.answer = "error"
      BY DEF Chat
    <2>4. x.at = Len(Backends) BY <1>2 DEF Chat
    <2> HIDE DEF y
    <2>5. OnItsWay(y) /\ Right(y) BY <2>3, <2>4 DEF OnItsWay, Right
    <2> QED BY <2>1, <2>2, <2>5, OneChat
  <1> QED BY <1>1, <1>2

LEMMA CheckKeeps ==
    ASSUME RouterInv, NEW c \in Chats, Check(c)
    PROVE  RouterInv'
  <1> USE BackendsFacts
  <1>1. chat[c] \in Chat /\ chat[c].at > 0 /\ OnItsWay(chat[c]) /\ Right(chat[c])
    BY DEF RouterInv, Check
  <1>2. CASE Available(Current(c))
    <2> DEFINE y == [chat[c] EXCEPT !.attempt = 1]
    <2>1. chat' = [chat EXCEPT ![c] = y] BY <1>2 DEF Check, RouterInv
    <2>2. y \in Chat BY <1>1 DEF Chat
    <2>3. OnItsWay(y) /\ Right(y) BY <1>1 DEF Chat, OnItsWay, Right
    <2> HIDE DEF y
    <2> QED BY <2>1, <2>2, <2>3, OneChat
  <1>3. CASE ~Available(Current(c))
    <2> DEFINE x == [chat[c] EXCEPT !.passed = @ \cup {Current(c)}]
    <2>1. NextBackend(c, x) BY <1>3 DEF Check
    <2>2. x \in Chat /\ x.at = chat[c].at /\ x.answer = "none"
      BY <1>1 DEF Chat, OnItsWay, Current
    <2>3. x.tried \cup x.passed = Before(x.at + 1)
      BY <1>1 DEF Chat, OnItsWay, Current
    <2> HIDE DEF x
    <2> QED BY <1>1, <2>1, <2>2, <2>3, GoesOn
  <1> QED BY <1>2, <1>3

LEMMA FailKeeps ==
    ASSUME RouterInv, NEW c \in Chats, Fail(c)
    PROVE  RouterInv'
  <1> USE BackendsFacts
  <1> DEFINE x == [chat[c] EXCEPT !.tried = @ \cup {Current(c)}]
  <1>1. chat[c] \in Chat /\ chat[c].at > 0 /\ OnItsWay(chat[c])
    BY DEF RouterInv, Fail, GivesUp, Calling, OnItsWay
  <1>2. NextBackend(c, x) BY DEF Fail
  <1>3. x \in Chat /\ x.at = chat[c].at /\ x.answer = "none"
    BY <1>1 DEF Chat, OnItsWay, Current
  <1>4. x.tried \cup x.passed = Before(x.at + 1)
    BY <1>1 DEF Chat, OnItsWay, Current
  <1> HIDE DEF x
  <1> QED BY <1>1, <1>2, <1>3, <1>4, GoesOn

LEMMA SucceedKeeps ==
    ASSUME RouterInv, NEW c \in Chats, Succeed(c)
    PROVE  RouterInv'
  <1> USE BackendsFacts
  <1> DEFINE y == [chat[c] EXCEPT !.at = 0, !.attempt = 0, !.answer = Current(c)]
  <1>1. chat[c] \in Chat /\ chat[c].at > 0 /\ OnItsWay(chat[c])
    BY DEF RouterInv, Succeed, Calling, OnItsWay
  <1>2. chat' = [chat EXCEPT ![c] = y] BY DEF Succeed, Answered, RouterInv
  <1>3. chat[c].at \in 1..Len(Backends) BY <1>1 DEF Chat
  <1>4. Current(c) = Backends[chat[c].at] /\ Current(c) \in Names BY <1>3 DEF Current
  <1>5. y \in Chat BY <1>1, <1>4, ChatUpdates
  <1>6. y.at = 0 /\ y.attempt = 0 /\ y.tried = chat[c].tried /\ y.passed = chat[c].passed /\ y.answer = Current(c)
    BY <1>1 DEF Chat
  <1> HIDE DEF y
  <1>7. OnItsWay(y) /\ Right(y) BY <1>1, <1>3, <1>4, <1>6 DEF OnItsWay, Right
  <1> QED BY <1>2, <1>5, <1>7, OneChat

LEMMA RetryKeeps ==
    ASSUME RouterInv, NEW c \in Chats, Retry(c)
    PROVE  RouterInv'
  <1> DEFINE y == [chat[c] EXCEPT !.attempt = @ + 1]
  <1>1. chat[c] \in Chat /\ chat[c].at > 0 /\ OnItsWay(chat[c]) /\ Right(chat[c])
    BY DEF RouterInv, Retry, Calling, OnItsWay
  <1>2. chat' = [chat EXCEPT ![c] = y] BY DEF Retry, RouterInv
  <1>3. y \in Chat BY <1>1 DEF Chat
  <1>4. OnItsWay(y) /\ Right(y) BY <1>1 DEF Chat, OnItsWay, Right
  <1> HIDE DEF y
  <1> QED BY <1>2, <1>3, <1>4, OneChat

LEMMA AskKeeps ==
    ASSUME RouterInv, NEW c \in Chats, Ask(c)
    PROVE  RouterInv'
  <1> USE BackendsFacts
  <1> DEFINE y == [Asleep EXCEPT !.at = 1]
  <1>1. chat' = [chat EXCEPT ![c] = y] BY DEF Ask
  <1>2. y \in Chat BY DEF Chat, Asleep
  <1>3. y.at = 1 /\ y.attempt = 0 /\ y.tried = {} /\ y.passed = {} /\ y.answer = "none" BY DEF Asleep
  <1> HIDE DEF y
  <1>4. OnItsWay(y) /\ Right(y) BY <1>3 DEF OnItsWay, Right
  <1> QED BY <1>1, <1>2, <1>4, OneChat

LEMMA GiveUpKeeps ==
    ASSUME RouterInv, NEW c \in Chats, GiveUp(c)
    PROVE  RouterInv'
  <1> DEFINE y == [chat[c] EXCEPT !.gone = TRUE]
  <1>1. chat[c] \in Chat /\ OnItsWay(chat[c]) /\ Right(chat[c]) BY DEF RouterInv
  <1>2. chat' = [chat EXCEPT ![c] = y] BY DEF GiveUp, RouterInv
  <1>3. y \in Chat BY <1>1 DEF Chat
  <1>4. OnItsWay(y) /\ Right(y) BY <1>1 DEF Chat, OnItsWay, Right
  <1> HIDE DEF y
  <1> QED BY <1>2, <1>3, <1>4, OneChat

LEMMA RouterStarts == RouterInit => RouterInv
  BY BackendsFacts DEF RouterInit, RouterInv, Chat, Asleep, OnItsWay, Right

LEMMA RouterKeeps == RouterInv /\ [RouterNext]_routerVars => RouterInv'
  <1> SUFFICES ASSUME RouterInv, [RouterNext]_routerVars PROVE RouterInv' OBVIOUS
  <1>1. CASE RouterTick BY <1>1 DEF RouterTick, RouterInv
  <1>2. ASSUME NEW b \in Names, Flip(b) PROVE RouterInv' BY <1>2 DEF Flip, RouterInv
  <1>3. ASSUME NEW c \in Chats, Ask(c) \/ GiveUp(c) \/ ChatStep(c) PROVE RouterInv'
    BY <1>3, AskKeeps, GiveUpKeeps, CheckKeeps, SucceedKeeps, RetryKeeps, FailKeeps DEF ChatStep
  <1>4. CASE UNCHANGED routerVars BY <1>4 DEF routerVars, RouterInv
  <1> QED BY <1>1, <1>2, <1>3, <1>4 DEF RouterNext

(* Router.Chat in router.go: the answer comes from the first backend that    *)
(* neither failed in this chat nor was in its cooldown, and a chat fails     *)
(* only when there was none, whatever other callers do to the records.       *)
THEOREM FirstAnswers == RouterSpec => []AnswersAreFirst
  <1>1. RouterInv => AnswersAreFirst
    BY DEF RouterInv, Right, Before, AnswersAreFirst
  <1> QED BY RouterStarts, RouterKeeps, <1>1, PTL DEF RouterSpec

(* The steps a chat can still take: at the backend it is at, and at those    *)
(* after it, of which each is looked at, called and called again.            *)
PerBackend == MaxRetries + 2
ChatBound == Len(Backends) * PerBackend
StepsOf(x) ==
    IF x.at = 0 THEN 0 ELSE (Len(Backends) - x.at) * PerBackend + (PerBackend - x.attempt)

AttemptsOK == \A c \in Chats : chat[c].attempt <= MaxRetries + 1
WithinBound == \A c \in Chats : StepsOf(chat[c]) \in 0..ChatBound

ChatsCount ==
    [][\A c \in Chats : chat[c].at > 0 =>
           /\ StepsOf(chat'[c]) <= StepsOf(chat[c])
           /\ ChatStep(c) => StepsOf(chat'[c]) < StepsOf(chat[c])]_routerVars

LEMMA PerBackendFacts ==
    /\ PerBackend \in Nat /\ PerBackend >= 2
    /\ \A n, m \in Nat : n <= m => n * PerBackend \in Nat /\ n * PerBackend <= m * PerBackend
    /\ \A n \in Nat : (n + 1) * PerBackend = n * PerBackend + PerBackend
  <1>1. PerBackend \in Nat /\ PerBackend >= 2 BY RouterAssumption DEF PerBackend
  <1>2. \A w, n, m \in Nat : n <= m => n * w \in Nat /\ n * w <= m * w OBVIOUS
  <1>3. \A w, n \in Nat : (n + 1) * w = n * w + w OBVIOUS
  <1> QED BY <1>1, <1>2, <1>3

LEMMA StepsAreBounded ==
    ASSUME RouterInv, AttemptsOK
    PROVE  WithinBound
  <1> SUFFICES ASSUME NEW c \in Chats PROVE StepsOf(chat[c]) \in 0..ChatBound
    BY DEF WithinBound
  <1>1. Len(Backends) \in Nat BY BackendsFacts
  <1>2. chat[c].at \in 0..Len(Backends) /\ chat[c].attempt \in Nat
        /\ chat[c].attempt <= PerBackend - 1
    BY RouterAssumption DEF RouterInv, Chat, AttemptsOK, PerBackend
  <1>3. ChatBound \in Nat BY <1>1, PerBackendFacts DEF ChatBound
  <1>4. CASE chat[c].at = 0
    BY <1>3, <1>4 DEF StepsOf
  <1>5. CASE chat[c].at > 0
    <2> DEFINE n == Len(Backends) - chat[c].at
    <2>1. n \in Nat /\ n + 1 <= Len(Backends) /\ n + 1 \in Nat BY <1>1, <1>2, <1>5
    <2>2. StepsOf(chat[c]) = n * PerBackend + (PerBackend - chat[c].attempt)
      BY <1>2, <1>5 DEF StepsOf
    <2> HIDE DEF n
    <2>3. n * PerBackend \in Nat /\ (n + 1) * PerBackend = n * PerBackend + PerBackend
          /\ (n + 1) * PerBackend <= ChatBound
      BY <1>1, <2>1, PerBackendFacts DEF ChatBound
    <2> QED BY <1>2, <1>3, <2>2, <2>3, PerBackendFacts
  <1> QED BY <1>2, <1>4, <1>5

(* Going on to the next backend costs what was left of this one.             *)
LEMMA GoesOnCounts ==
    ASSUME RouterInv, AttemptsOK, NEW c \in Chats, NEW x \in Chat, NextBackend(c, x),
           x.at = chat[c].at, x.at > 0
    PROVE  /\ AttemptsOK'
           /\ StepsOf(chat'[c]) < StepsOf(chat[c])
           /\ \A d \in Chats : d # c => chat'[d] = chat[d]
  <1>1. Len(Backends) \in Nat BY BackendsFacts
  <1>2. chat[c].at \in 1..Len(Backends) /\ chat[c].attempt \in Nat
        /\ chat[c].attempt <= PerBackend - 1
    BY RouterAssumption DEF RouterInv, Chat, AttemptsOK, PerBackend
  <1>3. /\ \A d \in Chats : d # c => chat'[d] = chat[d]
        /\ chat'[c].attempt = 0
        /\ x.at < Len(Backends) => chat'[c].at = x.at + 1
        /\ ~(x.at < Len(Backends)) => chat'[c].at = 0
    BY <1>2 DEF NextBackend, RouterInv, Chat
  <1>4. AttemptsOK' BY <1>3, RouterAssumption DEF AttemptsOK
  <1> DEFINE n == Len(Backends) - chat[c].at
  <1>5. n \in Nat BY <1>1, <1>2
  <1>6. StepsOf(chat[c]) = n * PerBackend + (PerBackend - chat[c].attempt)
    BY <1>2 DEF StepsOf
  <1>7. n * PerBackend \in Nat BY <1>5, PerBackendFacts
  <1>8. CASE x.at < Len(Backends)
    <2> DEFINE m == Len(Backends) - chat'[c].at
    <2>1. m \in Nat /\ n = m + 1 BY <1>1, <1>2, <1>3, <1>8
    <2>2. StepsOf(chat'[c]) = m * PerBackend + (PerBackend - 0)
      BY <1>2, <1>3, <1>8 DEF StepsOf
    <2> HIDE DEF n, m
    <2>3. n * PerBackend = m * PerBackend + PerBackend /\ m * PerBackend \in Nat
      BY <2>1, PerBackendFacts
    <2>4. StepsOf(chat'[c]) < StepsOf(chat[c])
      BY <1>2, <1>6, <2>2, <2>3, PerBackendFacts
    <2> QED BY <1>3, <1>4, <2>4
  <1>9. CASE ~(x.at < Len(Backends))
    <2>1. StepsOf(chat'[c]) = 0 BY <1>3, <1>9 DEF StepsOf
    <2> HIDE DEF n
    <2>2. StepsOf(chat[c]) > 0 BY <1>2, <1>6, <1>7, PerBackendFacts
    <2> QED BY <1>3, <1>4, <2>1, <2>2
  <1> QED BY <1>8, <1>9

(* Another attempt at the same backend costs one step.                       *)
LEMMA AttemptCounts ==
    ASSUME RouterInv, AttemptsOK, NEW c \in Chats, chat[c].at > 0,
           chat[c].attempt <= MaxRetries,
           chat' = [chat EXCEPT ![c].attempt = chat[c].attempt + 1]
    PROVE  /\ AttemptsOK'
           /\ StepsOf(chat'[c]) < StepsOf(chat[c])
           /\ \A d \in Chats : d # c => chat'[d] = chat[d]
  <1>1. /\ chat'[c].attempt = chat[c].attempt + 1 /\ chat'[c].at = chat[c].at
        /\ \A d \in Chats : d # c => chat'[d] = chat[d]
        /\ chat[c].attempt \in Nat /\ chat[c].at \in 1..Len(Backends)
    BY BackendsFacts DEF RouterInv, Chat
  <1>2. AttemptsOK' BY <1>1, RouterAssumption DEF AttemptsOK
  <1> DEFINE rest == (Len(Backends) - chat[c].at) * PerBackend
  <1>3. Len(Backends) - chat[c].at \in Nat BY <1>1, BackendsFacts
  <1>4. rest \in Nat BY <1>3, PerBackendFacts
  <1>5. /\ StepsOf(chat[c]) = rest + (PerBackend - chat[c].attempt)
        /\ StepsOf(chat'[c]) = rest + (PerBackend - (chat[c].attempt + 1))
    BY <1>1 DEF StepsOf
  <1> HIDE DEF rest
  <1>6. \A r, p, n \in Nat : r + (p - (n + 1)) < r + (p - n) OBVIOUS
  <1>7. PerBackend \in Nat BY PerBackendFacts
  <1>8. StepsOf(chat'[c]) < StepsOf(chat[c])
    <2> DEFINE left == chat[c].attempt
    <2>1. left \in Nat BY <1>1
    <2>2. rest + (PerBackend - (left + 1)) < rest + (PerBackend - left)
      BY <1>4, <1>6, <1>7, <2>1
    <2> QED BY <1>5, <2>2
  <1> QED BY <1>1, <1>2, <1>8

LEMMA ChatStepCounts ==
    ASSUME RouterInv, AttemptsOK, NEW c \in Chats, ChatStep(c)
    PROVE  /\ AttemptsOK'
           /\ StepsOf(chat'[c]) < StepsOf(chat[c])
           /\ \A d \in Chats : d # c => chat'[d] = chat[d]
  <1>1. chat[c] \in Chat /\ chat[c].at > 0
    BY DEF RouterInv, OnItsWay, ChatStep, Check, Succeed, Retry, Fail, GivesUp, Calling
  <1>2. CASE Check(c) /\ Available(Current(c))
    <2>1. chat[c].attempt = 0 /\ chat' = [chat EXCEPT ![c].attempt = chat[c].attempt + 1]
      BY <1>1, <1>2 DEF Check, Calling, Chat
    <2>2. chat[c].attempt <= MaxRetries BY <2>1, RouterAssumption
    <2> QED BY <1>1, <2>1, <2>2, AttemptCounts
  <1>3. CASE Check(c) /\ ~Available(Current(c))
    <2> DEFINE x == [chat[c] EXCEPT !.passed = @ \cup {Current(c)}]
    <2>1. NextBackend(c, x) BY <1>3 DEF Check
    <2>2. Current(c) \in Names BY <1>1, BackendsFacts DEF Chat, Current
    <2>3. x \in Chat /\ x.at = chat[c].at BY <1>1, <2>2 DEF Chat
    <2> HIDE DEF x
    <2> QED BY <1>1, <2>1, <2>3, GoesOnCounts
  <1>4. CASE Fail(c)
    <2> DEFINE x == [chat[c] EXCEPT !.tried = @ \cup {Current(c)}]
    <2>1. NextBackend(c, x) BY <1>4 DEF Fail
    <2>2. Current(c) \in Names BY <1>1, BackendsFacts DEF Chat, Current
    <2>3. x \in Chat /\ x.at = chat[c].at BY <1>1, <2>2 DEF Chat
    <2> HIDE DEF x
    <2> QED BY <1>1, <2>1, <2>3, GoesOnCounts
  <1>5. CASE Retry(c)
    BY <1>1, <1>5, AttemptCounts DEF Retry
  <1>6. CASE Succeed(c)
    <2>1. /\ chat'[c].at = 0 /\ chat'[c].attempt = 0
          /\ \A d \in Chats : d # c => chat'[d] = chat[d]
      BY <1>6 DEF Succeed, Answered, RouterInv, Chat
    <2>2. AttemptsOK' BY <2>1, RouterAssumption DEF AttemptsOK
    <2> DEFINE n == Len(Backends) - chat[c].at
    <2>3. n \in Nat /\ chat[c].attempt \in Nat /\ chat[c].attempt <= PerBackend - 1
      BY <1>1, BackendsFacts, RouterAssumption DEF Chat, AttemptsOK, PerBackend
    <2>4. StepsOf(chat[c]) = n * PerBackend + (PerBackend - chat[c].attempt) /\ StepsOf(chat'[c]) = 0
      BY <1>1, <2>1 DEF StepsOf, Chat
    <2> HIDE DEF n
    <2>5. n * PerBackend \in Nat BY <2>3, PerBackendFacts
    <2> QED BY <2>1, <2>2, <2>3, <2>4, <2>5, PerBackendFacts
  <1> QED BY <1>2, <1>3, <1>4, <1>5, <1>6 DEF ChatStep

(* A step of one caller, or of nobody, leaves every other chat alone; one    *)
(* that asks again has had its answer.                                       *)
LEMMA RouterCounts ==
    ASSUME RouterInv, AttemptsOK, [RouterNext]_routerVars
    PROVE  /\ AttemptsOK'
           /\ \A c \in Chats : chat[c].at > 0 =>
                  /\ StepsOf(chat'[c]) <= StepsOf(chat[c])
                  /\ ChatStep(c) => StepsOf(chat'[c]) < StepsOf(chat[c])
  <1>1. \A c \in Chats : StepsOf(chat[c]) \in Nat
    BY StepsAreBounded DEF WithinBound
  <1>2. \A c \in Chats : RouterInv' /\ AttemptsOK' => StepsOf(chat'[c]) \in Nat
    <2>1. RouterInv' /\ AttemptsOK' => WithinBound'
      BY StepsAreBounded, PTL
    <2> QED BY <2>1 DEF WithinBound
  <1>3. ASSUME NEW d \in Chats PROVE ChatStep(d) => StepsOf(chat'[d]) < StepsOf(chat[d])
    BY ChatStepCounts
  <1>4. ASSUME AttemptsOK', \A c \in Chats : chat[c].at > 0 =>
                                ChatStep(c) \/ StepsOf(chat'[c]) = StepsOf(chat[c])
        PROVE  \A c \in Chats : chat[c].at > 0 => StepsOf(chat'[c]) <= StepsOf(chat[c])
    <2> SUFFICES ASSUME NEW c \in Chats, chat[c].at > 0
                 PROVE  StepsOf(chat'[c]) <= StepsOf(chat[c])
      OBVIOUS
    <2>1. StepsOf(chat'[c]) \in Nat BY <1>2, <1>4, RouterKeeps
    <2> QED BY <1>1, <1>3, <1>4, <2>1
  <1>5. CASE UNCHANGED chat
    BY <1>3, <1>4, <1>5 DEF AttemptsOK
  <1>6. ASSUME NEW d \in Chats, ChatStep(d)
        PROVE  AttemptsOK' /\ \A c \in Chats :
                   ChatStep(c) \/ StepsOf(chat'[c]) = StepsOf(chat[c])
    BY <1>6, ChatStepCounts
  <1>7. ASSUME NEW d \in Chats, Ask(d) \/ GiveUp(d)
        PROVE  AttemptsOK' /\ \A c \in Chats : chat[c].at > 0 => StepsOf(chat'[c]) = StepsOf(chat[c])
    <2>1. CASE Ask(d)
      <3>1. chat'[d].attempt = 0 /\ chat[d].at = 0
            /\ \A c \in Chats : c # d => chat'[c] = chat[c]
        BY <2>1 DEF Ask, Asleep, RouterInv
      <3> QED BY <3>1, RouterAssumption DEF AttemptsOK
    <2>2. CASE GiveUp(d)
      <3>1. \A c \in Chats : chat'[c].at = chat[c].at /\ chat'[c].attempt = chat[c].attempt
        BY <2>2 DEF GiveUp, RouterInv, Chat
      <3> QED BY <3>1 DEF AttemptsOK, StepsOf
    <2> QED BY <1>7, <2>1, <2>2
  <1>8. CASE RouterTick \/ UNCHANGED routerVars \/ (\E b \in Names : Flip(b))
    BY <1>5, <1>8 DEF RouterTick, routerVars, Flip
  <1>9. CASE \E d \in Chats : Ask(d) \/ GiveUp(d) \/ ChatStep(d)
    BY <1>3, <1>4, <1>6, <1>7, <1>9
  <1> QED BY <1>8, <1>9 DEF RouterNext

LEMMA AttemptsStart == RouterInit => AttemptsOK
  BY RouterAssumption DEF RouterInit, Asleep, AttemptsOK

(* A chat ends after a number of its own steps that the number of backends   *)
(* and of retries bounds: every look at a backend, call and failure of its   *)
(* own brings it nearer to its end, and nothing that other chats, the        *)
(* backends or the clock do to the shared records puts it off.               *)
THEOREM ChatsAreShort == RouterSpec => ChatsCount /\ []WithinBound
  <1>1. RouterInv /\ AttemptsOK /\ [RouterNext]_routerVars
            => AttemptsOK' /\ [\A c \in Chats : chat[c].at > 0 =>
                  /\ StepsOf(chat'[c]) <= StepsOf(chat[c])
                  /\ ChatStep(c) => StepsOf(chat'[c]) < StepsOf(chat[c])]_routerVars
    BY RouterCounts
  <1>2. RouterInv /\ AttemptsOK => WithinBound
    BY StepsAreBounded
  <1> QED BY RouterStarts, RouterKeeps, AttemptsStart, <1>1, <1>2, PTL DEF RouterSpec, ChatsCount

-----------------------------------------------------------------------------
(* PluginHost: what a plugin returns late is dropped, for every number of    *)
(* plugins and of late goroutines.                                           *)

Ids == Nat \ {0}
PluginJob == [plugin : Ids, serial : Ids, input : Seq(Nat), output : Seq(Nat)]
Rising(s) == \A i, k \in DOMAIN s : i < k => s[i] < s[k]
AllBelow(s, n) == \A i \in DOMAIN s : s[i] < n
AllAbove(s, n) == \A i \in DOMAIN s : n < s[i]

(* The job that Execute waits for has read the event as it is now, and its   *)
(* plugin comes after those of the event and before those to be called.      *)
OnTime(j, event, list) ==
    /\ AllBelow(event, j.plugin) /\ AllAbove(list, j.plugin)
    /\ j.input \in {Unread, event}
    /\ j.output # Unread => j.output = Append(event, j.plugin)

JobsOK ==
    /\ jobs \subseteq PluginJob /\ IsFiniteSet(jobs)
    /\ \A j, k \in jobs : j.serial = k.serial => j = k
    /\ Cardinality(Late) <= MaxLate
    /\ \A j \in Awaited : OnTime(j, currentEvt, active)

ListsOK ==
    /\ registered \subseteq Ids /\ IsFiniteSet(registered)
    /\ active \in Seq(Ids) /\ currentEvt \in Seq(Ids) /\ succeeded = currentEvt
    /\ Rising(active) /\ Rising(currentEvt)
    /\ waiting \in Nat /\ (waiting # 0 => processing)
    /\ processing \in BOOLEAN
    /\ processing => \A i \in DOMAIN active : AllBelow(currentEvt, active[i])

PluginInv == ListsOK /\ JobsOK

LEMMA PluginStarts == PluginInit => PluginInv
  <1> SUFFICES ASSUME PluginInit PROVE PluginInv OBVIOUS
  <1>1. /\ registered = {} /\ active = << >> /\ processing = FALSE
        /\ currentEvt = << >> /\ succeeded = << >> /\ jobs = {} /\ waiting = 0
    BY DEF PluginInit
  <1>2. << >> \in Seq(Ids) /\ DOMAIN << >> = {}
    OBVIOUS
  <1>3. ListsOK
    BY <1>1, <1>2, FS_EmptySet DEF ListsOK, Rising
  <1>4. Late = {} /\ Awaited = {}
    BY <1>1 DEF Late, Awaited
  <1>5. JobsOK
    BY <1>1, <1>4, FS_EmptySet, PluginAssumption DEF JobsOK
  <1> QED BY <1>3, <1>5 DEF PluginInv

LEMMA SeqOfIds ==
    ASSUME NEW s \in Seq(Ids)
    PROVE  s \in Seq(Nat)
  BY DEF Ids

(* One job more than serials: FreshSerial finds one that is free.            *)
LEMMA FreshSerialIsFree ==
    ASSUME JobsOK, waiting = 0
    PROVE  FreshSerial \in Ids /\ \A j \in jobs : j.serial # FreshSerial
  <1> DEFINE D == 1 .. MaxLate + 1
             f == [n \in D |-> CHOOSE j \in jobs : j.serial = n]
  <1>1. MaxLate \in Nat /\ IsFiniteSet(D) /\ Cardinality(D) = MaxLate + 1
    BY PluginAssumption, FS_Interval
  <1>2. Late = jobs
    BY DEF JobsOK, Late, PluginJob, Ids
  <1>3. Cardinality(jobs) < Cardinality(D)
    <2>1. Cardinality(jobs) \in Nat /\ Cardinality(jobs) <= MaxLate
      BY <1>2, FS_CardinalityType DEF JobsOK
    <2> QED BY <1>1, <2>1
  <1>4. \E n \in D : \A j \in jobs : j.serial # n
    <2> SUFFICES ASSUME \A n \in D : \E j \in jobs : j.serial = n PROVE FALSE
      OBVIOUS
    <2>1. \A n \in D : f[n] \in jobs /\ f[n].serial = n
      OBVIOUS
    <2>2. f \in [D -> jobs]
      BY <2>1
    <2> HIDE DEF f, D
    <2>3. \E x, y \in D : x # y /\ f[x] = f[y]
      BY <1>1, <1>3, <2>2, FS_PigeonHole DEF JobsOK
    <2> QED BY <2>1, <2>3
  <1>5. FreshSerial \in D /\ \A j \in jobs : j.serial # FreshSerial
    BY <1>4 DEF FreshSerial
  <1>6. D \subseteq Ids
    BY <1>1 DEF Ids
  <1> QED BY <1>5, <1>6

(* Execute: the new job is the one waited for, and every other is late.      *)
LEMMA ExecuteKeeps ==
    ASSUME PluginInv, Execute
    PROVE  PluginInv'
  <1> DEFINE s == FreshSerial
             new == [plugin |-> Head(active), serial |-> s, input |-> Unread, output |-> Unread]
  <1>1. /\ waiting = 0 /\ processing /\ active # << >>
        /\ waiting' = s /\ jobs' = jobs \cup {new} /\ active' = Tail(active)
        /\ UNCHANGED <<registered, processing, currentEvt, succeeded>>
    BY DEF Execute
  <1>2. s \in Ids /\ \A j \in jobs : j.serial # s
    BY <1>1, FreshSerialIsFree DEF PluginInv
  <1>3. /\ active \in Seq(Ids) /\ Tail(active) \in Seq(Ids)
        /\ Head(active) = active[1] /\ 1 \in DOMAIN active /\ active[1] \in Ids
        /\ \A i \in DOMAIN Tail(active) :
               i + 1 \in DOMAIN active /\ Tail(active)[i] = active[i + 1] /\ i \in Nat \ {0}
    BY <1>1 DEF PluginInv, ListsOK
  <1>4. ListsOK'
    <2>1. Rising(Tail(active))
      BY <1>3 DEF PluginInv, ListsOK, Rising
    <2>2. \A i \in DOMAIN Tail(active) : AllBelow(currentEvt, Tail(active)[i])
      BY <1>1, <1>3 DEF PluginInv, ListsOK
    <2> HIDE DEF s
    <2> QED BY <1>1, <1>2, <1>3, <2>1, <2>2 DEF PluginInv, ListsOK, Ids
  <1>5. new \in PluginJob
    BY <1>2, <1>3 DEF PluginJob, Unread
  <1>6. new.plugin = active[1] /\ new.serial = s /\ new.input = Unread /\ new.output = Unread
    BY <1>3
  <1> HIDE DEF new, s
  <1>7. JobsOK'
    <2>1. jobs' \subseteq PluginJob /\ IsFiniteSet(jobs')
      BY <1>1, <1>5, FS_AddElement DEF PluginInv, JobsOK
    <2>2. \A j, k \in jobs' : j.serial = k.serial => j = k
      BY <1>1, <1>2, <1>6 DEF PluginInv, JobsOK
    <2>3. Late' = jobs /\ Late = jobs
      BY <1>1, <1>2, <1>6 DEF Late, PluginInv, JobsOK, PluginJob, Ids
    <2>4. Awaited' = {new}
      BY <1>1, <1>2, <1>6 DEF Awaited
    <2>5. OnTime(new, currentEvt', active')
      <3>1. AllBelow(currentEvt, active[1])
        BY <1>1, <1>3 DEF PluginInv, ListsOK
      <3>2. AllAbove(Tail(active), active[1])
        BY <1>3 DEF AllAbove, PluginInv, ListsOK, Rising
      <3> QED BY <1>1, <1>6, <3>1, <3>2 DEF OnTime
    <2> QED BY <2>1, <2>2, <2>3, <2>4, <2>5 DEF PluginInv, JobsOK
  <1> QED BY <1>4, <1>7 DEF PluginInv

(* A goroutine that goes on: its job takes the place of the one it had.      *)
LEMMA JobGoesOn ==
    ASSUME PluginInv, NEW j \in jobs, NEW k \in PluginJob,
           k.serial = j.serial, jobs' = (jobs \ {j}) \cup {k},
           j.serial = waiting => OnTime(k, currentEvt, active),
           UNCHANGED <<registered, active, processing, currentEvt, waiting, succeeded>>
    PROVE  PluginInv'
  <1>1. ListsOK'
    BY DEF PluginInv, ListsOK
  <1>2. jobs' \subseteq PluginJob /\ IsFiniteSet(jobs')
    BY FS_AddElement, FS_RemoveElement DEF PluginInv, JobsOK
  <1>3. \A a, b \in jobs' : a.serial = b.serial => a = b
    BY DEF PluginInv, JobsOK
  <1>4. Cardinality(Late') <= MaxLate
    <2>1. CASE j.serial = waiting
      <3>1. Late' = Late
        BY <2>1 DEF Late, PluginInv, JobsOK
      <3> QED BY <3>1 DEF PluginInv, JobsOK
    <2>2. CASE j.serial # waiting
      <3>1. Late' = (Late \ {j}) \cup {k} /\ j \in Late
        BY <2>2 DEF Late
      <3>2. IsFiniteSet(Late)
        BY FS_Subset DEF Late, PluginInv, JobsOK
      <3>3. IsFiniteSet(Late \ {j}) /\ Cardinality(Late \ {j}) = Cardinality(Late) - 1
        BY <3>1, <3>2, FS_RemoveElement
      <3>4. k \notin Late \ {j}
        BY DEF Late, PluginInv, JobsOK
      <3>5. Cardinality(Late') = Cardinality(Late \ {j}) + 1
        BY <3>1, <3>3, <3>4, FS_AddElement
      <3> QED BY <3>2, <3>3, <3>5, FS_CardinalityType DEF PluginInv, JobsOK
    <2> QED BY <2>1, <2>2
  <1>5. \A a \in Awaited' : OnTime(a, currentEvt', active')
    BY DEF Awaited, PluginInv, JobsOK
  <1> QED BY <1>1, <1>2, <1>3, <1>4, <1>5 DEF PluginInv, JobsOK

(* A goroutine that ends: only late jobs are left, or nobody is waited for.  *)
LEMMA JobEnds ==
    ASSUME PluginInv, NEW j \in jobs, jobs' = jobs \ {j},
           waiting' = IF j.serial = waiting THEN 0 ELSE waiting,
           j.serial # waiting => UNCHANGED <<currentEvt, active>>
    PROVE  JobsOK'
  <1>1. jobs' \subseteq PluginJob /\ IsFiniteSet(jobs')
    BY FS_RemoveElement DEF PluginInv, JobsOK
  <1>2. \A a, b \in jobs' : a.serial = b.serial => a = b
    BY DEF PluginInv, JobsOK
  <1>3. Late' \subseteq Late /\ IsFiniteSet(Late)
    <2>1. \A a \in jobs' : a.serial = waiting => j.serial # waiting
      BY DEF PluginInv, JobsOK
    <2> QED BY <2>1, FS_Subset DEF Late, PluginInv, JobsOK
  <1>4. Cardinality(Late') <= MaxLate
    BY <1>3, FS_Subset, FS_CardinalityType, PluginAssumption DEF PluginInv, JobsOK
  <1>5. \A a \in Awaited' : OnTime(a, currentEvt', active')
    <2>1. CASE j.serial = waiting
      <3>1. Awaited' = {}
        BY <2>1, <1>1 DEF Awaited, PluginJob, Ids
      <3> QED BY <3>1
    <2>2. CASE j.serial # waiting
      BY <2>2 DEF Awaited, PluginInv, JobsOK
    <2> QED BY <2>1, <2>2
  <1> QED BY <1>1, <1>2, <1>4, <1>5 DEF JobsOK

LEMMA ReadEventKeeps ==
    ASSUME PluginInv, NEW j \in jobs, ReadEvent(j)
    PROVE  PluginInv'
  <1> DEFINE k == [j EXCEPT !.input = currentEvt]
  <1>1. j \in PluginJob /\ currentEvt \in Seq(Nat)
    BY SeqOfIds DEF PluginInv, JobsOK, ListsOK
  <1>2. /\ k \in PluginJob /\ k.serial = j.serial /\ k.plugin = j.plugin
        /\ k.input = currentEvt /\ k.output = j.output
    BY <1>1 DEF PluginJob
  <1>3. /\ jobs' = (jobs \ {j}) \cup {k}
        /\ UNCHANGED <<registered, active, processing, currentEvt, waiting, succeeded>>
    BY DEF ReadEvent
  <1> HIDE DEF k
  <1>4. j.serial = waiting => OnTime(k, currentEvt, active)
    BY <1>2 DEF OnTime, Awaited, PluginInv, JobsOK
  <1> QED BY <1>2, <1>3, <1>4, JobGoesOn

LEMMA EnrichKeeps ==
    ASSUME PluginInv, NEW j \in jobs, Enrich(j)
    PROVE  PluginInv'
  <1> DEFINE k == [j EXCEPT !.output = Append(j.input, j.plugin)]
  <1>1. j \in PluginJob /\ j.input # Unread
    BY DEF Enrich, PluginInv, JobsOK
  <1>2. /\ k \in PluginJob /\ k.serial = j.serial /\ k.plugin = j.plugin
        /\ k.input = j.input /\ k.output = Append(j.input, j.plugin)
    <2>1. j.input \in Seq(Nat) /\ j.plugin \in Nat
      BY <1>1 DEF PluginJob, Ids
    <2>2. Append(j.input, j.plugin) \in Seq(Nat)
      BY <2>1
    <2> QED BY <1>1, <2>2 DEF PluginJob
  <1>3. UNCHANGED <<registered, active, processing, currentEvt, waiting, succeeded>>
    BY DEF Enrich
  <1>4. CASE j.serial = waiting
    <2>1. jobs' = (jobs \ {j}) \cup {k}
      BY <1>4 DEF Enrich
    <2> HIDE DEF k
    <2>2. OnTime(k, currentEvt, active)
      BY <1>1, <1>2, <1>4 DEF OnTime, Awaited, PluginInv, JobsOK
    <2> QED BY <1>2, <1>3, <2>1, <2>2, JobGoesOn
  <1>5. CASE j.serial # waiting
    <2>1. jobs' = jobs \ {j}
      BY <1>5 DEF Enrich
    <2>2. JobsOK'
      BY <1>3, <1>5, <2>1, JobEnds
    <2> QED BY <1>3, <2>2 DEF PluginInv, ListsOK
  <1> QED BY <1>4, <1>5

LEMMA FailJobKeeps ==
    ASSUME PluginInv, NEW j \in jobs, FailJob(j)
    PROVE  PluginInv'
  <1>1. /\ jobs' = jobs \ {j}
        /\ waiting' = IF j.serial = waiting THEN 0 ELSE waiting
        /\ UNCHANGED <<registered, active, processing, currentEvt, succeeded>>
    BY DEF FailJob
  <1>2. JobsOK'
    BY <1>1, JobEnds
  <1>3. ListsOK'
    BY <1>1 DEF PluginInv, ListsOK
  <1> QED BY <1>2, <1>3 DEF PluginInv

(* Accept: the event grows by a plugin that comes after all it carries and   *)
(* before all that are still to be called.                                   *)
LEMMA AcceptKeeps ==
    ASSUME PluginInv, NEW j \in jobs, Accept(j)
    PROVE  PluginInv'
  <1>1. /\ j.serial = waiting /\ j.output # Unread
        /\ currentEvt' = j.output /\ succeeded' = Append(succeeded, j.plugin)
        /\ jobs' = jobs \ {j} /\ waiting' = 0
        /\ UNCHANGED <<registered, active, processing>>
    BY DEF Accept
  <1>2. j.plugin \in Ids /\ OnTime(j, currentEvt, active) /\ processing
    BY <1>1 DEF Awaited, PluginInv, JobsOK, ListsOK, PluginJob, Ids
  <1>3. currentEvt \in Seq(Ids) /\ Rising(currentEvt) /\ succeeded = currentEvt
    BY DEF PluginInv, ListsOK
  <1> DEFINE e == Append(currentEvt, j.plugin)
  <1>4. currentEvt' = e /\ succeeded' = e
    BY <1>1, <1>2, <1>3 DEF OnTime
  <1>5. /\ e \in Seq(Ids) /\ Len(currentEvt) \in Nat
        /\ DOMAIN e = 1 .. Len(currentEvt) + 1 /\ DOMAIN currentEvt = 1 .. Len(currentEvt)
        /\ e[Len(currentEvt) + 1] = j.plugin
        /\ \A i \in 1 .. Len(currentEvt) : e[i] = currentEvt[i] /\ currentEvt[i] \in Ids
    BY <1>2, <1>3
  <1> HIDE DEF e
  <1>6. Rising(e)
    BY <1>2, <1>3, <1>5 DEF Rising, OnTime, AllBelow
  <1>7. \A i \in DOMAIN active : AllBelow(e, active[i])
    <2> TAKE i \in DOMAIN active
    <2>1. AllBelow(currentEvt, active[i]) /\ j.plugin < active[i]
      BY <1>2 DEF OnTime, AllAbove, PluginInv, ListsOK
    <2> QED BY <1>5, <2>1 DEF AllBelow
  <1>8. ListsOK'
    BY <1>1, <1>4, <1>5, <1>6, <1>7 DEF PluginInv, ListsOK
  <1>9. JobsOK'
    BY <1>1, JobEnds
  <1> QED BY <1>8, <1>9 DEF PluginInv

(* Timeout: at most one job was waited for.                                  *)
LEMMA TimeoutKeeps ==
    ASSUME PluginInv, Timeout
    PROVE  PluginInv'
  <1>1. waiting' = 0 /\ UNCHANGED <<registered, active, processing, currentEvt, succeeded>>
    BY DEF Timeout
  <1>2. ListsOK'
    BY <1>1 DEF PluginInv, ListsOK
  <1>3. IsFiniteSet(Late) /\ Cardinality(Late) \in Nat /\ Late \subseteq jobs
    BY FS_Subset, FS_CardinalityType DEF Late, PluginInv, JobsOK
  <1>4. jobs' \subseteq jobs
    BY <1>3 DEF Timeout
  <1>5. Late' = jobs' /\ Awaited' = {}
    BY <1>1, <1>4 DEF Late, Awaited, PluginInv, JobsOK, PluginJob, Ids
  <1>6. Cardinality(jobs') <= MaxLate
    <2>1. CASE jobs' = Late
      BY <2>1 DEF PluginInv, JobsOK
    <2>2. CASE jobs' = jobs /\ Cardinality(Late) < MaxLate
      <3>1. CASE Awaited = {}
        BY <2>2, <3>1 DEF Awaited, Late, PluginInv, JobsOK
      <3>2. CASE Awaited # {}
        <4>1. PICK j \in Awaited : TRUE
          BY <3>2
        <4>2. jobs = Late \cup {j} /\ j \notin Late
          BY <4>1 DEF Awaited, Late, PluginInv, JobsOK
        <4>3. Cardinality(jobs) = Cardinality(Late) + 1
          BY <1>3, <4>2, FS_AddElement
        <4> QED BY <1>3, <2>2, <4>3, PluginAssumption
      <3> QED BY <3>1, <3>2
    <2> QED BY <2>1, <2>2 DEF Timeout
  <1>7. JobsOK'
    <2>1. jobs' \subseteq PluginJob /\ IsFiniteSet(jobs')
      BY <1>4, FS_Subset DEF PluginInv, JobsOK
    <2>2. \A a, b \in jobs' : a.serial = b.serial => a = b
      BY <1>4 DEF PluginInv, JobsOK
    <2> QED BY <1>5, <1>6, <2>1, <2>2 DEF JobsOK
  <1> QED BY <1>2, <1>7 DEF PluginInv

(* The goroutines of an earlier call are late, and no more than they were.   *)
LEMMA JobsOutlive ==
    ASSUME PluginInv, waiting = 0, waiting' = 0, jobs' = {Outlived(j) : j \in jobs}
    PROVE  JobsOK'
  <1>1. \A j \in jobs : Outlived(j) \in PluginJob /\ Outlived(j).serial = j.serial
    <2> TAKE j \in jobs
    <2>1. j \in PluginJob /\ currentEvt \in Seq(Nat)
      BY SeqOfIds DEF PluginInv, JobsOK, ListsOK
    <2> QED BY <2>1 DEF Outlived, PluginJob
  <1>2. IsFiniteSet(jobs) /\ Cardinality(jobs) \in Nat
    BY FS_CardinalityType DEF PluginInv, JobsOK
  <1>3. IsFiniteSet(jobs') /\ Cardinality(jobs') <= Cardinality(jobs)
    <2> DEFINE f == [j \in jobs |-> Outlived(j)]
    <2>1. f \in Surjection(jobs, jobs')
      BY DEF Surjection
    <2> QED BY <1>2, <2>1, FS_Surjection
  <1>4. jobs' \subseteq PluginJob
    BY <1>1
  <1>5. \A a, b \in jobs' : a.serial = b.serial => a = b
    BY <1>1 DEF PluginInv, JobsOK
  <1>6. Late = jobs /\ Late' = jobs' /\ Awaited' = {}
    BY <1>4 DEF Late, Awaited, PluginInv, JobsOK, PluginJob, Ids
  <1>7. Cardinality(Late') <= MaxLate
    <2>1. Cardinality(jobs) <= MaxLate /\ Cardinality(jobs') \in Nat
      BY <1>3, <1>6, FS_CardinalityType DEF PluginInv, JobsOK
    <2> QED BY <1>2, <1>3, <1>6, <2>1, PluginAssumption
  <1> QED BY <1>3, <1>4, <1>5, <1>6, <1>7 DEF JobsOK

(* ProcessEvent: the list is sorted and the event carries nothing yet.       *)
LEMMA ProcessEventKeeps ==
    ASSUME PluginInv, ProcessEvent
    PROVE  PluginInv'
  <1>1. /\ ~processing /\ processing' = TRUE /\ active' \in Ordered(registered)
        /\ currentEvt' = << >> /\ succeeded' = << >>
        /\ jobs' = {Outlived(j) : j \in jobs}
        /\ UNCHANGED <<registered, waiting>>
    BY DEF ProcessEvent
  <1> DEFINE n == Cardinality(registered)
  <1>2. n \in Nat /\ registered \subseteq Ids
    BY FS_CardinalityType DEF PluginInv, ListsOK
  <1>3. PICK list : list = active'
    OBVIOUS
  <1>4. /\ list \in [1 .. n -> registered]
        /\ \A i, k \in 1 .. n : i < k => list[i] < list[k]
    BY <1>1, <1>3 DEF Ordered
  <1> HIDE DEF n
  <1>5. list \in Seq(Ids) /\ DOMAIN list = 1 .. n
    BY <1>2, <1>4
  <1>6. Rising(list)
    BY <1>4, <1>5 DEF Rising
  <1>7. waiting = 0
    BY <1>1 DEF PluginInv, ListsOK
  <1>8. ListsOK'
    <2>1. << >> \in Seq(Ids) /\ Rising(<< >>) /\ \A i \in DOMAIN list : AllBelow(<< >>, list[i])
      BY DEF Rising, AllBelow
    <2> QED BY <1>1, <1>3, <1>5, <1>6, <1>7, <2>1 DEF PluginInv, ListsOK
  <1>9. JobsOK'
    BY <1>1, <1>7, JobsOutlive
  <1> QED BY <1>8, <1>9 DEF PluginInv

LEMMA RegistryKeeps ==
    ASSUME PluginInv, NEW p \in Plugins, RegisterPlugin(p) \/ UnregisterPlugin(p)
    PROVE  PluginInv'
  <1>1. UNCHANGED <<active, processing, currentEvt, jobs, waiting, succeeded>>
    BY DEF RegisterPlugin, UnregisterPlugin
  <1>2. registered' \subseteq Ids /\ IsFiniteSet(registered')
    <2>1. p \in Ids /\ registered \subseteq Ids /\ IsFiniteSet(registered)
      BY PluginAssumption DEF PluginInv, ListsOK, Ids
    <2>2. registered' = registered \cup {p} \/ registered' = registered \ {p}
      BY DEF RegisterPlugin, UnregisterPlugin
    <2>3. IsFiniteSet(registered \cup {p}) /\ IsFiniteSet(registered \ {p})
      BY <2>1, FS_AddElement, FS_RemoveElement
    <2> QED BY <2>1, <2>2, <2>3
  <1>3. Late' = Late /\ Awaited' = Awaited
    BY <1>1 DEF Late, Awaited
  <1>4. ListsOK'
    BY <1>1, <1>2 DEF PluginInv, ListsOK
  <1>5. JobsOK'
    BY <1>1, <1>3 DEF PluginInv, JobsOK
  <1> QED BY <1>4, <1>5 DEF PluginInv

LEMMA PluginKeeps == PluginInv /\ [PluginNext]_pluginVars => PluginInv'
  <1> SUFFICES ASSUME PluginInv, [PluginNext]_pluginVars PROVE PluginInv' OBVIOUS
  <1>1. ASSUME NEW p \in Plugins, RegisterPlugin(p) \/ UnregisterPlugin(p) PROVE PluginInv'
    BY <1>1, RegistryKeeps
  <1>2. CASE ProcessEvent BY <1>2, ProcessEventKeeps
  <1>3. CASE Execute BY <1>3, ExecuteKeeps
  <1>4. CASE Timeout BY <1>4, TimeoutKeeps
  <1>5. CASE Return
    <2>1. UNCHANGED <<registered, active, currentEvt, jobs, waiting, succeeded>> /\ waiting = 0 /\ processing' = FALSE
      BY <1>5 DEF Return
    <2>2. Late' = Late /\ Awaited' = Awaited
      BY <2>1 DEF Late, Awaited
    <2> QED BY <2>1, <2>2 DEF PluginInv, ListsOK, JobsOK
  <1>6. ASSUME NEW j \in jobs, ReadEvent(j) \/ Enrich(j) \/ FailJob(j) \/ Accept(j) PROVE PluginInv'
    BY <1>6, ReadEventKeeps, EnrichKeeps, FailJobKeeps, AcceptKeeps
  <1>7. CASE UNCHANGED pluginVars \/ \E j \in jobs : WriteInPlace(j)
    <2>1. UNCHANGED <<registered, active, processing, currentEvt, jobs, waiting, succeeded>>
      BY <1>7 DEF pluginVars, WriteInPlace
    <2>2. Late' = Late /\ Awaited' = Awaited
      BY <2>1 DEF Late, Awaited
    <2> QED BY <2>1, <2>2 DEF PluginInv, ListsOK, JobsOK
  <1> QED BY <1>1, <1>2, <1>3, <1>4, <1>5, <1>6, <1>7 DEF PluginNext, ManagerStep

(* Manager.ProcessEvent and Sandbox.Execute: of the copies that plugins      *)
(* return, the event carries exactly those that came in time without an      *)
(* error, once each and in the order of their ids, with any number of        *)
(* plugins and of goroutines that outlive their timeout or their event.      *)
(* What plugins write in place, into what all copies share, is not in it.    *)
THEOREM LateReturns == PluginSpec => []LateReturnsAreDropped
  <1>1. PluginInv => LateReturnsAreDropped
    BY DEF PluginInv, ListsOK, Rising, LateReturnsAreDropped
  <1> QED BY PluginStarts, PluginKeeps, <1>1, PTL DEF PluginSpec

-----------------------------------------------------------------------------
(* IOCEngine: whatever was given is found, for every set of values and every *)
(* number of entries.                                                        *)

Given == [type : Types, value : Values, mark : Marks]
EntryOf(g) == [value |-> g.value, mark |-> g.mark]

(* A map holds the newest entry of its types under each normal form.         *)
MapOK(map, types) ==
    \A v : Newest(types, v) = IF v \in DOMAIN map THEN {map[v]} ELSE {}

SubnetFrom(c, g) ==
    /\ g.type = "ip" /\ Normal(g.value) \in DOMAIN Members
    /\ c = [prefix |-> Normal(g.value), entry |-> EntryOf(g)]

(* The list of subnets and the feed tell of the same ones.                   *)
CidrsOK ==
    /\ cidrs \in Seq([prefix : Values, entry : [value : Values, mark : Marks]])
    /\ \A i \in DOMAIN cidrs : \E k \in DOMAIN feed : SubnetFrom(cidrs[i], feed[k])
    /\ \A k \in DOMAIN feed :
           feed[k].type = "ip" /\ Normal(feed[k].value) \in DOMAIN Members =>
               \E i \in DOMAIN cidrs : SubnetFrom(cidrs[i], feed[k])

IOCInv ==
    /\ feed \in Seq(Given)
    /\ \A i \in DOMAIN feed : Normal(feed[i].value) # Blank
    /\ MapOK(hashes, {"hash", "other"}) /\ MapOK(ips, {"ip"})
    /\ MapOK(domains, {"domain"}) /\ MapOK(urls, {"url"})
    /\ \A v \in DOMAIN hashes : Bits[v] \subseteq hashFilter
    /\ CidrsOK

(* An entry that is added is the newest of its type and form, and no other   *)
(* form is concerned.                                                        *)
LEMMA NewestStep ==
    ASSUME feed \in Seq(Given), NEW g \in Given, feed' = Append(feed, g), NEW types, NEW v
    PROVE  Newest(types, v)' =
               IF g.type \in types /\ v = Normal(g.value) THEN {EntryOf(g)} ELSE Newest(types, v)
  <1> DEFINE n == Len(feed) + 1
             old == {i \in DOMAIN feed : feed[i].type \in types /\ Normal(feed[i].value) = v}
             new == {i \in DOMAIN feed' : feed'[i].type \in types /\ Normal(feed'[i].value) = v}
  <1>1. /\ DOMAIN feed = 1 .. Len(feed) /\ DOMAIN feed' = 1 .. n /\ Len(feed) \in Nat
        /\ feed'[n] = g /\ \A i \in DOMAIN feed : feed'[i] = feed[i]
    OBVIOUS
  <1>2. Newest(types, v) =
            {EntryOf(feed[i]) : i \in {k \in old : \A m \in old : m <= k}}
    BY DEF Newest, EntryOf
  <1>3. Newest(types, v)' =
            {EntryOf(feed'[i]) : i \in {k \in new : \A m \in new : m <= k}}
    BY DEF Newest, EntryOf, Normal
  <1>4. CASE g.type \in types /\ v = Normal(g.value)
    <2>1. n \in new /\ \A m \in new : m <= n /\ m \in Nat
      BY <1>1, <1>4
    <2> HIDE DEF new
    <2>2. {k \in new : \A m \in new : m <= k} = {n}
      BY <1>1, <2>1
    <2> HIDE DEF n
    <2>3. Newest(types, v)' = {EntryOf(feed'[n])}
      BY <1>3, <2>2
    <2> QED BY <1>1, <1>4, <2>3
  <1>5. CASE ~(g.type \in types /\ v = Normal(g.value))
    <2>1. new = old
      BY <1>1, <1>5
    <2>2. \A i \in old : feed'[i] = feed[i]
      BY <1>1
    <2> HIDE DEF new, old
    <2>3. Newest(types, v)' = Newest(types, v)
      BY <1>2, <1>3, <2>1, <2>2
    <2> QED BY <1>5, <2>3
  <1> QED BY <1>4, <1>5

LEMMA MapStep ==
    ASSUME feed \in Seq(Given), NEW g \in Given, feed' = Append(feed, g), NEW types,
           NEW map, NEW later, MapOK(map, types),
           later = IF g.type \in types THEN With(map, Normal(g.value), EntryOf(g)) ELSE map
    PROVE  \A v : Newest(types, v)' = IF v \in DOMAIN later THEN {later[v]} ELSE {}
  <1> TAKE v
  <1>1. Newest(types, v)' =
            IF g.type \in types /\ v = Normal(g.value) THEN {EntryOf(g)} ELSE Newest(types, v)
    BY NewestStep
  <1>2. Newest(types, v) = IF v \in DOMAIN map THEN {map[v]} ELSE {}
    BY DEF MapOK
  <1> QED BY <1>1, <1>2 DEF With

LEMMA IOCStarts == IOCInit => IOCInv
  <1> SUFFICES ASSUME IOCInit PROVE IOCInv OBVIOUS
  <1>1. /\ feed = << >> /\ cidrs = << >> /\ hashes = << >> /\ ips = << >>
        /\ domains = << >> /\ urls = << >>
    BY DEF IOCInit
  <1>2. DOMAIN << >> = {}
    OBVIOUS
  <1>3. \A types, v : Newest(types, v) = {}
    BY <1>1, <1>2 DEF Newest
  <1>4. \A types : MapOK(<< >>, types)
    BY <1>2, <1>3 DEF MapOK
  <1>5. CidrsOK
    BY <1>1, <1>2 DEF CidrsOK
  <1> QED BY <1>1, <1>2, <1>4, <1>5 DEF IOCInv

LEMMA AddEntryKeeps ==
    ASSUME IOCInv, NEW type \in Types, NEW raw \in Values, NEW mark \in Marks,
           AddEntry(type, raw, mark)
    PROVE  IOCInv'
  <1> DEFINE g == [type |-> type, value |-> raw, mark |-> mark]
             v == Normal(raw)
             e == [value |-> raw, mark |-> mark]
  <1>1. /\ g \in Given /\ g.type = type /\ g.value = raw /\ EntryOf(g) = e
        /\ v \in Values /\ e \in [value : Values, mark : Marks]
    BY IOCAssumption DEF Given, EntryOf, Normal
  <1>2. /\ v # Blank
        /\ hashes' = IF type \in {"hash", "other"} THEN With(hashes, v, e) ELSE hashes
        /\ hashFilter' = IF type \in {"hash", "other"} THEN hashFilter \cup Bits[v] ELSE hashFilter
        /\ ips' = IF type \in {"ip"} THEN With(ips, v, e) ELSE ips
        /\ cidrs' = IF type = "ip" THEN Listed(v, e) ELSE cidrs
        /\ domains' = IF type \in {"domain"} THEN With(domains, v, e) ELSE domains
        /\ urls' = IF type \in {"url"} THEN With(urls, v, e) ELSE urls
        /\ feed' = Append(feed, g)
    BY DEF AddEntry, SetBits
  <1>3. v = Normal(g.value)
    BY <1>1
  <1> HIDE DEF g, v, e
  <1>4. /\ feed \in Seq(Given) /\ feed' \in Seq(Given)
        /\ DOMAIN feed' = DOMAIN feed \cup {Len(feed) + 1}
        /\ Len(feed) + 1 \notin DOMAIN feed
        /\ feed'[Len(feed) + 1] = g /\ \A i \in DOMAIN feed : feed'[i] = feed[i]
    BY <1>1, <1>2 DEF IOCInv
  <1>5. \A i \in DOMAIN feed' : Normal(feed'[i].value) # Blank
    BY <1>2, <1>3, <1>4 DEF IOCInv
  <1>6. MapOK(hashes, {"hash", "other"})'
    <2>1. MapOK(hashes, {"hash", "other"})
      BY DEF IOCInv
    <2>2. hashes' = IF g.type \in {"hash", "other"} THEN With(hashes, Normal(g.value), EntryOf(g)) ELSE hashes
      BY <1>1, <1>2, <1>3
    <2>3. PICK map, later : map = hashes /\ later = hashes'
      OBVIOUS
    <2>4. /\ MapOK(map, {"hash", "other"})
          /\ later = IF g.type \in {"hash", "other"} THEN With(map, Normal(g.value), EntryOf(g)) ELSE map
      BY <2>1, <2>2, <2>3
    <2>5. feed \in Seq(Given) /\ g \in Given /\ feed' = Append(feed, g)
      BY <1>1, <1>2, <1>4
    <2>6. \A u : Newest({"hash", "other"}, u)' = IF u \in DOMAIN later THEN {later[u]} ELSE {}
      BY <2>4, <2>5, MapStep
    <2> QED BY <2>3, <2>6 DEF MapOK
  <1>7. MapOK(ips, {"ip"})'
    <2>1. MapOK(ips, {"ip"})
      BY DEF IOCInv
    <2>2. ips' = IF g.type \in {"ip"} THEN With(ips, Normal(g.value), EntryOf(g)) ELSE ips
      BY <1>1, <1>2, <1>3
    <2>3. PICK map, later : map = ips /\ later = ips'
      OBVIOUS
    <2>4. /\ MapOK(map, {"ip"})
          /\ later = IF g.type \in {"ip"} THEN With(map, Normal(g.value), EntryOf(g)) ELSE map
      BY <2>1, <2>2, <2>3
    <2>5. feed \in Seq(Given) /\ g \in Given /\ feed' = Append(feed, g)
      BY <1>1, <1>2, <1>4
    <2>6. \A u : Newest({"ip"}, u)' = IF u \in DOMAIN later THEN {later[u]} ELSE {}
      BY <2>4, <2>5, MapStep
    <2> QED BY <2>3, <2>6 DEF MapOK
  <1>8. MapOK(domains, {"domain"})'
    <2>1. MapOK(domains, {"domain"})
      BY DEF IOCInv
    <2>2. domains' = IF g.type \in {"domain"} THEN With(domains, Normal(g.value), EntryOf(g)) ELSE domains
      BY <1>1, <1>2, <1>3
    <2>3. PICK map, later : map = domains /\ later = domains'
      OBVIOUS
    <2>4. /\ MapOK(map, {"domain"})
          /\ later = IF g.type \in {"domain"} THEN With(map, Normal(g.value), EntryOf(g)) ELSE map
      BY <2>1, <2>2, <2>3
    <2>5. feed \in Seq(Given) /\ g \in Given /\ feed' = Append(feed, g)
      BY <1>1, <1>2, <1>4
    <2>6. \A u : Newest({"domain"}, u)' = IF u \in DOMAIN later THEN {later[u]} ELSE {}
      BY <2>4, <2>5, MapStep
    <2> QED BY <2>3, <2>6 DEF MapOK
  <1>9. MapOK(urls, {"url"})'
    <2>1. MapOK(urls, {"url"})
      BY DEF IOCInv
    <2>2. urls' = IF g.type \in {"url"} THEN With(urls, Normal(g.value), EntryOf(g)) ELSE urls
      BY <1>1, <1>2, <1>3
    <2>3. PICK map, later : map = urls /\ later = urls'
      OBVIOUS
    <2>4. /\ MapOK(map, {"url"})
          /\ later = IF g.type \in {"url"} THEN With(map, Normal(g.value), EntryOf(g)) ELSE map
      BY <2>1, <2>2, <2>3
    <2>5. feed \in Seq(Given) /\ g \in Given /\ feed' = Append(feed, g)
      BY <1>1, <1>2, <1>4
    <2>6. \A u : Newest({"url"}, u)' = IF u \in DOMAIN later THEN {later[u]} ELSE {}
      BY <2>4, <2>5, MapStep
    <2> QED BY <2>3, <2>6 DEF MapOK
  <1>10. \A u \in DOMAIN hashes' : Bits[u] \subseteq hashFilter'
    <2>1. \A u \in DOMAIN hashes : Bits[u] \subseteq hashFilter
      BY DEF IOCInv
    <2> QED BY <1>2, <2>1 DEF With
  <1>11. CidrsOK'
    <2>1. CidrsOK
      BY DEF IOCInv
    <2>2. \A c, h : SubnetFrom(c, h)' <=> SubnetFrom(c, h)
      BY DEF SubnetFrom, EntryOf, Normal
    <2>3. CASE type = "ip" /\ v \in DOMAIN Members
      <3> DEFINE c == [prefix |-> v, entry |-> e]
      <3>1. cidrs' = Append(cidrs, c)
        BY <1>2, <2>3 DEF Listed
      <3>2. SubnetFrom(c, g) /\ c \in [prefix : Values, entry : [value : Values, mark : Marks]]
        BY <1>1, <1>3, <2>3 DEF SubnetFrom
      <3> HIDE DEF c
      <3>3. /\ cidrs' \in Seq([prefix : Values, entry : [value : Values, mark : Marks]])
            /\ DOMAIN cidrs' = DOMAIN cidrs \cup {Len(cidrs) + 1}
            /\ cidrs'[Len(cidrs) + 1] = c /\ \A i \in DOMAIN cidrs : cidrs'[i] = cidrs[i]
        BY <3>1, <3>2, <2>1 DEF CidrsOK
      <3>4. \A i \in DOMAIN cidrs' : \E k \in DOMAIN feed' : SubnetFrom(cidrs'[i], feed'[k])
        BY <1>4, <2>1, <3>2, <3>3 DEF CidrsOK
      <3>5. \A k \in DOMAIN feed' :
                feed'[k].type = "ip" /\ Normal(feed'[k].value) \in DOMAIN Members =>
                    \E i \in DOMAIN cidrs' : SubnetFrom(cidrs'[i], feed'[k])
        BY <1>4, <2>1, <3>2, <3>3 DEF CidrsOK
      <3> QED BY <2>2, <3>3, <3>4, <3>5 DEF CidrsOK, Normal
    <2>4. CASE ~(type = "ip" /\ v \in DOMAIN Members)
      <3>1. cidrs' = cidrs
        BY <1>2, <2>4 DEF Listed
      <3>2. ~(g.type = "ip" /\ Normal(g.value) \in DOMAIN Members)
        BY <1>1, <1>3, <2>4
      <3>3. \A i \in DOMAIN cidrs : \E k \in DOMAIN feed' : SubnetFrom(cidrs[i], feed'[k])
        BY <1>4, <2>1 DEF CidrsOK
      <3>4. \A k \in DOMAIN feed' :
                feed'[k].type = "ip" /\ Normal(feed'[k].value) \in DOMAIN Members =>
                    \E i \in DOMAIN cidrs : SubnetFrom(cidrs[i], feed'[k])
        BY <1>4, <2>1, <3>2 DEF CidrsOK
      <3> QED BY <2>1, <2>2, <3>1, <3>3, <3>4 DEF CidrsOK, Normal
    <2> QED BY <2>3, <2>4
  <1> QED BY <1>4, <1>5, <1>6, <1>7, <1>8, <1>9, <1>10, <1>11 DEF IOCInv, Normal

LEMMA IOCKeeps == IOCInv /\ [IOCNext]_iocVars => IOCInv'
  <1> SUFFICES ASSUME IOCInv, [IOCNext]_iocVars PROVE IOCInv' OBVIOUS
  <1>1. CASE IOCNext BY <1>1, AddEntryKeeps DEF IOCNext
  <1>2. CASE UNCHANGED iocVars
    <2>1. UNCHANGED <<hashes, ips, domains, urls, cidrs, hashFilter, feed>>
      BY <1>2 DEF iocVars
    <2>2. \A types, v : Newest(types, v)' = Newest(types, v)
      BY <2>1 DEF Newest, Normal
    <2>3. CidrsOK'
      BY <2>1 DEF IOCInv, CidrsOK, SubnetFrom, EntryOf, Normal
    <2> QED BY <2>1, <2>2, <2>3 DEF IOCInv, MapOK, Normal
  <1> QED BY <1>1, <1>2

(* A set of numbers that is not empty has a smallest one.                    *)
LEMMA SmallestExists ==
    ASSUME NEW T, T \subseteq Nat, T # {}
    PROVE  \E x \in T : \A y \in T : x <= y
  <1> DEFINE Less == OpToRel(<, Nat)
  <1>1. \A x, y \in Nat : <<y, x>> \in Less <=> y < x
    BY DEF OpToRel
  <1>2. IsWellFoundedOn(Less, Nat)
    BY NatLessThanWellFounded
  <1> HIDE DEF Less
  <1>3. PICK x \in T : \A y \in T : ~ (<<y, x>> \in Less)
    BY <1>2, WFMin
  <1>4. \A y \in T : x \in Nat /\ y \in Nat /\ ~(y < x)
    BY <1>1, <1>3
  <1> QED BY <1>3, <1>4

(* Engine.AddEntry and MatchEvent in ioc.go: an event is matched by exactly  *)
(* the newest entry of an indicator it shows, whatever the bloom filter's    *)
(* bits, and an address by itself or else by a subnet it is in; a            *)
(* destination and an enrichment by the domain or URL they name.             *)
THEOREM IndicatorsFound == IOCSpec => []IndicatorsAreFound
  <1>1. ASSUME IOCInv PROVE IndicatorsAreFound
    <2>1. \A types : Newest(types, Blank) = {}
      BY <1>1 DEF IOCInv, Newest
    <2>2. Blank \notin DOMAIN domains /\ Blank \notin DOMAIN urls
      BY <1>1, <2>1 DEF IOCInv, MapOK
    <2>3. \A h \in Values \ {Blank} : MatchHash(h) = Newest({"hash", "other"}, Lower[h])
      BY <1>1 DEF IOCInv, MapOK, MatchHash
    <2>4. ASSUME NEW line \in SUBSET {Normal(v) : v \in Values}
          PROVE  MatchCmdLine(line \cup {Blank}) =
                     UNION {Newest({"domain"}, v) \cup Newest({"url"}, v) : v \in line \ {Blank}}
      <3>1. /\ \A v : v \in DOMAIN domains => Newest({"domain"}, v) = {domains[v]}
            /\ \A v : v \notin DOMAIN domains => Newest({"domain"}, v) = {}
            /\ \A v : v \in DOMAIN urls => Newest({"url"}, v) = {urls[v]}
            /\ \A v : v \notin DOMAIN urls => Newest({"url"}, v) = {}
        BY <1>1 DEF IOCInv, MapOK
      <3>2. ASSUME NEW x PROVE x \in MatchCmdLine(line \cup {Blank}) <=>
                \/ \E d \in DOMAIN domains \cap line : x = domains[d]
                \/ \E u \in DOMAIN urls \cap line : x = urls[u]
        BY <2>2 DEF MatchCmdLine
      <3>3. ASSUME NEW x
            PROVE  x \in UNION {Newest({"domain"}, v) \cup Newest({"url"}, v) : v \in line \ {Blank}}
                     <=> \E v \in line \ {Blank} : x \in Newest({"domain"}, v) \/ x \in Newest({"url"}, v)
        OBVIOUS
      <3>4. ASSUME NEW x
            PROVE  x \in UNION {Newest({"domain"}, v) \cup Newest({"url"}, v) : v \in line \ {Blank}}
                     <=> \/ \E d \in DOMAIN domains \cap line : x = domains[d]
                         \/ \E u \in DOMAIN urls \cap line : x = urls[u]
        <4>1. \A v : x \in Newest({"domain"}, v) <=> v \in DOMAIN domains /\ x = domains[v]
          BY <3>1
        <4>2. \A v : x \in Newest({"url"}, v) <=> v \in DOMAIN urls /\ x = urls[v]
          BY <3>1
        <4> QED BY <2>2, <3>3, <4>1, <4>2, Zenon
      <3> QED BY <3>2, <3>4
    <2>5. ASSUME NEW dst \in Addresses
          PROVE  IF Newest({"ip"}, Normal(dst)) # {}
                 THEN MatchAddress(dst) = Newest({"ip"}, Normal(dst))
                 ELSE /\ MatchAddress(dst) \subseteq OfSubnets(dst)
                      /\ OfSubnets(dst) # {} => MatchAddress(dst) # {}
      <3> DEFINE v == Normal(dst)
                 nets == {i \in DOMAIN cidrs : v \in Addresses /\ v \in Members[cidrs[i].prefix]}
      <3>1. v \in Addresses /\ v # Blank
        BY IOCAssumption DEF Normal
      <3>2. Newest({"ip"}, v) = IF v \in DOMAIN ips THEN {ips[v]} ELSE {}
        BY <1>1 DEF IOCInv, MapOK
      <3>3. CASE v \in DOMAIN ips
        <4>1. MatchAddress(dst) = {ips[v]}
          BY <3>1, <3>3 DEF MatchAddress
        <4> QED BY <3>2, <3>3, <4>1
      <3>4. CASE v \notin DOMAIN ips
        <4>1. MatchAddress(dst) = {cidrs[i].entry : i \in {k \in nets : \A n \in nets : k <= n}}
          BY <3>1, <3>4 DEF MatchAddress
        <4>2. \A x : x \in OfSubnets(dst) <=>
                  \E k \in DOMAIN feed :
                      /\ feed[k].type = "ip" /\ Normal(feed[k].value) \in DOMAIN Members
                      /\ v \in Members[Normal(feed[k].value)] /\ x = EntryOf(feed[k])
          BY DEF OfSubnets, EntryOf
        <4>3. nets \subseteq Nat
          BY <1>1 DEF IOCInv, CidrsOK
        <4>4. \A i \in nets : v \in Members[cidrs[i].prefix] /\ i \in DOMAIN cidrs
          OBVIOUS
        <4>5. \A i \in DOMAIN cidrs : v \in Members[cidrs[i].prefix] => i \in nets
          BY <3>1
        <4> HIDE DEF v, nets
        <4>6. \A i \in nets : cidrs[i].entry \in OfSubnets(dst)
          BY <1>1, <4>2, <4>4 DEF IOCInv, CidrsOK, SubnetFrom
        <4>7. ASSUME OfSubnets(dst) # {} PROVE MatchAddress(dst) # {}
          <5>1. nets # {}
            BY <1>1, <4>2, <4>5, <4>7 DEF IOCInv, CidrsOK, SubnetFrom
          <5>2. PICK i \in nets : \A n \in nets : i <= n
            BY <4>3, <5>1, SmallestExists
          <5> QED BY <4>1, <5>2
        <4>8. MatchAddress(dst) \subseteq OfSubnets(dst)
          BY <4>1, <4>6
        <4> QED BY <3>2, <3>4, <4>7, <4>8 DEF v
      <3> QED BY <3>3, <3>4
    <2>6. ASSUME NEW v \in Values \ {Blank}
          PROVE  /\ MatchDomain(v) = Newest({"domain"}, Normal(v))
                 /\ MatchEnriched(domains, v) = Newest({"domain"}, Lower[v])
                 /\ MatchEnriched(urls, v) = Newest({"url"}, Lower[v])
      <3>1. MapOK(domains, {"domain"}) /\ MapOK(urls, {"url"})
        BY <1>1 DEF IOCInv
      <3>2. MatchDomain(v) = Newest({"domain"}, Normal(v))
        BY <2>1, <3>1 DEF MapOK, MatchDomain
      <3>3. MatchEnriched(domains, v) = Newest({"domain"}, Lower[v])
        BY <3>1 DEF MapOK, MatchEnriched
      <3>4. MatchEnriched(urls, v) = Newest({"url"}, Lower[v])
        BY <3>1 DEF MapOK, MatchEnriched
      <3> QED BY <3>2, <3>3, <3>4
    <2> QED BY <2>3, <2>4, <2>5, <2>6 DEF IndicatorsAreFound
  <1> QED BY IOCStarts, IOCKeeps, <1>1, PTL DEF IOCSpec

-----------------------------------------------------------------------------
(* HostActions: every effect is audited, for every set of playbooks and any  *)
(* number of executions at a time.                                           *)

Fields == {"phase", "plan", "undo", "book", "move", "before", "clean"}
Stages == {"none", "copy in", "remove source", "copy out", "remove entry"}
Busy(x) == x.phase \in {"acting", "undoing"}
Planned(x) == x.plan # << >>
Fits(x, stage) == stage \in {"copy in", "remove source"} => Head(x.plan).action = "quarantine_file"

(* A move belongs to the action at the head of the plan.                     *)
RunOK(x) ==
    /\ DOMAIN x = Fields
    /\ x.phase \in {"idle", "acting", "undoing", "done"}
    /\ x.move.stage \in Stages
    /\ x.move.stage = "none" => x.move = NoMove
    /\ x.move.stage # "none" => Busy(x) /\ Planned(x)
    /\ Fits(x, x.move.stage)

RunsOK == DOMAIN run = Runs /\ \A r \in Runs : RunOK(run[r])

HostInv ==
    /\ RunsOK
    /\ input \in [Blocked -> Nat] /\ output \in [Blocked -> Nat]
    /\ jumps \in [in : Nat, out : Nat]
    /\ EffectsAreAudited

(* What a step of execution r makes of it.                                   *)
Becomes(r, y) == run' = [run EXCEPT ![r] = y] /\ RunOK(y)

LEMMA BecomesOK ==
    ASSUME RunsOK, NEW r \in Runs, NEW y, Becomes(r, y)
    PROVE  RunsOK' /\ run'[r] = y /\ \A s \in Runs \ {r} : run'[s] = run[s]
  BY DEF Becomes, RunsOK

LEMMA FinishedRun ==
    ASSUME RunsOK, NEW r \in Runs, Busy(run[r]), NEW ok, Finished(r, ok)
    PROVE  /\ \E y : Becomes(r, y) /\ y.move = NoMove /\ y.phase = run[r].phase
           /\ audit' = audit \cup {<<Head(run[r].plan).action, Arg(r)>>}
  <1> DEFINE x == run[r]
             step == Head(x.plan)
             rest == IF ok \/ (x.phase = "acting" /\ step.onFailure = "continue")
                     THEN Tail(x.plan) ELSE <<>>
             undo == IF ok /\ x.phase = "acting" THEN Undo(x, step) ELSE x.undo
             clean == x.clean /\ ok
             y == [x EXCEPT !.plan = rest, !.move = NoMove, !.undo = undo, !.clean = clean]
  <1>1. RunOK(x) /\ DOMAIN x = Fields /\ Busy(x)
    BY DEF RunsOK, RunOK
  <1>2. run' = [run EXCEPT ![r] = y] /\ audit' = audit \cup {<<step.action, step.arg>>}
    BY DEF Finished
  <1> HIDE DEF rest, undo, clean, x
  <1>3. DOMAIN y = Fields /\ y.move = NoMove /\ y.phase = x.phase
    BY <1>1 DEF Fields
  <1> HIDE DEF y
  <1>4. NoMove.stage = "none"
    BY DEF NoMove
  <1>5. RunOK(y)
    BY <1>1, <1>3, <1>4 DEF RunOK, Stages, Busy, Fits
  <1> QED BY <1>2, <1>3, <1>5 DEF Becomes, Arg, x

MoveTo(stage, id, content) == [stage |-> stage, id |-> id, content |-> content]

LEMMA MoveToFields ==
    ASSUME NEW stage, NEW id, NEW content
    PROVE  /\ MoveTo(stage, id, content).stage = stage
           /\ MoveTo(stage, id, content).id = id
           /\ MoveTo(stage, id, content).content = content
  BY DEF MoveTo

LEMMA MovingRun ==
    ASSUME RunsOK, NEW r \in Runs, Busy(run[r]), Planned(run[r]),
           NEW stage, stage \in Stages \ {"none"}, NEW id, NEW content, Moving(r, stage, id, content),
           Fits(run[r], stage)
    PROVE  \E y : /\ Becomes(r, y) /\ y.move = MoveTo(stage, id, content)
                  /\ y.phase = run[r].phase /\ y.plan = run[r].plan
  <1> DEFINE x == run[r]
             m == [stage |-> stage, id |-> id, content |-> content]
             y == [x EXCEPT !.move = m]
  <1>1. RunOK(x) /\ DOMAIN x = Fields /\ m.stage = stage
    BY DEF RunsOK, RunOK
  <1>2. run' = [run EXCEPT ![r] = y]
    BY DEF Moving
  <1>3. Planned(x) /\ Busy(x) /\ Fits(x, stage)
    OBVIOUS
  <1> HIDE DEF x, m
  <1>4. DOMAIN y = Fields /\ y.move = m /\ y.phase = x.phase /\ y.plan = x.plan
    BY <1>1 DEF Fields
  <1> HIDE DEF y
  <1>5. RunOK(y)
    BY <1>1, <1>3, <1>4 DEF RunOK, Busy, Planned, Fits
  <1> QED BY <1>2, <1>4, <1>5 DEF Becomes, x, m, MoveTo

(* The steps of each action keep the types and grow the log; what each adds  *)
(* on the machine is in the log already or recorded by it.                   *)
LEMMA EffectsKept ==
    ASSUME HostInv, NEW r \in Runs, NEW y, Becomes(r, y),
           input' \in [Blocked -> Nat], output' \in [Blocked -> Nat], jumps' \in [in : Nat, out : Nat],
           audit \subseteq audit',
           \A a \in Blocked : \/ input'[a] <= input[a] /\ output'[a] <= output[a]
                              \/ <<"block_ip", a>> \in audit',
           \/ jumps = [in |-> 0, out |-> 0] => jumps' = jumps
           \/ \E x \in audit' : x[1] = "isolate_host",
           \A f \in DOMAIN disk : f \in DOMAIN disk' \/ <<"quarantine_file", f>> \in audit'
    PROVE  HostInv'
  <1>1. RunsOK'
    BY BecomesOK DEF HostInv
  <1>2. \A a \in Blocked : input'[a] + output'[a] > 0 => <<"block_ip", a>> \in audit'
    <2> TAKE a \in Blocked
    <2>1. /\ input[a] \in Nat /\ output[a] \in Nat /\ input'[a] \in Nat /\ output'[a] \in Nat
          /\ input[a] + output[a] > 0 => <<"block_ip", a>> \in audit
      BY DEF HostInv, EffectsAreAudited
    <2>2. CASE input'[a] <= input[a] /\ output'[a] <= output[a]
      BY <2>1, <2>2
    <2>3. CASE <<"block_ip", a>> \in audit'
      BY <2>3
    <2> QED BY <2>2, <2>3
  <1>3. jumps' # [in |-> 0, out |-> 0] => \E x \in audit' : x[1] = "isolate_host"
    BY DEF HostInv, EffectsAreAudited
  <1>4. \A f \in Files \ DOMAIN disk' : <<"quarantine_file", f>> \in audit'
    BY DEF HostInv, EffectsAreAudited
  <1> QED BY <1>1, <1>2, <1>3, <1>4 DEF HostInv, EffectsAreAudited

LEMMA HostStarts == HostInit => HostInv
  <1> SUFFICES ASSUME HostInit PROVE HostInv OBVIOUS
  <1> DEFINE x == [phase |-> "idle", plan |-> <<>>, undo |-> <<>>,
                   book |-> <<>>, move |-> NoMove, before |-> <<>>, clean |-> TRUE]
  <1>1. /\ run = [r \in Runs |-> x] /\ input = [a \in Blocked |-> 0] /\ output = [a \in Blocked |-> 0]
        /\ jumps = [in |-> 0, out |-> 0] /\ disk = [f \in Files |-> f]
    BY DEF HostInit
  <1>2. NoMove.stage = "none"
    BY DEF NoMove
  <1>3. RunOK(x)
    BY <1>2 DEF RunOK, Fields, Stages, Fits
  <1> HIDE DEF x
  <1>4. RunsOK
    BY <1>1, <1>3 DEF RunsOK
  <1> QED BY <1>1, <1>4 DEF HostInv, EffectsAreAudited

(* The steps that leave the machine alone.                                   *)
LEMMA QuietRun ==
    ASSUME RunsOK, NEW r \in Runs, Begin(r) \/ RollBack(r) \/ Close(r) \/ Refused(r)
    PROVE  \E y : Becomes(r, y) /\ y.move = NoMove
  <1> DEFINE x == run[r]
  <1>1. RunOK(x) /\ DOMAIN x = Fields
    <2>1. RunOK(x)
      BY DEF RunsOK
    <2> QED BY <2>1 DEF RunOK
  <1>2. NoMove.stage = "none"
    BY DEF NoMove
  <1>3. CASE Begin(r)
    <2>1. PICK plan \in Plans : run' = [run EXCEPT ![r].phase = "acting", ![r].plan = plan,
                                                    ![r].book = plan, ![r].before = <<Machine>>]
      BY <1>3 DEF Begin
    <2>2. PICK before : before = <<Machine>>
      OBVIOUS
    <2> DEFINE y == [x EXCEPT !.phase = "acting", !.plan = plan, !.book = plan, !.before = before]
    <2>3. run' = [run EXCEPT ![r] = y]
      BY <2>1, <2>2
    <2>4. x.phase = "idle" /\ x.move = NoMove
      BY <1>1, <1>3 DEF Begin, RunOK, Busy
    <2> HIDE DEF x
    <2>5. DOMAIN y = Fields /\ y.move = NoMove /\ y.phase = "acting"
      BY <1>1, <2>4 DEF Fields
    <2> HIDE DEF y
    <2>6. RunOK(y)
      BY <1>2, <2>5 DEF RunOK, Stages, Fits
    <2> QED BY <2>3, <2>5, <2>6 DEF Becomes
  <1>4. CASE RollBack(r)
    <2> DEFINE y == [x EXCEPT !.phase = "undoing", !.plan = x.undo, !.undo = <<>>]
    <2>1. run' = [run EXCEPT ![r] = y] /\ x.plan = << >>
      BY <1>4 DEF RollBack
    <2>2. x.move = NoMove
      BY <1>1, <2>1 DEF RunOK, Planned
    <2> HIDE DEF x
    <2>3. DOMAIN y = Fields /\ y.move = NoMove /\ y.phase = "undoing"
      BY <1>1, <2>2 DEF Fields
    <2> HIDE DEF y
    <2>4. RunOK(y)
      BY <1>2, <2>3 DEF RunOK, Stages, Fits
    <2> QED BY <2>1, <2>3, <2>4 DEF Becomes
  <1>5. CASE Close(r)
    <2> DEFINE y == [x EXCEPT !.phase = "done"]
    <2>1. run' = [run EXCEPT ![r] = y] /\ x.plan = << >>
      BY <1>5 DEF Close
    <2>2. x.move = NoMove
      BY <1>1, <2>1 DEF RunOK, Planned
    <2> HIDE DEF x
    <2>3. DOMAIN y = Fields /\ y.move = NoMove /\ y.phase = "done"
      BY <1>1, <2>2 DEF Fields
    <2> HIDE DEF y
    <2>4. RunOK(y)
      BY <1>2, <2>3 DEF RunOK, Stages, Fits
    <2> QED BY <2>1, <2>3, <2>4 DEF Becomes
  <1>6. CASE Refused(r)
    <2> DEFINE rest == IF Head(x.plan).onFailure = "continue" THEN Tail(x.plan) ELSE <<>>
               y == [x EXCEPT !.plan = rest]
    <2>1. run' = [run EXCEPT ![r] = y] /\ x.move = NoMove
      BY <1>6 DEF Refused, Doing
    <2> HIDE DEF x, rest
    <2>3. DOMAIN y = Fields /\ y.move = NoMove /\ y.phase = x.phase
      BY <1>1, <2>1 DEF Fields
    <2> HIDE DEF y
    <2>4. RunOK(y)
      BY <1>1, <1>2, <2>3 DEF RunOK, Stages, Fits
    <2> QED BY <2>1, <2>3, <2>4 DEF Becomes
  <1> QED BY <1>3, <1>4, <1>5, <1>6

(* The steps of the actions end, or go on to the next stage of their move.   *)
LEMMA DoingFacts ==
    ASSUME NEW r, NEW action, Doing(r, action)
    PROVE  /\ Busy(run[r]) /\ Planned(run[r]) /\ run[r].move = NoMove
           /\ Head(run[r].plan).action = action
  BY DEF Doing, Busy, Planned

LEMMA BlockIPKeeps ==
    ASSUME HostInv, NEW r \in Runs, BlockIP(r)
    PROVE  HostInv'
  <1>1. Busy(run[r]) /\ Head(run[r].plan).action = "block_ip" /\ RunsOK
    BY DoingFacts DEF BlockIP, HostInv
  <1>2. PICK ok : Finished(r, ok)
    BY DEF BlockIP
  <1>3. PICK y : Becomes(r, y)
    BY <1>1, <1>2, FinishedRun
  <1>4. audit' = audit \cup {<<"block_ip", Arg(r)>>}
    BY <1>1, <1>2, FinishedRun
  <1>5. /\ input' \in {input, [input EXCEPT ![Arg(r)] = @ + 1]}
        /\ output' \in {output, [output EXCEPT ![Arg(r)] = @ + 1]}
        /\ UNCHANGED <<jumps, disk>>
    BY DEF BlockIP, isolation
  <1>6. /\ input \in [Blocked -> Nat] /\ output \in [Blocked -> Nat]
        /\ jumps \in [in : Nat, out : Nat]
    BY DEF HostInv
  <1>7. input' \in [Blocked -> Nat] /\ output' \in [Blocked -> Nat]
    BY <1>5, <1>6
  <1>8. \A a \in Blocked : \/ input'[a] <= input[a] /\ output'[a] <= output[a]
                           \/ <<"block_ip", a>> \in audit'
    <2> TAKE a \in Blocked
    <2>1. CASE a = Arg(r) BY <1>4, <2>1
    <2>2. CASE a # Arg(r)
      <3>1. input'[a] = input[a] /\ output'[a] = output[a] /\ input[a] \in Nat /\ output[a] \in Nat
        BY <1>5, <1>6, <2>2
      <3> QED BY <3>1
    <2> QED BY <2>1, <2>2
  <1> QED BY <1>3, <1>4, <1>5, <1>6, <1>7, <1>8, EffectsKept

LEMMA UnblockIPKeeps ==
    ASSUME HostInv, NEW r \in Runs, UnblockIP(r)
    PROVE  HostInv'
  <1>1. Busy(run[r]) /\ RunsOK
    BY DoingFacts DEF UnblockIP, HostInv
  <1>2. Finished(r, TRUE)
    BY DEF UnblockIP
  <1>3. PICK y : Becomes(r, y)
    BY <1>1, <1>2, FinishedRun
  <1>4. audit \subseteq audit'
    BY <1>1, <1>2, FinishedRun
  <1>5. /\ input' \in {input, [input EXCEPT ![Arg(r)] = Fewer(@)]}
        /\ output' \in {output, [output EXCEPT ![Arg(r)] = Fewer(@)]}
        /\ UNCHANGED <<jumps, disk>>
    BY DEF UnblockIP, isolation
  <1>6. /\ input \in [Blocked -> Nat] /\ output \in [Blocked -> Nat]
        /\ jumps \in [in : Nat, out : Nat]
    BY DEF HostInv
  <1>7. /\ input' \in [Blocked -> Nat] /\ output' \in [Blocked -> Nat]
        /\ \A a \in Blocked : input'[a] <= input[a] /\ output'[a] <= output[a]
    <2>1. \A n \in Nat : Fewer(n) \in Nat /\ Fewer(n) <= n
      BY DEF Fewer
    <2>2. ASSUME NEW f \in [Blocked -> Nat], NEW g, g \in {f, [f EXCEPT ![Arg(r)] = Fewer(@)]}
          PROVE  g \in [Blocked -> Nat] /\ \A a \in Blocked : g[a] <= f[a]
      BY <2>1, <2>2
    <2> QED BY <1>5, <1>6, <2>2
  <1> QED BY <1>3, <1>4, <1>5, <1>6, <1>7, EffectsKept

LEMMA IsolationKeeps ==
    ASSUME HostInv, NEW r \in Runs, IsolateHost(r) \/ UnisolateHost(r)
    PROVE  HostInv'
  <1>1. Busy(run[r]) /\ RunsOK
    BY DoingFacts DEF IsolateHost, UnisolateHost, HostInv
  <1>2. Finished(r, TRUE) /\ UNCHANGED <<input, output, disk>>
    BY DEF IsolateHost, UnisolateHost, rules
  <1>3. PICK y : Becomes(r, y)
    BY <1>1, <1>2, FinishedRun
  <1>4. audit' = audit \cup {<<Head(run[r].plan).action, Arg(r)>>}
    BY <1>1, <1>2, FinishedRun
  <1>5. /\ input \in [Blocked -> Nat] /\ output \in [Blocked -> Nat]
        /\ jumps \in [in : Nat, out : Nat] /\ jumps.in \in Nat /\ jumps.out \in Nat
    BY DEF HostInv
  <1>6. \A a \in Blocked : input'[a] <= input[a] /\ output'[a] <= output[a]
    BY <1>2, <1>5
  <1>7. CASE IsolateHost(r)
    <2>1. <<"isolate_host", Arg(r)>> \in audit'
      BY <1>4, <1>7, DoingFacts DEF IsolateHost
    <2>2. PICK x \in audit' : x[1] = "isolate_host"
      BY <2>1
    <2>3. \E i, o \in {0, 1} : jumps' = [in |-> jumps.in + i, out |-> jumps.out + o]
      BY <1>7 DEF IsolateHost
    <2>4. jumps' \in [in : Nat, out : Nat]
      BY <1>5, <2>3
    <2> QED BY <1>2, <1>3, <1>4, <1>5, <1>6, <2>2, <2>4, EffectsKept
  <1>8. CASE UnisolateHost(r)
    <2>1. \E i \in {jumps.in, Fewer(jumps.in)}, o \in {jumps.out, Fewer(jumps.out)} :
              jumps' = [in |-> i, out |-> o]
      BY <1>8 DEF UnisolateHost
    <2>2. /\ \A n \in Nat : Fewer(n) \in Nat
          /\ Fewer(0) = 0
      BY DEF Fewer
    <2>3. jumps' \in [in : Nat, out : Nat]
      BY <1>5, <2>1, <2>2
    <2>4. jumps = [in |-> 0, out |-> 0] => jumps' = jumps
      BY <2>1, <2>2
    <2> QED BY <1>2, <1>3, <1>4, <1>5, <1>6, <2>3, <2>4, EffectsKept
  <1> QED BY <1>7, <1>8

(* A step of a move: the log and the domain of the disk.                     *)
LEMMA MoveRun ==
    ASSUME RunsOK, NEW r \in Runs,
           \/ QuarantineOpen(r) \/ QuarantineCopy(r) \/ QuarantineRemove(r)
           \/ RestoreOpen(r) \/ RestoreCopy(r) \/ RestoreRemove(r)
    PROVE  /\ \E y : Becomes(r, y)
           /\ audit \subseteq audit'
           /\ UNCHANGED <<input, output, jumps>>
           /\ \A f \in DOMAIN disk : f \in DOMAIN disk' \/ <<"quarantine_file", f>> \in audit'
  <1>1. RunOK(run[r])
    BY DEF RunsOK
  <1>2. ASSUME NEW ok, Finished(r, ok), Busy(run[r])
        PROVE  /\ \E y : Becomes(r, y)
               /\ audit' = audit \cup {<<Head(run[r].plan).action, Arg(r)>>}
    BY <1>2, FinishedRun
  <1>3. ASSUME NEW stage, stage \in Stages \ {"none"}, NEW id, NEW content, Moving(r, stage, id, content),
               Busy(run[r]), Planned(run[r]),
               Fits(run[r], stage)
        PROVE  \E y : Becomes(r, y)
    <2>1. \E y : /\ Becomes(r, y) /\ y.move = MoveTo(stage, id, content)
                 /\ y.phase = run[r].phase /\ y.plan = run[r].plan
      BY <1>3, MovingRun
    <2> QED BY <2>1
  <1>4. run[r].move.stage # "none" => Busy(run[r]) /\ Planned(run[r])
    BY <1>1 DEF RunOK
  <1>5. CASE QuarantineOpen(r)
    <2>1. Busy(run[r]) /\ Planned(run[r]) /\ Head(run[r].plan).action = "quarantine_file"
      BY <1>5, DoingFacts DEF QuarantineOpen
    <2>2. UNCHANGED <<input, output, jumps, disk>>
      BY <1>5 DEF QuarantineOpen, rules, isolation
    <2>3. CASE Arg(r) \in DOMAIN disk
      <3>1. Moving(r, "copy in", FreshId, disk[Arg(r)]) /\ audit' = audit
        BY <1>5, <2>3 DEF QuarantineOpen
      <3>2. PICK id, content : id = FreshId /\ content = disk[Arg(r)]
        OBVIOUS
      <3>3. Moving(r, "copy in", id, content)
        BY <3>1, <3>2
      <3>4. \E y : Becomes(r, y)
        BY <1>3, <2>1, <3>3 DEF Stages, Fits
      <3> QED BY <2>2, <3>1, <3>4
    <2>4. CASE Arg(r) \notin DOMAIN disk
      <3>1. Finished(r, FALSE)
        BY <1>5, <2>4 DEF QuarantineOpen
      <3> QED BY <1>2, <2>1, <2>2, <3>1
    <2> QED BY <2>3, <2>4
  <1>6. CASE QuarantineCopy(r)
    <2>1. /\ run[r].move.stage = "copy in" /\ UNCHANGED <<input, output, jumps, disk>>
          /\ \/ Moving(r, "remove source", run[r].move.id, run[r].move.content) /\ audit' = audit
             \/ Finished(r, FALSE)
      BY <1>6 DEF QuarantineCopy, rules, isolation
    <2>2. Busy(run[r]) /\ Planned(run[r]) /\ Head(run[r].plan).action = "quarantine_file"
      BY <1>1, <1>4, <2>1 DEF RunOK, Fits
    <2>3. PICK id, content : id = run[r].move.id /\ content = run[r].move.content
      OBVIOUS
    <2>4. CASE Moving(r, "remove source", id, content) /\ audit' = audit
      <3>1. \E y : Becomes(r, y)
        BY <1>3, <2>2, <2>4 DEF Stages, Fits
      <3> QED BY <2>1, <2>4, <3>1
    <2>5. CASE Finished(r, FALSE)
      BY <1>2, <2>1, <2>2, <2>5
    <2> QED BY <2>1, <2>3, <2>4, <2>5
  <1>7. CASE QuarantineRemove(r)
    <2>1. /\ run[r].move.stage = "remove source" /\ UNCHANGED <<input, output, jumps>>
          /\ \/ Finished(r, Arg(r) \in DOMAIN disk) /\ DOMAIN disk' = DOMAIN disk \ {Arg(r)}
             \/ Finished(r, FALSE) /\ disk' = disk
      BY <1>7 DEF QuarantineRemove, rules, isolation, Without
    <2>2. Busy(run[r]) /\ Head(run[r].plan).action = "quarantine_file"
      BY <1>1, <1>4, <2>1 DEF RunOK, Fits
    <2>3. CASE Finished(r, Arg(r) \in DOMAIN disk) /\ DOMAIN disk' = DOMAIN disk \ {Arg(r)}
      <3>1. PICK ok : ok = (Arg(r) \in DOMAIN disk)
        OBVIOUS
      <3>2. Finished(r, ok)
        BY <2>3, <3>1
      <3>3. /\ \E y : Becomes(r, y)
            /\ audit' = audit \cup {<<"quarantine_file", Arg(r)>>}
        BY <1>2, <2>2, <3>2
      <3> QED BY <2>1, <2>3, <3>3
    <2>4. CASE Finished(r, FALSE) /\ disk' = disk
      BY <1>2, <2>1, <2>2, <2>4
    <2> QED BY <2>1, <2>3, <2>4
  <1>8. CASE RestoreOpen(r)
    <2>1. Busy(run[r]) /\ Planned(run[r]) /\ UNCHANGED <<input, output, jumps>>
      BY <1>8, DoingFacts DEF RestoreOpen, rules, isolation
    <2>2. \/ Finished(r, FALSE) /\ disk' = disk
          \/ \E q \in vault : /\ Moving(r, "copy out", q.id, q.content) /\ audit' = audit
                               /\ DOMAIN disk' = DOMAIN disk \cup {Arg(r)}
      BY <1>8 DEF RestoreOpen
    <2>3. CASE Finished(r, FALSE) /\ disk' = disk
      BY <1>2, <2>1, <2>3
    <2>4. ASSUME NEW q \in vault, Moving(r, "copy out", q.id, q.content)
          PROVE  \E y : Becomes(r, y)
      <3>1. PICK id, content : id = q.id /\ content = q.content
        OBVIOUS
      <3>2. Moving(r, "copy out", id, content)
        BY <2>4, <3>1
      <3> QED BY <1>3, <2>1, <3>2 DEF Stages, Fits
    <2> QED BY <2>1, <2>2, <2>3, <2>4
  <1>9. CASE RestoreCopy(r)
    <2>1. /\ run[r].move.stage = "copy out" /\ UNCHANGED <<input, output, jumps>>
          /\ DOMAIN disk' = DOMAIN disk
          /\ \/ \E read : Moving(r, "remove entry", run[r].move.id, read) /\ audit' = audit
             \/ Finished(r, FALSE)
      BY <1>9 DEF RestoreCopy, rules, isolation
    <2>2. Busy(run[r]) /\ Planned(run[r])
      BY <1>4, <2>1
    <2>3. CASE \E read : Moving(r, "remove entry", run[r].move.id, read) /\ audit' = audit
      <3>1. PICK id : id = run[r].move.id
        OBVIOUS
      <3>2. PICK read : Moving(r, "remove entry", id, read) /\ audit' = audit
        BY <2>3, <3>1
      <3>3. \E y : Becomes(r, y)
        BY <1>3, <2>2, <3>2 DEF Stages, Fits
      <3> QED BY <2>1, <3>2, <3>3
    <2>4. CASE Finished(r, FALSE)
      BY <1>2, <2>1, <2>2, <2>4
    <2> QED BY <2>1, <2>3, <2>4
  <1>10. CASE RestoreRemove(r)
    <2>1. /\ run[r].move.stage = "remove entry" /\ UNCHANGED <<input, output, jumps, disk>>
          /\ Finished(r, InVault(run[r].move.id) # {}) \/ Finished(r, FALSE)
      BY <1>10 DEF RestoreRemove, rules, isolation
    <2>2. PICK ok : ok = (InVault(run[r].move.id) # {})
      OBVIOUS
    <2>3. (Finished(r, ok) \/ Finished(r, FALSE)) /\ Busy(run[r])
      BY <1>4, <2>1, <2>2
    <2> QED BY <1>2, <2>1, <2>3
  <1> QED BY <1>5, <1>6, <1>7, <1>8, <1>9, <1>10

LEMMA HostKeeps == HostInv /\ [HostNext]_hostVars => HostInv'
  <1> SUFFICES ASSUME HostInv, [HostNext]_hostVars PROVE HostInv' OBVIOUS
  <1>0. /\ RunsOK /\ input \in [Blocked -> Nat] /\ output \in [Blocked -> Nat]
        /\ jumps \in [in : Nat, out : Nat]
        /\ \A a \in Blocked : input[a] <= input[a] /\ output[a] <= output[a]
    BY DEF HostInv
  <1>1. ASSUME NEW r \in Runs, Begin(r) \/ RollBack(r) \/ Close(r) \/ Refused(r) PROVE HostInv'
    <2>1. PICK y : Becomes(r, y)
      BY <1>0, <1>1, QuietRun
    <2>2. UNCHANGED <<input, output, jumps, disk, audit>>
      BY <1>1 DEF Begin, RollBack, Close, Refused, rules, isolation
    <2> QED BY <1>0, <2>1, <2>2, EffectsKept
  <1>2. ASSUME NEW r \in Runs,
               \/ QuarantineOpen(r) \/ QuarantineCopy(r) \/ QuarantineRemove(r)
               \/ RestoreOpen(r) \/ RestoreCopy(r) \/ RestoreRemove(r)
        PROVE  HostInv'
    <2>1. PICK y : Becomes(r, y)
      BY <1>0, <1>2, MoveRun
    <2>2. /\ audit \subseteq audit' /\ UNCHANGED <<input, output, jumps>>
          /\ \A f \in DOMAIN disk : f \in DOMAIN disk' \/ <<"quarantine_file", f>> \in audit'
      BY <1>0, <1>2, MoveRun
    <2> QED BY <1>0, <2>1, <2>2, EffectsKept
  <1>3. ASSUME NEW r \in Runs, BlockIP(r) \/ UnblockIP(r) \/ IsolateHost(r) \/ UnisolateHost(r) PROVE HostInv'
    BY <1>3, BlockIPKeeps, UnblockIPKeeps, IsolationKeeps
  <1>4. CASE UNCHANGED hostVars
    <2>1. UNCHANGED <<input, output, jumps, disk, audit, run>>
      BY <1>4 DEF hostVars
    <2> QED BY <2>1 DEF HostInv, RunsOK, EffectsAreAudited
  <1> QED BY <1>1, <1>2, <1>3, <1>4 DEF HostNext

(* The response and playbook engines: every rule, jump and missing file has  *)
(* its action in the audit log, whichever command or copy fails and however  *)
(* many callers execute playbooks at once.                                   *)
THEOREM EffectsAudited == HostSpec => []EffectsAreAudited
  <1>1. HostInv => EffectsAreAudited
    BY DEF HostInv
  <1> QED BY HostStarts, HostKeeps, <1>1, PTL DEF HostSpec

-----------------------------------------------------------------------------
(* HostActions: no content is lost, for every set of files and playbooks,    *)
(* when playbooks are executed one at a time.                                *)

Alone == \A r, s \in Runs : Busy(run[r]) /\ Busy(run[s]) => r = s

Target(x) == Head(x.plan).arg
VaultIds == {q.id : q \in vault}

VaultOK ==
    /\ \A q \in vault : DOMAIN q = {"base", "content", "id"}
    /\ \A p, q \in vault : p.id = q.id => p = q
    /\ IsFiniteSet(VaultIds)

(* While file f is moved, its content is where the stage says: on disk until *)
(* the copy in the vault is whole, in the vault until the one on disk is.    *)
MoveOK(m, f, d, v) ==
    m.stage # "none" =>
        /\ f \in DOMAIN d
        /\ d[f] = IF m.stage = "copy out" THEN Part ELSE m.content
        /\ \E q \in v : q.id = m.id /\ q.content = (IF m.stage = "copy in" THEN Part ELSE m.content)

FileInv ==
    /\ RunsOK /\ Alone /\ VaultOK
    /\ \A r \in Runs : MoveOK(run[r].move, Target(run[r]), disk, vault)
    /\ FilesSurvive

LEMMA ContentsAre ==
    ASSUME NEW c
    PROVE  c \in Contents <=> (\E f \in DOMAIN disk : c = disk[f]) \/ (\E q \in vault : c = q.content)
  BY DEF Contents

LEMMA ContentsWillBe ==
    ASSUME NEW c
    PROVE  c \in Contents' <=> (\E f \in DOMAIN disk' : c = disk'[f]) \/ (\E q \in vault' : c = q.content)
  BY DEF Contents

LEMMA AtRest ==
    ASSUME NEW x, RunOK(x), ~Busy(x)
    PROVE  x.move.stage = "none"
  BY DEF RunOK

(* One execution goes on, and the others are at rest.                        *)
LEMMA FileStep ==
    ASSUME FileInv, NEW r \in Runs, \A s \in Runs \ {r} : ~Busy(run[s]), NEW y, Becomes(r, y),
           MoveOK(y.move, Target(y), disk', vault'), VaultOK', FilesSurvive'
    PROVE  FileInv'
  <1>1. RunsOK' /\ run'[r] = y /\ \A s \in Runs \ {r} : run'[s] = run[s]
    BY BecomesOK DEF FileInv
  <1>2. Alone'
    BY <1>1 DEF Alone
  <1>3. ASSUME NEW s \in Runs PROVE MoveOK(run'[s].move, Target(run'[s]), disk', vault')
    <2>1. CASE s = r BY <1>1, <2>1
    <2>2. CASE s # r
      <3>1. run'[s].move.stage = "none"
        BY <1>1, <2>2, AtRest DEF FileInv, RunsOK
      <3> QED BY <3>1 DEF MoveOK
    <2> QED BY <2>1, <2>2
  <1> QED BY <1>1, <1>2, <1>3 DEF FileInv

LEMMA NothingMoves ==
    ASSUME FileInv, NEW r \in Runs, \A s \in Runs \ {r} : ~Busy(run[s]), NEW y, Becomes(r, y),
           y.move = NoMove, UNCHANGED <<disk, vault>>
    PROVE  FileInv'
  <1>1. MoveOK(y.move, Target(y), disk', vault')
    BY DEF MoveOK, NoMove
  <1>2. VaultOK'
    BY DEF FileInv, VaultOK, VaultIds
  <1>3. FilesSurvive'
    BY DEF FileInv, FilesSurvive, Contents
  <1> QED BY <1>1, <1>2, <1>3, FileStep

LEMMA OthersRest ==
    ASSUME Alone, NEW r \in Runs, Busy(run[r])
    PROVE  \A s \in Runs \ {r} : ~Busy(run[s])
  BY DEF Alone

(* The name of a new entry of the quarantine is not in use.                  *)
LEMMA FreshIdIsFree ==
    ASSUME FileInv, \A s \in Runs : run[s].move = NoMove
    PROVE  FreshId \notin VaultIds
  <1>1. Used = VaultIds
    BY DEF Used, VaultIds
  <1>2. IsFiniteSet(Used) /\ Cardinality(Used) \in Nat
    BY <1>1, FS_CardinalityType DEF FileInv, VaultOK
  <1> DEFINE n == Cardinality(Used)
             D == 1 .. n + 1
  <1>3. Cardinality(D) = n + 1
    BY <1>2, FS_Interval
  <1>4. ~(D \subseteq Used)
    BY <1>2, <1>3, FS_Subset
  <1>5. FreshId = CHOOSE i \in D : i \notin Used
    BY DEF FreshId
  <1> HIDE DEF D
  <1>6. FreshId \notin Used
    BY <1>4, <1>5
  <1> QED BY <1>1, <1>6

LEMMA QuarantineOpenSafe ==
    ASSUME FileInv, NEW r \in Runs, QuarantineOpen(r)
    PROVE  FileInv'
  <1>1. Busy(run[r]) /\ Planned(run[r]) /\ run[r].move = NoMove
        /\ Head(run[r].plan).action = "quarantine_file" /\ UNCHANGED disk
    BY DoingFacts DEF QuarantineOpen
  <1>2. RunsOK /\ \A s \in Runs \ {r} : ~Busy(run[s])
    BY <1>1, OthersRest DEF FileInv
  <1>3. CASE Arg(r) \notin DOMAIN disk
    <2>1. Finished(r, FALSE) /\ UNCHANGED vault
      BY <1>3 DEF QuarantineOpen
    <2>2. PICK y : Becomes(r, y) /\ y.move = NoMove
      BY <1>1, <1>2, <2>1, FinishedRun
    <2> QED BY <1>1, <1>2, <2>1, <2>2, NothingMoves
  <1>4. CASE Arg(r) \in DOMAIN disk
    <2>1. PICK f, id, content, e :
              /\ f = Arg(r) /\ id = FreshId /\ content = disk[f]
              /\ e = [base |-> BaseOf[f], content |-> Part, id |-> id]
      OBVIOUS
    <2>2. Moving(r, "copy in", id, content) /\ vault' = vault \cup {e}
      BY <1>4, <2>1 DEF QuarantineOpen
    <2>3. Fits(run[r], "copy in")
      BY <1>1 DEF Fits
    <2>0. PICK stage : stage = "copy in"
      OBVIOUS
    <2>4. PICK y : /\ Becomes(r, y) /\ y.move = MoveTo(stage, id, content)
                   /\ y.phase = run[r].phase /\ y.plan = run[r].plan
      <3>1. stage \in Stages \ {"none"}
        BY <2>0 DEF Stages
      <3>2. Moving(r, stage, id, content) /\ Fits(run[r], stage)
        BY <2>0, <1>1, <1>2, <2>2, <2>3
      <3> QED BY <1>1, <1>2, <3>1, <3>2, MovingRun
    <2>5. DOMAIN e = {"base", "content", "id"} /\ e.id = id /\ e.content = Part
      BY <2>1
    <2>6. id \notin VaultIds
      <3>1. \A s \in Runs \ {r} : run[s].move = NoMove
        BY <1>2, AtRest DEF RunsOK, RunOK
      <3>2. \A s \in Runs : run[s].move = NoMove
        BY <1>1, <3>1
      <3> QED BY <2>1, <3>2, FreshIdIsFree
    <2>7. VaultOK'
      <3>1. VaultIds' = VaultIds \cup {id}
        BY <2>2, <2>5 DEF VaultIds
      <3>2. IsFiniteSet(VaultIds')
        BY <3>1, FS_AddElement DEF FileInv, VaultOK
      <3>3. \A q \in vault : q.id # id
        BY <2>6 DEF VaultIds
      <3> QED BY <2>2, <2>5, <3>2, <3>3 DEF FileInv, VaultOK
    <2>8. FilesSurvive'
      BY <1>1, <2>2, ContentsAre, ContentsWillBe DEF FileInv, FilesSurvive
    <2>9. MoveOK(y.move, Target(y), disk', vault')
      <3>1. Target(y) = f /\ f \in DOMAIN disk
        BY <1>4, <2>1, <2>4 DEF Target, Arg
      <3>2. y.move.stage = "copy in" /\ y.move.id = id /\ y.move.content = content
        <4>1. y.move = MoveTo(stage, id, content)
          BY <2>4
        <4>2. y.move.stage = stage /\ y.move.id = id /\ y.move.content = content
          BY <4>1, MoveToFields
        <4> QED BY <2>0, <4>2
      <3> QED BY <1>1, <2>1, <2>2, <2>5, <3>1, <3>2 DEF MoveOK
    <2> QED BY <1>2, <2>4, <2>7, <2>8, <2>9, FileStep
  <1> QED BY <1>3, <1>4

(* What a move that is going on tells.                                       *)
LEMMA MoveFacts ==
    ASSUME FileInv, NEW r \in Runs, run[r].move.stage # "none"
    PROVE  /\ RunsOK /\ Busy(run[r]) /\ Planned(run[r])
           /\ \A s \in Runs \ {r} : ~Busy(run[s])
           /\ MoveOK(run[r].move, Arg(r), disk, vault)
           /\ Fits(run[r], run[r].move.stage)
  <1>1. RunsOK /\ RunOK(run[r]) /\ Alone /\ MoveOK(run[r].move, Target(run[r]), disk, vault)
    BY DEF FileInv, RunsOK
  <1>2. Busy(run[r]) /\ Planned(run[r]) /\ Fits(run[r], run[r].move.stage)
    BY <1>1 DEF RunOK
  <1>3. Target(run[r]) = Arg(r)
    BY DEF Target, Arg
  <1> QED BY <1>1, <1>2, <1>3, OthersRest

LEMMA QuarantineCopySafe ==
    ASSUME FileInv, NEW r \in Runs, QuarantineCopy(r)
    PROVE  FileInv'
  <1>1. run[r].move.stage = "copy in" /\ UNCHANGED disk
    BY DEF QuarantineCopy
  <1>2. /\ RunsOK /\ Busy(run[r]) /\ Planned(run[r]) /\ \A s \in Runs \ {r} : ~Busy(run[s])
        /\ MoveOK(run[r].move, Arg(r), disk, vault) /\ Fits(run[r], "copy in")
    BY <1>1, MoveFacts
  <1>3. PICK f, id, content : f = Arg(r) /\ id = run[r].move.id /\ content = run[r].move.content
    OBVIOUS
  <1>4. PICK e \in vault : e.id = id /\ e.content = Part /\ f \in DOMAIN disk /\ disk[f] = content
    BY <1>1, <1>2, <1>3 DEF MoveOK
  <1>5. CASE Finished(r, FALSE) /\ UNCHANGED vault
    <2>1. PICK y : Becomes(r, y) /\ y.move = NoMove
      BY <1>2, <1>5, FinishedRun
    <2> QED BY <1>1, <1>2, <1>5, <2>1, NothingMoves
  <1>6. CASE /\ vault' = {IF q.id = id THEN [q EXCEPT !.content = content] ELSE q : q \in vault}
             /\ Moving(r, "remove source", id, content)
    <2>1. Fits(run[r], "remove source")
      BY <1>2 DEF Fits
    <2>0. PICK stage : stage = "remove source"
      OBVIOUS
    <2>2. PICK y : /\ Becomes(r, y) /\ y.move = MoveTo(stage, id, content)
                   /\ y.phase = run[r].phase /\ y.plan = run[r].plan
      <3>1. stage \in Stages \ {"none"}
        BY <2>0 DEF Stages
      <3>2. Moving(r, stage, id, content) /\ Fits(run[r], stage)
        BY <2>0, <1>6, <2>1
      <3>3. RunsOK /\ Busy(run[r]) /\ Planned(run[r])
        BY <1>2
      <3> QED BY <3>1, <3>2, <3>3, MovingRun
    <2>3. PICK n : n = [e EXCEPT !.content = content]
      OBVIOUS
    <2>4. DOMAIN n = {"base", "content", "id"} /\ n.id = id /\ n.content = content
      BY <1>4, <2>3 DEF FileInv, VaultOK
    <2>5. \A q \in vault : q.id = id <=> q = e
      BY <1>4 DEF FileInv, VaultOK
    <2>6. vault' = (vault \ {e}) \cup {n}
      BY <1>6, <2>3, <2>5, <1>4
    <2>7. VaultOK'
      <3>1. VaultIds' = VaultIds
        BY <1>4, <2>4, <2>6 DEF VaultIds
      <3> QED BY <1>4, <2>4, <2>5, <2>6, <3>1 DEF FileInv, VaultOK
    <2>8. FilesSurvive'
      <3> SUFFICES ASSUME NEW c \in Files PROVE c \in Contents'
        BY DEF FilesSurvive
      <3>1. c \in Contents /\ c # Part
        BY HostAssumption DEF FileInv, FilesSurvive
      <3> QED BY <1>1, <1>4, <2>6, <3>1, ContentsAre, ContentsWillBe
    <2>9. MoveOK(y.move, Target(y), disk', vault')
      <3>1. Target(y) = f
        BY <1>3, <2>2 DEF Target, Arg
      <3>2. y.move.stage = "remove source" /\ y.move.id = id /\ y.move.content = content
        <4>1. y.move = MoveTo(stage, id, content)
          BY <2>2
        <4>2. y.move.stage = stage /\ y.move.id = id /\ y.move.content = content
          BY <4>1, MoveToFields
        <4> QED BY <2>0, <4>2
      <3> QED BY <1>1, <1>4, <2>4, <2>6, <3>1, <3>2 DEF MoveOK
    <2> QED BY <1>2, <2>2, <2>7, <2>8, <2>9, FileStep
  <1> QED BY <1>3, <1>5, <1>6 DEF QuarantineCopy

(* A source or an entry that os.Remove takes away.                           *)
SourceGone(r, ok) ==
    /\ run[r].move.stage = "remove source" /\ disk' = Without(Arg(r))
    /\ Finished(r, ok)
    /\ UNCHANGED <<input, output, jumps, chain, vault, faults>>

EntryGone(r, ok) ==
    /\ run[r].move.stage = "remove entry" /\ vault' = vault \ InVault(run[r].move.id)
    /\ Finished(r, ok)
    /\ UNCHANGED <<input, output, jumps, chain, disk, faults>>

(* A source that is removed leaves the copy in the quarantine.               *)
LEMMA SourceGoneSafe ==
    ASSUME FileInv, NEW r \in Runs, NEW ok, SourceGone(r, ok)
    PROVE  FileInv'
  <1>1. /\ run[r].move.stage = "remove source" /\ UNCHANGED vault /\ disk' = Without(Arg(r))
        /\ Finished(r, ok)
    BY DEF SourceGone
  <1>2. /\ RunsOK /\ Busy(run[r]) /\ \A s \in Runs \ {r} : ~Busy(run[s])
        /\ MoveOK(run[r].move, Arg(r), disk, vault)
    BY <1>1, MoveFacts
  <1>3. PICK f, content : f = Arg(r) /\ content = run[r].move.content
    OBVIOUS
  <1>4. PICK e \in vault : e.content = content /\ disk[f] = content
    BY <1>1, <1>2, <1>3 DEF MoveOK
  <1>7. PICK y : Becomes(r, y) /\ y.move = NoMove
    BY <1>1, <1>2, FinishedRun
  <1>8. FilesSurvive'
    <2>1. /\ DOMAIN disk' = DOMAIN disk \ {f} /\ \A g \in DOMAIN disk' : disk'[g] = disk[g]
      BY <1>1, <1>3 DEF Without
    <2> SUFFICES ASSUME NEW c \in Files PROVE c \in Contents'
      BY DEF FilesSurvive
    <2>2. c \in Contents
      BY DEF FileInv, FilesSurvive
    <2>3. CASE \E q \in vault : c = q.content
      BY <1>1, <2>3, ContentsWillBe
    <2>4. CASE \E g \in DOMAIN disk : c = disk[g]
      BY <1>1, <1>4, <2>1, <2>4, ContentsWillBe
    <2> QED BY <2>2, <2>3, <2>4, ContentsAre
  <1>9. VaultOK'
    BY <1>1 DEF FileInv, VaultOK, VaultIds
  <1>10. MoveOK(y.move, Target(y), disk', vault')
    BY <1>7 DEF MoveOK, NoMove
  <1> QED BY <1>2, <1>7, <1>8, <1>9, <1>10, FileStep

(* A move that ends without an effect.                                       *)
LEMMA BreakSafe ==
    ASSUME FileInv, NEW r \in Runs, run[r].move.stage # "none", Finished(r, FALSE),
           UNCHANGED <<disk, vault>>
    PROVE  FileInv'
  <1>1. RunsOK /\ Busy(run[r]) /\ \A s \in Runs \ {r} : ~Busy(run[s])
    BY MoveFacts
  <1>2. PICK ok : ok = FALSE
    OBVIOUS
  <1>3. Finished(r, ok)
    BY <1>2
  <1>4. PICK y : Becomes(r, y) /\ y.move = NoMove
    BY <1>1, <1>3, FinishedRun
  <1> QED BY <1>1, <1>4, NothingMoves

LEMMA QuarantineRemoveSafe ==
    ASSUME FileInv, NEW r \in Runs, QuarantineRemove(r)
    PROVE  FileInv'
  <1>1. \/ SourceGone(r, Arg(r) \in DOMAIN disk)
        \/ run[r].move.stage = "remove source" /\ Finished(r, FALSE) /\ UNCHANGED <<disk, vault>>
    BY DEF QuarantineRemove, SourceGone, rules, isolation
  <1>2. PICK ok : ok = (Arg(r) \in DOMAIN disk)
    OBVIOUS
  <1>3. \/ SourceGone(r, ok)
        \/ run[r].move.stage = "remove source" /\ Finished(r, FALSE) /\ UNCHANGED <<disk, vault>>
    BY <1>1, <1>2
  <1> QED BY <1>3, SourceGoneSafe, BreakSafe

LEMMA RestoreOpenSafe ==
    ASSUME FileInv, NEW r \in Runs, RestoreOpen(r)
    PROVE  FileInv'
  <1>1. Busy(run[r]) /\ Planned(run[r]) /\ UNCHANGED vault
    BY DoingFacts DEF RestoreOpen
  <1>2. RunsOK /\ \A s \in Runs \ {r} : ~Busy(run[s])
    BY <1>1, OthersRest DEF FileInv
  <1>3. CASE Finished(r, FALSE) /\ UNCHANGED disk
    <2>1. PICK y : Becomes(r, y) /\ y.move = NoMove
      BY <1>1, <1>2, <1>3, FinishedRun
    <2> QED BY <1>1, <1>2, <1>3, <2>1, NothingMoves
  <1>4. CASE ~(Finished(r, FALSE) /\ UNCHANGED disk)
    <2>1. PICK q \in vault :
              /\ Moving(r, "copy out", q.id, q.content)
              /\ Arg(r) \notin DOMAIN disk
              /\ disk' = [g \in DOMAIN disk \cup {Arg(r)} |-> IF g = Arg(r) THEN Part ELSE disk[g]]
      BY <1>4 DEF RestoreOpen
    <2>2. PICK f, id, content : f = Arg(r) /\ id = q.id /\ content = q.content
      OBVIOUS
    <2>3. /\ DOMAIN disk' = DOMAIN disk \cup {f} /\ disk'[f] = Part
          /\ \A g \in DOMAIN disk : disk'[g] = disk[g]
      BY <2>1, <2>2
    <2>4. Fits(run[r], "copy out")
      BY DEF Fits
    <2>0. PICK stage : stage = "copy out"
      OBVIOUS
    <2>5. PICK y : /\ Becomes(r, y) /\ y.move = MoveTo(stage, id, content)
                   /\ y.phase = run[r].phase /\ y.plan = run[r].plan
      <3>1. stage \in Stages \ {"none"}
        BY <2>0 DEF Stages
      <3>2. Moving(r, stage, id, content) /\ Fits(run[r], stage)
        BY <2>0, <1>1, <1>2, <2>1, <2>2, <2>4
      <3> QED BY <1>1, <1>2, <3>1, <3>2, MovingRun
    <2>6. VaultOK'
      BY <1>1 DEF FileInv, VaultOK, VaultIds
    <2>7. FilesSurvive'
      BY <1>1, <2>3, ContentsAre, ContentsWillBe DEF FileInv, FilesSurvive
    <2>8. MoveOK(y.move, Target(y), disk', vault')
      <3>1. Target(y) = f
        BY <2>2, <2>5 DEF Target, Arg
      <3>2. y.move.stage = "copy out" /\ y.move.id = id /\ y.move.content = content
        <4>1. y.move = MoveTo(stage, id, content)
          BY <2>5
        <4>2. y.move.stage = stage /\ y.move.id = id /\ y.move.content = content
          BY <4>1, MoveToFields
        <4> QED BY <2>0, <4>2
      <3> QED BY <1>1, <2>2, <2>3, <3>1, <3>2 DEF MoveOK
    <2> QED BY <1>2, <2>5, <2>6, <2>7, <2>8, FileStep
  <1> QED BY <1>3, <1>4

LEMMA RestoreCopySafe ==
    ASSUME FileInv, NEW r \in Runs, RestoreCopy(r)
    PROVE  FileInv'
  <1>1. run[r].move.stage = "copy out" /\ UNCHANGED vault
    BY DEF RestoreCopy
  <1>2. /\ RunsOK /\ Busy(run[r]) /\ Planned(run[r]) /\ \A s \in Runs \ {r} : ~Busy(run[s])
        /\ MoveOK(run[r].move, Arg(r), disk, vault)
    BY <1>1, MoveFacts
  <1>3. PICK f, id, content : f = Arg(r) /\ id = run[r].move.id /\ content = run[r].move.content
    OBVIOUS
  <1>4. PICK e \in vault : e.id = id /\ e.content = content /\ f \in DOMAIN disk /\ disk[f] = Part
    BY <1>1, <1>2, <1>3 DEF MoveOK
  <1>5. CASE Finished(r, FALSE) /\ UNCHANGED disk
    <2>1. PICK y : Becomes(r, y) /\ y.move = NoMove
      BY <1>2, <1>5, FinishedRun
    <2> QED BY <1>1, <1>2, <1>5, <2>1, NothingMoves
  <1>6. CASE ~(Finished(r, FALSE) /\ UNCHANGED disk)
    <2>1. InVault(id) = {e}
      BY <1>4 DEF InVault, FileInv, VaultOK
    <2>2. (CHOOSE q \in InVault(id) : TRUE) = e /\ InVault(id) # {}
      BY <2>1
    <2>3. /\ disk' = [disk EXCEPT ![f] = content]
          /\ Moving(r, "remove entry", id, content)
      BY <1>3, <1>4, <1>6, <2>2 DEF RestoreCopy
    <2>4. DOMAIN disk' = DOMAIN disk /\ disk'[f] = content /\ \A g \in DOMAIN disk \ {f} : disk'[g] = disk[g]
      BY <1>4, <2>3
    <2>5. Fits(run[r], "remove entry")
      BY DEF Fits
    <2>0. PICK stage : stage = "remove entry"
      OBVIOUS
    <2>6. PICK y : /\ Becomes(r, y) /\ y.move = MoveTo(stage, id, content)
                   /\ y.phase = run[r].phase /\ y.plan = run[r].plan
      <3>1. stage \in Stages \ {"none"}
        BY <2>0 DEF Stages
      <3>2. Moving(r, stage, id, content) /\ Fits(run[r], stage)
        BY <2>0, <1>2, <2>3, <2>5
      <3> QED BY <1>2, <3>1, <3>2, MovingRun
    <2>7. VaultOK'
      BY <1>1 DEF FileInv, VaultOK, VaultIds
    <2>8. FilesSurvive'
      <3> SUFFICES ASSUME NEW c \in Files PROVE c \in Contents'
        BY DEF FilesSurvive
      <3>1. c \in Contents /\ c # Part
        BY HostAssumption DEF FileInv, FilesSurvive
      <3> QED BY <1>1, <1>4, <2>4, <3>1, ContentsAre, ContentsWillBe
    <2>9. MoveOK(y.move, Target(y), disk', vault')
      <3>1. Target(y) = f
        BY <1>3, <2>6 DEF Target, Arg
      <3>2. y.move.stage = "remove entry" /\ y.move.id = id /\ y.move.content = content
        <4>1. y.move = MoveTo(stage, id, content)
          BY <2>6
        <4>2. y.move.stage = stage /\ y.move.id = id /\ y.move.content = content
          BY <4>1, MoveToFields
        <4> QED BY <2>0, <4>2
      <3> QED BY <1>1, <1>4, <2>4, <3>1, <3>2 DEF MoveOK
    <2> QED BY <1>2, <2>6, <2>7, <2>8, <2>9, FileStep
  <1> QED BY <1>5, <1>6

(* An entry that is removed leaves the copy on the disk.                     *)
LEMMA EntryGoneSafe ==
    ASSUME FileInv, NEW r \in Runs, NEW ok, EntryGone(r, ok)
    PROVE  FileInv'
  <1>1. /\ run[r].move.stage = "remove entry" /\ UNCHANGED disk
        /\ vault' = vault \ InVault(run[r].move.id)
        /\ Finished(r, ok)
    BY DEF EntryGone
  <1>2. /\ RunsOK /\ Busy(run[r]) /\ \A s \in Runs \ {r} : ~Busy(run[s])
        /\ MoveOK(run[r].move, Arg(r), disk, vault)
    BY <1>1, MoveFacts
  <1>3. PICK f, id, content : f = Arg(r) /\ id = run[r].move.id /\ content = run[r].move.content
    OBVIOUS
  <1>4. PICK e \in vault : e.id = id /\ e.content = content /\ f \in DOMAIN disk /\ disk[f] = content
    BY <1>1, <1>2, <1>3 DEF MoveOK
  <1>5. vault' = vault \ {e}
    BY <1>1, <1>3, <1>4 DEF InVault, FileInv, VaultOK
  <1>8. PICK y : Becomes(r, y) /\ y.move = NoMove
    BY <1>1, <1>2, FinishedRun
  <1>9. FilesSurvive'
    BY <1>1, <1>4, <1>5, ContentsAre, ContentsWillBe DEF FileInv, FilesSurvive
  <1>10. VaultOK'
    <2>1. VaultIds' \subseteq VaultIds
      BY <1>5 DEF VaultIds
    <2> QED BY <1>5, <2>1, FS_Subset DEF FileInv, VaultOK
  <1>11. MoveOK(y.move, Target(y), disk', vault')
    BY <1>8 DEF MoveOK, NoMove
  <1> QED BY <1>2, <1>8, <1>9, <1>10, <1>11, FileStep

LEMMA RestoreRemoveSafe ==
    ASSUME FileInv, NEW r \in Runs, RestoreRemove(r)
    PROVE  FileInv'
  <1>1. \/ EntryGone(r, InVault(run[r].move.id) # {})
        \/ run[r].move.stage = "remove entry" /\ Finished(r, FALSE) /\ UNCHANGED <<disk, vault>>
    BY DEF RestoreRemove, EntryGone, rules, isolation
  <1>2. PICK ok : ok = (InVault(run[r].move.id) # {})
    OBVIOUS
  <1>3. \/ EntryGone(r, ok)
        \/ run[r].move.stage = "remove entry" /\ Finished(r, FALSE) /\ UNCHANGED <<disk, vault>>
    BY <1>1, <1>2
  <1> QED BY <1>3, EntryGoneSafe, BreakSafe

LEMMA FilesStart == HostInit => FileInv
  <1> SUFFICES ASSUME HostInit PROVE FileInv OBVIOUS
  <1>1. RunsOK
    BY HostStarts DEF HostInv
  <1>2. /\ disk = [f \in Files |-> f] /\ vault = {}
        /\ \A r \in Runs : run[r].phase = "idle"
    BY DEF HostInit
  <1>3. \A r \in Runs : ~Busy(run[r])
    BY <1>2 DEF Busy
  <1>4. \A r \in Runs : MoveOK(run[r].move, Target(run[r]), disk, vault)
    BY <1>1, <1>3, AtRest DEF MoveOK, RunsOK
  <1>5. VaultOK
    BY <1>2, FS_EmptySet DEF VaultOK, VaultIds
  <1>6. FilesSurvive
    BY <1>2, ContentsAre DEF FilesSurvive
  <1> QED BY <1>1, <1>3, <1>4, <1>5, <1>6 DEF FileInv, Alone

(* With one execution at a time, none begins while another goes on.          *)
LEMMA BeginAlone ==
    ASSUME Active = 1, FileInv, NEW r \in Runs, Begin(r)
    PROVE  \A s \in Runs : ~Busy(run[s])
  <1> DEFINE busy == {s \in Runs : run[s].phase \notin {"idle", "done"}}
  <1>1. Cardinality(busy) < 1
    BY DEF Begin
  <1>2. \A s \in Runs : s \in busy <=> Busy(run[s])
    BY DEF FileInv, RunsOK, RunOK, Busy
  <1>3. ASSUME NEW s \in busy PROVE FALSE
    <2>1. busy = {s}
      BY <1>2, <1>3 DEF FileInv, Alone
    <2> HIDE DEF busy
    <2>2. Cardinality(busy) = 1
      BY <2>1, FS_Singleton
    <2> QED BY <1>1, <2>2
  <1> QED BY <1>2, <1>3

LEMMA FilesKeep == Active = 1 /\ FileInv /\ [HostNext]_hostVars => FileInv'
  <1> SUFFICES ASSUME Active = 1, FileInv, [HostNext]_hostVars PROVE FileInv' OBVIOUS
  <1>1. ASSUME NEW r \in Runs, Begin(r) \/ RollBack(r) \/ Close(r) \/ Refused(r) PROVE FileInv'
    <2>1. UNCHANGED <<disk, vault>>
      BY <1>1 DEF Begin, RollBack, Close, Refused
    <2>2. PICK y : Becomes(r, y) /\ y.move = NoMove
      BY <1>1, QuietRun DEF FileInv
    <2>3. \A s \in Runs \ {r} : ~Busy(run[s])
      <3>1. CASE Begin(r) BY <3>1, BeginAlone
      <3>2. CASE ~Begin(r)
        <4>1. Busy(run[r])
          BY <1>1, <3>2 DEF RollBack, Close, Refused, Doing, Busy
        <4> QED BY <4>1, OthersRest DEF FileInv
      <3> QED BY <3>1, <3>2
    <2> QED BY <2>1, <2>2, <2>3, NothingMoves
  <1>2. ASSUME NEW r \in Runs, BlockIP(r) \/ UnblockIP(r) \/ IsolateHost(r) \/ UnisolateHost(r) PROVE FileInv'
    <2>1. UNCHANGED <<disk, vault>> /\ \E ok : Finished(r, ok)
      BY <1>2 DEF BlockIP, UnblockIP, IsolateHost, UnisolateHost
    <2>2. Busy(run[r])
      BY <1>2, DoingFacts DEF BlockIP, UnblockIP, IsolateHost, UnisolateHost
    <2>3. PICK y : Becomes(r, y) /\ y.move = NoMove
      BY <2>1, <2>2, FinishedRun DEF FileInv
    <2> QED BY <2>1, <2>2, <2>3, OthersRest, NothingMoves DEF FileInv
  <1>3. ASSUME NEW r \in Runs,
               \/ QuarantineOpen(r) \/ QuarantineCopy(r) \/ QuarantineRemove(r)
               \/ RestoreOpen(r) \/ RestoreCopy(r) \/ RestoreRemove(r)
        PROVE  FileInv'
    BY <1>3, QuarantineOpenSafe, QuarantineCopySafe, QuarantineRemoveSafe,
       RestoreOpenSafe, RestoreCopySafe, RestoreRemoveSafe
  <1>4. CASE UNCHANGED hostVars
    <2>1. UNCHANGED <<disk, vault, run>>
      BY <1>4 DEF hostVars
    <2> QED BY <2>1 DEF FileInv, RunsOK, Alone, VaultOK, VaultIds, FilesSurvive, Contents
  <1> QED BY <1>1, <1>2, <1>3, <1>4 DEF HostNext

(* moveFileByCopy and the quarantine: whichever copy fails, the content of   *)
(* each file is whole on disk or in the quarantine, as long as one playbook  *)
(* is executed at a time (the defender's loop alone).                        *)
THEOREM FilesKept ==
    ASSUME Active = 1
    PROVE  HostSpec => []FilesSurvive
  <1>1. FileInv => FilesSurvive
    BY DEF FileInv
  <1>2. FileInv /\ [HostNext]_hostVars => FileInv'
    BY FilesKeep
  <1> QED BY FilesStart, <1>1, <1>2, PTL DEF HostSpec

-----------------------------------------------------------------------------
(* HostActions: a rollback restores the machine, for every set of playbooks  *)
(* of actions that have an inverse, executed one at a time.                  *)

Forward == {"block_ip", "isolate_host", "quarantine_file"}
Backward == {"unblock_ip", "unisolate_host", "unquarantine_file"}
InverseOf == [block_ip |-> "unblock_ip", isolate_host |-> "unisolate_host",
              quarantine_file |-> "unquarantine_file"]
Invertible == \A plan \in Plans : \A i \in DOMAIN plan : plan[i].action \in Forward

Args == UNION {{plan[i].arg : i \in DOMAIN plan} : plan \in Plans}
Modes == UNION {{plan[i].onFailure : i \in DOMAIN plan} : plan \in Plans}
Steps == [action : Forward \cup Backward, arg : Args, onFailure : Modes]

(* How often a list of steps has an action for one of these arguments.       *)
Matching(s, action, args) == {i \in DOMAIN s : s[i].action = action /\ s[i].arg \in args}
Times(s, action, args) == Cardinality(Matching(s, action, args))
One(t, action, args) == IF t.action = action /\ t.arg \in args THEN 1 ELSE 0

(* An execution: the machine it found, the files of its playbook, and what   *)
(* is still to be taken back.                                                *)
Found(x) == x.before[1]
ArgsOf(x) == {x.book[i].arg : i \in DOMAIN x.book}
FilesOf(x) == ArgsOf(x) \cap Files
Owed(x) == IF x.phase = "acting" THEN x.undo ELSE x.plan

DiskOK(d) == d = [f \in DOMAIN d |-> d[f]] /\ DOMAIN d \subseteq Files

MachineOK(m) ==
    /\ m = [input |-> m.input, output |-> m.output, jumps |-> m.jumps, chain |-> m.chain,
            disk |-> m.disk, kept |-> m.kept]
    /\ m.input \in [Blocked -> Nat] /\ m.output \in [Blocked -> Nat]
    /\ DiskOK(m.disk)
    /\ m.chain = "none" => m.jumps = [in |-> 0, out |-> 0]

(* A file is brought back only where there was one.                          *)
Lists(s, actions, args) ==
    /\ s \in Seq(Steps)
    /\ \A i \in DOMAIN s :
         /\ s[i].action \in actions /\ s[i].arg \in args
         /\ s[i].action = "unquarantine_file" => s[i].arg \in Files

Orderly(x) ==
    /\ x.phase = "idle" => x.undo = << >>
    /\ Busy(x) =>
         /\ Lists(x.plan, IF x.phase = "acting" THEN Forward ELSE Backward, ArgsOf(x))
         /\ Lists(x.undo, Backward, ArgsOf(x))
         /\ MachineOK(Found(x))

(* What RollbackRestores asks of an execution.                               *)
Settled(x) ==
    /\ x.clean
    /\ Found(x).chain = "none" /\ Found(x).kept = {}
    /\ \A f, g \in FilesOf(x) : BaseOf[g] \in NamesUnder[BaseOf[f]] => f = g

RulesOwed(x, in, out) ==
    \A a \in Blocked :
      /\ in[a] = Found(x).input[a] + Times(Owed(x), "unblock_ip", {a})
      /\ out[a] = Found(x).output[a] + Times(Owed(x), "unblock_ip", {a})

JumpsOwed(x, j, c) ==
    LET n == Times(Owed(x), "unisolate_host", Args)
    IN  j = [in |-> n, out |-> n] /\ (c = "none" <=> n = 0)

(* The files and the quarantine without the copy that is being made.         *)
DiskNow(x, d) ==
    IF x.move.stage \in {"copy out", "remove entry"}
    THEN [f \in DOMAIN d \ {Target(x)} |-> d[f]] ELSE d
VaultNow(x, v) ==
    IF x.move.stage \in {"copy in", "remove source"}
    THEN {q \in v : q.id # x.move.id} ELSE v

Keeps(q, m, f) == q.base = BaseOf[f] /\ q.content = m.disk[f]

(* A file is where it was, or in the quarantine and owed once.               *)
FilesOwed(x, d, v) ==
    LET m == Found(x)
        away == DOMAIN m.disk \ DOMAIN d
    IN  /\ DOMAIN d \subseteq DOMAIN m.disk /\ \A f \in DOMAIN d : d[f] = m.disk[f]
        /\ \A f \in DOMAIN m.disk : Times(Owed(x), "unquarantine_file", {f}) = IF f \in away THEN 1 ELSE 0
        /\ away \subseteq FilesOf(x)
        /\ \A f \in away : \E q \in v : Keeps(q, m, f)
        /\ \A q \in v : \E f \in away : Keeps(q, m, f)
        /\ \A p, q \in v : p.base = q.base => p = q

(* A copy is one of the target's.                                            *)
Underway(x, v) ==
    x.move.stage # "none" =>
      /\ Target(x) \in DOMAIN Found(x).disk
      /\ \E q \in v : q.id = x.move.id /\ q.base = BaseOf[Target(x)]
      /\ x.move.content = Found(x).disk[Target(x)]
      /\ x.move.stage \in {"copy out", "remove entry"} => Head(x.plan).action = "unquarantine_file"

Restorable(x, in, out, j, c, d, v) ==
    /\ RulesOwed(x, in, out)
    /\ JumpsOwed(x, j, c)
    /\ FilesOwed(x, DiskNow(x, d), VaultNow(x, v))
    /\ Underway(x, v)

RollInv ==
    /\ HostInv /\ FileInv
    /\ faults \in Nat
    /\ DiskOK(disk)
    /\ chain = "none" => jumps = [in |-> 0, out |-> 0]
    /\ \A r \in Runs : Orderly(run[r])
    /\ \A r \in Runs : Busy(run[r]) /\ Settled(run[r]) /\ faults = 0 =>
         Restorable(run[r], input, output, jumps, chain, disk, vault)

LEMMA SettledApart ==
    ASSUME NEW x, Settled(x), NEW f \in FilesOf(x), NEW g \in FilesOf(x), BaseOf[f] = BaseOf[g]
    PROVE  f = g
  <1>1. BaseOf[f] \in NamesUnder[BaseOf[f]]
    BY HostAssumption DEF FilesOf
  <1> QED BY <1>1 DEF Settled

(* What each definition of this section counts is a step of a playbook or    *)
(* its inverse.                                                              *)
LEMMA StepsOfPlans ==
    ASSUME Invertible, NEW plan \in Plans
    PROVE  plan \in Seq(Steps)
  <1>1. ASSUME NEW i \in DOMAIN plan  PROVE plan[i] \in Steps
    <2>1. plan[i] = [action |-> plan[i].action, arg |-> plan[i].arg, onFailure |-> plan[i].onFailure]
      BY HostAssumption
    <2>2. plan[i].action \in Forward \cup Backward
      BY DEF Invertible
    <2>3. plan[i].arg \in Args /\ plan[i].onFailure \in Modes
      BY DEF Args, Modes
    <2> QED BY <2>1, <2>2, <2>3 DEF Steps
  <1> QED BY <1>1, HostAssumption

(* Counting over a list and over its tail. *)
LEMMA TimesTail ==
    ASSUME NEW s \in Seq(Steps), s # << >>, NEW action, NEW args
    PROVE  /\ Times(s, action, args) \in Nat /\ Times(Tail(s), action, args) \in Nat
           /\ Times(s, action, args) = Times(Tail(s), action, args) + One(Head(s), action, args)
  <1> DEFINE M == Matching(s, action, args)
             T == Matching(Tail(s), action, args)
             U == {i + 1 : i \in T}
             n == Len(s)
             shift == [i \in T |-> i + 1]
  <1>1. /\ n \in Nat \ {0} /\ DOMAIN s = 1 .. n /\ DOMAIN Tail(s) = 1 .. n - 1
        /\ \A i \in 1 .. n - 1 : Tail(s)[i] = s[i + 1]
        /\ Head(s) = s[1]
    OBVIOUS
  <1>2. T \subseteq 1 .. n - 1
    BY <1>1 DEF Matching
  <1>3. IsFiniteSet(T) /\ Cardinality(T) \in Nat
    <2>1. IsFiniteSet(1 .. n - 1)
      BY <1>1, FS_Interval
    <2> QED BY <1>2, <2>1, FS_Subset, FS_CardinalityType
  <1>4. shift \in Bijection(T, U)
    BY <1>2 DEF Bijection, Injection, Surjection, IsInjective
  <1>5. IsFiniteSet(U) /\ Cardinality(U) = Cardinality(T)
    BY <1>3, <1>4, FS_Bijection DEF ExistsBijection
  <1>6. \A j \in U : j # 1
    BY <1>2
  <1>7. \A j \in 2 .. n : j \in M <=> j \in U
    <2> TAKE j \in 2 .. n
    <2>1. j - 1 \in 1 .. n - 1 /\ Tail(s)[j - 1] = s[j]
      BY <1>1
    <2>2. j \in U <=> j - 1 \in T
      BY <1>2
    <2> QED BY <1>1, <2>1, <2>2 DEF Matching
  <1>8. /\ M \subseteq {1} \cup 2 .. n /\ U \subseteq 2 .. n
        /\ 1 \notin 2 .. n
    BY <1>1, <1>2 DEF Matching
  <1>9. 1 \in M <=> Head(s).action = action /\ Head(s).arg \in args
    BY <1>1 DEF Matching
  <1> HIDE DEF M, T, U, n, shift
  <1>10. CASE 1 \in M
    <2>1. M = U \cup {1} /\ 1 \notin U
      BY <1>6, <1>7, <1>8, <1>10
    <2>2. Cardinality(M) = Cardinality(U) + 1
      BY <1>5, <2>1, FS_AddElement
    <2> QED BY <1>3, <1>5, <1>9, <1>10, <2>2 DEF One, Times, M, T
  <1>11. CASE 1 \notin M
    <2>1. M = U
      BY <1>6, <1>7, <1>8, <1>11
    <2> QED BY <1>3, <1>5, <1>9, <1>11, <2>1 DEF One, Times, M, T
  <1> QED BY <1>10, <1>11

LEMMA TimesNone ==
    ASSUME NEW action, NEW args
    PROVE  Times(<< >>, action, args) = 0
  <1>1. Matching(<< >>, action, args) = {}
    BY DEF Matching
  <1> QED BY <1>1, FS_EmptySet DEF Times

LEMMA TimesType ==
    ASSUME NEW s \in Seq(Steps), NEW action, NEW args
    PROVE  Times(s, action, args) \in Nat
  <1>1. CASE s = << >>
    BY <1>1, TimesNone
  <1>2. CASE s # << >>
    BY <1>2, TimesTail
  <1> QED BY <1>1, <1>2

LEMMA TimesInFront ==
    ASSUME NEW s \in Seq(Steps), NEW t \in Steps, NEW action, NEW args
    PROVE  /\ <<t>> \o s \in Seq(Steps)
           /\ Times(<<t>> \o s, action, args) = Times(s, action, args) + One(t, action, args)
  <1> DEFINE u == <<t>> \o s
  <1>1. u \in Seq(Steps) /\ u # << >> /\ Head(u) = t /\ Tail(u) = s
    BY HeadTailAppend
  <1> QED BY <1>1, TimesTail

(* What a step of its action leaves of an execution.                         *)
LEMMA FinishedFields ==
    ASSUME RunsOK, NEW r \in Runs, Busy(run[r]), NEW ok, Finished(r, ok)
    PROVE  \E y : /\ Becomes(r, y) /\ y.move = NoMove
                  /\ y.phase = run[r].phase /\ y.book = run[r].book /\ y.before = run[r].before
                  /\ y.plan = IF ok \/ (run[r].phase = "acting" /\ Head(run[r].plan).onFailure = "continue")
                              THEN Tail(run[r].plan) ELSE << >>
                  /\ y.undo = IF ok /\ run[r].phase = "acting"
                              THEN Compensation(Head(run[r].plan)) \o run[r].undo ELSE run[r].undo
                  /\ y.clean = (run[r].clean /\ ok)
  <1> DEFINE x == run[r]
             step == Head(x.plan)
             rest == IF ok \/ (x.phase = "acting" /\ step.onFailure = "continue")
                     THEN Tail(x.plan) ELSE <<>>
             undo == IF ok /\ x.phase = "acting" THEN Compensation(step) \o x.undo ELSE x.undo
             clean == x.clean /\ ok
             y == [x EXCEPT !.plan = rest, !.move = NoMove, !.undo = undo, !.clean = clean]
  <1>1. RunOK(x) /\ DOMAIN x = Fields /\ Busy(x)
    BY DEF RunsOK, RunOK
  <1>2. run' = [run EXCEPT ![r] = y]
    BY DEF Finished, Undo
  <1> HIDE DEF rest, undo, clean, x
  <1>3. /\ DOMAIN y = Fields /\ y.move = NoMove /\ y.phase = x.phase /\ y.book = x.book
        /\ y.before = x.before /\ y.plan = rest /\ y.undo = undo
    BY <1>1 DEF Fields
  <1>4. y.clean = clean
    BY <1>1 DEF Fields
  <1> HIDE DEF y
  <1>5. NoMove.stage = "none"
    BY DEF NoMove
  <1>6. RunOK(y)
    BY <1>1, <1>3, <1>5 DEF RunOK, Stages, Busy, Fits
  <1> QED BY <1>2, <1>3, <1>4, <1>6 DEF Becomes, x, rest, undo, clean

LEMMA MovingFields ==
    ASSUME RunsOK, NEW r \in Runs, Busy(run[r]), Planned(run[r]),
           NEW stage, stage \in Stages \ {"none"}, NEW id, NEW content, Moving(r, stage, id, content),
           Fits(run[r], stage)
    PROVE  \E y : /\ Becomes(r, y)
                  /\ y.move.stage = stage /\ y.move.id = id /\ y.move.content = content
                  /\ y.phase = run[r].phase /\ y.book = run[r].book /\ y.before = run[r].before
                  /\ y.plan = run[r].plan /\ y.undo = run[r].undo /\ y.clean = run[r].clean
  <1> DEFINE x == run[r]
             m == [stage |-> stage, id |-> id, content |-> content]
             y == [x EXCEPT !.move = m]
  <1>1. RunOK(x) /\ DOMAIN x = Fields /\ m.stage = stage /\ m.id = id /\ m.content = content
    BY DEF RunsOK, RunOK
  <1>2. run' = [run EXCEPT ![r] = y]
    BY DEF Moving
  <1>3. Planned(x) /\ Busy(x) /\ Fits(x, stage)
    OBVIOUS
  <1> HIDE DEF x, m
  <1>4. /\ DOMAIN y = Fields /\ y.move = m /\ y.phase = x.phase /\ y.plan = x.plan
        /\ y.book = x.book /\ y.before = x.before /\ y.undo = x.undo
    BY <1>1 DEF Fields
  <1>5. y.clean = x.clean
    BY <1>1 DEF Fields
  <1> HIDE DEF y
  <1>6. RunOK(y)
    BY <1>1, <1>3, <1>4 DEF RunOK, Busy, Planned, Fits
  <1> QED BY <1>1, <1>2, <1>4, <1>5, <1>6 DEF Becomes, x

(* One execution goes on, and the others are at rest. *)
LEMMA RollStep ==
    ASSUME RollInv, NEW r \in Runs, \A s \in Runs \ {r} : ~Busy(run[s]), NEW y, Becomes(r, y),
           HostInv', FileInv', faults' \in Nat,
           DiskOK(disk'),
           chain' = "none" => jumps' = [in |-> 0, out |-> 0],
           Orderly(y),
           Busy(y) /\ Settled(y) /\ faults' = 0 =>
             Restorable(y, input', output', jumps', chain', disk', vault')
    PROVE  RollInv'
  <1>1. run'[r] = y /\ \A s \in Runs \ {r} : run'[s] = run[s]
    BY BecomesOK DEF RollInv, HostInv
  <1>2. ASSUME NEW s \in Runs
        PROVE  /\ Orderly(run'[s])
               /\ Busy(run'[s]) /\ Settled(run'[s]) /\ faults' = 0 =>
                    Restorable(run'[s], input', output', jumps', chain', disk', vault')
    <2>1. CASE s = r
      BY <1>1, <2>1
    <2>2. CASE s # r
      BY <1>1, <2>2 DEF RollInv
    <2> QED BY <2>1, <2>2
  <1> QED BY <1>2 DEF RollInv

(* A step that had no failure had none before it. *)
LEMMA NoFault ==
    ASSUME RollInv, UNCHANGED faults \/ Fault
    PROVE  faults' \in Nat /\ (faults' = 0 => faults = 0 /\ ~Fault)
  BY DEF RollInv, Fault

(* How often an action is owed when the step that is executed has ended well. *)
OwedNext(x, action, args) ==
    IF x.phase = "undoing" THEN Times(Owed(x), action, args) - One(Head(x.plan), action, args)
    ELSE Times(Owed(x), action, args)
         + IF Head(x.plan).arg \in args /\ action = InverseOf[Head(x.plan).action] THEN 1 ELSE 0

LEMMA HeadActs ==
    ASSUME NEW x, Busy(x), Planned(x), Orderly(x)
    PROVE  /\ x.plan \in Seq(Steps) /\ x.undo \in Seq(Steps) /\ x.plan # << >>
           /\ Head(x.plan) \in Steps
           /\ Head(x.plan).action \in IF x.phase = "acting" THEN Forward ELSE Backward
           /\ Head(x.plan).arg \in ArgsOf(x)
           /\ Head(x.plan).action = "unquarantine_file" => Head(x.plan).arg \in Files
  <1>1. x.plan \in Seq(Steps) /\ x.undo \in Seq(Steps) /\ x.plan # << >>
    BY DEF Orderly, Lists, Planned
  <1>2. Head(x.plan) = x.plan[1] /\ 1 \in DOMAIN x.plan /\ x.plan[1] \in Steps
    BY <1>1
  <1> QED BY <1>1, <1>2 DEF Orderly, Lists

LEMMA Inverted ==
    ASSUME NEW t \in Steps, t.action \in Forward
    PROVE  \E u \in Steps : /\ Compensation(t) = <<u>>
                            /\ u.action = InverseOf[t.action] /\ u.action \in Backward /\ u.arg = t.arg
  <1> DEFINE u == [t EXCEPT !.action = InverseOf[t.action]]
  <1>1. Compensation(t) = <<u>>
    BY DEF Compensation, Forward, InverseOf
  <1>2. InverseOf[t.action] \in Backward
    BY DEF Forward, Backward, InverseOf
  <1>3. u \in Steps /\ u.action = InverseOf[t.action] /\ u.arg = t.arg
    BY <1>2 DEF Steps
  <1> QED BY <1>1, <1>2, <1>3

(* An action that ends well is taken off the plan, and its inverse is owed. *)
LEMMA OwedAfter ==
    ASSUME NEW x, Busy(x), Planned(x), Orderly(x), NEW y, y.phase = x.phase,
           y.plan = Tail(x.plan),
           y.undo = IF x.phase = "acting" THEN Compensation(Head(x.plan)) \o x.undo ELSE x.undo,
           NEW action \in Backward, NEW args
    PROVE  Times(Owed(y), action, args) = OwedNext(x, action, args)
  <1>1. /\ x.plan \in Seq(Steps) /\ x.undo \in Seq(Steps) /\ x.plan # << >>
        /\ Head(x.plan) \in Steps
        /\ Head(x.plan).action \in IF x.phase = "acting" THEN Forward ELSE Backward
    BY HeadActs
  <1>2. CASE x.phase = "undoing"
    <2>1. Owed(x) = x.plan /\ Owed(y) = Tail(x.plan)
      BY <1>2 DEF Owed
    <2>2. /\ Times(Owed(y), action, args) \in Nat
          /\ Times(Owed(x), action, args) = Times(Owed(y), action, args) + One(Head(x.plan), action, args)
      BY <1>1, <2>1, TimesTail
    <2>3. One(Head(x.plan), action, args) \in Nat
      BY DEF One
    <2> QED BY <1>2, <2>2, <2>3 DEF OwedNext
  <1>3. CASE x.phase = "acting"
    <2> DEFINE t == Head(x.plan)
    <2>1. PICK u \in Steps : Compensation(t) = <<u>> /\ u.action = InverseOf[t.action] /\ u.arg = t.arg
      BY <1>1, <1>3, Inverted
    <2> HIDE DEF t
    <2>2. Owed(x) = x.undo /\ Owed(y) = <<u>> \o x.undo
      BY <1>3, <2>1 DEF Owed, t
    <2>3. Times(Owed(y), action, args) = Times(Owed(x), action, args) + One(u, action, args)
      BY <1>1, <2>2, TimesInFront
    <2> QED BY <1>3, <2>1, <2>3 DEF One, OwedNext, t
  <1> QED BY <1>2, <1>3 DEF Busy

(* Its plan and what it owes stay lists of the actions they are made of. *)
LEMMA OrderlyAfter ==
    ASSUME NEW x, Busy(x), Planned(x), Orderly(x), NEW y, y.phase = x.phase,
           y.book = x.book, y.before = x.before,
           y.plan = Tail(x.plan) \/ y.plan = << >>,
           \/ y.undo = x.undo
           \/ /\ x.phase = "acting" /\ y.undo = Compensation(Head(x.plan)) \o x.undo
              /\ Head(x.plan).action = "quarantine_file" => Head(x.plan).arg \in Files
    PROVE  Orderly(y)
  <1>1. /\ x.plan \in Seq(Steps) /\ x.undo \in Seq(Steps) /\ x.plan # << >>
        /\ Head(x.plan) \in Steps
        /\ Head(x.plan).action \in IF x.phase = "acting" THEN Forward ELSE Backward
        /\ Head(x.plan).arg \in ArgsOf(x)
        /\ Head(x.plan).action = "unquarantine_file" => Head(x.plan).arg \in Files
    BY HeadActs
  <1>2. ASSUME NEW actions, NEW args, Lists(x.plan, actions, args)  PROVE Lists(y.plan, actions, args)
    <2>1. CASE y.plan = << >>
      BY <2>1 DEF Lists
    <2>2. CASE y.plan = Tail(x.plan)
      <3>1. /\ y.plan \in Seq(Steps)
            /\ \A i \in DOMAIN y.plan : i + 1 \in DOMAIN x.plan /\ y.plan[i] = x.plan[i + 1]
        BY <1>1, <2>2
      <3> QED BY <1>2, <3>1 DEF Lists
    <2> QED BY <2>1, <2>2
  <1>3. Lists(x.undo, Backward, ArgsOf(x))
    BY DEF Orderly
  <1>4. Lists(y.undo, Backward, ArgsOf(x))
    <2>1. CASE /\ x.phase = "acting" /\ y.undo = Compensation(Head(x.plan)) \o x.undo
               /\ Head(x.plan).action = "quarantine_file" => Head(x.plan).arg \in Files
      <3> DEFINE t == Head(x.plan)
      <3>1. PICK u \in Steps : /\ Compensation(t) = <<u>> /\ u.action = InverseOf[t.action]
                               /\ u.action \in Backward /\ u.arg = t.arg
        BY <1>1, <2>1, Inverted
      <3>2. u.action = "unquarantine_file" => t.action = "quarantine_file"
        BY <1>1, <2>1, <3>1 DEF Forward, InverseOf
      <3>3. u.arg \in ArgsOf(x) /\ (u.action = "unquarantine_file" => u.arg \in Files)
        <4>1. t.arg \in ArgsOf(x)
          BY <1>1
        <4>2. t.action = "quarantine_file" => t.arg \in Files
          BY <2>1
        <4> QED BY <3>1, <3>2, <4>1, <4>2
      <3> HIDE DEF t
      <3>4. y.undo = <<u>> \o x.undo
        BY <2>1, <3>1 DEF t
      <3>5. /\ y.undo \in Seq(Steps)
            /\ \A i \in DOMAIN y.undo :
                 y.undo[i] = u \/ (i - 1 \in DOMAIN x.undo /\ y.undo[i] = x.undo[i - 1])
        <4>1. <<u>> \in Seq(Steps) /\ Len(<<u>>) = 1 /\ <<u>>[1] = u
          OBVIOUS
        <4>2. /\ y.undo \in Seq(Steps) /\ Len(y.undo) = 1 + Len(x.undo) /\ Len(x.undo) \in Nat
              /\ DOMAIN y.undo = 1 .. Len(y.undo) /\ DOMAIN x.undo = 1 .. Len(x.undo)
              /\ \A i \in 1 .. 1 + Len(x.undo) :
                    y.undo[i] = IF i <= 1 THEN <<u>>[i] ELSE x.undo[i - 1]
          BY <1>1, <3>4, <4>1
        <4>3. ASSUME NEW i \in DOMAIN y.undo
              PROVE  y.undo[i] = u \/ (i - 1 \in DOMAIN x.undo /\ y.undo[i] = x.undo[i - 1])
          <5>1. i \in 1 .. 1 + Len(x.undo)
            BY <4>2
          <5>2. CASE i <= 1
            <6>1. i = 1
              BY <4>2, <5>1, <5>2
            <6> QED BY <4>1, <4>2, <5>1, <6>1
          <5>3. CASE ~(i <= 1)
            BY <4>2, <5>1, <5>3
          <5> QED BY <5>2, <5>3
        <4> QED BY <4>2, <4>3
      <3> QED BY <1>3, <3>1, <3>3, <3>5 DEF Lists
    <2> QED BY <1>3, <2>1
  <1>5. ArgsOf(y) = ArgsOf(x) /\ Found(y) = Found(x)
    BY DEF ArgsOf, Found
  <1>6. Busy(y) /\ y.phase # "idle"
    BY DEF Busy
  <1> QED BY <1>2, <1>4, <1>5, <1>6 DEF Orderly

(* The end of an action, in one. *)
LEMMA Ending ==
    ASSUME RollInv, NEW r \in Runs, Busy(run[r]), Planned(run[r]), NEW ok \in BOOLEAN, Finished(r, ok),
           ok /\ Head(run[r].plan).action = "quarantine_file" => Head(run[r].plan).arg \in Files
    PROVE  \E y : /\ Becomes(r, y) /\ y.move = NoMove /\ Orderly(y)
                  /\ y.book = run[r].book /\ y.before = run[r].before
                  /\ Settled(y) => /\ ok /\ Settled(run[r])
                                   /\ \A action \in Backward : \A args :
                                         Times(Owed(y), action, args) = OwedNext(run[r], action, args)
  <1>1. RunsOK /\ Orderly(run[r])
    BY DEF RollInv, HostInv
  <1>2. PICK y : /\ Becomes(r, y) /\ y.move = NoMove
                 /\ y.phase = run[r].phase /\ y.book = run[r].book /\ y.before = run[r].before
                 /\ y.plan = IF ok \/ (run[r].phase = "acting" /\ Head(run[r].plan).onFailure = "continue")
                             THEN Tail(run[r].plan) ELSE << >>
                 /\ y.undo = IF ok /\ run[r].phase = "acting"
                             THEN Compensation(Head(run[r].plan)) \o run[r].undo ELSE run[r].undo
                 /\ y.clean = (run[r].clean /\ ok)
    BY <1>1, FinishedFields
  <1>3. Orderly(y)
    BY <1>1, <1>2, OrderlyAfter
  <1>4. ASSUME Settled(y)
        PROVE  /\ ok /\ Settled(run[r])
               /\ \A action \in Backward : \A args :
                     Times(Owed(y), action, args) = OwedNext(run[r], action, args)
    <2>1. ok /\ run[r].clean
      BY <1>2, <1>4 DEF Settled
    <2>2. FilesOf(y) = FilesOf(run[r]) /\ Found(y) = Found(run[r])
      BY <1>2 DEF ArgsOf, FilesOf, Found
    <2>3. Settled(run[r])
      BY <1>4, <2>1, <2>2 DEF Settled
    <2>4. ASSUME NEW action \in Backward, NEW args
          PROVE  Times(Owed(y), action, args) = OwedNext(run[r], action, args)
      BY <1>1, <1>2, <2>1, OwedAfter
    <2> QED BY <2>1, <2>3, <2>4
  <1> QED BY <1>2, <1>3, <1>4

(* Files are not touched by a step that moves none and owes none. *)
LEMMA FilesStay ==
    ASSUME NEW x, NEW y, x.move = NoMove, y.move = NoMove, y.book = x.book, y.before = x.before,
           NEW d, NEW v, FilesOwed(x, DiskNow(x, d), VaultNow(x, v)),
           \A f : Times(Owed(y), "unquarantine_file", {f}) = Times(Owed(x), "unquarantine_file", {f})
    PROVE  FilesOwed(y, DiskNow(y, d), VaultNow(y, v)) /\ Underway(y, v)
  <1>1. /\ DiskNow(x, d) = d /\ VaultNow(x, v) = v /\ DiskNow(y, d) = d /\ VaultNow(y, v) = v
        /\ Underway(y, v)
    BY DEF DiskNow, VaultNow, Underway, NoMove
  <1>2. Found(y) = Found(x) /\ FilesOf(y) = FilesOf(x)
    BY DEF Found, ArgsOf, FilesOf
  <1> QED BY <1>1, <1>2 DEF FilesOwed

(* The others are at rest while one acts. *)
LEMMA RollActs ==
    ASSUME RollInv, NEW r \in Runs, NEW action, Doing(r, action)
    PROVE  /\ Busy(run[r]) /\ Planned(run[r]) /\ Orderly(run[r]) /\ run[r].move = NoMove
           /\ Head(run[r].plan).action = action
           /\ \A s \in Runs \ {r} : ~Busy(run[s])
  <1>1. Busy(run[r]) /\ Planned(run[r]) /\ run[r].move = NoMove /\ Head(run[r].plan).action = action
    BY DoingFacts
  <1> QED BY <1>1, OthersRest DEF RollInv, FileInv

(* The steps of an action on the rules or the chain end it.                  *)
LEMMA RuleStep ==
    ASSUME RollInv, NEW r \in Runs, NEW action, Doing(r, action),
           action \in {"block_ip", "unblock_ip", "isolate_host", "unisolate_host"},
           NEW ok \in BOOLEAN, Finished(r, ok), HostInv', FileInv',
           UNCHANGED <<disk, vault>>, UNCHANGED faults \/ Fault,
           chain' = "none" => jumps' = [in |-> 0, out |-> 0],
           \A y : /\ y.before = run[r].before
                  /\ \A act \in Backward : \A args :
                       Times(Owed(y), act, args) = OwedNext(run[r], act, args)
                  /\ ok /\ ~Fault
                  /\ RulesOwed(run[r], input, output) /\ JumpsOwed(run[r], jumps, chain)
                  => RulesOwed(y, input', output') /\ JumpsOwed(y, jumps', chain')
    PROVE  RollInv'
  <1>1. /\ Busy(run[r]) /\ Planned(run[r]) /\ Orderly(run[r]) /\ run[r].move = NoMove
        /\ Head(run[r].plan).action = action
        /\ \A s \in Runs \ {r} : ~Busy(run[s])
    BY RollActs
  <1>2. PICK y : /\ Becomes(r, y) /\ y.move = NoMove /\ Orderly(y)
                 /\ y.book = run[r].book /\ y.before = run[r].before
                 /\ Settled(y) => /\ ok /\ Settled(run[r])
                                  /\ \A act \in Backward : \A args :
                                        Times(Owed(y), act, args) = OwedNext(run[r], act, args)
    BY <1>1, Ending
  <1>3. faults' \in Nat /\ (faults' = 0 => faults = 0 /\ ~Fault)
    BY NoFault
  <1>4. DiskOK(disk')
    BY DEF RollInv
  <1>5. ASSUME Settled(y), faults' = 0
        PROVE  Restorable(y, input', output', jumps', chain', disk', vault')
    <2>1. Restorable(run[r], input, output, jumps, chain, disk, vault)
      BY <1>1, <1>2, <1>3, <1>5 DEF RollInv
    <2>2. RulesOwed(y, input', output') /\ JumpsOwed(y, jumps', chain')
      BY <1>2, <1>3, <1>5, <2>1 DEF Restorable
    <2>3. ASSUME NEW f
          PROVE  Times(Owed(y), "unquarantine_file", {f}) = Times(Owed(run[r]), "unquarantine_file", {f})
      <3>1. Times(Owed(y), "unquarantine_file", {f}) = OwedNext(run[r], "unquarantine_file", {f})
        BY <1>2, <1>5 DEF Backward
      <3>2. Owed(run[r]) \in Seq(Steps)
        BY <1>1 DEF Orderly, Lists, Owed
      <3>3. Times(Owed(run[r]), "unquarantine_file", {f}) \in Nat
        BY <3>2, TimesType
      <3>4. Head(run[r].plan).action \in IF run[r].phase = "acting" THEN Forward ELSE Backward
        BY <1>1, HeadActs
      <3>5. /\ One(Head(run[r].plan), "unquarantine_file", {f}) = 0
            /\ run[r].phase # "undoing" => InverseOf[Head(run[r].plan).action] # "unquarantine_file"
        BY <1>1, <3>4 DEF One, Forward, InverseOf, Busy
      <3> QED BY <3>1, <3>3, <3>5 DEF OwedNext
    <2>4. FilesOwed(y, DiskNow(y, disk), VaultNow(y, vault)) /\ Underway(y, vault)
      BY <1>1, <1>2, <2>1, <2>3, FilesStay DEF Restorable
    <2> QED BY <2>2, <2>4 DEF Restorable
  <1> QED BY <1>1, <1>2, <1>3, <1>4, <1>5, RollStep

LEMMA BlockIPRestorable ==
    ASSUME RollInv, NEW r \in Runs, BlockIP(r), HostInv', FileInv'
    PROVE  RollInv'
  <1>1. Doing(r, "block_ip") /\ UNCHANGED <<disk, vault, jumps, chain>>
    BY DEF BlockIP, isolation
  <1>2. PICK ok \in BOOLEAN : /\ Finished(r, ok)
                              /\ IF ok THEN /\ input' = [input EXCEPT ![Arg(r)] = @ + 1]
                                            /\ output' = [output EXCEPT ![Arg(r)] = @ + 1]
                                            /\ UNCHANGED faults
                                 ELSE Fault
    BY DEF BlockIP
  <1>3. input \in [Blocked -> Nat] /\ output \in [Blocked -> Nat]
    BY DEF RollInv, HostInv
  <1>4. /\ Orderly(run[r]) /\ Busy(run[r]) /\ Planned(run[r])
        /\ Head(run[r].plan).action = "block_ip"
    BY <1>1, RollActs
  <1>5. run[r].phase = "acting"
    BY <1>4, HeadActs DEF Backward, Busy
  <1>6. chain' = "none" => jumps' = [in |-> 0, out |-> 0]
    BY <1>1 DEF RollInv
  <1>7. ASSUME NEW y, y.before = run[r].before,
               \A act \in Backward : \A args : Times(Owed(y), act, args) = OwedNext(run[r], act, args),
               ok, RulesOwed(run[r], input, output), JumpsOwed(run[r], jumps, chain)
        PROVE  RulesOwed(y, input', output') /\ JumpsOwed(y, jumps', chain')
    <2>1. Found(y) = Found(run[r])
      BY <1>7 DEF Found
    <2>2. Owed(run[r]) \in Seq(Steps)
      BY <1>4 DEF Orderly, Lists, Owed
    <2>3. ASSUME NEW a \in Blocked
          PROVE  Times(Owed(y), "unblock_ip", {a})
                   = Times(Owed(run[r]), "unblock_ip", {a}) + IF a = Arg(r) THEN 1 ELSE 0
      <3>1. Times(Owed(y), "unblock_ip", {a}) = OwedNext(run[r], "unblock_ip", {a})
        BY <1>7 DEF Backward
      <3> QED BY <1>4, <1>5, <3>1 DEF OwedNext, Arg, InverseOf
    <2>4. ASSUME NEW a \in Blocked
          PROVE  /\ input'[a] = input[a] + IF a = Arg(r) THEN 1 ELSE 0
                 /\ output'[a] = output[a] + IF a = Arg(r) THEN 1 ELSE 0
      BY <1>2, <1>3, <1>7
    <2>5. ASSUME NEW a \in Blocked
          PROVE  /\ input[a] = Found(run[r]).input[a] + Times(Owed(run[r]), "unblock_ip", {a})
                 /\ output[a] = Found(run[r]).output[a] + Times(Owed(run[r]), "unblock_ip", {a})
                 /\ Found(run[r]).input[a] \in Nat /\ Found(run[r]).output[a] \in Nat
                 /\ Times(Owed(run[r]), "unblock_ip", {a}) \in Nat
      BY <1>4, <1>7, <2>2, TimesType DEF RulesOwed, Orderly, MachineOK
    <2>6. RulesOwed(y, input', output')
      <3> SUFFICES ASSUME NEW a \in Blocked
                   PROVE  /\ input'[a] = Found(y).input[a] + Times(Owed(y), "unblock_ip", {a})
                          /\ output'[a] = Found(y).output[a] + Times(Owed(y), "unblock_ip", {a})
        BY DEF RulesOwed
      <3> QED BY <2>1, <2>3, <2>4, <2>5
    <2>7. Times(Owed(y), "unisolate_host", Args) = Times(Owed(run[r]), "unisolate_host", Args)
      <3>1. Times(Owed(y), "unisolate_host", Args) = OwedNext(run[r], "unisolate_host", Args)
        BY <1>7 DEF Backward
      <3>2. Times(Owed(run[r]), "unisolate_host", Args) \in Nat
        BY <2>2, TimesType
      <3> QED BY <1>4, <1>5, <3>1, <3>2 DEF OwedNext, InverseOf
    <2>8. JumpsOwed(y, jumps', chain')
      BY <1>1, <1>7, <2>7 DEF JumpsOwed
    <2> QED BY <2>6, <2>8
  <1> QED BY <1>1, <1>2, <1>6, <1>7, RuleStep

LEMMA UnblockIPRestorable ==
    ASSUME RollInv, NEW r \in Runs, UnblockIP(r), HostInv', FileInv'
    PROVE  RollInv'
  <1>1. Doing(r, "unblock_ip") /\ UNCHANGED <<disk, vault, jumps, chain>> /\ Finished(r, TRUE)
    BY DEF UnblockIP, isolation
  <1>2. \/ /\ input' = [input EXCEPT ![Arg(r)] = Fewer(@)]
           /\ output' = [output EXCEPT ![Arg(r)] = Fewer(@)]
           /\ UNCHANGED faults
        \/ Fault
    BY DEF UnblockIP
  <1>3. input \in [Blocked -> Nat] /\ output \in [Blocked -> Nat]
    BY DEF RollInv, HostInv
  <1>4. /\ Orderly(run[r]) /\ Busy(run[r]) /\ Planned(run[r])
        /\ Head(run[r].plan).action = "unblock_ip"
    BY <1>1, RollActs
  <1>5. run[r].phase = "undoing" /\ run[r].plan \in Seq(Steps) /\ run[r].plan # << >>
    BY <1>4, HeadActs DEF Forward, Busy
  <1>6. chain' = "none" => jumps' = [in |-> 0, out |-> 0]
    BY <1>1 DEF RollInv
  <1>7. ASSUME NEW y, y.before = run[r].before,
               \A act \in Backward : \A args : Times(Owed(y), act, args) = OwedNext(run[r], act, args),
               ~Fault, RulesOwed(run[r], input, output), JumpsOwed(run[r], jumps, chain)
        PROVE  RulesOwed(y, input', output') /\ JumpsOwed(y, jumps', chain')
    <2>1. Found(y) = Found(run[r])
      BY <1>7 DEF Found
    <2>2. Owed(run[r]) = run[r].plan
      BY <1>5 DEF Owed
    <2>3. ASSUME NEW a \in Blocked
          PROVE  /\ Times(Owed(run[r]), "unblock_ip", {a}) \in Nat
                 /\ Times(Owed(y), "unblock_ip", {a}) \in Nat
                 /\ Times(Owed(run[r]), "unblock_ip", {a})
                      = Times(Owed(y), "unblock_ip", {a}) + IF a = Arg(r) THEN 1 ELSE 0
      <3>1. Times(Owed(y), "unblock_ip", {a}) = OwedNext(run[r], "unblock_ip", {a})
        BY <1>7 DEF Backward
      <3>2. One(Head(run[r].plan), "unblock_ip", {a}) = IF a = Arg(r) THEN 1 ELSE 0
        BY <1>4 DEF One, Arg
      <3> QED BY <1>5, <2>2, <3>1, <3>2, TimesTail DEF OwedNext
    <2>4. ASSUME NEW a \in Blocked
          PROVE  /\ input'[a] = IF a = Arg(r) THEN Fewer(input[a]) ELSE input[a]
                 /\ output'[a] = IF a = Arg(r) THEN Fewer(output[a]) ELSE output[a]
      BY <1>2, <1>3, <1>7
    <2>5. ASSUME NEW a \in Blocked
          PROVE  /\ input[a] = Found(run[r]).input[a] + Times(Owed(run[r]), "unblock_ip", {a})
                 /\ output[a] = Found(run[r]).output[a] + Times(Owed(run[r]), "unblock_ip", {a})
                 /\ Found(run[r]).input[a] \in Nat /\ Found(run[r]).output[a] \in Nat
      BY <1>4, <1>7 DEF RulesOwed, Orderly, MachineOK
    <2>6. RulesOwed(y, input', output')
      <3> SUFFICES ASSUME NEW a \in Blocked
                   PROVE  /\ input'[a] = Found(y).input[a] + Times(Owed(y), "unblock_ip", {a})
                          /\ output'[a] = Found(y).output[a] + Times(Owed(y), "unblock_ip", {a})
        BY DEF RulesOwed
      <3> QED BY <2>1, <2>3, <2>4, <2>5 DEF Fewer
    <2>7. Times(Owed(y), "unisolate_host", Args) = Times(Owed(run[r]), "unisolate_host", Args)
      <3>1. Times(Owed(y), "unisolate_host", Args) = OwedNext(run[r], "unisolate_host", Args)
        BY <1>7 DEF Backward
      <3>2. Times(Owed(run[r]), "unisolate_host", Args) \in Nat
        BY <1>5, <2>2, TimesType
      <3> QED BY <1>4, <1>5, <3>1, <3>2 DEF OwedNext, One
    <2>8. JumpsOwed(y, jumps', chain')
      BY <1>1, <1>7, <2>7 DEF JumpsOwed
    <2> QED BY <2>6, <2>8
  <1> QED BY <1>1, <1>2, <1>6, <1>7, RuleStep

(* What isolation leaves of the counts of other actions. *)
LEMMA RulesStay ==
    ASSUME NEW x, Busy(x), Planned(x), Orderly(x),
           Head(x.plan).action \in {"isolate_host", "unisolate_host"}, NEW y, y.before = x.before,
           \A act \in Backward : \A args : Times(Owed(y), act, args) = OwedNext(x, act, args)
    PROVE  /\ RulesOwed(x, input, output) => RulesOwed(y, input, output)
           /\ Times(Owed(x), "unisolate_host", Args) \in Nat
           /\ Times(Owed(y), "unisolate_host", Args)
                = Times(Owed(x), "unisolate_host", Args)
                  + IF Head(x.plan).action = "isolate_host" THEN 1 ELSE -1
           /\ x.phase = IF Head(x.plan).action = "isolate_host" THEN "acting" ELSE "undoing"
  <1>1. Found(y) = Found(x)
    BY DEF Found
  <1>2. Owed(x) \in Seq(Steps) /\ Head(x.plan) \in Steps
    BY HeadActs DEF Owed
  <1>3. x.phase = IF Head(x.plan).action = "isolate_host" THEN "acting" ELSE "undoing"
    BY HeadActs DEF Busy, Forward, Backward
  <1>4. ASSUME NEW a  PROVE Times(Owed(y), "unblock_ip", {a}) = Times(Owed(x), "unblock_ip", {a})
    <2>1. Times(Owed(y), "unblock_ip", {a}) = OwedNext(x, "unblock_ip", {a})
      BY DEF Backward
    <2>2. Times(Owed(x), "unblock_ip", {a}) \in Nat
      BY <1>2, TimesType
    <2> QED BY <1>3, <2>1, <2>2 DEF OwedNext, One, InverseOf
  <1>5. /\ Times(Owed(x), "unisolate_host", Args) \in Nat
        /\ Times(Owed(y), "unisolate_host", Args)
             = Times(Owed(x), "unisolate_host", Args)
               + IF Head(x.plan).action = "isolate_host" THEN 1 ELSE -1
    <2>1. Times(Owed(y), "unisolate_host", Args) = OwedNext(x, "unisolate_host", Args)
      BY DEF Backward
    <2>2. Times(Owed(x), "unisolate_host", Args) \in Nat
      BY <1>2, TimesType
    <2>3. Head(x.plan).arg \in Args
      BY <1>2 DEF Steps
    <2> QED BY <1>3, <2>1, <2>2, <2>3 DEF OwedNext, One, InverseOf
  <1> QED BY <1>1, <1>3, <1>4, <1>5 DEF RulesOwed

LEMMA IsolateHostRestorable ==
    ASSUME RollInv, NEW r \in Runs, IsolateHost(r), HostInv', FileInv'
    PROVE  RollInv'
  <1>1. /\ Doing(r, "isolate_host") /\ UNCHANGED <<disk, vault, input, output>> /\ Finished(r, TRUE)
        /\ UNCHANGED faults \/ Fault
    BY DEF IsolateHost, rules
  <1>2. jumps.in \in Nat /\ jumps.out \in Nat /\ jumps = [in |-> jumps.in, out |-> jumps.out]
    BY DEF RollInv, HostInv
  <1>3. /\ Orderly(run[r]) /\ Busy(run[r]) /\ Planned(run[r])
        /\ Head(run[r].plan).action = "isolate_host"
    BY <1>1, RollActs
  <1>4. chain' = "none" => jumps' = [in |-> 0, out |-> 0]
    <2>1. ASSUME chain' = "none", chain' \in {chain, "open", "filtering"},
                 NEW i \in {0}, NEW o \in {0}, jumps' = [in |-> jumps.in + i, out |-> jumps.out + o]
          PROVE  jumps' = [in |-> 0, out |-> 0]
      <3>1. jumps = [in |-> 0, out |-> 0]
        BY <2>1 DEF RollInv
      <3>2. jumps.in = 0 /\ jumps.out = 0
        BY <3>1
      <3> QED BY <2>1, <3>2
    <2> QED BY <2>1 DEF IsolateHost
  <1>5. ASSUME NEW y, y.before = run[r].before,
               \A act \in Backward : \A args : Times(Owed(y), act, args) = OwedNext(run[r], act, args),
               ~Fault, RulesOwed(run[r], input, output), JumpsOwed(run[r], jumps, chain)
        PROVE  RulesOwed(y, input', output') /\ JumpsOwed(y, jumps', chain')
    <2>1. chain' = "filtering" /\ jumps' = [in |-> jumps.in + 1, out |-> jumps.out + 1]
      BY <1>5 DEF IsolateHost
    <2>2. /\ RulesOwed(y, input, output)
          /\ Times(Owed(run[r]), "unisolate_host", Args) \in Nat
          /\ Times(Owed(y), "unisolate_host", Args) = Times(Owed(run[r]), "unisolate_host", Args) + 1
      BY <1>3, <1>5, RulesStay
    <2>3. PICK n : n = Times(Owed(run[r]), "unisolate_host", Args)
      OBVIOUS
    <2>4. jumps.in = n /\ jumps.out = n
      BY <1>5, <2>3 DEF JumpsOwed
    <2>5. JumpsOwed(y, jumps', chain')
      BY <2>1, <2>2, <2>3, <2>4 DEF JumpsOwed
    <2> QED BY <1>1, <2>2, <2>5
  <1> QED BY <1>1, <1>4, <1>5, RuleStep

LEMMA UnisolateHostRestorable ==
    ASSUME RollInv, NEW r \in Runs, UnisolateHost(r), HostInv', FileInv'
    PROVE  RollInv'
  <1>1. /\ Doing(r, "unisolate_host") /\ UNCHANGED <<disk, vault, input, output>> /\ Finished(r, TRUE)
        /\ UNCHANGED faults \/ Fault
    BY DEF UnisolateHost, rules
  <1>2. jumps.in \in Nat /\ jumps.out \in Nat /\ jumps = [in |-> jumps.in, out |-> jumps.out]
    BY DEF RollInv, HostInv
  <1>3. /\ Orderly(run[r]) /\ Busy(run[r]) /\ Planned(run[r])
        /\ Head(run[r].plan).action = "unisolate_host"
    BY <1>1, RollActs
  <1>4. chain' = IF chain # "none" /\ jumps' # [in |-> 0, out |-> 0] THEN "open" ELSE "none"
    BY DEF UnisolateHost
  <1>5. chain' = "none" => jumps' = [in |-> 0, out |-> 0]
    <2>1. CASE chain # "none"
      BY <1>4, <2>1
    <2>2. CASE chain = "none"
      <3>1. jumps = [in |-> 0, out |-> 0]
        BY <2>2 DEF RollInv
      <3>2. jumps.in = 0 /\ jumps.out = 0 /\ Fewer(0) = 0
        BY <3>1 DEF Fewer
      <3> QED BY <3>2 DEF UnisolateHost
    <2> QED BY <2>1, <2>2
  <1>6. ASSUME NEW y, y.before = run[r].before,
               \A act \in Backward : \A args : Times(Owed(y), act, args) = OwedNext(run[r], act, args),
               ~Fault, RulesOwed(run[r], input, output), JumpsOwed(run[r], jumps, chain)
        PROVE  RulesOwed(y, input', output') /\ JumpsOwed(y, jumps', chain')
    <2>1. jumps' = [in |-> Fewer(jumps.in), out |-> Fewer(jumps.out)]
      BY <1>6 DEF UnisolateHost
    <2>2. /\ RulesOwed(y, input, output)
          /\ Times(Owed(run[r]), "unisolate_host", Args) \in Nat
          /\ Times(Owed(y), "unisolate_host", Args) = Times(Owed(run[r]), "unisolate_host", Args) - 1
          /\ run[r].phase = "undoing"
      BY <1>3, <1>6, RulesStay
    <2>3. PICK n : n = Times(Owed(run[r]), "unisolate_host", Args)
      OBVIOUS
    <2>4. n \in Nat \ {0}
      <3>1. Owed(run[r]) = run[r].plan /\ run[r].plan \in Seq(Steps) /\ run[r].plan # << >>
            /\ Head(run[r].plan) \in Steps
        BY <1>3, <2>2, HeadActs DEF Owed
      <3>2. One(Head(run[r].plan), "unisolate_host", Args) = 1
        BY <1>3, <3>1 DEF One, Steps
      <3> QED BY <2>3, <3>1, <3>2, TimesTail
    <2>5. jumps.in = n /\ jumps.out = n /\ chain # "none"
      BY <1>6, <2>3, <2>4 DEF JumpsOwed
    <2>6. jumps' = [in |-> n - 1, out |-> n - 1]
      BY <2>1, <2>4, <2>5 DEF Fewer
    <2>7. jumps' = [in |-> 0, out |-> 0] <=> n - 1 = 0
      BY <2>4, <2>6
    <2>8. JumpsOwed(y, jumps', chain')
      BY <1>4, <2>2, <2>3, <2>5, <2>6, <2>7 DEF JumpsOwed
    <2> QED BY <1>1, <2>2, <2>8
  <1> QED BY <1>1, <1>5, <1>6, RuleStep

(* A move goes on to its next stage. *)
LEMMA MoveStep ==
    ASSUME RollInv, NEW r \in Runs, Busy(run[r]), NEW y, Becomes(r, y),
           y.phase = run[r].phase, y.book = run[r].book, y.before = run[r].before,
           y.plan = run[r].plan, y.undo = run[r].undo, y.clean = run[r].clean,
           HostInv', FileInv', UNCHANGED <<input, output, jumps, chain, faults>>,
           DiskOK(disk'),
           /\ Settled(run[r])
           /\ FilesOwed(run[r], DiskNow(run[r], disk), VaultNow(run[r], vault))
           /\ Underway(run[r], vault)
           => FilesOwed(run[r], DiskNow(y, disk'), VaultNow(y, vault')) /\ Underway(y, vault')
    PROVE  RollInv'
  <1>1. \A s \in Runs \ {r} : ~Busy(run[s])
    BY OthersRest DEF RollInv, FileInv
  <1>2. /\ ArgsOf(y) = ArgsOf(run[r]) /\ FilesOf(y) = FilesOf(run[r])
        /\ Found(y) = Found(run[r]) /\ Owed(y) = Owed(run[r])
    BY DEF ArgsOf, FilesOf, Found, Owed
  <1>3. Busy(y) /\ Orderly(y)
    BY <1>2 DEF RollInv, Orderly, Busy
  <1>4. ASSUME Settled(y), faults' = 0
        PROVE  Restorable(y, input', output', jumps', chain', disk', vault')
    <2>1. Settled(run[r])
      BY <1>2, <1>4 DEF Settled
    <2>2. Restorable(run[r], input, output, jumps, chain, disk, vault)
      BY <1>4, <2>1 DEF RollInv
    <2>3. FilesOwed(run[r], DiskNow(y, disk'), VaultNow(y, vault')) /\ Underway(y, vault')
      BY <2>1, <2>2 DEF Restorable
    <2>4. FilesOwed(y, DiskNow(y, disk'), VaultNow(y, vault'))
      BY <1>2, <2>3 DEF FilesOwed
    <2>5. RulesOwed(y, input', output') /\ JumpsOwed(y, jumps', chain')
      BY <1>2, <2>2 DEF Restorable, RulesOwed, JumpsOwed
    <2> QED BY <2>3, <2>4, <2>5 DEF Restorable
  <1>5. faults' \in Nat /\ (chain' = "none" => jumps' = [in |-> 0, out |-> 0])
    BY DEF RollInv
  <1> QED BY <1>1, <1>3, <1>4, <1>5, RollStep

(* A move ends. *)
LEMMA MoveEnds ==
    ASSUME RollInv, NEW r \in Runs, Busy(run[r]), Planned(run[r]), NEW ok \in BOOLEAN, Finished(r, ok),
           HostInv', FileInv', UNCHANGED <<input, output, jumps, chain>>, UNCHANGED faults \/ Fault,
           Underway(run[r], vault) => Head(run[r].plan).action \in {"quarantine_file", "unquarantine_file"},
           ok /\ Head(run[r].plan).action = "quarantine_file" => Head(run[r].plan).arg \in Files,
           DiskOK(disk'),
           \A y : /\ y.before = run[r].before /\ y.book = run[r].book
                  /\ \A act \in Backward : \A args :
                       Times(Owed(y), act, args) = OwedNext(run[r], act, args)
                  /\ ok /\ Settled(run[r])
                  /\ FilesOwed(run[r], DiskNow(run[r], disk), VaultNow(run[r], vault))
                  /\ Underway(run[r], vault)
                  => FilesOwed(y, disk', vault')
    PROVE  RollInv'
  <1>1. Orderly(run[r]) /\ \A s \in Runs \ {r} : ~Busy(run[s])
    BY OthersRest DEF RollInv, FileInv
  <1>2. PICK y : /\ Becomes(r, y) /\ y.move = NoMove /\ Orderly(y)
                 /\ y.book = run[r].book /\ y.before = run[r].before
                 /\ Settled(y) => /\ ok /\ Settled(run[r])
                                  /\ \A act \in Backward : \A args :
                                        Times(Owed(y), act, args) = OwedNext(run[r], act, args)
    BY Ending
  <1>3. faults' \in Nat /\ (faults' = 0 => faults = 0 /\ ~Fault)
    BY NoFault
  <1>4. ASSUME Settled(y), faults' = 0
        PROVE  Restorable(y, input', output', jumps', chain', disk', vault')
    <2>1. Restorable(run[r], input, output, jumps, chain, disk, vault)
      BY <1>2, <1>3, <1>4 DEF RollInv
    <2>2. FilesOwed(y, disk', vault')
      BY <1>2, <1>4, <2>1 DEF Restorable
    <2>3. DiskNow(y, disk') = disk' /\ VaultNow(y, vault') = vault' /\ Underway(y, vault')
      <3>1. y.move.stage = "none"
        BY <1>2 DEF NoMove
      <3> QED BY <3>1 DEF DiskNow, VaultNow, Underway
    <2>4. Found(y) = Found(run[r])
      BY <1>2 DEF Found
    <2>5. ASSUME NEW act \in {"unblock_ip", "unisolate_host"}, NEW args
          PROVE  Times(Owed(y), act, args) = Times(Owed(run[r]), act, args)
      <3>1. Times(Owed(y), act, args) = OwedNext(run[r], act, args)
        BY <1>2, <1>4 DEF Backward
      <3>2. Owed(run[r]) \in Seq(Steps)
        BY <1>1, HeadActs DEF Owed
      <3>3. Times(Owed(run[r]), act, args) \in Nat
        BY <3>2, TimesType
      <3>4. Head(run[r].plan).action \in IF run[r].phase = "acting" THEN Forward ELSE Backward
        BY <1>1, HeadActs
      <3>5. /\ One(Head(run[r].plan), act, args) = 0
            /\ run[r].phase # "undoing" => InverseOf[Head(run[r].plan).action] # act
        BY <2>1, <3>4 DEF One, Forward, InverseOf, Busy, Restorable
      <3> QED BY <3>1, <3>3, <3>5 DEF OwedNext
    <2>6. RulesOwed(y, input', output') /\ JumpsOwed(y, jumps', chain')
      BY <2>1, <2>4, <2>5 DEF Restorable, RulesOwed, JumpsOwed
    <2> QED BY <2>2, <2>3, <2>6 DEF Restorable
  <1>5. chain' = "none" => jumps' = [in |-> 0, out |-> 0]
    BY DEF RollInv
  <1> QED BY <1>1, <1>2, <1>3, <1>4, <1>5, RollStep

(* A move that did not end well is no longer looked at. *)
LEMMA MoveBreaks ==
    ASSUME RollInv, NEW r \in Runs, Busy(run[r]), Planned(run[r]), Finished(r, FALSE),
           HostInv', FileInv', UNCHANGED <<input, output, jumps, chain, disk>>, UNCHANGED faults \/ Fault,
           Head(run[r].plan).action \in {"quarantine_file", "unquarantine_file"}
    PROVE  RollInv'
  <1>1. DiskOK(disk')
    BY DEF RollInv
  <1>2. PICK ok \in BOOLEAN : ok = FALSE
    OBVIOUS
  <1>3. Finished(r, ok) /\ ~ok
    BY <1>2
  <1> QED BY <1>1, <1>3, MoveEnds

(* What is known of the entry being moved. *)
LEMMA MovedEntry ==
    ASSUME RollInv, NEW r \in Runs, run[r].move.stage # "none"
    PROVE  /\ Busy(run[r]) /\ Planned(run[r]) /\ Orderly(run[r])
           /\ Target(run[r]) \in FilesOf(run[r]) /\ Target(run[r]) \in DOMAIN disk
           /\ disk[Target(run[r])] = IF run[r].move.stage = "copy out" THEN Part ELSE run[r].move.content
           /\ \E e \in vault :
                /\ e.id = run[r].move.id /\ DOMAIN e = {"base", "content", "id"}
                /\ e.content = (IF run[r].move.stage = "copy in" THEN Part ELSE run[r].move.content)
                /\ \A q \in vault : q.id = run[r].move.id <=> q = e
                /\ Underway(run[r], vault) => e.base = BaseOf[Target(run[r])]
  <1>1. RunsOK /\ Busy(run[r]) /\ Planned(run[r]) /\ Orderly(run[r]) /\ VaultOK
    BY MoveFacts DEF RollInv, FileInv
  <1>2. MoveOK(run[r].move, Target(run[r]), disk, vault)
    BY DEF RollInv, FileInv
  <1>3. Target(run[r]) \in FilesOf(run[r]) /\ Target(run[r]) \in DOMAIN disk
    <2>1. Target(run[r]) \in DOMAIN disk
      BY <1>2 DEF MoveOK
    <2>2. Target(run[r]) \in ArgsOf(run[r])
      BY <1>1, HeadActs DEF Target
    <2> QED BY <2>1, <2>2 DEF FilesOf, RollInv, DiskOK
  <1>4. PICK e \in vault :
                /\ e.id = run[r].move.id
                /\ e.content = (IF run[r].move.stage = "copy in" THEN Part ELSE run[r].move.content)
    BY <1>2 DEF MoveOK
  <1>5. DOMAIN e = {"base", "content", "id"} /\ \A q \in vault : q.id = run[r].move.id <=> q = e
    BY <1>1, <1>4 DEF VaultOK
  <1>6. Underway(run[r], vault) => e.base = BaseOf[Target(run[r])]
    BY <1>5 DEF Underway
  <1> QED BY <1>1, <1>2, <1>3, <1>4, <1>5, <1>6 DEF MoveOK

LEMMA QuarantineOpenRestorable ==
    ASSUME RollInv, NEW r \in Runs, QuarantineOpen(r), HostInv', FileInv'
    PROVE  RollInv'
  <1>1. /\ Doing(r, "quarantine_file") /\ UNCHANGED <<input, output, jumps, chain, disk, faults>>
    BY DEF QuarantineOpen, rules, isolation
  <1>2. /\ Busy(run[r]) /\ Planned(run[r]) /\ Orderly(run[r]) /\ run[r].move = NoMove
        /\ Head(run[r].plan).action = "quarantine_file" /\ RunsOK
        /\ \A s \in Runs \ {r} : ~Busy(run[s])
    BY <1>1, RollActs DEF RollInv, HostInv
  <1>3. CASE Arg(r) \notin DOMAIN disk
    <2>1. Finished(r, FALSE)
      BY <1>3 DEF QuarantineOpen
    <2> QED BY <1>1, <1>2, <2>1, MoveBreaks
  <1>4. CASE Arg(r) \in DOMAIN disk
    <2>1. PICK f, id, content, e :
              /\ f = Arg(r) /\ id = FreshId /\ content = disk[f]
              /\ e = [base |-> BaseOf[f], content |-> Part, id |-> id]
      OBVIOUS
    <2>2. Moving(r, "copy in", id, content) /\ vault' = vault \cup {e}
      BY <1>4, <2>1 DEF QuarantineOpen
    <2>3. PICK stage : stage = "copy in"
      OBVIOUS
    <2>4. /\ stage \in Stages \ {"none"} /\ Moving(r, stage, id, content) /\ Fits(run[r], stage)
      BY <1>2, <2>2, <2>3 DEF Stages, Fits
    <2>5. PICK y : /\ Becomes(r, y)
                   /\ y.move.stage = stage /\ y.move.id = id /\ y.move.content = content
                   /\ y.phase = run[r].phase /\ y.book = run[r].book /\ y.before = run[r].before
                   /\ y.plan = run[r].plan /\ y.undo = run[r].undo /\ y.clean = run[r].clean
      BY <1>2, <2>4, MovingFields
    <2>6. y.move.stage = "copy in" /\ y.move.id = id /\ y.move.content = content
      BY <2>3, <2>5
    <2>7. Target(y) = f /\ f \in DOMAIN disk /\ Found(y) = Found(run[r])
      BY <1>4, <2>1, <2>5 DEF Target, Arg, Found
    <2>8. id \notin VaultIds
      <3>1. \A s \in Runs : run[s].move = NoMove
        BY <1>2, AtRest DEF RunsOK, RunOK
      <3> QED BY <2>1, <3>1, FreshIdIsFree DEF RollInv
    <2>9. e.id = id /\ e.base = BaseOf[f] /\ \A q \in vault : q.id # id
      BY <2>1, <2>8 DEF VaultIds
    <2>10. DiskNow(run[r], disk) = disk /\ VaultNow(run[r], vault) = vault
      BY <1>2 DEF DiskNow, VaultNow, NoMove
    <2>11. DiskNow(y, disk') = disk
      BY <1>1, <2>6 DEF DiskNow
    <2>12. VaultNow(y, vault') = vault
      <3>1. VaultNow(y, vault') = {q \in vault \cup {e} : q.id # id}
        BY <2>2, <2>6 DEF VaultNow
      <3> QED BY <2>9, <3>1
    <2>13. ASSUME FilesOwed(run[r], disk, vault)  PROVE Underway(y, vault')
      <3>1. f \in DOMAIN Found(y).disk /\ content = Found(y).disk[f]
        BY <2>1, <2>7, <2>13 DEF FilesOwed
      <3>2. \E q \in vault' : q.id = id /\ q.base = BaseOf[f]
        BY <2>2, <2>9
      <3> QED BY <2>6, <2>7, <3>1, <3>2 DEF Underway
    <2>14. DiskOK(disk')
      BY <1>1 DEF RollInv
    <2> QED BY <1>1, <1>2, <2>5, <2>10, <2>11, <2>12, <2>13, <2>14, MoveStep
  <1> QED BY <1>3, <1>4

LEMMA QuarantineCopyRestorable ==
    ASSUME RollInv, NEW r \in Runs, QuarantineCopy(r), HostInv', FileInv'
    PROVE  RollInv'
  <1>1. /\ run[r].move.stage = "copy in" /\ UNCHANGED <<input, output, jumps, chain, disk>>
        /\ UNCHANGED faults \/ Fault
    BY DEF QuarantineCopy, rules, isolation
  <1>2. PICK x, f, id, content : x = run[r] /\ f = Target(x) /\ id = x.move.id /\ content = x.move.content
    OBVIOUS
  <1>3. /\ Busy(run[r]) /\ Planned(run[r]) /\ RunsOK
        /\ Head(run[r].plan).action = "quarantine_file"
    <2>1. Busy(run[r]) /\ Planned(run[r]) /\ Fits(run[r], "copy in") /\ RunsOK
      BY <1>1, MoveFacts DEF RollInv
    <2> QED BY <2>1 DEF Fits
  <1>4. PICK e \in vault : /\ e.id = id /\ DOMAIN e = {"base", "content", "id"}
                           /\ \A q \in vault : q.id = id <=> q = e
                           /\ Underway(run[r], vault) => e.base = BaseOf[f]
    BY <1>1, <1>2, MovedEntry
  <1>5. CASE Finished(r, FALSE)
    BY <1>1, <1>3, <1>5, MoveBreaks
  <1>6. CASE /\ vault' = {IF q.id = id THEN [q EXCEPT !.content = content] ELSE q : q \in vault}
             /\ Moving(r, "remove source", id, content) /\ UNCHANGED faults
    <2>1. PICK stage : stage = "remove source"
      OBVIOUS
    <2>2. /\ stage \in Stages \ {"none"} /\ Moving(r, stage, id, content) /\ Fits(run[r], stage)
      BY <1>3, <1>6, <2>1 DEF Stages, Fits
    <2>3. PICK y : /\ Becomes(r, y)
                   /\ y.move.stage = stage /\ y.move.id = id /\ y.move.content = content
                   /\ y.phase = run[r].phase /\ y.book = run[r].book /\ y.before = run[r].before
                   /\ y.plan = run[r].plan /\ y.undo = run[r].undo /\ y.clean = run[r].clean
      BY <1>3, <2>2, MovingFields
    <2>4. y.move.stage = "remove source" /\ y.move.id = id /\ y.move.content = content
      BY <2>1, <2>3
    <2>5. Target(y) = f /\ Found(y) = Found(run[r])
      BY <1>2, <2>3 DEF Target, Found
    <2>6. PICK n : n = [e EXCEPT !.content = content]
      OBVIOUS
    <2>7. n.id = id /\ n.base = e.base /\ vault' = (vault \ {e}) \cup {n}
      BY <1>4, <1>6, <2>6
    <2>8. DiskNow(run[r], disk) = disk /\ DiskNow(y, disk') = disk
      BY <1>1, <2>4 DEF DiskNow
    <2>9. VaultNow(run[r], vault) = vault \ {e} /\ VaultNow(y, vault') = vault \ {e}
      <3>1. VaultNow(run[r], vault) = {q \in vault : q.id # id}
        BY <1>1, <1>2 DEF VaultNow
      <3>2. VaultNow(y, vault') = {q \in vault' : q.id # id}
        BY <2>4 DEF VaultNow
      <3> QED BY <1>4, <2>7, <3>1, <3>2
    <2>10. ASSUME Underway(run[r], vault)  PROVE Underway(y, vault')
      <3>1. f \in DOMAIN Found(y).disk /\ content = Found(y).disk[f]
        BY <1>1, <1>2, <2>5, <2>10 DEF Underway
      <3>2. \E q \in vault' : q.id = id /\ q.base = BaseOf[f]
        BY <1>4, <2>7, <2>10
      <3> QED BY <2>4, <2>5, <3>1, <3>2 DEF Underway
    <2>11. DiskOK(disk')
      BY <1>1 DEF RollInv
    <2> QED BY <1>1, <1>3, <1>6, <2>3, <2>8, <2>9, <2>10, <2>11, MoveStep
  <1> QED BY <1>2, <1>5, <1>6 DEF QuarantineCopy

LEMMA RestoreOpenRestorable ==
    ASSUME RollInv, NEW r \in Runs, RestoreOpen(r), HostInv', FileInv'
    PROVE  RollInv'
  <1>1. /\ Doing(r, "unquarantine_file") /\ UNCHANGED <<input, output, jumps, chain, vault, faults>>
    BY DEF RestoreOpen, rules, isolation
  <1>2. /\ Busy(run[r]) /\ Planned(run[r]) /\ Orderly(run[r]) /\ run[r].move = NoMove
        /\ Head(run[r].plan).action = "unquarantine_file" /\ RunsOK
    BY <1>1, RollActs DEF RollInv, HostInv
  <1>3. CASE Finished(r, FALSE) /\ UNCHANGED disk
    BY <1>1, <1>2, <1>3, MoveBreaks
  <1>4. CASE ~(Finished(r, FALSE) /\ UNCHANGED disk)
    <2>1. PICK q \in vault :
              /\ q.base \in NamesUnder[BaseOf[Arg(r)]]
              /\ Moving(r, "copy out", q.id, q.content)
              /\ Arg(r) \notin DOMAIN disk
              /\ disk' = [g \in DOMAIN disk \cup {Arg(r)} |-> IF g = Arg(r) THEN Part ELSE disk[g]]
      BY <1>4 DEF RestoreOpen
    <2>2. PICK f, id, content, stage : f = Arg(r) /\ id = q.id /\ content = q.content /\ stage = "copy out"
      OBVIOUS
    <2>3. /\ stage \in Stages \ {"none"} /\ Moving(r, stage, id, content) /\ Fits(run[r], stage)
      BY <2>1, <2>2 DEF Stages, Fits
    <2>4. PICK y : /\ Becomes(r, y)
                   /\ y.move.stage = stage /\ y.move.id = id /\ y.move.content = content
                   /\ y.phase = run[r].phase /\ y.book = run[r].book /\ y.before = run[r].before
                   /\ y.plan = run[r].plan /\ y.undo = run[r].undo /\ y.clean = run[r].clean
      BY <1>2, <2>3, MovingFields
    <2>5. y.move.stage = "copy out" /\ y.move.id = id /\ y.move.content = content
      BY <2>2, <2>4
    <2>6. Target(y) = f /\ f \in FilesOf(run[r]) /\ Found(y) = Found(run[r])
      BY <1>2, <2>2, <2>4, HeadActs DEF Target, Arg, Found, FilesOf
    <2>7. DiskNow(run[r], disk) = disk /\ VaultNow(run[r], vault) = vault
      BY <1>2 DEF DiskNow, VaultNow, NoMove
    <2>8. disk = [g \in DOMAIN disk |-> disk[g]]
      BY DEF RollInv, DiskOK
    <2>9. DiskNow(y, disk') = disk /\ VaultNow(y, vault') = vault
      <3>1. VaultNow(y, vault') = vault
        BY <1>1, <2>5 DEF VaultNow
      <3>2. DiskNow(y, disk') = [g \in DOMAIN disk' \ {f} |-> disk'[g]]
        BY <2>5, <2>6 DEF DiskNow
      <3>3. /\ DOMAIN disk' \ {f} = DOMAIN disk
            /\ \A g \in DOMAIN disk : disk'[g] = disk[g]
        BY <2>1, <2>2
      <3>4. [g \in DOMAIN disk' \ {f} |-> disk'[g]] = [g \in DOMAIN disk |-> disk[g]]
        BY <3>3
      <3> QED BY <2>8, <3>1, <3>2, <3>4
    <2>10. ASSUME Settled(run[r]), FilesOwed(run[r], disk, vault)  PROVE Underway(y, vault')
      <3>1. PICK g \in DOMAIN Found(run[r]).disk \ DOMAIN disk : Keeps(q, Found(run[r]), g)
        BY <2>10 DEF FilesOwed
      <3>2. /\ g \in FilesOf(run[r]) /\ BaseOf[g] \in NamesUnder[BaseOf[f]] /\ q.base = BaseOf[g]
            /\ content = Found(run[r]).disk[g]
        BY <2>1, <2>2, <2>10, <3>1 DEF FilesOwed, Keeps
      <3>3. g = f
        BY <2>6, <2>10, <3>2 DEF Settled
      <3>4. \E p \in vault' : p.id = id /\ p.base = BaseOf[f]
        BY <1>1, <2>1, <2>2, <3>2, <3>3
      <3>5. Head(y.plan).action = "unquarantine_file"
        BY <1>2, <2>4
      <3> QED BY <2>5, <2>6, <3>1, <3>2, <3>3, <3>4, <3>5 DEF Underway
    <2>11. DiskOK(disk')
      <3>1. DOMAIN disk \subseteq Files /\ f \in Files
        BY <2>6 DEF RollInv, DiskOK, FilesOf
      <3> QED BY <2>1, <2>2, <3>1 DEF DiskOK
    <2> QED BY <1>1, <1>2, <2>4, <2>7, <2>9, <2>10, <2>11, MoveStep
  <1> QED BY <1>3, <1>4

LEMMA RestoreCopyRestorable ==
    ASSUME RollInv, NEW r \in Runs, RestoreCopy(r), HostInv', FileInv'
    PROVE  RollInv'
  <1>1. /\ run[r].move.stage = "copy out" /\ UNCHANGED <<input, output, jumps, chain, vault>>
        /\ UNCHANGED faults \/ Fault
    BY DEF RestoreCopy, rules, isolation
  <1>2. PICK x, f, id, content : x = run[r] /\ f = Target(x) /\ id = x.move.id /\ content = x.move.content
    OBVIOUS
  <1>3. /\ Busy(run[r]) /\ Planned(run[r]) /\ RunsOK /\ Orderly(run[r])
    BY <1>1, MovedEntry DEF RollInv, HostInv
  <1>4. PICK e \in vault : /\ e.id = id /\ e.content = content
                           /\ \A q \in vault : q.id = id <=> q = e
    BY <1>1, <1>2, MovedEntry
  <1>5. f \in DOMAIN disk /\ Arg(r) = f
    BY <1>1, <1>2, MovedEntry DEF Arg, Target
  <1>6. DiskOK(disk) /\ disk = [g \in DOMAIN disk |-> disk[g]]
    BY DEF RollInv, DiskOK
  <1>7. \/ Finished(r, FALSE) /\ UNCHANGED disk
        \/ /\ disk' = [disk EXCEPT ![f] = content]
           /\ Moving(r, "remove entry", id, content) /\ UNCHANGED faults
    <2>1. InVault(id) = {e}
      BY <1>4 DEF InVault
    <2>2. (CHOOSE q \in InVault(id) : TRUE) = e /\ InVault(id) # {}
      BY <2>1
    <2> QED BY <1>2, <1>4, <1>5, <2>2 DEF RestoreCopy
  <1>8. CASE /\ disk' = [disk EXCEPT ![f] = content]
             /\ Moving(r, "remove entry", id, content) /\ UNCHANGED faults
    <2>1. PICK stage : stage = "remove entry"
      OBVIOUS
    <2>2. /\ stage \in Stages \ {"none"} /\ Moving(r, stage, id, content) /\ Fits(run[r], stage)
      BY <1>8, <2>1 DEF Stages, Fits
    <2>3. PICK y : /\ Becomes(r, y)
                   /\ y.move.stage = stage /\ y.move.id = id /\ y.move.content = content
                   /\ y.phase = run[r].phase /\ y.book = run[r].book /\ y.before = run[r].before
                   /\ y.plan = run[r].plan /\ y.undo = run[r].undo /\ y.clean = run[r].clean
      BY <1>3, <2>2, MovingFields
    <2>4. y.move.stage = "remove entry" /\ y.move.id = id /\ y.move.content = content
      BY <2>1, <2>3
    <2>5. Target(y) = f /\ Found(y) = Found(run[r])
      BY <1>2, <2>3 DEF Target, Found
    <2>6. VaultNow(run[r], vault) = vault /\ VaultNow(y, vault') = vault
      BY <1>1, <2>4 DEF VaultNow
    <2>7. DiskNow(run[r], disk) = DiskNow(y, disk')
      <3>1. DOMAIN disk' = DOMAIN disk /\ \A g \in DOMAIN disk \ {f} : disk'[g] = disk[g]
        BY <1>6, <1>8
      <3>2. DiskNow(run[r], disk) = [g \in DOMAIN disk \ {f} |-> disk[g]]
        BY <1>1, <1>2 DEF DiskNow
      <3>3. DiskNow(y, disk') = [g \in DOMAIN disk' \ {f} |-> disk'[g]]
        BY <2>4, <2>5 DEF DiskNow
      <3> QED BY <3>1, <3>2, <3>3
    <2>8. ASSUME Underway(run[r], vault)  PROVE Underway(y, vault')
      <3>1. /\ f \in DOMAIN Found(y).disk /\ content = Found(y).disk[f]
            /\ \E q \in vault : q.id = id /\ q.base = BaseOf[f]
            /\ Head(run[r].plan).action = "unquarantine_file"
        BY <1>1, <1>2, <2>5, <2>8 DEF Underway
      <3>2. Head(y.plan).action = "unquarantine_file"
        BY <2>3, <3>1
      <3> QED BY <1>1, <2>4, <2>5, <3>1, <3>2 DEF Underway
    <2>9. DiskOK(disk')
      BY <1>6, <1>8 DEF DiskOK
    <2> QED BY <1>1, <1>3, <1>8, <2>3, <2>6, <2>7, <2>8, <2>9, MoveStep
  <1>9. CASE Finished(r, FALSE) /\ UNCHANGED disk
    <2>1. PICK ok \in BOOLEAN : ok = FALSE
      OBVIOUS
    <2>2. Finished(r, ok)
      BY <1>9, <2>1
    <2>3. DiskOK(disk')
      BY <1>6, <1>9
    <2>4. PICK y : Becomes(r, y) /\ y.move = NoMove /\ Orderly(y) /\ (Settled(y) => ok)
      BY <1>3, <2>1, <2>2, Ending
    <2>5. faults' \in Nat /\ (chain' = "none" => jumps' = [in |-> 0, out |-> 0])
      BY <1>1, NoFault DEF RollInv
    <2>6. \A s \in Runs \ {r} : ~Busy(run[s])
      BY <1>3, OthersRest DEF RollInv, FileInv
    <2> QED BY <2>1, <2>3, <2>4, <2>5, <2>6, RollStep
  <1> QED BY <1>7, <1>8, <1>9

(* A file that has left for the quarantine is owed. *)
LEMMA SourceGoneRestorable ==
    ASSUME RollInv, NEW r \in Runs, NEW ok \in BOOLEAN, SourceGone(r, ok), HostInv', FileInv'
    PROVE  RollInv'
  <1>1. /\ run[r].move.stage = "remove source" /\ UNCHANGED <<input, output, jumps, chain, vault, faults>>
        /\ disk' = Without(Arg(r)) /\ Finished(r, ok)
    BY DEF SourceGone
  <1>2. PICK x, f, id, content :
            x = run[r] /\ f = Target(x) /\ id = x.move.id /\ content = x.move.content
    OBVIOUS
  <1>3. /\ Busy(run[r]) /\ Planned(run[r]) /\ Orderly(run[r]) /\ f \in DOMAIN disk /\ Arg(r) = f
        /\ disk[f] = content
    BY <1>1, <1>2, MovedEntry DEF Arg, Target
  <1>4. Head(run[r].plan).action = "quarantine_file" /\ f \in FilesOf(run[r])
    <2>1. Fits(run[r], run[r].move.stage)
      BY <1>1, MoveFacts DEF RollInv
    <2> QED BY <1>1, <1>2, <2>1, MovedEntry DEF Fits
  <1>5. PICK e \in vault : /\ e.content = content
                           /\ \A q \in vault : q.id = id <=> q = e
                           /\ Underway(run[r], vault) => e.base = BaseOf[f]
    BY <1>1, <1>2, MovedEntry
  <1>6. run[r].phase = "acting"
    BY <1>3, <1>4, HeadActs DEF Backward
  <1>7. /\ DOMAIN disk' = DOMAIN disk \ {f} /\ \A g \in DOMAIN disk' : disk'[g] = disk[g]
        /\ DiskOK(disk')
    BY <1>1, <1>3 DEF Without, RollInv, DiskOK
  <1>8. DiskNow(run[r], disk) = disk /\ VaultNow(run[r], vault) = vault \ {e}
    <2>1. VaultNow(run[r], vault) = {q \in vault : q.id # id}
      BY <1>1, <1>2 DEF VaultNow
    <2> QED BY <1>1, <1>5, <2>1 DEF DiskNow
  <1>9. ASSUME NEW y, y.before = run[r].before, y.book = run[r].book,
               \A act \in Backward : \A args : Times(Owed(y), act, args) = OwedNext(run[r], act, args),
               Settled(run[r]), FilesOwed(run[r], disk, vault \ {e}), Underway(run[r], vault)
        PROVE  FilesOwed(y, disk', vault')
    <2> DEFINE m == Found(run[r])
               away == DOMAIN m.disk \ DOMAIN disk
    <2>1. Found(y) = m /\ FilesOf(y) = FilesOf(run[r])
      BY <1>9 DEF Found, ArgsOf, FilesOf
    <2>2. f \in DOMAIN m.disk /\ content = m.disk[f] /\ e.base = BaseOf[f]
      BY <1>1, <1>2, <1>5, <1>9 DEF Underway
    <2>3. Keeps(e, m, f)
      BY <1>5, <2>2 DEF Keeps
    <2>4. /\ DOMAIN disk \subseteq DOMAIN m.disk /\ \A g \in DOMAIN disk : disk[g] = m.disk[g]
          /\ \A g \in DOMAIN m.disk : Times(Owed(run[r]), "unquarantine_file", {g}) = IF g \in away THEN 1 ELSE 0
          /\ away \subseteq FilesOf(run[r])
          /\ \A g \in away : \E q \in vault \ {e} : Keeps(q, m, g)
          /\ \A q \in vault \ {e} : \E g \in away : Keeps(q, m, g)
          /\ \A p, q \in vault \ {e} : p.base = q.base => p = q
      BY <1>9 DEF FilesOwed
    <2>5. DOMAIN m.disk \ DOMAIN disk' = away \cup {f} /\ f \notin away
      BY <1>3, <1>7, <2>2
    <2>6. ASSUME NEW g \in DOMAIN m.disk
          PROVE  Times(Owed(y), "unquarantine_file", {g}) = IF g \in away \cup {f} THEN 1 ELSE 0
      <3>1. Times(Owed(y), "unquarantine_file", {g}) = OwedNext(run[r], "unquarantine_file", {g})
        BY <1>9 DEF Backward
      <3>2. Head(run[r].plan).arg = f
        BY <1>2 DEF Target
      <3> QED BY <1>4, <1>6, <2>4, <2>5, <3>1, <3>2 DEF OwedNext, InverseOf
    <2>7. ASSUME NEW q \in vault \ {e}  PROVE q.base # e.base
      <3>1. PICK g \in away : Keeps(q, m, g)
        BY <2>4
      <3>2. BaseOf[g] # BaseOf[f]
        BY <1>4, <1>9, <2>4, <2>5, SettledApart
      <3> QED BY <2>2, <3>1, <3>2 DEF Keeps
    <2> HIDE DEF m, away
    <2>8. \A p, q \in vault' : p.base = q.base => p = q
      BY <1>1, <2>4, <2>7
    <2>9. /\ \A g \in away \cup {f} : \E q \in vault' : Keeps(q, m, g)
          /\ \A q \in vault' : \E g \in away \cup {f} : Keeps(q, m, g)
      BY <1>1, <2>3, <2>4
    <2>10. DOMAIN disk' \subseteq DOMAIN m.disk /\ \A g \in DOMAIN disk' : disk'[g] = m.disk[g]
      BY <1>7, <2>4
    <2>11. away \cup {f} \subseteq FilesOf(y)
      BY <1>4, <2>1, <2>4
    <2> QED BY <2>1, <2>5, <2>6, <2>8, <2>9, <2>10, <2>11 DEF FilesOwed
  <1>11. Head(run[r].plan).arg \in Files
    BY <1>3, <1>4 DEF Arg, FilesOf
  <1> QED BY <1>1, <1>3, <1>4, <1>7, <1>8, <1>9, <1>11, MoveEnds

LEMMA QuarantineRemoveRestorable ==
    ASSUME RollInv, NEW r \in Runs, QuarantineRemove(r), HostInv', FileInv'
    PROVE  RollInv'
  <1>1. \/ SourceGone(r, Arg(r) \in DOMAIN disk)
        \/ /\ run[r].move.stage = "remove source" /\ Finished(r, FALSE) /\ Fault
           /\ UNCHANGED <<input, output, jumps, chain, disk, vault>>
    BY DEF QuarantineRemove, SourceGone, rules, isolation
  <1>2. CASE SourceGone(r, Arg(r) \in DOMAIN disk)
    <2>1. PICK ok : ok = (Arg(r) \in DOMAIN disk)
      OBVIOUS
    <2>2. ok \in BOOLEAN /\ SourceGone(r, ok)
      BY <1>2, <2>1
    <2> QED BY <2>2, SourceGoneRestorable
  <1>3. CASE /\ run[r].move.stage = "remove source" /\ Finished(r, FALSE) /\ Fault
             /\ UNCHANGED <<input, output, jumps, chain, disk, vault>>
    <2>1. Fits(run[r], run[r].move.stage)
      BY <1>3, MoveFacts DEF RollInv
    <2>2. Busy(run[r]) /\ Planned(run[r]) /\ Head(run[r].plan).action = "quarantine_file"
      BY <1>3, <2>1, MovedEntry DEF Fits
    <2> QED BY <1>3, <2>2, MoveBreaks
  <1> QED BY <1>1, <1>2, <1>3

(* One that has come back no longer is. *)
LEMMA EntryGoneRestorable ==
    ASSUME RollInv, NEW r \in Runs, NEW ok \in BOOLEAN, EntryGone(r, ok), HostInv', FileInv'
    PROVE  RollInv'
  <1>1. /\ run[r].move.stage = "remove entry" /\ UNCHANGED <<input, output, jumps, chain, disk, faults>>
        /\ vault' = vault \ InVault(run[r].move.id) /\ Finished(r, ok)
    BY DEF EntryGone
  <1>2. PICK x, f, id, content :
            x = run[r] /\ f = Target(x) /\ id = x.move.id /\ content = x.move.content
    OBVIOUS
  <1>3. /\ Busy(run[r]) /\ Planned(run[r]) /\ Orderly(run[r]) /\ f \in DOMAIN disk /\ disk[f] = content
    BY <1>1, <1>2, MovedEntry
  <1>4. PICK e \in vault : /\ \A q \in vault : q.id = id <=> q = e
                           /\ Underway(run[r], vault) => e.base = BaseOf[f]
    BY <1>1, <1>2, MovedEntry
  <1>5. vault' = vault \ {e}
    BY <1>1, <1>2, <1>4 DEF InVault
  <1>6. DiskOK(disk')
    BY <1>1 DEF RollInv
  <1>7. PICK d : d = [g \in DOMAIN disk \ {f} |-> disk[g]]
    OBVIOUS
  <1>8. DiskNow(run[r], disk) = d /\ VaultNow(run[r], vault) = vault
    BY <1>1, <1>2, <1>7 DEF DiskNow, VaultNow
  <1>9. ASSUME NEW y, y.before = run[r].before, y.book = run[r].book,
               \A act \in Backward : \A args : Times(Owed(y), act, args) = OwedNext(run[r], act, args),
               Settled(run[r]), FilesOwed(run[r], d, vault), Underway(run[r], vault)
        PROVE  FilesOwed(y, disk', vault')
    <2> DEFINE m == Found(run[r])
               away == DOMAIN m.disk \ DOMAIN d
    <2>1. Found(y) = m /\ FilesOf(y) = FilesOf(run[r])
      BY <1>9 DEF Found, ArgsOf, FilesOf
    <2>2. /\ f \in DOMAIN m.disk /\ content = m.disk[f] /\ e.base = BaseOf[f]
          /\ Head(run[r].plan).action = "unquarantine_file"
      BY <1>1, <1>2, <1>4, <1>9 DEF Underway
    <2>3. run[r].phase = "undoing"
      <3>1. Head(run[r].plan).action \in IF run[r].phase = "acting" THEN Forward ELSE Backward
        BY <1>3, HeadActs
      <3> QED BY <1>3, <2>2, <3>1 DEF Forward, Busy
    <2>4. /\ DOMAIN d \subseteq DOMAIN m.disk /\ \A g \in DOMAIN d : d[g] = m.disk[g]
          /\ \A g \in DOMAIN m.disk : Times(Owed(run[r]), "unquarantine_file", {g}) = IF g \in away THEN 1 ELSE 0
          /\ away \subseteq FilesOf(run[r])
          /\ \A g \in away : \E q \in vault : Keeps(q, m, g)
          /\ \A q \in vault : \E g \in away : Keeps(q, m, g)
          /\ \A p, q \in vault : p.base = q.base => p = q
      BY <1>9 DEF FilesOwed
    <2>5. /\ DOMAIN d = DOMAIN disk \ {f} /\ \A g \in DOMAIN d : d[g] = disk[g]
      BY <1>7
    <2>6. DOMAIN m.disk \ DOMAIN disk' = away \ {f} /\ f \in away
      BY <1>1, <1>3, <2>2, <2>5
    <2>7. ASSUME NEW g \in DOMAIN m.disk
          PROVE  Times(Owed(y), "unquarantine_file", {g}) = IF g \in away \ {f} THEN 1 ELSE 0
      <3>1. Times(Owed(y), "unquarantine_file", {g}) = OwedNext(run[r], "unquarantine_file", {g})
        BY <1>9 DEF Backward
      <3>2. Head(run[r].plan).arg = f
        BY <1>2 DEF Target
      <3> QED BY <2>2, <2>3, <2>4, <2>6, <3>1, <3>2 DEF OwedNext, One
    <2>8. ASSUME NEW g \in away, g # f  PROVE BaseOf[g] # BaseOf[f]
      BY <1>9, <2>4, <2>6, <2>8, SettledApart
    <2> HIDE DEF m, away
    <2>9. ASSUME NEW g \in away \ {f}  PROVE \E q \in vault' : Keeps(q, m, g)
      <3>1. PICK q \in vault : Keeps(q, m, g)
        BY <2>4
      <3>2. q # e
        BY <2>2, <2>8, <3>1 DEF Keeps
      <3> QED BY <1>5, <3>1, <3>2
    <2>10. ASSUME NEW q \in vault'  PROVE \E g \in away \ {f} : Keeps(q, m, g)
      <3>1. q \in vault /\ q # e
        BY <1>5
      <3>2. PICK g \in away : Keeps(q, m, g)
        BY <2>4, <3>1
      <3>3. g # f
        BY <2>2, <2>4, <3>1, <3>2 DEF Keeps
      <3> QED BY <3>2, <3>3
    <2>11. \A p, q \in vault' : p.base = q.base => p = q
      BY <1>5, <2>4
    <2>12. DOMAIN disk' \subseteq DOMAIN m.disk /\ \A g \in DOMAIN disk' : disk'[g] = m.disk[g]
      BY <1>1, <1>3, <2>2, <2>4, <2>5
    <2>13. away \ {f} \subseteq FilesOf(y)
      BY <2>1, <2>4
    <2> QED BY <2>1, <2>6, <2>7, <2>9, <2>10, <2>11, <2>12, <2>13 DEF FilesOwed
  <1>11. /\ Underway(run[r], vault) => Head(run[r].plan).action = "unquarantine_file"
         /\ Head(run[r].plan).arg \in Files
    <2>1. Target(run[r]) \in Files
      BY <1>1, MovedEntry DEF FilesOf
    <2> QED BY <1>1, <2>1 DEF Underway, Target
  <1> QED BY <1>1, <1>3, <1>6, <1>8, <1>9, <1>11, MoveEnds

(* One that cannot be removed ends the rollback, which is clean no more.     *)
LEMMA RestoreRemoveRestorable ==
    ASSUME RollInv, NEW r \in Runs, RestoreRemove(r), HostInv', FileInv'
    PROVE  RollInv'
  <1>1. \/ EntryGone(r, InVault(run[r].move.id) # {})
        \/ /\ run[r].move.stage = "remove entry" /\ Finished(r, FALSE) /\ Fault
           /\ UNCHANGED <<input, output, jumps, chain, disk, vault>>
    BY DEF RestoreRemove, EntryGone, rules, isolation
  <1>2. CASE EntryGone(r, InVault(run[r].move.id) # {})
    <2>1. PICK ok : ok = (InVault(run[r].move.id) # {})
      OBVIOUS
    <2>2. ok \in BOOLEAN /\ EntryGone(r, ok)
      BY <1>2, <2>1
    <2> QED BY <2>2, EntryGoneRestorable
  <1>3. CASE /\ run[r].move.stage = "remove entry" /\ Finished(r, FALSE) /\ Fault
             /\ UNCHANGED <<input, output, jumps, chain, disk, vault>>
    <2>1. Busy(run[r]) /\ Planned(run[r])
      BY <1>3, MovedEntry
    <2>2. PICK ok \in BOOLEAN : ok = FALSE
      OBVIOUS
    <2>3. Finished(r, ok) /\ ~ok /\ DiskOK(disk')
      BY <1>3, <2>2 DEF RollInv
    <2>4. Underway(run[r], vault) => Head(run[r].plan).action \in {"quarantine_file", "unquarantine_file"}
      BY <1>3 DEF Underway
    <2> QED BY <1>3, <2>1, <2>3, <2>4, MoveEnds
  <1> QED BY <1>1, <1>2, <1>3

(* What is owed is counted against the machine, whatever else the step changed. *)
LEMMA OwedStays ==
    ASSUME NEW x, NEW y, x.move = NoMove, y.move = NoMove, y.book = x.book, y.before = x.before,
           Owed(y) = Owed(x), Settled(y) => Settled(x),
           NEW in, NEW out, NEW j, NEW c, NEW d, NEW v, Restorable(x, in, out, j, c, d, v)
    PROVE  Restorable(y, in, out, j, c, d, v)
  <1>1. Found(y) = Found(x)
    BY DEF Found
  <1>2. RulesOwed(y, in, out) /\ JumpsOwed(y, j, c)
    BY <1>1 DEF Restorable, RulesOwed, JumpsOwed
  <1>3. FilesOwed(y, DiskNow(y, d), VaultNow(y, v)) /\ Underway(y, v)
    BY FilesStay DEF Restorable
  <1> QED BY <1>2, <1>3 DEF Restorable

(* Nothing is owed when a playbook begins. *)
LEMMA BeginRestorable ==
    ASSUME Active = 1, Invertible, RollInv, NEW r \in Runs, Begin(r), HostInv', FileInv'
    PROVE  RollInv'
  <1> DEFINE x == run[r]
  <1>1. x.phase = "idle" /\ UNCHANGED <<input, output, jumps, chain, disk, vault, faults>>
    BY DEF Begin, rules, isolation
  <1>2. \A s \in Runs \ {r} : ~Busy(run[s])
    BY BeginAlone DEF RollInv
  <1>3. PICK plan \in Plans : run' = [run EXCEPT ![r].phase = "acting", ![r].plan = plan,
                                                 ![r].book = plan, ![r].before = <<Machine>>]
    BY DEF Begin
  <1>4. PICK m, before : m = Machine /\ before = <<m>>
    OBVIOUS
  <1> DEFINE y == [x EXCEPT !.phase = "acting", !.plan = plan, !.book = plan, !.before = before]
  <1>5. run' = [run EXCEPT ![r] = y]
    BY <1>3, <1>4
  <1>6. RunOK(x) /\ DOMAIN x = Fields /\ x.move = NoMove /\ x.undo = << >>
    BY <1>1 DEF RollInv, HostInv, RunsOK, RunOK, Busy, Orderly
  <1> HIDE DEF x
  <1>7. /\ DOMAIN y = Fields /\ y.move = NoMove /\ y.phase = "acting" /\ y.plan = plan
        /\ y.book = plan /\ y.before = before /\ y.undo = << >>
    BY <1>6 DEF Fields
  <1> HIDE DEF y
  <1>8. Becomes(r, y)
    <2>1. NoMove.stage = "none"
      BY DEF NoMove
    <2> QED BY <1>5, <1>7, <2>1 DEF Becomes, RunOK, Stages, Fits
  <1>9. Found(y) = m /\ Owed(y) = << >>
    BY <1>4, <1>7 DEF Found, Owed
  <1>10. /\ m = [input |-> input, output |-> output, jumps |-> jumps, chain |-> chain, disk |-> disk,
                 kept |-> {[base |-> q.base, content |-> q.content] : q \in vault}]
         /\ m.input = input /\ m.output = output /\ m.jumps = jumps /\ m.chain = chain /\ m.disk = disk
         /\ m.kept = {[base |-> q.base, content |-> q.content] : q \in vault}
    BY <1>4 DEF Machine
  <1>11. MachineOK(m)
    BY <1>10 DEF MachineOK, RollInv, HostInv
  <1>12. Lists(plan, Forward, ArgsOf(y)) /\ Lists(<< >>, Backward, ArgsOf(y))
    <2>1. plan \in Seq(Steps)
      BY StepsOfPlans
    <2>2. \A i \in DOMAIN plan : plan[i].arg \in ArgsOf(y)
      BY <1>7 DEF ArgsOf
    <2>3. \A i \in DOMAIN plan : plan[i].action \in Forward
      BY DEF Invertible
    <2>4. << >> \in Seq(Steps) /\ DOMAIN << >> = {}
      OBVIOUS
    <2> QED BY <2>1, <2>2, <2>3, <2>4 DEF Lists, Forward
  <1>13. Orderly(y)
    BY <1>7, <1>9, <1>11, <1>12 DEF Orderly, Busy
  <1>14. ASSUME Settled(y)
         PROVE  Restorable(y, input, output, jumps, chain, disk, vault)
    <2>1. \A action, args : Times(Owed(y), action, args) = 0
      BY <1>9, TimesNone
    <2>2. RulesOwed(y, input, output)
      BY <1>9, <1>10, <2>1 DEF RulesOwed, RollInv, HostInv
    <2>3. JumpsOwed(y, jumps, chain)
      BY <1>9, <1>10, <1>14, <2>1 DEF JumpsOwed, RollInv, Settled
    <2>4. vault = {}
      BY <1>9, <1>10, <1>14 DEF Settled
    <2>5. y.move.stage = "none"
      BY <1>7 DEF NoMove
    <2>6. FilesOwed(y, disk, vault)
      BY <1>9, <1>10, <2>1, <2>4 DEF FilesOwed
    <2> QED BY <2>2, <2>3, <2>5, <2>6 DEF Restorable, DiskNow, VaultNow, Underway
  <1>15. /\ faults' \in Nat /\ DiskOK(disk')
         /\ chain' = "none" => jumps' = [in |-> 0, out |-> 0]
    BY <1>1 DEF RollInv
  <1> QED BY <1>1, <1>2, <1>8, <1>13, <1>14, <1>15, RollStep

(* Between actions: what is owed moves from the list of inverses to the plan. *)
LEMMA QuietRestorable ==
    ASSUME RollInv, NEW r \in Runs, RollBack(r) \/ Close(r) \/ Refused(r), HostInv', FileInv'
    PROVE  RollInv'
  <1> DEFINE x == run[r]
  <1>1. Busy(x) /\ UNCHANGED <<input, output, jumps, chain, disk, vault, faults>>
    BY DEF RollBack, Close, Refused, Doing, Busy, rules, isolation
  <1>2. \A s \in Runs \ {r} : ~Busy(run[s])
    BY <1>1, OthersRest DEF RollInv, FileInv
  <1>3. RunOK(x) /\ DOMAIN x = Fields /\ Orderly(x)
    BY DEF RollInv, HostInv, RunsOK, RunOK
  <1>4. /\ faults' \in Nat /\ DiskOK(disk')
        /\ chain' = "none" => jumps' = [in |-> 0, out |-> 0]
    BY <1>1 DEF RollInv
  <1>5. Settled(x) /\ faults = 0 => Restorable(x, input, output, jumps, chain, disk, vault)
    BY <1>1 DEF RollInv
  <1>6. NoMove.stage = "none"
    BY DEF NoMove
  <1>7. ASSUME NEW y, Becomes(r, y), x.move = NoMove, y.move = NoMove, Orderly(y),
               y.book = x.book, y.before = x.before, y.clean = x.clean,
               Busy(y) => Owed(y) = Owed(x)
        PROVE  RollInv'
    <2>1. Settled(y) => Settled(x)
      BY <1>7 DEF Settled, Found, ArgsOf, FilesOf
    <2>2. Busy(y) /\ Settled(y) /\ faults' = 0 =>
            Restorable(y, input', output', jumps', chain', disk', vault')
      BY <1>1, <1>5, <1>7, <2>1, OwedStays
    <2> QED BY <1>2, <1>4, <1>7, <2>2, RollStep
  <1>8. CASE RollBack(r)
    <2> DEFINE y == [x EXCEPT !.phase = "undoing", !.plan = x.undo, !.undo = <<>>]
    <2>1. run' = [run EXCEPT ![r] = y] /\ x.plan = << >> /\ x.phase = "acting"
      BY <1>8 DEF RollBack
    <2>2. x.move = NoMove
      BY <1>3, <2>1 DEF RunOK, Planned
    <2> HIDE DEF x
    <2>3. /\ DOMAIN y = Fields /\ y.move = NoMove /\ y.phase = "undoing" /\ y.plan = x.undo
          /\ y.undo = << >> /\ y.book = x.book /\ y.before = x.before
      BY <1>3, <2>2 DEF Fields
    <2>4. y.clean = x.clean
      BY <1>3 DEF Fields
    <2> HIDE DEF y
    <2>5. Becomes(r, y)
      BY <1>6, <2>1, <2>3 DEF Becomes, RunOK, Stages, Fits
    <2>6. Orderly(y)
      <3>1. ArgsOf(y) = ArgsOf(x) /\ Found(y) = Found(x)
        BY <2>3 DEF ArgsOf, Found
      <3>2. Lists(<< >>, Backward, ArgsOf(y))
        <4>1. << >> \in Seq(Steps) /\ DOMAIN << >> = {}
          OBVIOUS
        <4> QED BY <4>1 DEF Lists
      <3> QED BY <1>1, <1>3, <2>3, <3>1, <3>2 DEF Orderly, Busy
    <2>7. Owed(y) = Owed(x)
      BY <2>1, <2>3 DEF Owed
    <2> QED BY <1>7, <2>2, <2>3, <2>4, <2>5, <2>6, <2>7 DEF x
  <1>9. CASE Close(r)
    <2> DEFINE y == [x EXCEPT !.phase = "done"]
    <2>1. run' = [run EXCEPT ![r] = y] /\ x.plan = << >>
      BY <1>9 DEF Close
    <2>2. x.move = NoMove
      BY <1>3, <2>1 DEF RunOK, Planned
    <2> HIDE DEF x
    <2>3. /\ DOMAIN y = Fields /\ y.move = NoMove /\ y.phase = "done"
          /\ y.book = x.book /\ y.before = x.before
      BY <1>3, <2>2 DEF Fields
    <2>4. y.clean = x.clean
      BY <1>3 DEF Fields
    <2> HIDE DEF y
    <2>5. Becomes(r, y)
      BY <1>6, <2>1, <2>3 DEF Becomes, RunOK, Stages, Fits
    <2>6. Orderly(y) /\ ~Busy(y)
      BY <2>3 DEF Orderly, Busy
    <2> QED BY <1>7, <2>2, <2>3, <2>4, <2>5, <2>6 DEF x
  <1>10. CASE Refused(r)
    <2> DEFINE rest == IF Head(x.plan).onFailure = "continue" THEN Tail(x.plan) ELSE <<>>
               y == [x EXCEPT !.plan = rest]
    <2>1. /\ run' = [run EXCEPT ![r] = y] /\ x.move = NoMove /\ Planned(x)
          /\ Head(x.plan).action = "block_ip" /\ rest \in {Tail(x.plan), << >>}
      BY <1>10 DEF Refused, Doing, Planned
    <2> HIDE DEF x, rest
    <2>2. /\ DOMAIN y = Fields /\ y.move = NoMove /\ y.phase = x.phase /\ y.plan = rest
          /\ y.undo = x.undo /\ y.book = x.book /\ y.before = x.before
      BY <1>3, <2>1 DEF Fields
    <2>3. y.clean = x.clean
      BY <1>3 DEF Fields
    <2> HIDE DEF y
    <2>4. Becomes(r, y)
      BY <1>3, <1>6, <2>1, <2>2 DEF Becomes, RunOK, Stages, Fits
    <2>5. Orderly(y)
      BY <1>1, <1>3, <2>1, <2>2, OrderlyAfter
    <2>6. x.phase = "acting"
      BY <1>1, <1>3, <2>1, HeadActs DEF Backward
    <2>7. Owed(y) = Owed(x)
      BY <2>2, <2>6 DEF Owed
    <2> QED BY <1>7, <2>1, <2>2, <2>3, <2>4, <2>5, <2>7 DEF x
  <1> QED BY <1>8, <1>9, <1>10

LEMMA RollStarts == HostInit => RollInv
  <1> SUFFICES ASSUME HostInit PROVE RollInv OBVIOUS
  <1>1. HostInv /\ FileInv
    BY HostStarts, FilesStart
  <1>2. /\ faults = 0 /\ disk = [f \in Files |-> f] /\ jumps = [in |-> 0, out |-> 0]
        /\ \A r \in Runs : run[r].phase = "idle" /\ run[r].undo = << >>
    BY DEF HostInit
  <1>3. DiskOK(disk)
    BY <1>2 DEF DiskOK
  <1>4. \A r \in Runs : ~Busy(run[r])
    BY <1>2 DEF Busy
  <1> QED BY <1>1, <1>2, <1>3, <1>4 DEF RollInv, Orderly

LEMMA RollKeeps ==
    ASSUME Active = 1, Invertible, RollInv, [HostNext]_hostVars
    PROVE  RollInv'
  <1>1. HostInv' /\ FileInv'
    BY HostKeeps, FilesKeep DEF RollInv
  <1>2. ASSUME NEW r \in Runs, BlockIP(r) \/ UnblockIP(r) \/ IsolateHost(r) \/ UnisolateHost(r) PROVE RollInv'
    BY <1>1, <1>2, BlockIPRestorable, UnblockIPRestorable, IsolateHostRestorable, UnisolateHostRestorable
  <1>3. ASSUME NEW r \in Runs, QuarantineOpen(r) \/ QuarantineCopy(r) \/ QuarantineRemove(r) PROVE RollInv'
    BY <1>1, <1>3, QuarantineOpenRestorable, QuarantineCopyRestorable, QuarantineRemoveRestorable
  <1>4. ASSUME NEW r \in Runs, RestoreOpen(r) \/ RestoreCopy(r) \/ RestoreRemove(r) PROVE RollInv'
    BY <1>1, <1>4, RestoreOpenRestorable, RestoreCopyRestorable, RestoreRemoveRestorable
  <1>5. ASSUME NEW r \in Runs, Begin(r) \/ RollBack(r) \/ Close(r) \/ Refused(r) PROVE RollInv'
    BY <1>1, <1>5, BeginRestorable, QuietRestorable
  <1>6. CASE UNCHANGED hostVars
    <2>1. UNCHANGED <<input, output, jumps, chain, disk, vault, run, faults>>
      BY <1>6 DEF hostVars
    <2> QED BY <1>1, <2>1 DEF RollInv
  <1> QED BY <1>2, <1>3, <1>4, <1>5, <1>6 DEF HostNext

(* When nothing is owed any more, the machine is the one that was found.     *)
LEMMA NothingOwed ==
    ASSUME RollInv, NEW r \in Runs, RolledBack(r), Distinct(r), faults = 0
    PROVE  Machine = run[r].before[1]
  <1> DEFINE x == run[r]
             m == Found(x)
  <1>1. x.phase = "undoing" /\ x.plan = << >> /\ x.clean
    BY DEF RolledBack
  <1>2. x.move.stage = "none"
    BY <1>1 DEF RollInv, HostInv, RunsOK, RunOK, Planned
  <1>3. /\ m.chain = "none" /\ m.kept = {}
        /\ \A f, g \in FilesOf(x) : BaseOf[g] \in NamesUnder[BaseOf[f]] => f = g
    <2> DEFINE taken == {step.arg : step \in {x.book[i] : i \in DOMAIN x.book}} \cap Files
    <2>1. /\ m.chain = "none" /\ m.kept = {}
          /\ \A f, g \in taken : BaseOf[g] \in NamesUnder[BaseOf[f]] => f = g
      BY DEF Distinct, Found
    <2>2. FilesOf(x) \subseteq taken
      BY DEF FilesOf, ArgsOf
    <2> QED BY <2>1, <2>2
  <1>4. Busy(x) /\ Settled(x)
    BY <1>1, <1>3 DEF Busy, Settled
  <1>5. Restorable(x, input, output, jumps, chain, disk, vault) /\ MachineOK(m)
    BY <1>4 DEF RollInv, Orderly
  <1>6. DiskNow(x, disk) = disk /\ VaultNow(x, vault) = vault
    BY <1>2 DEF DiskNow, VaultNow
  <1>7. \A action, args : Times(Owed(x), action, args) = 0
    BY <1>1, TimesNone DEF Owed
  <1>8. input = m.input /\ output = m.output
    <2>1. ASSUME NEW a \in Blocked  PROVE input[a] = m.input[a] /\ output[a] = m.output[a]
      <3>1. /\ input[a] = m.input[a] + Times(Owed(x), "unblock_ip", {a})
            /\ output[a] = m.output[a] + Times(Owed(x), "unblock_ip", {a})
        BY <1>5 DEF Restorable, RulesOwed
      <3>2. Times(Owed(x), "unblock_ip", {a}) = 0 /\ m.input[a] \in Nat /\ m.output[a] \in Nat
        BY <1>5, <1>7 DEF MachineOK
      <3> HIDE DEF m, x
      <3> QED BY <3>1, <3>2
    <2>2. input \in [Blocked -> Nat] /\ output \in [Blocked -> Nat]
      BY DEF RollInv, HostInv
    <2> QED BY <1>5, <2>1, <2>2 DEF MachineOK
  <1>9. jumps = m.jumps /\ chain = m.chain
    <2>1. jumps = [in |-> 0, out |-> 0] /\ chain = "none"
      BY <1>5, <1>7 DEF Restorable, JumpsOwed
    <2> QED BY <1>3, <1>5, <2>1 DEF MachineOK
  <1>10. disk = m.disk /\ vault = {}
    <2>1. FilesOwed(x, disk, vault)
      BY <1>5, <1>6 DEF Restorable
    <2>2. DOMAIN disk = DOMAIN m.disk /\ \A f \in DOMAIN disk : disk[f] = m.disk[f]
      <3>1. ASSUME NEW f \in DOMAIN m.disk \ DOMAIN disk  PROVE FALSE
        <4>1. Times(Owed(x), "unquarantine_file", {f}) = 1
          BY <2>1 DEF FilesOwed
        <4> QED BY <1>7, <4>1
      <3>2. DOMAIN disk \subseteq DOMAIN m.disk /\ \A f \in DOMAIN disk : disk[f] = m.disk[f]
        BY <2>1 DEF FilesOwed
      <3> QED BY <3>1, <3>2
    <2>3. vault = {}
      BY <2>1, <2>2 DEF FilesOwed
    <2>4. disk = [f \in DOMAIN disk |-> disk[f]] /\ m.disk = [f \in DOMAIN m.disk |-> m.disk[f]]
      BY <1>5 DEF RollInv, MachineOK, DiskOK
    <2> QED BY <2>2, <2>3, <2>4
  <1>11. {[base |-> q.base, content |-> q.content] : q \in vault} = m.kept
    BY <1>3, <1>10
  <1> QED BY <1>5, <1>8, <1>9, <1>10, <1>11 DEF Machine, MachineOK, Found

(* ExecuteRollback: a playbook of actions that have an inverse, executed     *)
(* beside no other, leaves the machine as it found it once all its inverses  *)
(* are done and none failed: the rules of addresses blocked again, the chain *)
(* and the jumps of an isolation done twice, and the content of every file   *)
(* moved to the quarantine, if that was empty and no file's base name begins *)
(* another's up to a dot or equals it: with such names a file may be put     *)
(* into the other's place.  A playbook of other actions has steps nothing    *)
(* takes back.                                                               *)
THEOREM RollbackRestored ==
    ASSUME Active = 1, Invertible
    PROVE  HostSpec => []RollbackRestores
  <1>1. RollInv => RollbackRestores
    BY NothingOwed DEF RollbackRestores
  <1>2. RollInv /\ [HostNext]_hostVars => RollInv'
    BY RollKeeps
  <1> QED BY RollStarts, <1>1, <1>2, PTL DEF HostSpec

=============================================================================
