------------------------- MODULE CorrelationProofs -------------------------
(***************************************************************************)
(* Threshold rules count soundly, for every set of rules and hosts, every  *)
(* threshold, timeframe and disorder of the stream.                        *)
(***************************************************************************)
EXTENDS Correlation, FiniteSetTheorems, TLAPS

(* Some event carries the latest stamp, so Latest is defined, and no event *)
(* is stamped more than Skew before one that came earlier.                 *)
Stamped ==
    /\ events # << >> =>
           \E i \in DOMAIN events : \A j \in DOMAIN events : events[j].ts <= events[i].ts
    /\ \A i, j \in DOMAIN events : i < j => events[i].ts - Skew <= events[j].ts

(* What an alert has counted is no longer buffered for its rule and host.  *)
SpentIsGone ==
    \A a \in alerts : \A k \in Keys :
        a.rule = k[1] /\ events[a.at].host = k[2] => a.counted \cap state[k] = {}

CountInv == TypeOK /\ Stamped /\ SpentIsGone /\ AlertsAreEarned /\ NothingCountsTwice

LEMMA CountStarts == Init => CountInv
  <1> SUFFICES ASSUME Init PROVE CountInv
    OBVIOUS
  <1>1. Cardinality({}) = 0
    BY FS_EmptySet
  <1>2. \A k \in Keys : k[1] \in Rules
    BY DEF Keys
  <1>3. events = << >> /\ DOMAIN events = {} /\ alerts = {} /\ \A k \in Keys : state[k] = {}
    BY DEF Init
  <1>4. TypeOK
    <2>1. \A k \in Keys : IF Timed(k[1]) THEN Cardinality(state[k]) < Threshold[k[1]] ELSE state[k] = {}
      <3> SUFFICES ASSUME NEW k \in Keys
                   PROVE  IF Timed(k[1]) THEN Cardinality(state[k]) < Threshold[k[1]] ELSE state[k] = {}
        OBVIOUS
      <3>1. state[k] = {} /\ Cardinality(state[k]) = 0
        BY <1>1, <1>3
      <3>2. Threshold[k[1]] \in Int
        BY <1>2, CorrelationAssumption
      <3> QED BY <3>1, <3>2 DEF Timed
    <2> QED BY <1>3, <2>1 DEF TypeOK, Init
  <1> QED BY <1>3, <1>4 DEF CountInv, Stamped, SpentIsGone, AlertsAreEarned, NothingCountsTwice

(* A call keeps the history and adds one event to it.                      *)
LEMMA Appended ==
    ASSUME events \in Seq(Event), NEW e \in Event
    PROVE  LET n == Len(events) + 1
               evts == Append(events, e)
           IN  /\ n \in Nat /\ Len(events) \in Nat
               /\ evts \in Seq(Event) /\ Len(evts) = n
               /\ DOMAIN evts = 1 .. n /\ DOMAIN events = 1 .. Len(events)
               /\ evts[n] = e
               /\ \A m \in 1 .. Len(events) : evts[m] = events[m] /\ m \in 1 .. n /\ m # n
               /\ \A m \in 1 .. n : m = n \/ m \in 1 .. Len(events)
  OBVIOUS

LEMMA Stamps ==
    ASSUME CountInv
    PROVE  \A i \in DOMAIN events : events[i] \in Event /\ events[i].ts \in Nat
  <1>1. events \in Seq(Event)
    BY DEF CountInv, TypeOK
  <1>2. \A i \in DOMAIN events : events[i] \in Event
    BY <1>1
  <1>3. \A x \in Event : x.ts \in Nat
    BY DEF Event
  <1> QED BY <1>2, <1>3

LEMMA LatestIsLatest ==
    ASSUME CountInv
    PROVE  /\ Latest \in Nat
           /\ \A i \in DOMAIN events : events[i].ts <= Latest
  <1>1. CASE events = << >>
    BY <1>1 DEF Latest
  <1>2. CASE events # << >>
    <2>1. \A i \in DOMAIN events : events[i].ts \in Nat
      BY Stamps
    <2>2. PICK i \in DOMAIN events : \A j \in DOMAIN events : events[j].ts <= events[i].ts
      BY <1>2 DEF CountInv, Stamped
    <2>3. \E t \in {events[k].ts : k \in DOMAIN events} : \A j \in DOMAIN events : events[j].ts <= t
      BY <2>2
    <2> QED BY <1>2, <2>1, <2>3 DEF Latest
  <1> QED BY <1>1, <1>2

LEMMA ArrivalsAreEvents ==
    ASSUME CountInv, NEW e \in Arrivals
    PROVE  e \in Event /\ \A i \in DOMAIN events : events[i].ts - Skew <= e.ts
  <1>1. Latest \in Nat /\ \A i \in DOMAIN events : events[i].ts <= Latest
    BY LatestIsLatest
  <1>2. e.ts \in Nat /\ Latest - Skew <= e.ts
    BY <1>1, CorrelationAssumption DEF Arrivals
  <1>3. e \in Event
    BY <1>2 DEF Arrivals, Event
  <1>4. \A i \in DOMAIN events : events[i].ts \in Nat
    BY Stamps
  <1> QED BY <1>1, <1>2, <1>3, <1>4, CorrelationAssumption

(* What a call counts for a rule it matches: this event, and buffered ones *)
(* of the same host that match the rule and that no alert has counted.     *)
LEMMA KeptFacts ==
    ASSUME CountInv, NEW e \in Arrivals, NEW r \in Rules, MatchRule(r, e), Timed(r)
    PROVE  LET n == Len(events) + 1
               evts == Append(events, e)
               kept == Kept(r, evts, n)
           IN  /\ <<r, e.host>> \in Keys
               /\ kept \subseteq state[<<r, e.host>>] \cup {n}
               /\ n \in kept
               /\ kept \subseteq 1 .. n
               /\ Cardinality(kept) \in Nat
               /\ \A m \in kept : MatchRule(r, evts[m]) /\ evts[m].host = e.host
               /\ \A m \in kept : evts[m].ts >= e.ts - Window(r)
  <1> DEFINE n == Len(events) + 1
             evts == Append(events, e)
             kept == Kept(r, evts, n)
  <1>1. e \in Event
    BY ArrivalsAreEvents
  <1>2. events \in Seq(Event)
    BY DEF CountInv, TypeOK
  <1>3. /\ n \in Nat /\ Len(events) \in Nat /\ evts[n] = e
        /\ \A m \in 1 .. Len(events) : evts[m] = events[m] /\ m \in 1 .. n
    BY <1>1, <1>2, Appended
  <1>4. <<r, e.host>> \in Keys
    BY <1>1 DEF Event, Keys
  <1>5. kept = {m \in state[<<r, e.host>>] \cup {n} : evts[m].ts >= e.ts - Window(r)}
    BY <1>3 DEF Kept, Key, Recent
  <1>6. \A m \in state[<<r, e.host>>] :
            m \in 1 .. Len(events) /\ MatchRule(r, events[m]) /\ events[m].host = e.host
    BY <1>4 DEF CountInv, TypeOK
  <1>7. Window(r) \in Nat
    BY CorrelationAssumption DEF Window, Timed
  <1>8. e.ts \in Nat
    BY <1>1 DEF Event
  <1>9. n \in kept
    BY <1>3, <1>5, <1>7, <1>8
  <1>10. kept \subseteq 1 .. n
    BY <1>3, <1>5, <1>6
  <1>11. Cardinality(kept) \in Nat
    <2>1. IsFiniteSet(1 .. n)
      BY <1>3, FS_Interval
    <2>2. IsFiniteSet(kept)
      BY <1>10, <2>1, FS_Subset
    <2> QED BY <2>2, FS_CardinalityType
  <1>12. \A m \in kept : MatchRule(r, evts[m]) /\ evts[m].host = e.host
    BY <1>3, <1>5, <1>6
  <1> QED BY <1>4, <1>5, <1>9, <1>10, <1>11, <1>12

(* The rules that look at the event, and what each counts, as Evaluate     *)
(* computes them.                                                          *)
Counted(r, e) == IF Timed(r) THEN Kept(r, Append(events, e), Len(events) + 1) ELSE {Len(events) + 1}
Fires(r, e) == Timed(r) => Cardinality(Counted(r, e)) >= Threshold[r]
NewAlert(r, e) == [rule |-> r, at |-> Len(events) + 1, counted |-> Counted(r, e)]

(* The effect of a call, key by key and alert by alert.                    *)
LEMMA Effect ==
    ASSUME CountInv, NEW e \in Arrivals, Evaluate(e)
    PROVE  /\ events' = Append(events, e)
           /\ state' = [k \in Keys |->
                           IF MatchRule(k[1], e) /\ Timed(k[1]) /\ k[2] = e.host
                           THEN (IF Fires(k[1], e) THEN {} ELSE Counted(k[1], e))
                           ELSE state[k]]
           /\ \A a \in alerts' :
                  a \in alerts \/ \E r \in Rules : MatchRule(r, e) /\ Fires(r, e) /\ a = NewAlert(r, e)
  <1>1. \A k \in Keys : k = <<k[1], k[2]>> /\ k[1] \in Rules
    BY DEF Keys
  <1>2. events' = Append(events, e)
    BY DEF Evaluate
  <1>3. alerts' = alerts \cup {NewAlert(r, e) : r \in {q \in {p \in Rules : MatchRule(p, e)} : Fires(q, e)}}
    BY DEF Evaluate, NewAlert, Fires, Counted
  <1>4. state' = [k \in Keys |->
                     IF k[1] \in {r \in {p \in Rules : MatchRule(p, e)} : Timed(r)} /\ k = <<k[1], e.host>>
                     THEN Left(Fires(k[1], e), Counted(k[1], e))
                     ELSE state[k]]
    BY DEF Evaluate, Fires, Counted, Key
  <1>5. ASSUME NEW k \in Keys
        PROVE  (k[1] \in {r \in {p \in Rules : MatchRule(p, e)} : Timed(r)} /\ k = <<k[1], e.host>>)
                 <=> (MatchRule(k[1], e) /\ Timed(k[1]) /\ k[2] = e.host)
    BY <1>1
  <1>6. state' = [k \in Keys |->
                     IF MatchRule(k[1], e) /\ Timed(k[1]) /\ k[2] = e.host
                     THEN Left(Fires(k[1], e), Counted(k[1], e))
                     ELSE state[k]]
    BY <1>4, <1>5
  <1>7. \A k \in Keys : Left(Fires(k[1], e), Counted(k[1], e)) = (IF Fires(k[1], e) THEN {} ELSE Counted(k[1], e))
    BY DEF Left
  <1> QED BY <1>2, <1>3, <1>6, <1>7

(* The history after a call, and what the call leaves in a buffer.         *)
LEMMA AfterCall ==
    ASSUME CountInv, NEW e \in Arrivals, Evaluate(e)
    PROVE  /\ e \in Event /\ Len(events) \in Nat
           /\ events' \in Seq(Event) /\ Len(events') = Len(events) + 1
           /\ DOMAIN events' = 1 .. Len(events) + 1 /\ DOMAIN events = 1 .. Len(events)
           /\ events'[Len(events) + 1] = e
           /\ \A m \in 1 .. Len(events) :
                  events'[m] = events[m] /\ m \in 1 .. Len(events) + 1 /\ m # Len(events) + 1
           /\ \A m \in 1 .. Len(events) + 1 : m = Len(events) + 1 \/ m \in 1 .. Len(events)
           /\ Len(events) + 1 \in 1 .. Len(events) + 1
  <1>1. e \in Event
    BY ArrivalsAreEvents
  <1>2. events \in Seq(Event)
    BY DEF CountInv, TypeOK
  <1>3. events' = Append(events, e)
    BY Effect
  <1>4. Len(events) + 1 \in 1 .. Len(events) + 1
    BY <1>2
  <1> QED BY <1>1, <1>2, <1>3, <1>4, Appended

(* What the call counts for a rule that it matches.                        *)
LEMMA CountedFacts ==
    ASSUME CountInv, NEW e \in Arrivals, Evaluate(e), NEW r \in Rules, MatchRule(r, e)
    PROVE  /\ Len(events) + 1 \in Counted(r, e)
           /\ Counted(r, e) \subseteq 1 .. Len(events) + 1
           /\ \A m \in Counted(r, e) : MatchRule(r, events'[m]) /\ events'[m].host = e.host
           /\ Timed(r) => /\ Cardinality(Counted(r, e)) \in Nat
                          /\ <<r, e.host>> \in Keys
                          /\ Counted(r, e) \subseteq state[<<r, e.host>>] \cup {Len(events) + 1}
                          /\ \A m \in Counted(r, e) : events'[m].ts >= e.ts - Window(r)
           /\ ~ Timed(r) => Counted(r, e) = {Len(events) + 1}
  <1>1. events' = Append(events, e)
    BY Effect
  <1>2. CASE Timed(r)
    BY <1>1, <1>2, KeptFacts DEF Counted
  <1>3. CASE ~ Timed(r)
    <2>1. Counted(r, e) = {Len(events) + 1}
      BY <1>3 DEF Counted
    <2>2. events'[Len(events) + 1] = e /\ Len(events) + 1 \in 1 .. Len(events) + 1
      BY AfterCall
    <2> QED BY <1>3, <2>1, <2>2
  <1> QED BY <1>2, <1>3

(* An alert is an old one, of which nothing changes, or a new one.         *)
LEMMA OldAlerts ==
    ASSUME CountInv, NEW e \in Arrivals, Evaluate(e), NEW a \in alerts
    PROVE  /\ a.rule \in Rules
           /\ a.at \in 1 .. Len(events) /\ a.counted \subseteq 1 .. Len(events)
           /\ events'[a.at] = events[a.at]
           /\ \A m \in a.counted : events'[m] = events[m] /\ m # Len(events) + 1
  <1>1. alerts \subseteq [rule : Rules, at : 1 .. Len(events), counted : SUBSET (1 .. Len(events))]
    BY DEF CountInv, TypeOK
  <1> QED BY <1>1, AfterCall

LEMMA BufferAfter ==
    ASSUME CountInv, NEW e \in Arrivals, Evaluate(e), NEW k \in Keys
    PROVE  /\ k[1] \in Rules /\ k = <<k[1], k[2]>>
           /\ state'[k] \subseteq state[k] \cup {Len(events) + 1}
           /\ ~ Timed(k[1]) => state'[k] = {}
           /\ MatchRule(k[1], e) /\ Timed(k[1]) /\ k[2] = e.host =>
                  state'[k] = IF Fires(k[1], e) THEN {} ELSE Counted(k[1], e)
           /\ ~ (MatchRule(k[1], e) /\ Timed(k[1]) /\ k[2] = e.host) => state'[k] = state[k]
  <1>1. k[1] \in Rules /\ k = <<k[1], k[2]>>
    BY DEF Keys
  <1>2. state'[k] = IF MatchRule(k[1], e) /\ Timed(k[1]) /\ k[2] = e.host
                    THEN (IF Fires(k[1], e) THEN {} ELSE Counted(k[1], e))
                    ELSE state[k]
    BY Effect
  <1>3. ~ Timed(k[1]) => state[k] = {}
    BY DEF CountInv, TypeOK
  <1>4. CASE MatchRule(k[1], e) /\ Timed(k[1]) /\ k[2] = e.host
    <2>1. Counted(k[1], e) \subseteq state[k] \cup {Len(events) + 1}
      BY <1>1, <1>4, CountedFacts
    <2> QED BY <1>1, <1>2, <1>4, <2>1
  <1>5. CASE ~ (MatchRule(k[1], e) /\ Timed(k[1]) /\ k[2] = e.host)
    BY <1>1, <1>2, <1>3, <1>5
  <1> QED BY <1>4, <1>5

LEMMA CallKeepsTypes ==
    ASSUME CountInv, NEW e \in Arrivals, Evaluate(e)
    PROVE  TypeOK'
  <1> DEFINE N == Len(events) + 1
  <1>1. events' \in Seq(Event) /\ Len(events') = N
    BY AfterCall
  <1>2. /\ state \in [Keys -> SUBSET (1 .. Len(events))]
        /\ \A k \in Keys : \A m \in state[k] :
               MatchRule(k[1], events[m]) /\ events[m].host = k[2]
        /\ \A k \in Keys :
               IF Timed(k[1]) THEN Cardinality(state[k]) < Threshold[k[1]] ELSE state[k] = {}
    BY DEF CountInv, TypeOK
  <1>3. ASSUME NEW k \in Keys PROVE state'[k] \subseteq 1 .. N
    <2>1. state'[k] \subseteq state[k] \cup {N}
      BY BufferAfter
    <2>2. state[k] \subseteq 1 .. Len(events)
      BY <1>2
    <2> QED BY <2>1, <2>2, AfterCall
  <1>4. state' \in [Keys -> SUBSET (1 .. N)]
    <2>1. state' = [k \in Keys |-> state'[k]]
      BY Effect
    <2> QED BY <1>3, <2>1
  <1>5. ASSUME NEW k \in Keys, NEW m \in state'[k]
        PROVE  MatchRule(k[1], events'[m]) /\ events'[m].host = k[2]
    <2>1. CASE MatchRule(k[1], e) /\ Timed(k[1]) /\ k[2] = e.host
      <3>1. m \in Counted(k[1], e) /\ k[1] \in Rules
        BY <1>5, <2>1, BufferAfter
      <3> QED BY <2>1, <3>1, CountedFacts
    <2>2. CASE ~ (MatchRule(k[1], e) /\ Timed(k[1]) /\ k[2] = e.host)
      <3>1. m \in state[k]
        BY <1>5, <2>2, BufferAfter
      <3>2. m \in 1 .. Len(events) /\ MatchRule(k[1], events[m]) /\ events[m].host = k[2]
        BY <1>2, <3>1
      <3> QED BY <3>2, AfterCall
    <2> QED BY <2>1, <2>2
  <1>6. ASSUME NEW k \in Keys
        PROVE  IF Timed(k[1]) THEN Cardinality(state'[k]) < Threshold[k[1]] ELSE state'[k] = {}
    <2>1. k[1] \in Rules /\ Threshold[k[1]] \in Int
      BY BufferAfter, CorrelationAssumption
    <2>2. CASE MatchRule(k[1], e) /\ Timed(k[1]) /\ k[2] = e.host
      <3>1. Cardinality(Counted(k[1], e)) \in Nat
        BY <2>1, <2>2, CountedFacts
      <3>2. CASE Fires(k[1], e)
        <4>1. state'[k] = {} /\ Cardinality(state'[k]) = 0
          BY <2>2, <3>2, BufferAfter, FS_EmptySet
        <4> QED BY <2>1, <2>2, <4>1 DEF Timed
      <3>3. CASE ~ Fires(k[1], e)
        <4>1. state'[k] = Counted(k[1], e)
          BY <2>2, <3>3, BufferAfter
        <4> QED BY <2>1, <2>2, <3>1, <3>3, <4>1 DEF Fires
      <3> QED BY <3>2, <3>3
    <2>3. CASE ~ (MatchRule(k[1], e) /\ Timed(k[1]) /\ k[2] = e.host)
      BY <1>2, <2>3, BufferAfter
    <2> QED BY <2>2, <2>3
  <1>7. ASSUME NEW a \in alerts'
        PROVE  a \in [rule : Rules, at : 1 .. N, counted : SUBSET (1 .. N)]
    <2>1. CASE a \in alerts
      <3>1. a \in [rule : Rules, at : 1 .. Len(events), counted : SUBSET (1 .. Len(events))]
        BY <2>1 DEF CountInv, TypeOK
      <3>2. 1 .. Len(events) \subseteq 1 .. N
        BY AfterCall
      <3> QED BY <3>1, <3>2
    <2>2. CASE \E r \in Rules : MatchRule(r, e) /\ Fires(r, e) /\ a = NewAlert(r, e)
      <3>1. PICK r \in Rules : MatchRule(r, e) /\ Fires(r, e) /\ a = NewAlert(r, e)
        BY <2>2
      <3>2. Counted(r, e) \subseteq 1 .. N /\ N \in 1 .. N
        BY <3>1, CountedFacts, AfterCall
      <3> QED BY <3>1, <3>2 DEF NewAlert
    <2> QED BY <1>7, <2>1, <2>2, Effect
  <1> HIDE DEF N
  <1> QED BY <1>1, <1>4, <1>5, <1>6, <1>7 DEF TypeOK

LEMMA CallKeepsStamps ==
    ASSUME CountInv, NEW e \in Arrivals, Evaluate(e)
    PROVE  Stamped'
  <1> DEFINE N == Len(events) + 1
  <1>1. \A i \in 1 .. Len(events) : events'[i] = events[i] /\ events'[i].ts \in Nat
    BY AfterCall, Stamps
  <1>2. events'[N].ts \in Nat /\ events'[N] = e
    BY AfterCall DEF Event
  <1>3. \A i \in 1 .. Len(events) : events'[i].ts - Skew <= e.ts
    BY <1>1, ArrivalsAreEvents, AfterCall
  <1>4. ASSUME NEW i \in DOMAIN events', NEW j \in DOMAIN events', i < j
        PROVE  events'[i].ts - Skew <= events'[j].ts
    <2>1. i \in 1 .. Len(events)
      BY <1>4, AfterCall
    <2>2. CASE j = N
      BY <1>2, <1>3, <2>1, <2>2
    <2>3. CASE j \in 1 .. Len(events)
      <3>1. events[i].ts - Skew <= events[j].ts
        BY <1>4, <2>1, <2>3, AfterCall DEF CountInv, Stamped
      <3> QED BY <1>1, <2>1, <2>3, <3>1
    <2> QED BY <2>2, <2>3, AfterCall
  <1>5. \E i \in DOMAIN events' : \A j \in DOMAIN events' : events'[j].ts <= events'[i].ts
    <2>1. DOMAIN events' = 1 .. N /\ N \in 1 .. N /\ (\A j \in 1 .. N : j = N \/ j \in 1 .. Len(events))
      BY AfterCall
    <2>2. CASE events = << >>
      <3>1. 1 .. Len(events) = {}
        BY <2>2
      <3> QED BY <1>2, <2>1, <3>1
    <2>3. CASE events # << >>
      <3>1. PICK i \in 1 .. Len(events) : \A j \in 1 .. Len(events) : events[j].ts <= events[i].ts
        BY <2>3, AfterCall DEF CountInv, Stamped
      <3>2. i \in 1 .. N /\ \A j \in 1 .. Len(events) : events'[j].ts <= events'[i].ts
        BY <1>1, <3>1, AfterCall
      <3>3. CASE e.ts <= events'[i].ts
        BY <1>2, <2>1, <3>2, <3>3
      <3>4. CASE ~ (e.ts <= events'[i].ts)
        <4>1. ASSUME NEW j \in 1 .. Len(events) PROVE events'[j].ts <= events'[N].ts
          <5>1. events'[j].ts \in Nat /\ events'[i].ts \in Nat /\ events'[j].ts <= events'[i].ts
            BY <1>1, <3>1, <3>2
          <5> QED BY <1>2, <3>4, <5>1
        <4>2. \A j \in 1 .. N : events'[j].ts <= events'[N].ts
          BY <1>2, <2>1, <4>1
        <4> HIDE DEF N
        <4> QED BY <2>1, <4>2
      <3> QED BY <3>3, <3>4
    <2> QED BY <2>2, <2>3
  <1> QED BY <1>4, <1>5 DEF Stamped

LEMMA CallKeepsSpent ==
    ASSUME CountInv, NEW e \in Arrivals, Evaluate(e)
    PROVE  SpentIsGone'
  <1> SUFFICES ASSUME NEW a \in alerts', NEW k \in Keys,
                      a.rule = k[1], events'[a.at].host = k[2]
               PROVE  a.counted \cap state'[k] = {}
    BY DEF SpentIsGone
  <1>1. CASE a \in alerts
    <2>1. events[a.at].host = k[2] /\ \A m \in a.counted : m # Len(events) + 1
      BY <1>1, OldAlerts
    <2>2. a.counted \cap state[k] = {}
      BY <1>1, <2>1 DEF CountInv, SpentIsGone
    <2>3. state'[k] \subseteq state[k] \cup {Len(events) + 1}
      BY BufferAfter
    <2> QED BY <2>1, <2>2, <2>3
  <1>2. ASSUME NEW r \in Rules, MatchRule(r, e), Fires(r, e), a = NewAlert(r, e)
        PROVE  a.counted \cap state'[k] = {}
    <2>1. r = k[1] /\ a.at = Len(events) + 1
      BY <1>2 DEF NewAlert
    <2>2. k[2] = e.host
      BY <2>1, AfterCall
    <2>3. state'[k] = {}
      BY <1>2, <2>1, <2>2, BufferAfter
    <2> QED BY <2>3
  <1> QED BY <1>1, <1>2, Effect

LEMMA CallKeepsEarned ==
    ASSUME CountInv, NEW e \in Arrivals, Evaluate(e)
    PROVE  AlertsAreEarned'
  <1> DEFINE N == Len(events) + 1
  <1> SUFFICES ASSUME NEW a \in alerts'
               PROVE  /\ Counts(a)' /\ a.at \in a.counted
                      /\ Timed(a.rule) =>
                             /\ Cardinality(a.counted) >= Threshold[a.rule]
                             /\ \A m \in a.counted : events'[m].host = events'[a.at].host
                             /\ \A m, n \in a.counted :
                                    events'[m].ts - events'[n].ts <= Window(a.rule) + Skew
    BY DEF AlertsAreEarned
  <1>1. CASE a \in alerts
    <2>1. events'[a.at] = events[a.at] /\ \A m \in a.counted : events'[m] = events[m]
      BY <1>1, OldAlerts
    <2>2. /\ Counts(a) /\ a.at \in a.counted
          /\ Timed(a.rule) =>
                 /\ Cardinality(a.counted) >= Threshold[a.rule]
                 /\ \A m \in a.counted : events[m].host = events[a.at].host
                 /\ \A m, n \in a.counted :
                        events[m].ts - events[n].ts <= Window(a.rule) + Skew
      BY <1>1 DEF CountInv, AlertsAreEarned
    <2>3. Counts(a)'
      BY <2>1, <2>2 DEF Counts
    <2> QED BY <2>1, <2>2, <2>3
  <1>2. ASSUME NEW r \in Rules, MatchRule(r, e), Fires(r, e), a = NewAlert(r, e)
        PROVE  /\ Counts(a)' /\ a.at \in a.counted
               /\ Timed(a.rule) =>
                      /\ Cardinality(a.counted) >= Threshold[a.rule]
                      /\ \A m \in a.counted : events'[m].host = events'[a.at].host
                      /\ \A m, n \in a.counted :
                             events'[m].ts - events'[n].ts <= Window(a.rule) + Skew
    <2>1. a.rule = r /\ a.at = N /\ a.counted = Counted(r, e)
      BY <1>2 DEF NewAlert
    <2>2. /\ N \in Counted(r, e)
          /\ Counted(r, e) \subseteq 1 .. N
          /\ \A m \in Counted(r, e) : MatchRule(r, events'[m]) /\ events'[m].host = e.host
      BY <1>2, CountedFacts
    <2>3. Counts(a)'
      <3>1. \A m \in Counted(r, e) : m <= N
        BY <2>2, AfterCall
      <3> QED BY <2>1, <2>2, <3>1 DEF Counts
    <2>4. ASSUME Timed(r), NEW m \in Counted(r, e), NEW n \in Counted(r, e)
          PROVE  events'[m].ts - events'[n].ts <= Window(r) + Skew
      <3>1. events'[n].ts >= e.ts - Window(r)
        BY <1>2, <2>4, CountedFacts
      <3>2. Window(r) \in Nat
        BY <2>4, CorrelationAssumption DEF Window, Timed
      <3>3. e.ts \in Nat /\ events'[N] = e
        BY AfterCall DEF Event
      <3>4. events'[m].ts - Skew <= e.ts
        BY <2>2, <3>3, AfterCall, ArrivalsAreEvents, CorrelationAssumption
      <3>5. \A i \in 1 .. N : events'[i].ts \in Nat
        BY <3>3, AfterCall, Stamps
      <3>6. events'[m].ts \in Nat /\ events'[n].ts \in Nat
        BY <2>2, <3>5
      <3> QED BY <3>1, <3>2, <3>3, <3>4, <3>6, CorrelationAssumption
    <2>5. Timed(r) => Cardinality(Counted(r, e)) >= Threshold[r]
      BY <1>2 DEF Fires
    <2>6. events'[N] = e
      BY AfterCall
    <2> HIDE DEF N
    <2> QED BY <2>1, <2>2, <2>3, <2>4, <2>5, <2>6
  <1> QED BY <1>1, <1>2, Effect

(* A buffered event that a new alert counts was not counted before: its    *)
(* host is that of any alert that had counted it, whose events are gone.   *)
LEMMA NewCountsAreFresh ==
    ASSUME CountInv, NEW e \in Arrivals, Evaluate(e),
           NEW r \in Rules, MatchRule(r, e), NEW b \in alerts, b.rule = r
    PROVE  Counted(r, e) \cap b.counted = {}
  <1>1. \A m \in b.counted : m # Len(events) + 1
    BY OldAlerts
  <1>2. CASE ~ Timed(r)
    <2>1. Counted(r, e) = {Len(events) + 1}
      BY <1>2, CountedFacts
    <2> QED BY <1>1, <2>1
  <1>3. CASE Timed(r)
    <2>1. <<r, e.host>> \in Keys /\ Counted(r, e) \subseteq state[<<r, e.host>>] \cup {Len(events) + 1}
      BY <1>3, CountedFacts
    <2>2. ASSUME NEW m \in Counted(r, e), m \in b.counted PROVE FALSE
      <3>1. m \in state[<<r, e.host>>]
        BY <1>1, <2>1, <2>2
      <3>2. events[m].host = e.host
        BY <2>1, <3>1 DEF CountInv, TypeOK
      <3>3. events[b.at].host = e.host
        BY <1>3, <2>2, <3>2 DEF CountInv, AlertsAreEarned
      <3>4. b.counted \cap state[<<r, e.host>>] = {}
        BY <2>1, <3>3 DEF CountInv, SpentIsGone
      <3> QED BY <2>2, <3>1, <3>4
    <2> QED BY <2>2
  <1> QED BY <1>2, <1>3

LEMMA CallCountsOnce ==
    ASSUME CountInv, NEW e \in Arrivals, Evaluate(e)
    PROVE  NothingCountsTwice'
  <1> SUFFICES ASSUME NEW a \in alerts', NEW b \in alerts', a.rule = b.rule, a # b
               PROVE  a.counted \cap b.counted = {}
    BY DEF NothingCountsTwice
  <1> DEFINE New(x) == \E r \in Rules : MatchRule(r, e) /\ Fires(r, e) /\ x = NewAlert(r, e)
  <1>1. (a \in alerts \/ New(a)) /\ (b \in alerts \/ New(b))
    BY Effect
  <1>2. ASSUME NEW x, New(x)
        PROVE  x.rule \in Rules /\ MatchRule(x.rule, e) /\ x = NewAlert(x.rule, e)
               /\ x.counted = Counted(x.rule, e)
    BY <1>2 DEF NewAlert
  <1> HIDE DEF New
  <1>3. CASE a \in alerts /\ b \in alerts
    BY <1>3 DEF CountInv, NothingCountsTwice
  <1>4. CASE New(a) /\ b \in alerts
    BY <1>2, <1>4, NewCountsAreFresh
  <1>5. CASE a \in alerts /\ New(b)
    BY <1>2, <1>5, NewCountsAreFresh
  <1>6. CASE New(a) /\ New(b)
    BY <1>2, <1>6
  <1> QED BY <1>1, <1>3, <1>4, <1>5, <1>6

LEMMA CountInvHolds == Spec => []CountInv
  <1>1. Init => CountInv
    BY CountStarts
  <1>2. CountInv /\ [Next]_vars => CountInv'
    <2> SUFFICES ASSUME CountInv, [Next]_vars PROVE CountInv'
      OBVIOUS
    <2>1. ASSUME NEW e \in Arrivals, Evaluate(e) PROVE CountInv'
      BY <2>1, CallKeepsTypes, CallKeepsStamps, CallKeepsSpent, CallKeepsEarned, CallCountsOnce
         DEF CountInv
    <2>2. CASE UNCHANGED vars
      BY <2>2 DEF vars, CountInv, TypeOK, Stamped, SpentIsGone, AlertsAreEarned, Counts,
                  NothingCountsTwice
    <2> QED BY <2>1, <2>2 DEF Next
  <1> QED BY <1>1, <1>2, PTL DEF Spec

(* The engine's memory is bounded by its rules and hosts: each buffer      *)
(* holds events of its own rule and host, and between calls fewer than the *)
(* rule's threshold.                                                       *)
THEOREM BuffersAreBounded == Spec => []TypeOK
  <1>1. CountInv => TypeOK
    BY DEF CountInv
  <1> QED BY <1>1, CountInvHolds, PTL

(* Whatever the rules, every alert of a threshold rule counts enough       *)
(* events, all of one host and, up to the disorder of the stream, of one   *)
(* timeframe.                                                              *)
THEOREM AlertsEarned == Spec => []AlertsAreEarned
  <1>1. CountInv => AlertsAreEarned
    BY DEF CountInv
  <1> QED BY <1>1, CountInvHolds, PTL

(* No event is ever counted towards two alerts of one rule, however the    *)
(* events of the hosts interleave and arrive late.                         *)
THEOREM CountsOnce == Spec => []NothingCountsTwice
  <1>1. CountInv => NothingCountsTwice
    BY DEF CountInv
  <1> QED BY <1>1, CountInvHolds, PTL

(* No alert of key k was raised at m or later.                             *)
NotCounted(k, m) ==
    \A a \in alerts : a.rule = k[1] /\ events[a.at].host = k[2] => a.at < m

(* No later event of key k came so late after m that its call pruned m.    *)
NotPruned(k, m) ==
    \A j \in 1 .. Len(events) :
        m < j /\ MatchRule(k[1], events[j]) /\ events[j].host = k[2]
            => events[m].ts >= events[j].ts - Window(k[1])

(* What is neither counted nor pruned is in the buffer.                    *)
OpenIsBuffered ==
    \A k \in Keys : \A m \in 1 .. Len(events) :
        /\ Timed(k[1]) /\ MatchRule(k[1], events[m]) /\ events[m].host = k[2]
        /\ NotCounted(k, m) /\ NotPruned(k, m)
        => m \in state[k]

BurstInv == CountInv /\ OpenIsBuffered /\ NoBurstMissed

(* An alert that was there before the call is there after it, and so is    *)
(* that of every rule that the event fires.                                *)
LEMMA AlertsAfter ==
    ASSUME CountInv, NEW e \in Arrivals, Evaluate(e)
    PROVE  /\ alerts \subseteq alerts'
           /\ \A r \in Rules : MatchRule(r, e) /\ Fires(r, e) => NewAlert(r, e) \in alerts'
  BY DEF Evaluate, NewAlert, Fires, Counted

LEMMA CallKeepsBuffered ==
    ASSUME BurstInv, NEW e \in Arrivals, Evaluate(e)
    PROVE  OpenIsBuffered'
  <1> DEFINE N == Len(events) + 1
  <1> USE DEF BurstInv
  <1> SUFFICES ASSUME NEW k \in Keys, NEW m \in 1 .. N,
                      Timed(k[1]), MatchRule(k[1], events'[m]), events'[m].host = k[2],
                      NotCounted(k, m)', NotPruned(k, m)'
               PROVE  m \in state'[k]
    BY AfterCall DEF OpenIsBuffered
  <1>1. k[1] \in Rules /\ k = <<k[1], k[2]>>
    BY BufferAfter
  <1>2. ASSUME m \in 1 .. Len(events)
        PROVE  m \in state[k]
    <2>1. MatchRule(k[1], events[m]) /\ events[m].host = k[2]
      BY <1>2, AfterCall
    <2>2. NotCounted(k, m)
      BY AlertsAfter, OldAlerts DEF NotCounted
    <2>3. NotPruned(k, m)
      BY <1>2, AfterCall DEF NotPruned
    <2> QED BY <1>2, <2>1, <2>2, <2>3 DEF OpenIsBuffered
  <1>3. ASSUME MatchRule(k[1], e), k[2] = e.host
        PROVE  ~ Fires(k[1], e)
    <2> SUFFICES ASSUME Fires(k[1], e) PROVE FALSE
      OBVIOUS
    <2>1. NewAlert(k[1], e) \in alerts'
      BY <1>1, <1>3, AlertsAfter
    <2>2. NewAlert(k[1], e).rule = k[1] /\ NewAlert(k[1], e).at = N
      BY DEF NewAlert
    <2>3. events'[N].host = k[2]
      BY <1>3, AfterCall
    <2>4. N < m
      BY <2>1, <2>2, <2>3 DEF NotCounted
    <2> QED BY <2>4, AfterCall
  <1>4. CASE MatchRule(k[1], e) /\ k[2] = e.host
    <2>1. state'[k] = Kept(k[1], Append(events, e), N)
      BY <1>3, <1>4, BufferAfter DEF Counted
    <2>2. events' = Append(events, e) /\ events'[N] = e
      BY Effect, AfterCall
    <2>3. Window(k[1]) \in Nat /\ e.ts \in Nat
      BY <1>1, AfterCall, CorrelationAssumption DEF Window, Timed, Event
    <2>4. m \in state[k] \cup {N}
      BY <1>2, AfterCall
    <2>5. events'[m].ts >= e.ts - Window(k[1])
      <3>1. CASE m = N
        BY <2>2, <2>3, <3>1
      <3>2. CASE m # N
        <4>1. m < N
          BY <3>2, AfterCall
        <4> QED BY <1>4, <2>2, <4>1, AfterCall DEF NotPruned
      <3> QED BY <3>1, <3>2
    <2>6. Key(k[1], e) = k
      BY <1>1, <1>4 DEF Key
    <2> HIDE DEF N
    <2> QED BY <2>1, <2>2, <2>4, <2>5, <2>6 DEF Kept, Recent
  <1>5. CASE ~ (MatchRule(k[1], e) /\ k[2] = e.host)
    <2>1. m # N
      BY <1>5, AfterCall
    <2> QED BY <1>2, <1>5, <2>1, AfterCall, BufferAfter
  <1> QED BY <1>4, <1>5

(* What may still count for an old event is what might before.             *)
LEMMA OldUncounted ==
    ASSUME CountInv, NEW e \in Arrivals, Evaluate(e), NEW r, NEW n \in 1 .. Len(events)
    PROVE  /\ Uncounted(r, n)' \subseteq Uncounted(r, n)
           /\ \A m \in Uncounted(r, n) : m \in 1 .. Len(events)
  <1> USE AfterCall
  <1>1. \A m \in 1 .. n : m \in 1 .. Len(events)
    OBVIOUS
  <1>2. \A m \in 1 .. n : events'[m] = events[m]
    BY <1>1
  <1>3. ASSUME NEW m \in 1 .. n,
               \A a \in alerts' : a.rule = r /\ events'[a.at].host = events'[n].host /\ a.at < n => a.at < m
        PROVE  \A a \in alerts : a.rule = r /\ events[a.at].host = events[n].host /\ a.at < n => a.at < m
    BY <1>3, AlertsAfter, OldAlerts
  <1> QED BY <1>1, <1>2, <1>3 DEF Uncounted

LEMMA Fewer ==
    ASSUME NEW n \in Nat, NEW T \in SUBSET (1 .. n), NEW S \in SUBSET T
    PROVE  Cardinality(S) \in Nat /\ Cardinality(T) \in Nat /\ Cardinality(S) <= Cardinality(T)
  <1>1. IsFiniteSet(1 .. n)
    BY FS_Interval
  <1>2. IsFiniteSet(T)
    BY <1>1, FS_Subset
  <1> QED BY <1>2, FS_Subset, FS_CardinalityType

LEMMA CallMissesNone ==
    ASSUME BurstInv, NEW e \in Arrivals, Evaluate(e)
    PROVE  NoBurstMissed'
  <1> DEFINE N == Len(events) + 1
             Burst(r, n) == {m \in Uncounted(r, n) : events[m].ts >= events[n].ts - Window(r) + Skew}
  <1> USE DEF BurstInv
  <1> SUFFICES ASSUME NEW r \in Rules, NEW n \in 1 .. N, Timed(r), MatchRule(r, events'[n]),
                      Cardinality(Burst(r, n)') >= Threshold[r]
               PROVE  \E a \in alerts' : a.rule = r /\ a.at = n
    BY AfterCall DEF NoBurstMissed
  <1>1. Threshold[r] \in Int /\ Window(r) \in Nat
    BY CorrelationAssumption DEF Window, Timed
  <1>2. Skew \in Nat
    BY CorrelationAssumption
  <1>3. CASE n \in 1 .. Len(events)
    <2>1. Burst(r, n)' \subseteq Burst(r, n) /\ Burst(r, n) \subseteq 1 .. Len(events)
      BY <1>3, OldUncounted, AfterCall
    <2>2. Cardinality(Burst(r, n)') <= Cardinality(Burst(r, n))
          /\ Cardinality(Burst(r, n)) \in Nat /\ Cardinality(Burst(r, n)') \in Nat
      BY <2>1, Fewer, AfterCall
    <2>3. Cardinality(Burst(r, n)) >= Threshold[r]
      BY <1>1, <2>2
    <2>4. MatchRule(r, events[n])
      BY <1>3, AfterCall
    <2>5. \E a \in alerts : a.rule = r /\ a.at = n
      BY <1>3, <2>3, <2>4 DEF NoBurstMissed
    <2> QED BY <2>5, AlertsAfter
  <1>4. CASE n = N
    <2> DEFINE k == <<r, e.host>>
    <2>1. e \in Event /\ events'[N] = e /\ e.ts \in Nat /\ k \in Keys /\ MatchRule(r, e)
      BY <1>4, AfterCall DEF Event, Keys
    <2>2. ASSUME NEW m \in Burst(r, n)'
          PROVE  m \in Counted(r, e)
      <3>1. /\ m \in 1 .. N /\ MatchRule(r, events'[m]) /\ events'[m].host = e.host
            /\ \A a \in alerts' :
                   a.rule = r /\ events'[a.at].host = e.host /\ a.at < N => a.at < m
            /\ events'[m].ts >= e.ts - Window(r) + Skew
        BY <1>4, <2>1, <2>2 DEF Uncounted
      <3>2. Counted(r, e) = {i \in state[k] \cup {N} : events'[i].ts >= e.ts - Window(r)}
        BY <2>1, Effect DEF Counted, Kept, Key, Recent
      <3>3. events'[m].ts \in Nat
        BY <2>1, <3>1, AfterCall, Stamps
      <3>4. events'[m].ts >= e.ts - Window(r)
        BY <1>1, <1>2, <2>1, <3>1, <3>3
      <3>5. CASE m = N
        BY <3>2, <3>4, <3>5
      <3>6. CASE m \in 1 .. Len(events)
        <4>1. events'[m] = events[m]
          BY <3>6, AfterCall
        <4>2. NotCounted(k, m)
          <5> SUFFICES ASSUME NEW a \in alerts, a.rule = r, events[a.at].host = e.host
                       PROVE  a.at < m
            BY DEF NotCounted
          <5>1. a \in alerts' /\ events'[a.at].host = e.host /\ a.at < N
            BY AlertsAfter, OldAlerts, AfterCall
          <5> QED BY <3>1, <5>1
        <4>3. NotPruned(k, m)
          <5> SUFFICES ASSUME NEW j \in 1 .. Len(events)
                       PROVE  events[m].ts >= events[j].ts - Window(r)
            BY DEF NotPruned
          <5>1. events[j].ts - Skew <= e.ts
            BY AfterCall, ArrivalsAreEvents
          <5>2. events[j].ts \in Nat
            BY AfterCall, Stamps
          <5>3. \A x, y, z \in Nat : x >= y - Window(r) + Skew /\ z - Skew <= y => x >= z - Window(r)
            BY <1>1, <1>2
          <5>4. events[m].ts \in Nat /\ events[m].ts >= e.ts - Window(r) + Skew /\ e.ts \in Nat
            BY <2>1, <3>1, <3>3, <4>1
          <5> QED BY <5>1, <5>2, <5>3, <5>4
        <4>4. m \in state[k]
          BY <2>1, <3>1, <3>6, <4>1, <4>2, <4>3 DEF OpenIsBuffered
        <4> QED BY <3>2, <3>4, <4>4
      <3> QED BY <3>1, <3>5, <3>6, AfterCall
    <2>3. Counted(r, e) \subseteq 1 .. N /\ N \in Nat
      BY <2>1, CountedFacts, AfterCall
    <2>4. /\ Cardinality(Burst(r, n)') <= Cardinality(Counted(r, e))
          /\ Cardinality(Burst(r, n)') \in Nat /\ Cardinality(Counted(r, e)) \in Nat
      <3>1. Burst(r, n)' \subseteq Counted(r, e)
        BY <2>2
      <3> HIDE DEF Burst, N
      <3> QED BY <2>3, <3>1, Fewer
    <2>5. Fires(r, e)
      BY <1>1, <1>4, <2>4 DEF Fires
    <2>6. NewAlert(r, e) \in alerts' /\ NewAlert(r, e).rule = r /\ NewAlert(r, e).at = N
      BY <2>1, <2>5, AlertsAfter DEF NewAlert
    <2> QED BY <1>4, <2>6
  <1> QED BY <1>3, <1>4, AfterCall

(* No burst is missed, whatever the rules and however late events arrive:  *)
(* when enough uncounted events of a host fall in the timeframe, less the  *)
(* disorder of the stream, the event that completes them raises an alert.  *)
THEOREM BurstsAreSeen == Spec => []NoBurstMissed
  <1>1. Init => BurstInv
    <2> SUFFICES ASSUME Init PROVE BurstInv
      OBVIOUS
    <2>1. Len(events) = 0 /\ 1 .. 0 = {}
      BY DEF Init
    <2> QED BY <2>1, CountStarts DEF BurstInv, OpenIsBuffered, NoBurstMissed
  <1>2. BurstInv /\ [Next]_vars => BurstInv'
    <2> SUFFICES ASSUME BurstInv, [Next]_vars PROVE BurstInv'
      OBVIOUS
    <2>1. ASSUME NEW e \in Arrivals, Evaluate(e) PROVE BurstInv'
      <3>1. CountInv
        BY DEF BurstInv
      <3>2. CountInv'
        BY <2>1, <3>1, CallKeepsTypes, CallKeepsStamps, CallKeepsSpent, CallKeepsEarned,
           CallCountsOnce DEF CountInv
      <3> QED BY <2>1, <3>2, CallKeepsBuffered, CallMissesNone DEF BurstInv
    <2>2. CASE UNCHANGED vars
      <3>1. CountInv'
        BY <2>2 DEF BurstInv, vars, CountInv, TypeOK, Stamped, SpentIsGone, AlertsAreEarned,
                    Counts, NothingCountsTwice
      <3>2. \A r : \A n : Uncounted(r, n)' = Uncounted(r, n)
        BY <2>2 DEF vars, Uncounted
      <3>3. OpenIsBuffered'
        BY <2>2 DEF BurstInv, vars, OpenIsBuffered, NotCounted, NotPruned
      <3>4. NoBurstMissed'
        BY <2>2, <3>2 DEF BurstInv, vars, NoBurstMissed
      <3> QED BY <3>1, <3>3, <3>4 DEF BurstInv
    <2> QED BY <2>1, <2>2 DEF Next
  <1>3. BurstInv => NoBurstMissed
    BY DEF BurstInv
  <1> QED BY <1>1, <1>2, <1>3, PTL DEF Spec

=============================================================================
