---------------------------- MODULE Correlation ----------------------------
(***************************************************************************)
(* internal/correlation/engine.go: Evaluate matches an event against every *)
(* rule.  A rule with a threshold keeps, for each host, the matching       *)
(* events of its timeframe and raises an alert when they are enough.       *)
(*                                                                         *)
(* Evaluate holds the engine's mutex throughout, so it is one action.  The *)
(* engine's slices of events are sets of positions in `events`, the        *)
(* history of calls.  Rule IDs are unique, as in rules/.                   *)
(***************************************************************************)
EXTENDS Integers, Sequences, FiniteSets

CONSTANTS
    Rules,
    Conditions,      \* rule.Conditions: records [field, accepts], where accepts
                     \* holds the values that the operator accepts
    Threshold,       \* rule.Threshold
    Timeframe,       \* rule.Timeframe: a duration, NoTimeframe or BadTimeframe
    NoTimeframe, BadTimeframe,
    DefaultWindow,   \* five minutes, used for a timeframe that does not parse
    Hosts, NoHost,   \* Host.ID, and its empty value
    Fields, Values, Empty,
    Skew,            \* how far behind the newest event a later one may be stamped
    Gap,             \* bound: time between consecutive events
    MaxTime,         \* bound: timestamps
    MaxEvents        \* bound: calls of Evaluate

ASSUME CorrelationAssumption ==
    /\ Threshold \in [Rules -> Int]
    /\ Timeframe \in [Rules -> Nat \cup {NoTimeframe, BadTimeframe}]
    /\ NoTimeframe \notin Nat /\ BadTimeframe \notin Nat
    /\ NoTimeframe # BadTimeframe
    /\ DefaultWindow \in Nat
    /\ Empty \notin Values /\ NoHost \notin Hosts
    /\ \A r \in Rules : \A c \in Conditions[r] :
           c.field \in Fields /\ c.accepts \subseteq Values
    /\ Skew \in Nat /\ Gap \in Nat /\ MaxTime \in Nat

VARIABLES
    events,   \* history: the events Evaluate was called with
    state,    \* e.state: positions of the buffered events of each key
    alerts    \* history: the alerts returned, with the events they counted

vars == <<events, state, alerts>>

Event == [ts : Nat, host : Hosts \cup {NoHost}, fields : [Fields -> Values \cup {Empty}]]

(* rule.ID, or rule.ID + ":" + Host.ID. *)
Keys == Rules \X (Hosts \cup {NoHost})

(* Mutant of Key: one buffer for all hosts. *)
KeyWithoutHost(r, e) == <<r, NoHost>>

Key(r, e) == <<r, e.host>>

(* extractField: a path that does not resolve has the empty value. *)
ExtractField(field, e) == e.fields[field]

(* matchCondition: an empty value meets no condition, not even ne. *)
Holds(c, e) ==
    /\ ExtractField(c.field, e) # Empty
    /\ ExtractField(c.field, e) \in c.accepts

(* matchRule: all conditions hold, and there is one. *)
MatchRule(r, e) ==
    Conditions[r] # {} /\ \A c \in Conditions[r] : Holds(c, e)

(* Whether the rule counts events at all. *)
Timed(r) == Threshold[r] > 1 /\ Timeframe[r] # NoTimeframe

Window(r) == IF Timeframe[r] = BadTimeframe THEN DefaultWindow ELSE Timeframe[r]

(* Mutant of Recent: an event exactly at the cutoff is pruned. *)
RecentStrict(r, e, f) == f.ts > e.ts - Window(r)

(* Not pruned when e is evaluated: not before e's cutoff. *)
Recent(r, e, f) == f.ts >= e.ts - Window(r)

(* Mutant of Kept: the old events are not pruned. *)
KeptAll(r, evts, n) == state[Key(r, evts[n])] \cup {n}

(* The buffer of r after appending position n and pruning. *)
Kept(r, evts, n) ==
    {m \in state[Key(r, evts[n])] \cup {n} : Recent(r, evts[n], evts[m])}

(* Mutant of Left: the buffer is not reset after an alert. *)
LeftAsIs(fires, kept) == kept

(* What stays in the buffer. *)
Left(fires, kept) == IF fires THEN {} ELSE kept

Init ==
    /\ events = << >>
    /\ state = [k \in Keys |-> {}]
    /\ alerts = {}

Evaluate(e) ==
    LET n == Len(events) + 1
        evts == Append(events, e)
        matched == {r \in Rules : MatchRule(r, e)}
        counted(r) == IF Timed(r) THEN Kept(r, evts, n) ELSE {n}
        fires(r) == Timed(r) => Cardinality(counted(r)) >= Threshold[r]
        touched == {r \in matched : Timed(r)}
    IN  /\ events' = evts
        /\ state' = [k \in Keys |->
                        IF k[1] \in touched /\ k = Key(k[1], e)
                        THEN Left(fires(k[1]), counted(k[1]))
                        ELSE state[k]]
        /\ alerts' = alerts \cup
               {[rule |-> r, at |-> n, counted |-> counted(r)] :
                   r \in {q \in matched : fires(q)}}

(* The sensors stamp an event before they send it, so the events of two    *)
(* sensors may arrive in another order than that of their timestamps.      *)
Latest ==
    IF events = << >>
    THEN 0
    ELSE CHOOSE t \in {events[i].ts : i \in DOMAIN events} :
             \A i \in DOMAIN events : events[i].ts <= t

Arrivals ==
    LET latest == Latest
    IN  [ts : (latest - Skew .. latest + Gap) \cap 0 .. MaxTime,
         host : Hosts \cup {NoHost}, fields : [Fields -> Values \cup {Empty}]]

Next ==
    /\ Len(events) < MaxEvents
    /\ \E e \in Arrivals : Evaluate(e)

Spec == Init /\ [][Next]_vars

-----------------------------------------------------------------------------
(* Properties. *)

(* Every buffer holds evaluated events of its own rule and host, and       *)
(* between calls fewer than its rule's threshold: the engine's memory is   *)
(* bounded by its rules and hosts, and no alert is overdue.                *)
TypeOK ==
    /\ events \in Seq(Event)
    /\ state \in [Keys -> SUBSET (1 .. Len(events))]
    /\ \A k \in Keys : \A m \in state[k] :
           MatchRule(k[1], events[m]) /\ events[m].host = k[2]
    /\ \A k \in Keys :
           IF Timed(k[1]) THEN Cardinality(state[k]) < Threshold[k[1]]
                          ELSE state[k] = {}
    /\ alerts \subseteq [rule : Rules, at : 1 .. Len(events),
                         counted : SUBSET (1 .. Len(events))]

Counts(a) == \A m \in a.counted : MatchRule(a.rule, events[m]) /\ m <= a.at

(* Every alert is earned: it counts at least as many events as its rule's  *)
(* threshold, all matching the rule, all from the host of the event that   *)
(* triggered it, and all within the timeframe of the rule, up to the       *)
(* disorder of the stream: pruning looks only at the older end.            *)
AlertsAreEarned ==
    \A a \in alerts :
        /\ Counts(a) /\ a.at \in a.counted
        /\ Timed(a.rule) =>
               /\ Cardinality(a.counted) >= Threshold[a.rule]
               /\ \A m \in a.counted : events[m].host = events[a.at].host
               /\ \A m, n \in a.counted :
                      events[m].ts - events[n].ts <= Window(a.rule) + Skew

(* No event is counted towards two alerts of one rule. *)
NothingCountsTwice ==
    \A a, b \in alerts :
        a.rule = b.rule /\ a # b => a.counted \cap b.counted = {}

(* The positions that rule r may still count for the event at n: matching  *)
(* events of the same host since the rule's last alert for that host.      *)
Uncounted(r, n) ==
    {m \in 1 .. n :
        /\ MatchRule(r, events[m])
        /\ events[m].host = events[n].host
        /\ \A a \in alerts :
               a.rule = r /\ events[a.at].host = events[n].host /\ a.at < n
                   => a.at < m}

(* No burst is missed: when enough uncounted events fall in the timeframe  *)
(* that ends at an event, that event raises the alert.  The disorder of    *)
(* the stream is taken off the timeframe, since an event stamped late may  *)
(* have pruned what an earlier stamp would still count.                    *)
NoBurstMissed ==
    \A r \in Rules : \A n \in 1 .. Len(events) :
        /\ Timed(r)
        /\ MatchRule(r, events[n])
        /\ Cardinality({m \in Uncounted(r, n) :
                           events[m].ts >= events[n].ts - Window(r) + Skew})
               >= Threshold[r]
        => \E a \in alerts : a.rule = r /\ a.at = n

=============================================================================
