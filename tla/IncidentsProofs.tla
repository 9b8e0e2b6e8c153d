-------------------------- MODULE IncidentsProofs --------------------------
(***************************************************************************)
(* Incidents: no alert is forgotten, alerts are grouped by the window and  *)
(* no write weakens a stored incident, for any hosts, alerts, window and   *)
(* bounds.                                                                 *)
(***************************************************************************)
EXTENDS Incidents, ScoringProofs

Alert == [host : HostInfos, kind : Kinds, at : Nat, incident : Nat, run : Nat]

-----------------------------------------------------------------------------
(* The scores of the members of an incident.                               *)

NextScores(log, id, n, scores) ==
    IF log[n + 1].incident = id
    THEN Append(scores, log[n + 1].kind.score)
    ELSE scores

LEMMA KindScore == \A k \in Kinds : k.score \in 0 .. 100
  BY IncidentsAssumption

LEMMA MemberScoresEquation ==
    ASSUME NEW log \in Seq(Alert), NEW id
    PROVE  /\ MemberScores(log, id) \in [0 .. Len(log) -> Seq(0 .. 100)]
           /\ MemberScores(log, id)[0] = << >>
           /\ \A n \in 0 .. Len(log) - 1 :
                  MemberScores(log, id)[n + 1] =
                      NextScores(log, id, n, MemberScores(log, id)[n])
  <1> DEFINE N == Len(log)
             V == Seq(0 .. 100)
             F == [i \in Nat |-> [x \in V |->
                     IF i < N THEN NextScores(log, id, i, x) ELSE x]]
             Equation(g) ==
                 g = [n \in 0 .. N |->
                         CASE n = 0                          -> << >>
                           [] n > 0 /\ log[n].incident = id  ->
                                  Append(g[n - 1], log[n].kind.score)
                           [] OTHER                          -> g[n - 1]]
             T == MemberScores(log, id)
  <1>1. N \in Nat
    OBVIOUS
  <1>2. ASSUME NEW i \in Nat, i < N, NEW x \in V PROVE NextScores(log, id, i, x) \in V
    <2>1. log[i + 1] \in Alert
      BY <1>2
    <2>2. log[i + 1].kind.score \in 0 .. 100
      BY <2>1, KindScore DEF Alert
    <2> QED BY <2>2 DEF NextScores
  <1>3. T = CHOOSE g : Equation(g)
    BY DEF MemberScores
  <1> HIDE DEF N
  <1>4. << >> \in V
    OBVIOUS
  <1> HIDE DEF V
  <1>5. Steps(V, F)
    BY <1>1, <1>2 DEF Steps
  <1>6. ASSUME NEW i \in 0 .. N - 1, NEW x \in V PROVE F[i][x] = NextScores(log, id, i, x)
    BY <1>1
  <1> HIDE DEF F
  <1>7. PICK g : Beginning(N, g, V, << >>, F)
    BY <1>1, <1>4, <1>5, BeginningsExist, Zenon
  <1>8. ASSUME NEW n \in 0 .. N, n # 0 PROVE g[n] = NextScores(log, id, n - 1, g[n - 1])
    <2>1. n - 1 \in 0 .. N - 1 /\ (n - 1) + 1 = n /\ n - 1 \in 0 .. N
      BY <1>1, <1>8
    <2>2. g[(n - 1) + 1] = F[n - 1][g[n - 1]] /\ g[n - 1] \in V
      BY <1>7, <2>1 DEF Beginning
    <2> QED BY <1>6, <2>1, <2>2
  <1>9. ASSUME NEW n \in 0 .. N, n # 0, NEW x
        PROVE  NextScores(log, id, n - 1, x) =
                   IF log[n].incident = id THEN Append(x, log[n].kind.score) ELSE x
    <2>1. (n - 1) + 1 = n
      OBVIOUS
    <2> QED BY <2>1 DEF NextScores
  <1>10. Equation(g)
    <2>1. g = [n \in 0 .. N |-> g[n]] /\ g[0] = << >>
      BY <1>7 DEF Beginning
    <2>2. ASSUME NEW n \in 0 .. N
          PROVE  g[n] = CASE n = 0                          -> << >>
                          [] n > 0 /\ log[n].incident = id  ->
                                 Append(g[n - 1], log[n].kind.score)
                          [] OTHER                          -> g[n - 1]
      <3>1. CASE n = 0
        BY <2>1, <3>1
      <3>2. CASE n # 0
        <4>1. n > 0
          BY <3>2
        <4>2. g[n] = IF log[n].incident = id
                     THEN Append(g[n - 1], log[n].kind.score) ELSE g[n - 1]
          BY <1>8, <1>9, <3>2
        <4> QED BY <3>2, <4>1, <4>2
      <3> QED BY <3>1, <3>2
    <2> QED BY <2>1, <2>2
  <1>11. Equation(T)
    <2> HIDE DEF Equation, T
    <2> QED BY <1>3, <1>10
  <1> HIDE DEF T
  <1>12. T = [n \in 0 .. N |-> T[n]] /\ T[0] = << >>
    BY <1>1, <1>11
  <1>13. ASSUME NEW n \in 0 .. N - 1 PROVE T[n + 1] = NextScores(log, id, n, T[n])
    <2>1. n + 1 \in 0 .. N /\ n + 1 > 0 /\ n + 1 # 0 /\ (n + 1) - 1 = n
      BY <1>1
    <2>2. T[n + 1] = CASE n + 1 = 0                              -> << >>
                       [] n + 1 > 0 /\ log[n + 1].incident = id  ->
                              Append(T[(n + 1) - 1], log[n + 1].kind.score)
                       [] OTHER                                  -> T[(n + 1) - 1]
      BY <1>11, <2>1
    <2> QED BY <2>1, <2>2 DEF NextScores
  <1>14. Beginning(N, T, V, << >>, F)
    <2>1. \A i \in 0 .. N - 1 : T[i] \in V => T[i + 1] = F[i][T[i]]
      BY <1>6, <1>13
    <2> QED BY <1>1, <1>4, <1>5, <1>12, <2>1, BeginningUpTo
  <1>15. T \in [0 .. N -> Seq(0 .. 100)]
    BY <1>14 DEF Beginning, V
  <1> QED BY <1>12, <1>13, <1>15 DEF T, N

(* They do not depend on later alerts.                                     *)
LEMMA MemberScoresAppend ==
    ASSUME NEW log \in Seq(Alert), NEW a \in Alert, NEW id, NEW n \in 0 .. Len(log)
    PROVE  MemberScores(Append(log, a), id)[n] = MemberScores(log, id)[n]
  <1> DEFINE longer == Append(log, a)
             N == Len(log)
             T == MemberScores(log, id)
             U == MemberScores(longer, id)
             S == {i \in Nat : i <= N => U[i] = T[i]}
  <1>1. longer \in Seq(Alert) /\ Len(longer) = N + 1 /\ N \in Nat
        /\ \A i \in 1 .. N : longer[i] = log[i]
    OBVIOUS
  <1>2. T[0] = << >> /\ U[0] = << >>
    BY <1>1, MemberScoresEquation
  <1>3. ASSUME NEW i \in Nat, i \in S PROVE i + 1 \in S
    <2> SUFFICES ASSUME i + 1 <= N PROVE U[i + 1] = T[i + 1]
      OBVIOUS
    <2>1. i \in 0 .. N - 1 /\ i \in 0 .. Len(longer) - 1 /\ i + 1 \in 1 .. N
      BY <1>1
    <2>2. T[i + 1] = NextScores(log, id, i, T[i]) /\ U[i + 1] = NextScores(longer, id, i, U[i])
      BY <1>1, <2>1, MemberScoresEquation
    <2>3. U[i] = T[i] /\ longer[i + 1] = log[i + 1]
      BY <1>1, <1>3, <2>1
    <2> HIDE DEF T, U, longer
    <2> QED BY <2>2, <2>3 DEF NextScores
  <1>4. Nat \subseteq S
    <2>1. 0 \in S
      BY <1>2
    <2> HIDE DEF S
    <2> QED BY <1>3, <2>1, Induction
  <1> QED BY <1>1, <1>4

(* An incident without alerts has no scores.                               *)
LEMMA MemberScoresNone ==
    ASSUME NEW log \in Seq(Alert), NEW id, \A n \in 1 .. Len(log) : log[n].incident # id,
           NEW n \in 0 .. Len(log)
    PROVE  MemberScores(log, id)[n] = << >>
  <1> DEFINE N == Len(log)
             T == MemberScores(log, id)
             S == {i \in Nat : i <= N => T[i] = << >>}
  <1>1. N \in Nat /\ T[0] = << >>
    BY MemberScoresEquation
  <1>2. ASSUME NEW i \in Nat, i \in S PROVE i + 1 \in S
    <2> SUFFICES ASSUME i + 1 <= N PROVE T[i + 1] = << >>
      OBVIOUS
    <2>1. i \in 0 .. N - 1 /\ i + 1 \in 1 .. N
      BY <1>1
    <2>2. T[i + 1] = NextScores(log, id, i, T[i])
      BY <2>1, MemberScoresEquation
    <2>3. T[i] = << >> /\ log[i + 1].incident # id
      BY <1>1, <1>2, <2>1
    <2> QED BY <2>2, <2>3 DEF NextScores
  <1>3. Nat \subseteq S
    <2>1. 0 \in S
      BY <1>1
    <2> HIDE DEF S
    <2> QED BY <1>2, <2>1, Induction
  <1> QED BY <1>1, <1>3

-----------------------------------------------------------------------------
(* The inductive invariant.                                                *)

(* The alerts are in the order of their times, incidents and runs.         *)
HistoryOK ==
    /\ now \in Nat /\ restarts \in Nat
    /\ alerts \in Seq(Alert)
    /\ \A n \in 1 .. Len(alerts) :
           /\ alerts[n].at <= now
           /\ alerts[n].incident \in 1 .. n
           /\ alerts[n].run <= restarts
    /\ \A m, n \in 1 .. Len(alerts) : m <= n => alerts[m].at <= alerts[n].at

OfHost(h) == {n \in 1 .. Len(alerts) : HostKey(alerts[n].host) = h}

(* An agent that knows no incident of a host has raised no alert of it.    *)
Forgotten(h) == \A n \in OfHost(h) : alerts[n].run < restarts

(* Otherwise it is the incident of the host's last alert.                  *)
Follows(h) ==
    \E m \in OfHost(h) :
        /\ \A k \in OfHost(h) : k <= m
        /\ alerts[m].at = active[h].updated
        /\ alerts[m].run = restarts
        /\ alerts[m].incident = active[h].id

(* It accounts for its alerts.                                             *)
Covers(h) ==
    /\ active[h].score = IncidentScore(active[h].scores)
    /\ \A m \in 1 .. Len(alerts) : alerts[m].incident = active[h].id =>
           /\ Weight[active[h].severity] >= Weight[alerts[m].kind.severity]
           /\ alerts[m].kind.path # Empty => alerts[m].kind.path \in Range(active[h].paths)

Extends(long, short) ==
    /\ Len(short) <= Len(long)
    /\ \A i \in 1 .. Len(short) : long[i] = short[i]

(* The row of it is older.                                                 *)
IsAhead(inc, row) ==
    /\ Weight[inc.severity] >= Weight[row.severity]
    /\ inc.score >= row.score
    /\ Extends(inc.paths, row.paths)

Ahead(h) ==
    active[h] # None /\ active[h].id \in DOMAIN rows =>
        IsAhead(active[h], rows[active[h].id])

(* What the agent knows of a host.                                         *)
Knows(h) == IF active[h] = None THEN Forgotten(h) ELSE Follows(h) /\ Covers(h)

ActiveOK ==
    /\ active \in [HostKeys -> Incident \cup {None}]
    /\ \A h \in HostKeys : Knows(h)
    /\ \A h \in HostKeys : Ahead(h)

RowsOK ==
    \A id \in DOMAIN rows :
        /\ id \in 1 .. Len(alerts)
        /\ DOMAIN rows[id] = {"status", "severity", "score", "paths"}
        /\ rows[id].severity \in Severity
        /\ rows[id].score \in 0 .. 100
        /\ rows[id].paths \in Seq(Paths)

(* The alert that is being saved is the last, of an incident in memory.    *)
SavingOK ==
    /\ saving # "done" =>
           /\ alerts # << >>
           /\ CurrentIncident # None
           /\ CurrentIncident.id = alerts[Current].incident
    /\ saving \in {"alert", "incident"} => Current \in eventRows
    /\ saving = "incident" => Current \in alertRows

IInv ==
    /\ HistoryOK
    /\ TypeOK
    /\ ActiveOK
    /\ RowsOK
    /\ SavingOK
    /\ GroupedByWindow
    /\ saved \subseteq alertRows
    /\ RowsCoverMembers

-----------------------------------------------------------------------------
LEMMA InitIInv == Init => IInv
  <1> SUFFICES ASSUME Init PROVE IInv
    OBVIOUS
  <1> USE DEF Init
  <1>1. HistoryOK
    BY DEF HistoryOK
  <1>2. TypeOK
    BY DEF TypeOK
  <1>3. ActiveOK
    BY DEF ActiveOK, Knows, Ahead, Forgotten, OfHost
  <1>4. RowsOK
    BY DEF RowsOK
  <1>5. SavingOK
    BY DEF SavingOK
  <1>6. GroupedByWindow
    BY DEF GroupedByWindow
  <1>7. RowsCoverMembers
    BY DEF RowsCoverMembers
  <1> QED BY <1>1, <1>2, <1>3, <1>4, <1>5, <1>6, <1>7 DEF IInv

(* The invariant does not look at the status of a row.                     *)
SameRows ==
    /\ DOMAIN rows' = DOMAIN rows
    /\ \A id \in DOMAIN rows :
           /\ DOMAIN rows'[id] = DOMAIN rows[id]
           /\ rows'[id].severity = rows[id].severity
           /\ rows'[id].score = rows[id].score
           /\ rows'[id].paths = rows[id].paths

LEMMA StatusIsFree ==
    ASSUME RowsOK, NEW id \in DOMAIN rows, NEW status,
           rows' = [rows EXCEPT ![id].status = status]
    PROVE  SameRows
  BY DEF RowsOK, SameRows

LEMMA SameRowsKeep ==
    ASSUME IInv, SameRows, UNCHANGED <<now, agentVars, eventRows, alertRows, saved>>
    PROVE  IInv'
  <1> USE DEF agentVars
  <1>1. HistoryOK'
    BY DEF IInv, HistoryOK
  <1>2. TypeOK'
    BY DEF IInv, TypeOK, Incident, SameRows
  <1>3. ActiveOK'
    <2>1. active' \in [HostKeys -> Incident' \cup {None}]
      BY DEF IInv, ActiveOK, Incident
    <2>2. ASSUME NEW h \in HostKeys PROVE Knows(h)'
      BY DEF IInv, ActiveOK, Knows, Forgotten, Follows, Covers, OfHost
    <2>3. ASSUME NEW h \in HostKeys PROVE Ahead(h)'
      BY DEF IInv, ActiveOK, Ahead, IsAhead, Extends, SameRows
    <2> QED BY <2>1, <2>2, <2>3 DEF ActiveOK
  <1>4. RowsOK'
    BY DEF IInv, RowsOK, SameRows
  <1>5. SavingOK'
    BY DEF IInv, SavingOK, CurrentIncident, Current
  <1>6. GroupedByWindow'
    BY DEF IInv, GroupedByWindow, Previous
  <1>7. RowsCoverMembers'
    BY DEF IInv, RowsCoverMembers, Members, SameRows
  <1> QED BY <1>1, <1>2, <1>3, <1>4, <1>5, <1>6, <1>7 DEF IInv

LEMMA AlertTypes ==
    ASSUME HistoryOK
    PROVE  \A n \in 1 .. Len(alerts) :
               /\ alerts[n] \in Alert
               /\ alerts[n].host \in HostInfos /\ alerts[n].kind \in Kinds
               /\ alerts[n].at \in Nat /\ alerts[n].run \in Nat
               /\ alerts[n].incident \in 1 .. n
  <1>1. \A n \in 1 .. Len(alerts) : alerts[n] \in Alert
    BY DEF HistoryOK
  <1> QED BY <1>1 DEF HistoryOK, Alert

LEMMA SameAlertsKeep ==
    ASSUME IInv, UNCHANGED <<alerts, active, restarts>>, now' \in Nat, now <= now'
    PROVE  /\ HistoryOK'
           /\ GroupedByWindow'
           /\ active' \in [HostKeys -> Incident' \cup {None}]
           /\ \A h \in HostKeys : Knows(h)'
  <1>1. HistoryOK'
    <2>1. ASSUME NEW n \in 1 .. Len(alerts) PROVE alerts[n].at <= now'
      <3>1. alerts[n].at \in Nat /\ alerts[n].at <= now /\ now \in Nat
        BY AlertTypes DEF IInv, HistoryOK
      <3> QED BY <3>1
    <2> QED BY <2>1 DEF IInv, HistoryOK
  <1>2. GroupedByWindow'
    BY DEF IInv, GroupedByWindow, Previous
  <1>3. active' \in [HostKeys -> Incident' \cup {None}]
    BY DEF IInv, ActiveOK, Incident
  <1>4. ASSUME NEW h \in HostKeys PROVE Knows(h)'
    BY DEF IInv, ActiveOK, Knows, Forgotten, Follows, Covers, OfHost
  <1> QED BY <1>1, <1>2, <1>3, <1>4

LEMMA SameIncidentsKeep ==
    ASSUME IInv, UNCHANGED <<alerts, active, restarts, rows>>, now' \in Nat, now <= now'
    PROVE  HistoryOK' /\ GroupedByWindow' /\ ActiveOK' /\ RowsOK'
  <1>1. /\ HistoryOK' /\ GroupedByWindow'
        /\ active' \in [HostKeys -> Incident' \cup {None}]
        /\ \A h \in HostKeys : Knows(h)'
    BY SameAlertsKeep
  <1>2. ASSUME NEW h \in HostKeys PROVE Ahead(h)'
    BY DEF IInv, ActiveOK, Ahead
  <1>3. ActiveOK'
    BY <1>1, <1>2 DEF ActiveOK
  <1>4. RowsOK'
    BY DEF IInv, RowsOK
  <1> QED BY <1>1, <1>3, <1>4

LEMMA TickKeeps ==
    ASSUME IInv, Tick
    PROVE  IInv'
  <1> USE DEF Tick, agentVars, tables
  <1>1. now \in Nat /\ now' \in Nat /\ now <= now'
    BY DEF IInv, HistoryOK
  <1>2. HistoryOK' /\ GroupedByWindow' /\ ActiveOK' /\ RowsOK'
    BY <1>1, SameIncidentsKeep
  <1>3. TypeOK'
    BY <1>1 DEF IInv, TypeOK, Incident
  <1>4. SavingOK'
    BY DEF IInv, SavingOK, CurrentIncident, Current
  <1>5. RowsCoverMembers'
    BY DEF IInv, RowsCoverMembers, Members
  <1> QED BY <1>2, <1>3, <1>4, <1>5 DEF IInv

(* The steps of ProcessAlert that save less than an incident.              *)
LEMMA SaveKeeps ==
    ASSUME IInv, SaveEvent \/ SaveAlert \/ SaveFails
    PROVE  IInv'
  <1> DEFINE same == <<now, alerts, active, restarts, rows, saved>>
  <1>1. UNCHANGED same
    BY DEF SaveEvent, SaveAlert, SaveFails, tables
  <1>2. /\ alertRows \subseteq alertRows' /\ eventRows \subseteq eventRows'
        /\ alertRows' \subseteq eventRows' /\ eventRows' \subseteq DOMAIN alerts
    <2>1. alertRows \subseteq eventRows /\ eventRows \subseteq DOMAIN alerts
      BY DEF IInv, TypeOK
    <2>2. CASE SaveEvent
      <3>1. Len(alerts) \in DOMAIN alerts
        BY <2>2 DEF SaveEvent, IInv, SavingOK, HistoryOK
      <3> QED BY <2>1, <2>2, <3>1 DEF SaveEvent, Current
    <2>3. CASE SaveAlert
      BY <2>1, <2>3 DEF SaveAlert
    <2>4. CASE SaveFails
      BY <2>1, <2>4 DEF SaveFails, tables
    <2> QED BY <2>2, <2>3, <2>4
  <1>3. HistoryOK' /\ GroupedByWindow' /\ ActiveOK' /\ RowsOK'
    <2>1. now' \in Nat /\ now <= now'
      BY <1>1 DEF IInv, HistoryOK
    <2> QED BY <1>1, <2>1, SameIncidentsKeep
  <1>4. TypeOK'
    <2>1. saving' \in {"event", "alert", "incident", "done"}
      BY DEF SaveEvent, SaveAlert, SaveFails, AfterFailure
    <2>2. DOMAIN rows \subseteq {alerts[n].incident : n \in alertRows'}
      BY <1>2 DEF IInv, TypeOK
    <2> QED BY <1>1, <1>2, <2>1, <2>2 DEF IInv, TypeOK, Incident
  <1>5. SavingOK'
    BY <1>1 DEF IInv, SavingOK, CurrentIncident, Current,
                SaveEvent, SaveAlert, SaveFails, AfterFailure
  <1>6. RowsCoverMembers' /\ saved' \subseteq alertRows'
    BY <1>1, <1>2 DEF IInv, RowsCoverMembers, Members
  <1> QED BY <1>3, <1>4, <1>5, <1>6 DEF IInv

LEMMA RestartKeeps ==
    ASSUME IInv, Restart
    PROVE  IInv'
  <1> USE DEF Restart, tables
  <1>1. \A h \in HostKeys : active'[h] = None
    BY DEF Remembered
  <1>2. /\ restarts \in Nat /\ restarts' \in Nat /\ restarts < restarts'
        /\ \A n \in 1 .. Len(alerts) : alerts[n].run \in Nat /\ alerts[n].run <= restarts
    BY AlertTypes DEF IInv, HistoryOK
  <1>3. HistoryOK'
    BY <1>2 DEF IInv, HistoryOK
  <1>4. TypeOK'
    BY <1>1 DEF IInv, TypeOK
  <1>5. ActiveOK'
    <2>1. active' \in [HostKeys -> Incident' \cup {None}]
      BY DEF Remembered
    <2>2. ASSUME NEW h \in HostKeys PROVE Knows(h)' /\ Ahead(h)'
      BY <1>1, <1>2 DEF Knows, Ahead, Forgotten, OfHost
    <2> QED BY <2>1, <2>2 DEF ActiveOK
  <1>6. RowsOK'
    BY DEF IInv, RowsOK
  <1>7. SavingOK'
    BY DEF SavingOK
  <1>8. GroupedByWindow'
    BY DEF IInv, GroupedByWindow, Previous
  <1>9. RowsCoverMembers'
    BY DEF IInv, RowsCoverMembers, Members
  <1> QED BY <1>3, <1>4, <1>5, <1>6, <1>7, <1>8, <1>9 DEF IInv

LEMMA WeightTypes == \A s \in Severity : Weight[s] \in Nat
  BY DEF Weight, Severity

(* Two hosts have different incidents.                                     *)
LEMMA HostsOfIncidents ==
    ASSUME IInv, NEW g \in HostKeys, NEW h \in HostKeys,
           active[g] # None, active[h] # None, active[g].id = active[h].id
    PROVE  g = h
  BY DEF IInv, TypeOK

LEMMA SmallIsNatural == \A x \in 0 .. 100 : x \in Nat
  OBVIOUS

LEMMA LargerElements ==
    ASSUME NEW S, NEW T, S \subseteq T, NEW s \in Seq(S)
    PROVE  s \in Seq(T)
  OBVIOUS

LEMMA ScoresAreNaturals ==
    ASSUME NEW s \in Seq(0 .. 100)
    PROVE  s \in Seq(Nat)
  <1>1. 0 .. 100 \subseteq Nat
    OBVIOUS
  <1> QED BY <1>1, LargerElements, Zenon

LEMMA RowTypes ==
    ASSUME RowsOK, NEW id \in DOMAIN rows
    PROVE  /\ id \in 1 .. Len(alerts)
           /\ rows[id].severity \in Severity /\ Weight[rows[id].severity] \in Nat
           /\ rows[id].score \in Nat /\ rows[id].score \in 0 .. 100
           /\ rows[id].paths \in Seq(Paths)
  <1>1. /\ id \in 1 .. Len(alerts)
        /\ rows[id].severity \in Severity
        /\ rows[id].score \in 0 .. 100
        /\ rows[id].paths \in Seq(Paths)
    BY DEF RowsOK
  <1>2. rows[id].score \in Nat
    BY <1>1, SmallIsNatural, Zenon
  <1> QED BY <1>1, <1>2, WeightTypes

LEMMA Itself ==
    /\ \A n \in Nat : n >= n
    /\ \A S : \A s \in Seq(S) : Extends(s, s)
  <1>1. ASSUME NEW S, NEW s \in Seq(S) PROVE Extends(s, s)
    BY DEF Extends
  <1> QED BY <1>1

LEMMA RangeExtends ==
    ASSUME NEW S, NEW long \in Seq(S), NEW short \in Seq(S), Extends(long, short)
    PROVE  Range(short) \subseteq Range(long)
  <1>1. \A i \in 1 .. Len(short) : i \in 1 .. Len(long) /\ long[i] = short[i]
    BY DEF Extends
  <1>2. DOMAIN short = 1 .. Len(short) /\ DOMAIN long = 1 .. Len(long)
    OBVIOUS
  <1> QED BY <1>1, <1>2 DEF Range

(* What SaveIncident knows of the incident.                                *)
LEMMA CurrentTypes ==
    ASSUME IInv, saving # "done"
    PROVE  LET h == HostKey(alerts[Current].host)
           IN  /\ Current \in 1 .. Len(alerts)
               /\ h \in HostKeys /\ active[h] # None /\ active[h] \in Incident
               /\ CurrentIncident = active[h]
               /\ active[h].id = alerts[Current].incident
               /\ active[h].scores = MemberScores(alerts, active[h].id)[Current]
               /\ Covers(h) /\ Ahead(h)
  <1> DEFINE h == HostKey(alerts[Current].host)
  <1>1. Current \in 1 .. Len(alerts)
    BY DEF IInv, HistoryOK, SavingOK, Current
  <1>2. h \in HostKeys
    BY <1>1, AlertTypes DEF IInv, HostKeys
  <1>3. CurrentIncident = active[h] /\ active[h] # None /\ active[h].id = alerts[Current].incident
    BY DEF IInv, SavingOK, CurrentIncident
  <1>4. Covers(h) /\ Ahead(h)
    BY <1>2, <1>3 DEF IInv, ActiveOK, Knows
  <1>5. active[h] \in Incident /\ active[h].scores = MemberScores(alerts, active[h].id)[Current]
    BY <1>2, <1>3 DEF IInv, TypeOK, Current
  <1> QED BY <1>1, <1>2, <1>3, <1>4, <1>5

LEMMA IncidentTypes ==
    ASSUME NEW inc \in Incident
    PROVE  /\ inc.id \in 1 .. Len(alerts) /\ inc.severity \in Severity
           /\ inc.score \in 0 .. 100 /\ inc.paths \in Seq(Paths)
           /\ inc.scores \in Seq(0 .. 100) /\ inc.updated \in Nat /\ inc.status = "open"
           /\ Row(inc).severity = inc.severity /\ Row(inc).score = inc.score
           /\ Row(inc).paths = inc.paths
           /\ DOMAIN Row(inc) = {"status", "severity", "score", "paths"}
  BY DEF Incident, Row

LEMMA AheadOfRow ==
    ASSUME NEW inc \in Incident
    PROVE  IsAhead(inc, Row(inc))
  <1>1. /\ inc.severity \in Severity /\ inc.score \in 0 .. 100 /\ inc.paths \in Seq(Paths)
        /\ Row(inc).severity = inc.severity /\ Row(inc).score = inc.score
        /\ Row(inc).paths = inc.paths
    BY IncidentTypes
  <1>2. Weight[inc.severity] \in Nat /\ inc.score \in Nat
    BY <1>1, WeightTypes, SmallIsNatural, Zenon
  <1> QED BY <1>1, <1>2, Itself DEF IsAhead

(* A step after which the rows that were there are ahead of themselves.    *)
RowsGrow ==
    \A id \in DOMAIN rows :
        /\ id \in DOMAIN rows'
        /\ Weight[rows'[id].severity] >= Weight[rows[id].severity]
        /\ rows'[id].score >= rows[id].score
        /\ Extends(rows'[id].paths, rows[id].paths)

LEMMA SaveIncidentRows ==
    ASSUME IInv, SaveIncident
    PROVE  LET id == CurrentIncident.id
           IN  /\ DOMAIN rows' = DOMAIN rows \cup {id}
               /\ rows'[id] = Row(CurrentIncident)
               /\ \A i \in DOMAIN rows : i # id => rows'[i] = rows[i]
  BY DEF SaveIncident, Stored

LEMMA SameRowsGrow ==
    ASSUME RowsOK, SameRows
    PROVE  RowsGrow
  <1> SUFFICES ASSUME NEW id \in DOMAIN rows
               PROVE  /\ Weight[rows[id].severity] >= Weight[rows[id].severity]
                      /\ rows[id].score >= rows[id].score
                      /\ Extends(rows[id].paths, rows[id].paths)
    BY DEF SameRows, RowsGrow
  <1> QED BY RowTypes, Itself

LEMMA SaveIncidentGrows ==
    ASSUME IInv, SaveIncident
    PROVE  RowsGrow
  <1> DEFINE h == HostKey(alerts[Current].host)
             inc == active[h]
  <1>1. saving # "done"
    BY DEF SaveIncident
  <1>2. inc # None /\ inc \in Incident /\ CurrentIncident = inc /\ Ahead(h)
    BY <1>1, CurrentTypes
  <1>3. /\ DOMAIN rows' = DOMAIN rows \cup {inc.id}
        /\ rows'[inc.id] = Row(inc)
        /\ \A i \in DOMAIN rows : i # inc.id => rows'[i] = rows[i]
    BY <1>2, SaveIncidentRows
  <1>4. ASSUME NEW id \in DOMAIN rows
        PROVE  /\ Weight[rows'[id].severity] >= Weight[rows[id].severity]
               /\ rows'[id].score >= rows[id].score
               /\ Extends(rows'[id].paths, rows[id].paths)
    <2>1. CASE id = inc.id
      <3>1. IsAhead(inc, rows[id])
        BY <1>2, <2>1 DEF Ahead
      <3> QED BY <1>2, <1>3, <2>1, <3>1, IncidentTypes DEF IsAhead
    <2>2. CASE id # inc.id
      <3>1. rows'[id] = rows[id]
        BY <1>3, <2>2
      <3>2. RowsOK
        BY DEF IInv
      <3> QED BY <3>1, <3>2, RowTypes, Itself
    <2> QED BY <2>1, <2>2
  <1> QED BY <1>3, <1>4 DEF RowsGrow

LEMMA SaveIncidentKeeps ==
    ASSUME IInv, SaveIncident
    PROVE  IInv'
  <1> DEFINE h == HostKey(alerts[Current].host)
             inc == active[h]
  <1>1. /\ saving = "incident" /\ saving' = "done" /\ saved' = saved \cup {Current}
        /\ UNCHANGED <<now, alerts, active, restarts, eventRows, alertRows>>
    BY DEF SaveIncident
  <1>2. /\ Current \in 1 .. Len(alerts)
        /\ h \in HostKeys /\ inc # None /\ inc \in Incident
        /\ CurrentIncident = inc
        /\ inc.id = alerts[Current].incident
        /\ inc.scores = MemberScores(alerts, inc.id)[Current]
        /\ Covers(h) /\ Ahead(h)
    BY <1>1, CurrentTypes
  <1>3. /\ DOMAIN rows' = DOMAIN rows \cup {inc.id}
        /\ rows'[inc.id] = Row(inc)
        /\ \A i \in DOMAIN rows : i # inc.id => rows'[i] = rows[i]
    BY <1>2, SaveIncidentRows
  <1>4. /\ HistoryOK' /\ GroupedByWindow'
        /\ active' \in [HostKeys -> Incident' \cup {None}]
        /\ \A g \in HostKeys : Knows(g)'
    <2>1. now' \in Nat /\ now <= now'
      BY <1>1 DEF IInv, HistoryOK
    <2> QED BY <1>1, <2>1, SameAlertsKeep
  <1>5. Current \in alertRows /\ Current \in eventRows
    BY <1>1 DEF IInv, SavingOK
  <1>6. RowsOK'
    <2>1. ASSUME NEW id \in DOMAIN rows'
          PROVE  /\ id \in 1 .. Len(alerts)
                 /\ DOMAIN rows'[id] = {"status", "severity", "score", "paths"}
                 /\ rows'[id].severity \in Severity
                 /\ rows'[id].score \in 0 .. 100
                 /\ rows'[id].paths \in Seq(Paths)
      <3>1. CASE id = inc.id
        <4> HIDE DEF inc
        <4> QED BY <1>2, <1>3, <3>1, IncidentTypes
      <3>2. CASE id # inc.id
        BY <1>3, <3>2 DEF IInv, RowsOK
      <3> QED BY <3>1, <3>2
    <2> QED BY <1>1, <2>1 DEF RowsOK
  <1>7. TypeOK'
    <2>1. DOMAIN rows' \subseteq {alerts[n].incident : n \in alertRows}
      <3>1. DOMAIN rows \subseteq {alerts[n].incident : n \in alertRows}
        BY DEF IInv, TypeOK
      <3> HIDE DEF h, inc
      <3> QED BY <1>2, <1>3, <1>5, <3>1
    <2> QED BY <1>1, <2>1 DEF IInv, TypeOK, Incident
  <1>8. ActiveOK'
    <2>1. ASSUME NEW g \in HostKeys PROVE Ahead(g)'
      <3> SUFFICES ASSUME active[g] # None, active[g].id \in DOMAIN rows'
                   PROVE  IsAhead(active[g], rows'[active[g].id])
        BY <1>1 DEF Ahead
      <3>1. CASE active[g].id = inc.id
        <4>1. g = h
          BY <1>2, <3>1, HostsOfIncidents
        <4>2. IsAhead(inc, Row(inc))
          BY <1>2, AheadOfRow
        <4> QED BY <1>3, <4>1, <4>2
      <3>2. CASE active[g].id # inc.id
        <4>1. active[g].id \in DOMAIN rows /\ rows'[active[g].id] = rows[active[g].id]
          BY <1>3, <3>2
        <4> QED BY <4>1 DEF IInv, ActiveOK, Ahead
      <3> QED BY <3>1, <3>2
    <2> QED BY <1>4, <2>1 DEF ActiveOK
  <1>9. SavingOK'
    BY <1>1 DEF SavingOK
  <1>10. saved' \subseteq alertRows'
    BY <1>1, <1>5 DEF IInv
  <1>11. RowsCoverMembers'
    <2> DEFINE Covered(n) ==
                   LET id == alerts[n].incident
                   IN  /\ n \in alertRows /\ n \in eventRows /\ id \in DOMAIN rows'
                       /\ rows'[id].score >= IncidentScore(MemberScores(alerts, id)[n])
                       /\ \A m \in Members(id) : m <= n =>
                              /\ Weight[rows'[id].severity] >= Weight[alerts[m].kind.severity]
                              /\ alerts[m].kind.path # Empty =>
                                     alerts[m].kind.path \in Range(rows'[id].paths)
    <2>1. Covered(Current)
      <3>1. rows'[inc.id].severity = inc.severity /\ rows'[inc.id].score = inc.score
            /\ rows'[inc.id].paths = inc.paths
        BY <1>2, <1>3, IncidentTypes
      <3>2. inc.score = IncidentScore(MemberScores(alerts, inc.id)[Current]) /\ inc.score \in Nat
        <4>1. inc.score \in 0 .. 100
          BY <1>2, IncidentTypes
        <4>2. inc.score = IncidentScore(inc.scores)
          BY <1>2 DEF Covers
        <4>3. inc.score \in Nat
          BY <4>1, SmallIsNatural, Zenon
        <4> HIDE DEF inc
        <4> QED BY <1>2, <4>2, <4>3
      <3>3. inc.score >= IncidentScore(MemberScores(alerts, inc.id)[Current])
        BY <3>2
      <3>4. \A m \in Members(inc.id) :
               /\ Weight[inc.severity] >= Weight[alerts[m].kind.severity]
               /\ alerts[m].kind.path # Empty => alerts[m].kind.path \in Range(inc.paths)
        BY <1>2 DEF Covers, Members, IInv, HistoryOK
      <3>5. inc.id \in DOMAIN rows'
        BY <1>3
      <3> HIDE DEF inc
      <3> QED BY <1>2, <1>5, <3>1, <3>3, <3>4, <3>5
    <2>2. ASSUME NEW n \in saved PROVE Covered(n)
      <3> DEFINE id == alerts[n].incident
      <3>1. /\ n \in alertRows /\ n \in eventRows /\ id \in DOMAIN rows
            /\ rows[id].score >= IncidentScore(MemberScores(alerts, id)[n])
            /\ \A m \in Members(id) : m <= n =>
                   /\ Weight[rows[id].severity] >= Weight[alerts[m].kind.severity]
                   /\ alerts[m].kind.path # Empty => alerts[m].kind.path \in Range(rows[id].paths)
        BY DEF IInv, RowsCoverMembers
      <3>2. /\ Weight[rows'[id].severity] >= Weight[rows[id].severity]
            /\ rows'[id].score >= rows[id].score
            /\ Extends(rows'[id].paths, rows[id].paths)
        BY <3>1, SaveIncidentGrows DEF RowsGrow
      <3>3. id \in DOMAIN rows' /\ RowsOK
        BY <1>3, <3>1 DEF IInv
      <3>4. /\ Weight[rows[id].severity] \in Nat /\ Weight[rows'[id].severity] \in Nat
            /\ rows[id].score \in Nat /\ rows'[id].score \in Nat
            /\ rows[id].paths \in Seq(Paths) /\ rows'[id].paths \in Seq(Paths)
        <4>1. rows'[id].severity \in Severity /\ rows'[id].score \in 0 .. 100
              /\ rows'[id].paths \in Seq(Paths)
          BY <1>6, <3>3 DEF RowsOK
        <4>2. rows'[id].score \in Nat
          BY <4>1, SmallIsNatural, Zenon
        <4> QED BY <3>1, <3>3, <4>1, <4>2, RowTypes, WeightTypes
      <3>5. Range(rows[id].paths) \subseteq Range(rows'[id].paths)
        BY <3>2, <3>4, RangeExtends
      <3>6. n \in 1 .. Len(alerts)
        BY <3>1 DEF IInv, TypeOK, HistoryOK
      <3>7. IncidentScore(MemberScores(alerts, id)[n]) \in Nat
        <4>1. MemberScores(alerts, id)[n] \in Seq(0 .. 100)
          BY <3>6, MemberScoresEquation DEF IInv, HistoryOK
        <4>2. MemberScores(alerts, id)[n] \in Seq(Nat)
          BY <4>1, ScoresAreNaturals
        <4>3. IncidentScore(MemberScores(alerts, id)[n]) \in 0 .. 100
          BY <4>2, ScoreInRange
        <4> QED BY <4>3
      <3>8. ASSUME NEW m \in Members(id), m <= n
            PROVE  /\ Weight[rows'[id].severity] >= Weight[alerts[m].kind.severity]
                   /\ alerts[m].kind.path # Empty => alerts[m].kind.path \in Range(rows'[id].paths)
        <4>1. m \in 1 .. Len(alerts)
          BY DEF Members, IInv, HistoryOK
        <4>2. alerts[m].kind.severity \in Severity
          BY <4>1, AlertTypes, IncidentsAssumption DEF IInv
        <4>3. Weight[alerts[m].kind.severity] \in Nat
          BY <4>2, WeightTypes
        <4> QED BY <3>1, <3>2, <3>4, <3>5, <3>8, <4>3
      <3>9. rows'[id].score >= IncidentScore(MemberScores(alerts, id)[n])
        <4> DEFINE x == IncidentScore(MemberScores(alerts, id)[n])
        <4>1. x \in Nat /\ rows[id].score >= x
          BY <3>1, <3>7
        <4> HIDE DEF x
        <4>2. rows'[id].score >= x
          BY <3>2, <3>4, <4>1
        <4> QED BY <4>2 DEF x
      <3> QED BY <3>1, <3>3, <3>8, <3>9
    <2>3. \A n \in saved \cup {Current} : Covered(n)
      BY <2>1, <2>2
    <2> QED BY <1>1, <2>3 DEF RowsCoverMembers, Members
  <1> QED BY <1>4, <1>6, <1>7, <1>8, <1>9, <1>10, <1>11 DEF IInv

-----------------------------------------------------------------------------
(* ProcessAlert.                                                           *)

LEMMA EscalatedIsHigher ==
    ASSUME NEW s \in Severity, NEW t \in Severity
    PROVE  /\ Escalated(s, t) \in Severity
           /\ Weight[Escalated(s, t)] >= Weight[s]
           /\ Weight[Escalated(s, t)] >= Weight[t]
  <1>1. Weight[s] \in Nat /\ Weight[t] \in Nat
    BY WeightTypes
  <1>2. CASE Weight[t] > Weight[s]
    BY <1>1, <1>2 DEF Escalated
  <1>3. CASE ~ (Weight[t] > Weight[s])
    BY <1>1, <1>3 DEF Escalated
  <1> QED BY <1>2, <1>3

LEMMA MergedPaths ==
    ASSUME NEW paths \in Seq(Paths), NEW p \in Paths \cup {Empty}
    PROVE  /\ Merged(paths, p) \in Seq(Paths)
           /\ Extends(Merged(paths, p), paths)
           /\ p # Empty => p \in Range(Merged(paths, p))
           /\ Range(paths) \subseteq Range(Merged(paths, p))
  <1>1. Merged(paths, p) \in Seq(Paths)
    BY DEF Merged
  <1>2. Extends(Merged(paths, p), paths)
    BY DEF Merged, Extends
  <1>3. p # Empty => p \in Range(Merged(paths, p))
    <2>1. CASE p = Empty \/ \E i \in DOMAIN paths : paths[i] = p
      BY <2>1 DEF Merged, Range
    <2>2. CASE ~ (p = Empty \/ \E i \in DOMAIN paths : paths[i] = p)
      <3>1. Merged(paths, p) = Append(paths, p)
        BY <2>2 DEF Merged
      <3>2. Len(paths) + 1 \in DOMAIN Append(paths, p)
            /\ Append(paths, p)[Len(paths) + 1] = p
        BY <2>2
      <3> QED BY <3>1, <3>2 DEF Range
    <2> QED BY <2>1, <2>2
  <1> QED BY <1>1, <1>2, <1>3, RangeExtends

NextIncident(host, kind) ==
    IF WithinWindow(active[HostKey(host)])
    THEN Joined(active[HostKey(host)], kind)
    ELSE Created(Len(alerts) + 1, kind)

NewAlert(host, kind) ==
    [host |-> host, kind |-> kind, at |-> now,
     incident |-> NextIncident(host, kind).id, run |-> restarts]

(* The alert joins the incident in memory.                                 *)
LEMMA JoinedFacts ==
    ASSUME IInv, NEW host \in HostInfos, NEW kind \in Kinds,
           WithinWindow(active[HostKey(host)])
    PROVE  LET inc == active[HostKey(host)]
               next == NextIncident(host, kind)
           IN  /\ inc # None /\ inc \in Incident /\ Covers(HostKey(host))
               /\ next.id = inc.id /\ next.status = "open" /\ next.updated = now
               /\ next.severity = Escalated(inc.severity, kind.severity)
               /\ next.paths = Merged(inc.paths, kind.path)
               /\ next.scores = Append(inc.scores, kind.score)
               /\ next.score = IncidentScore(next.scores)
               /\ next.score >= inc.score
               /\ next \in [id : 1 .. Len(alerts), status : {"open"}, severity : Severity,
                            score : 0 .. 100, paths : Seq(Paths), scores : Seq(0 .. 100),
                            updated : Nat]
  <1> DEFINE h == HostKey(host)
             inc == active[h]
             next == NextIncident(host, kind)
  <1>1. h \in HostKeys /\ inc # None
    BY DEF HostKeys, WithinWindow
  <1>2. inc \in Incident /\ Covers(h)
    BY <1>1 DEF IInv, TypeOK, ActiveOK, Knows
  <1>3. next = Joined(inc, kind)
    BY DEF NextIncident
  <1>4. /\ kind.severity \in Severity /\ kind.score \in 0 .. 100
        /\ kind.path \in Paths \cup {Empty} /\ now \in Nat
    BY IncidentsAssumption DEF IInv, HistoryOK
  <1> HIDE DEF inc, next
  <1>5. /\ next.id = inc.id /\ next.status = "open" /\ next.updated = now
        /\ next.severity = Escalated(inc.severity, kind.severity)
        /\ next.paths = Merged(inc.paths, kind.path)
        /\ next.scores = Append(inc.scores, kind.score)
        /\ next.score = IncidentScore(next.scores)
        /\ DOMAIN next = DOMAIN inc
    BY <1>2, <1>3 DEF Joined, Incident
  <1>6. /\ inc.id \in 1 .. Len(alerts) /\ inc.severity \in Severity
        /\ inc.paths \in Seq(Paths) /\ inc.scores \in Seq(0 .. 100)
    BY <1>2, IncidentTypes
  <1>7. next.scores \in Seq(0 .. 100)
    <2>1. ASSUME NEW S, NEW s \in Seq(S), NEW x \in S PROVE Append(s, x) \in Seq(S)
      OBVIOUS
    <2> QED BY <1>4, <1>5, <1>6, <2>1, Zenon
  <1>8. next.score \in 0 .. 100
    BY <1>5, <1>7, ScoresAreNaturals, ScoreInRange
  <1>9. next.score >= inc.score
    <2>1. inc.score = IncidentScore(inc.scores)
      BY <1>2 DEF Covers, inc
    <2>2. inc.scores \in Seq(Nat) /\ kind.score \in Nat
      BY <1>4, <1>6, ScoresAreNaturals, SmallIsNatural, Zenon
    <2> QED BY <1>5, <2>1, <2>2, ScoreNeverFalls, Zenon
  <1>10. next.severity \in Severity /\ next.paths \in Seq(Paths)
    BY <1>4, <1>5, <1>6, EscalatedIsHigher, MergedPaths
  <1>11. next \in [id : 1 .. Len(alerts), status : {"open"}, severity : Severity,
                  score : 0 .. 100, paths : Seq(Paths), scores : Seq(0 .. 100),
                  updated : Nat]
    <2>1. next = [inc EXCEPT !.severity = next.severity, !.scores = next.scores,
                             !.score = next.score, !.paths = next.paths, !.updated = now]
      BY <1>3, <1>5 DEF Joined
    <2> HIDE DEF inc, next
    <2> QED BY <1>2, <1>4, <1>7, <1>8, <1>10, <2>1 DEF Incident
  <1> QED BY <1>1, <1>2, <1>5, <1>9, <1>11 DEF inc, next

(* The alert begins an incident.                                           *)
LEMMA CreatedFacts ==
    ASSUME IInv, NEW host \in HostInfos, NEW kind \in Kinds,
           ~ WithinWindow(active[HostKey(host)])
    PROVE  LET next == NextIncident(host, kind)
           IN  /\ next.id = Len(alerts) + 1 /\ next.status = "open" /\ next.updated = now
               /\ next.severity = kind.severity
               /\ next.paths = Merged(<< >>, kind.path)
               /\ next.scores = <<kind.score>>
               /\ next.score = IncidentScore(next.scores)
               /\ next \in [id : 1 .. Len(alerts) + 1, status : {"open"}, severity : Severity,
                            score : 0 .. 100, paths : Seq(Paths), scores : Seq(0 .. 100),
                            updated : Nat]
  <1> DEFINE next == NextIncident(host, kind)
  <1>1. next = Created(Len(alerts) + 1, kind)
    BY DEF NextIncident
  <1>2. /\ kind.severity \in Severity /\ kind.score \in 0 .. 100
        /\ kind.path \in Paths \cup {Empty} /\ now \in Nat /\ Len(alerts) \in Nat
    BY IncidentsAssumption DEF IInv, HistoryOK
  <1> HIDE DEF next
  <1>3. /\ next.id = Len(alerts) + 1 /\ next.status = "open" /\ next.updated = now
        /\ next.severity = kind.severity
        /\ next.paths = Merged(<< >>, kind.path)
        /\ next.scores = <<kind.score>> /\ next.score = kind.score
    BY <1>1 DEF Created
  <1>4. IncidentScore(<<kind.score>>) = kind.score
    BY <1>2, ScoreOfOne
  <1>5. Merged(<< >>, kind.path) \in Seq(Paths)
    <2>1. << >> \in Seq(Paths)
      OBVIOUS
    <2> QED BY <1>2, <2>1, MergedPaths
  <1>6. <<kind.score>> \in Seq(0 .. 100)
    <2>1. ASSUME NEW S, NEW x \in S PROVE <<x>> \in Seq(S)
      OBVIOUS
    <2> QED BY <1>2, <2>1, Zenon
  <1>7. next \in [id : 1 .. Len(alerts) + 1, status : {"open"}, severity : Severity,
                 score : 0 .. 100, paths : Seq(Paths), scores : Seq(0 .. 100),
                 updated : Nat]
    BY <1>1, <1>2, <1>5, <1>6 DEF Created
  <1> QED BY <1>3, <1>4, <1>7 DEF next

LEMMA ProcessAlertStep ==
    ASSUME IInv, NEW host \in HostInfos, NEW kind \in Kinds, ProcessAlert(host, kind)
    PROVE  LET n == Len(alerts) + 1
               h == HostKey(host)
               next == NextIncident(host, kind)
               a == NewAlert(host, kind)
           IN  /\ saving = "done" /\ saving' = "event"
               /\ UNCHANGED <<now, tables, saved, restarts>>
               /\ Len(alerts) \in Nat /\ n \in Nat
               /\ alerts' = Append(alerts, a) /\ Len(alerts') = n
               /\ \A i \in 1 .. Len(alerts) : alerts'[i] = alerts[i]
               /\ alerts'[n] = a
               /\ a \in Alert
               /\ h \in HostKeys
               /\ active' = [active EXCEPT ![h] = next]
               /\ active'[h] = next
               /\ \A g \in HostKeys \ {h} : active'[g] = active[g]
               /\ next # None /\ next \in Incident'
               /\ next.id \in 1 .. n
  <1> DEFINE n == Len(alerts) + 1
             h == HostKey(host)
             next == NextIncident(host, kind)
             a == NewAlert(host, kind)
  <1>1. /\ saving = "done" /\ saving' = "event"
        /\ UNCHANGED <<now, tables, saved, restarts>>
        /\ alerts' = Append(alerts, a)
        /\ active' = [active EXCEPT ![h] = next]
    BY DEF ProcessAlert, NextIncident, NewAlert
  <1>2. alerts \in Seq(Alert) /\ Len(alerts) \in Nat /\ n \in Nat
    BY DEF IInv, HistoryOK
  <1>3. h \in HostKeys
    BY DEF HostKeys
  <1>4. /\ next.id \in 1 .. n
        /\ next \in [id : 1 .. n, status : {"open"}, severity : Severity,
                     score : 0 .. 100, paths : Seq(Paths), scores : Seq(0 .. 100),
                     updated : Nat]
    <2>1. CASE WithinWindow(active[h])
      <3>1. next \in [id : 1 .. Len(alerts), status : {"open"}, severity : Severity,
                     score : 0 .. 100, paths : Seq(Paths), scores : Seq(0 .. 100),
                     updated : Nat]
        BY <2>1, JoinedFacts
      <3> HIDE DEF next
      <3> QED BY <1>2, <3>1
    <2>2. CASE ~ WithinWindow(active[h])
      <3>1. next \in [id : 1 .. n, status : {"open"}, severity : Severity,
                     score : 0 .. 100, paths : Seq(Paths), scores : Seq(0 .. 100),
                     updated : Nat]
        BY <2>2, CreatedFacts
      <3> HIDE DEF next
      <3> QED BY <1>2, <3>1
    <2> QED BY <2>1, <2>2
  <1> HIDE DEF next
  <1>5. a \in Alert
    <2>1. now \in Nat /\ restarts \in Nat /\ next.id \in Nat
      BY <1>2, <1>4 DEF IInv, HistoryOK
    <2> QED BY <2>1 DEF NewAlert, Alert, next
  <1> HIDE DEF a
  <1>6. /\ Len(alerts') = n
        /\ \A i \in 1 .. Len(alerts) : alerts'[i] = alerts[i]
        /\ alerts'[n] = a
    BY <1>1, <1>2, <1>5
  <1>7. next \in Incident'
    BY <1>4, <1>6 DEF Incident
  <1>8. next # None
    <2>1. next.severity \in Severity
      BY <1>4
    <2> QED BY <2>1 DEF None, Severity
  <1>9. active'[h] = next /\ \A g \in HostKeys \ {h} : active'[g] = active[g]
    BY <1>1, <1>3 DEF IInv, ActiveOK
  <1> QED BY <1>1, <1>2, <1>3, <1>4, <1>5, <1>6, <1>7, <1>8, <1>9 DEF next, a

(* The incident of another host is another one.                            *)
LEMMA OtherIncident ==
    ASSUME IInv, NEW host \in HostInfos, NEW kind \in Kinds, ProcessAlert(host, kind),
           NEW g \in HostKeys, g # HostKey(host), active[g] # None
    PROVE  /\ active[g] \in Incident
           /\ active[g].id \in 1 .. Len(alerts)
           /\ active[g].id # NextIncident(host, kind).id
  <1>1. active[g] \in Incident
    BY DEF IInv, TypeOK
  <1>2. active[g].id \in 1 .. Len(alerts)
    BY <1>1, IncidentTypes
  <1>3. HostKey(host) \in HostKeys /\ Len(alerts) \in Nat
    BY DEF HostKeys, IInv, HistoryOK
  <1>4. CASE WithinWindow(active[HostKey(host)])
    <2>1. /\ active[HostKey(host)] # None
          /\ NextIncident(host, kind).id = active[HostKey(host)].id
      BY <1>4, JoinedFacts
    <2> QED BY <1>1, <1>2, <1>3, <2>1, HostsOfIncidents
  <1>5. CASE ~ WithinWindow(active[HostKey(host)])
    <2>1. NextIncident(host, kind).id = Len(alerts) + 1
      BY <1>5, CreatedFacts
    <2>2. ASSUME NEW m \in Nat, NEW i \in 1 .. m PROVE i # m + 1
      OBVIOUS
    <2> QED BY <1>1, <1>2, <1>3, <2>1, <2>2, Zenon
  <1> QED BY <1>1, <1>2, <1>4, <1>5

LEMMA ProcessAlertHistory ==
    ASSUME IInv, NEW host \in HostInfos, NEW kind \in Kinds, ProcessAlert(host, kind)
    PROVE  HistoryOK'
  <1> DEFINE n == Len(alerts) + 1
             a == NewAlert(host, kind)
  <1>1. /\ UNCHANGED <<now, restarts>>
        /\ Len(alerts) \in Nat /\ n \in Nat
        /\ alerts' = Append(alerts, a) /\ Len(alerts') = n
        /\ \A i \in 1 .. Len(alerts) : alerts'[i] = alerts[i]
        /\ alerts'[n] = a /\ a \in Alert
        /\ a.incident \in 1 .. n
    BY ProcessAlertStep DEF NewAlert
  <1>2. a.at = now /\ a.run = restarts
    BY DEF NewAlert
  <1> HIDE DEF a
  <1>3. /\ now \in Nat /\ restarts \in Nat /\ alerts \in Seq(Alert)
        /\ \A i \in 1 .. Len(alerts) :
               /\ alerts[i].at \in Nat /\ alerts[i].at <= now
               /\ alerts[i].incident \in 1 .. i
               /\ alerts[i].run <= restarts
        /\ \A i, j \in 1 .. Len(alerts) : i <= j => alerts[i].at <= alerts[j].at
    BY AlertTypes DEF IInv, HistoryOK
  <1>4. alerts' \in Seq(Alert)
    BY <1>1, <1>3
  <1>5. ASSUME NEW i \in 1 .. n
        PROVE  /\ alerts'[i].at <= now
               /\ alerts'[i].incident \in 1 .. i
               /\ alerts'[i].run <= restarts
    <2>1. CASE i = n
      BY <1>1, <1>2, <1>3, <2>1
    <2>2. CASE i # n
      <3>1. i \in 1 .. Len(alerts)
        BY <1>1, <2>2
      <3> QED BY <1>1, <1>3, <3>1
    <2> QED BY <2>1, <2>2
  <1>6. ASSUME NEW i \in 1 .. n, NEW j \in 1 .. n, i <= j
        PROVE  alerts'[i].at <= alerts'[j].at
    <2>1. CASE j = n
      BY <1>1, <1>2, <1>5, <2>1
    <2>2. CASE j # n
      <3>1. i \in 1 .. Len(alerts) /\ j \in 1 .. Len(alerts)
        BY <1>1, <1>6, <2>2
      <3> QED BY <1>1, <1>3, <1>6, <3>1
    <2> QED BY <2>1, <2>2
  <1> QED BY <1>1, <1>3, <1>4, <1>5, <1>6 DEF HistoryOK

LEMMA ProcessAlertScores ==
    ASSUME IInv, NEW host \in HostInfos, NEW kind \in Kinds, ProcessAlert(host, kind), NEW id
    PROVE  /\ \A i \in 0 .. Len(alerts) :
                  MemberScores(alerts', id)[i] = MemberScores(alerts, id)[i]
           /\ MemberScores(alerts', id)[Len(alerts) + 1] =
                  IF NextIncident(host, kind).id = id
                  THEN Append(MemberScores(alerts, id)[Len(alerts)], kind.score)
                  ELSE MemberScores(alerts, id)[Len(alerts)]
  <1> DEFINE n == Len(alerts)
             a == NewAlert(host, kind)
  <1>1. /\ n \in Nat /\ a \in Alert /\ alerts' = Append(alerts, a)
        /\ Len(alerts') = n + 1 /\ alerts'[n + 1] = a
        /\ alerts \in Seq(Alert) /\ alerts' \in Seq(Alert)
    BY ProcessAlertStep, ProcessAlertHistory DEF IInv, HistoryOK
  <1>2. a.incident = NextIncident(host, kind).id /\ a.kind = kind
    BY DEF NewAlert
  <1> HIDE DEF a
  <1>3. \A i \in 0 .. n : MemberScores(alerts', id)[i] = MemberScores(alerts, id)[i]
    BY <1>1, MemberScoresAppend
  <1>4. MemberScores(alerts', id)[n + 1] = NextScores(alerts', id, n, MemberScores(alerts', id)[n])
    <2>1. n \in 0 .. Len(alerts') - 1
      BY <1>1
    <2> QED BY <1>1, <2>1, MemberScoresEquation
  <1>5. n \in 0 .. n
    BY <1>1
  <1> QED BY <1>1, <1>2, <1>3, <1>4, <1>5 DEF NextScores

LEMMA ProcessAlertTypes ==
    ASSUME IInv, NEW host \in HostInfos, NEW kind \in Kinds, ProcessAlert(host, kind)
    PROVE  TypeOK' /\ RowsOK'
  <1> DEFINE n == Len(alerts)
             h == HostKey(host)
             next == NextIncident(host, kind)
             a == NewAlert(host, kind)
  <1>1. /\ saving' = "event"
        /\ UNCHANGED <<now, tables, saved, restarts>>
        /\ n \in Nat /\ Len(alerts') = n + 1
        /\ \A i \in 1 .. n : alerts'[i] = alerts[i]
        /\ alerts'[n + 1] = a
        /\ h \in HostKeys
        /\ active'[h] = next
        /\ \A g \in HostKeys \ {h} : active'[g] = active[g]
        /\ next # None /\ next \in Incident'
    BY ProcessAlertStep
  <1>2. a.host = host
    BY DEF NewAlert
  <1> HIDE DEF a, next
  <1>3. ASSUME NEW g \in HostKeys, active'[g] # None
        PROVE  /\ active'[g] \in Incident'
               /\ HostKey(alerts'[active'[g].id].host) = g
               /\ active'[g].scores = MemberScores(alerts', active'[g].id)[n + 1]
    <2>1. CASE g = h /\ WithinWindow(active[h])
      <3> DEFINE inc == active[h]
      <3>1. /\ inc # None /\ inc \in Incident
            /\ next.id = inc.id /\ next.scores = Append(inc.scores, kind.score)
        BY <2>1, JoinedFacts DEF next
      <3>2. inc.id \in 1 .. n
        BY <3>1, IncidentTypes
      <3>3. HostKey(alerts[inc.id].host) = h /\ inc.scores = MemberScores(alerts, inc.id)[n]
        BY <1>1, <3>1 DEF IInv, TypeOK
      <3>4. MemberScores(alerts', next.id)[n + 1] = Append(MemberScores(alerts, next.id)[n], kind.score)
        BY ProcessAlertScores DEF next
      <3> HIDE DEF inc
      <3> QED BY <1>1, <2>1, <3>1, <3>2, <3>3, <3>4
    <2>2. CASE g = h /\ ~ WithinWindow(active[h])
      <3>1. next.id = n + 1 /\ next.scores = <<kind.score>>
        BY <2>2, CreatedFacts DEF next
      <3>2. MemberScores(alerts, n + 1)[n] = << >>
        <4>1. ASSUME NEW i \in 1 .. n PROVE alerts[i].incident # n + 1
          <5>1. alerts[i].incident \in 1 .. i
            BY AlertTypes DEF IInv
          <5> QED BY <1>1, <5>1
        <4>2. n \in 0 .. n /\ alerts \in Seq(Alert)
          BY <1>1 DEF IInv, HistoryOK
        <4> QED BY <4>1, <4>2, MemberScoresNone
      <3>3. MemberScores(alerts', n + 1)[n + 1] = Append(<< >>, kind.score)
        <4>1. MemberScores(alerts', next.id)[n + 1]
                  = Append(MemberScores(alerts, next.id)[n], kind.score)
          BY ProcessAlertScores DEF next
        <4> QED BY <3>1, <3>2, <4>1
      <3>4. Append(<< >>, kind.score) = <<kind.score>>
        OBVIOUS
      <3> QED BY <1>1, <1>2, <2>2, <3>1, <3>3, <3>4
    <2>3. CASE g # h
      <3>1. active'[g] = active[g] /\ active[g] # None
        BY <1>1, <1>3, <2>3
      <3>2. active[g] \in Incident /\ active[g].id \in 1 .. n /\ active[g].id # next.id
        BY <2>3, <3>1, OtherIncident DEF next
      <3>3. HostKey(alerts[active[g].id].host) = g
            /\ active[g].scores = MemberScores(alerts, active[g].id)[n]
        BY <3>1 DEF IInv, TypeOK
      <3>4. MemberScores(alerts', active[g].id)[n + 1] = MemberScores(alerts, active[g].id)[n]
        BY <3>2, ProcessAlertScores DEF next
      <3>5. active[g] \in Incident'
        BY <1>1, <3>2 DEF Incident
      <3> QED BY <1>1, <3>1, <3>2, <3>3, <3>4, <3>5
    <2> QED BY <2>1, <2>2, <2>3
  <1>4. eventRows' \subseteq DOMAIN alerts' /\ alertRows' \subseteq eventRows'
    <2>1. eventRows \subseteq DOMAIN alerts /\ DOMAIN alerts = 1 .. n /\ alertRows \subseteq eventRows
      BY DEF IInv, TypeOK, HistoryOK
    <2>2. DOMAIN alerts' = 1 .. n + 1
      BY <1>1, ProcessAlertHistory DEF HistoryOK
    <2> QED BY <1>1, <2>1, <2>2 DEF tables
  <1>5. DOMAIN rows' \subseteq {alerts'[i].incident : i \in alertRows'}
    <2>1. \A i \in alertRows : alerts'[i] = alerts[i]
      <3>1. alertRows \subseteq 1 .. n
        BY DEF IInv, TypeOK, HistoryOK
      <3> QED BY <1>1, <3>1
    <2> QED BY <1>1, <2>1 DEF IInv, TypeOK, tables
  <1>6. TypeOK'
    BY <1>1, <1>3, <1>4, <1>5 DEF TypeOK, IInv
  <1>7. RowsOK'
    BY <1>1 DEF IInv, RowsOK, tables
  <1> QED BY <1>6, <1>7

LEMMA ProcessAlertActive ==
    ASSUME IInv, NEW host \in HostInfos, NEW kind \in Kinds, ProcessAlert(host, kind)
    PROVE  ActiveOK'
  <1> DEFINE n == Len(alerts)
             h == HostKey(host)
             next == NextIncident(host, kind)
             a == NewAlert(host, kind)
  <1>1. /\ UNCHANGED <<now, tables, saved, restarts>>
        /\ n \in Nat /\ n + 1 \in Nat /\ Len(alerts') = n + 1
        /\ \A i \in 1 .. n : alerts'[i] = alerts[i]
        /\ alerts'[n + 1] = a
        /\ h \in HostKeys
        /\ active' = [active EXCEPT ![h] = next]
        /\ active'[h] = next
        /\ \A g \in HostKeys \ {h} : active'[g] = active[g]
        /\ next # None /\ next \in Incident'
    BY ProcessAlertStep
  <1>2. /\ a.host = host /\ a.kind = kind /\ a.at = now /\ a.run = restarts
        /\ a.incident = next.id
    BY DEF NewAlert
  <1>3. /\ next.updated = now /\ next.score = IncidentScore(next.scores)
    BY JoinedFacts, CreatedFacts
  <1>4. kind.severity \in Severity /\ kind.path \in Paths \cup {Empty}
    BY IncidentsAssumption
  <1> HIDE DEF a, next
  <1>5. active' \in [HostKeys -> Incident' \cup {None}]
    <2>1. ASSUME NEW g \in HostKeys PROVE active'[g] \in Incident' \cup {None}
      BY ProcessAlertTypes DEF TypeOK
    <2>2. active' = [g \in HostKeys |-> active'[g]]
      BY <1>1 DEF IInv, ActiveOK
    <2> QED BY <2>1, <2>2
  <1>6. \A i \in 1 .. n + 1 : i = n + 1 \/ i \in 1 .. n
    BY <1>1
  <1>7. Knows(h)'
    <2>1. Follows(h)'
      <3>1. n + 1 \in OfHost(h)' /\ \A k \in OfHost(h)' : k <= n + 1
        BY <1>1, <1>2 DEF OfHost
      <3> QED BY <1>1, <1>2, <1>3, <3>1 DEF Follows
    <2>2. ASSUME NEW m \in 1 .. n + 1, alerts'[m].incident = next.id
          PROVE  /\ Weight[next.severity] >= Weight[alerts'[m].kind.severity]
                 /\ alerts'[m].kind.path # Empty => alerts'[m].kind.path \in Range(next.paths)
      <3>1. CASE WithinWindow(active[h])
        <4> DEFINE inc == active[h]
        <4>1. /\ inc \in Incident /\ Covers(h) /\ next.id = inc.id
              /\ next.severity = Escalated(inc.severity, kind.severity)
              /\ next.paths = Merged(inc.paths, kind.path)
          BY <3>1, JoinedFacts DEF next
        <4>2. inc.severity \in Severity /\ inc.paths \in Seq(Paths)
          BY <4>1, IncidentTypes
        <4> HIDE DEF inc
        <4>3. /\ Weight[next.severity] >= Weight[inc.severity]
              /\ Weight[next.severity] >= Weight[kind.severity]
              /\ next.severity \in Severity
              /\ kind.path # Empty => kind.path \in Range(next.paths)
              /\ Range(inc.paths) \subseteq Range(next.paths)
          BY <1>4, <4>1, <4>2, EscalatedIsHigher, MergedPaths
        <4>4. CASE m = n + 1
          BY <1>1, <1>2, <4>3, <4>4
        <4>5. CASE m # n + 1
          <5>1. m \in 1 .. n /\ alerts'[m] = alerts[m]
            BY <1>1, <1>6, <4>5
          <5>2. /\ Weight[inc.severity] >= Weight[alerts[m].kind.severity]
                /\ alerts[m].kind.path # Empty => alerts[m].kind.path \in Range(inc.paths)
            BY <2>2, <4>1, <5>1 DEF Covers, inc
          <5>3. alerts[m].kind.severity \in Severity
            BY <5>1, AlertTypes, IncidentsAssumption DEF IInv
          <5>4. /\ Weight[alerts[m].kind.severity] \in Nat /\ Weight[inc.severity] \in Nat
                /\ Weight[next.severity] \in Nat
            BY <4>2, <4>3, <5>3, WeightTypes
          <5> QED BY <4>3, <5>1, <5>2, <5>4
        <4> QED BY <4>4, <4>5
      <3>2. CASE ~ WithinWindow(active[h])
        <4>1. /\ next.id = n + 1 /\ next.severity = kind.severity
              /\ next.paths = Merged(<< >>, kind.path)
          BY <3>2, CreatedFacts DEF next
        <4>2. m = n + 1
          <5> SUFFICES ASSUME m \in 1 .. n PROVE FALSE
            BY <1>6
          <5>1. alerts[m].incident \in 1 .. m /\ alerts'[m] = alerts[m]
            BY <1>1, AlertTypes DEF IInv
          <5> QED BY <1>1, <2>2, <4>1, <5>1
        <4>3. Weight[kind.severity] >= Weight[kind.severity]
          BY <1>4, WeightTypes, Itself
        <4>4. kind.path # Empty => kind.path \in Range(next.paths)
          <5>1. << >> \in Seq(Paths)
            OBVIOUS
          <5> QED BY <1>4, <4>1, <5>1, MergedPaths
        <4> QED BY <1>1, <1>2, <4>1, <4>2, <4>3, <4>4
      <3> QED BY <3>1, <3>2
    <2>3. Covers(h)'
      BY <1>1, <1>3, <2>2 DEF Covers
    <2> QED BY <1>1, <2>1, <2>3 DEF Knows
  <1>8. ASSUME NEW g \in HostKeys, g # h PROVE Knows(g)'
    <2>1. active'[g] = active[g] /\ Knows(g)
      BY <1>1, <1>8 DEF IInv, ActiveOK
    <2>2. OfHost(g)' = OfHost(g) /\ \A m \in OfHost(g) : alerts'[m] = alerts[m]
      BY <1>1, <1>2, <1>6, <1>8 DEF OfHost
    <2>3. CASE active[g] = None
      BY <1>1, <2>1, <2>2, <2>3 DEF Knows, Forgotten
    <2>4. CASE active[g] # None
      <3>1. Follows(g)'
        BY <1>1, <2>1, <2>2, <2>4 DEF Knows, Follows
      <3>2. active[g].id # next.id
        BY <1>8, <2>4, OtherIncident DEF next
      <3>3. Covers(g)'
        <4>1. ASSUME NEW m \in 1 .. n + 1, alerts'[m].incident = active[g].id
              PROVE  m \in 1 .. n /\ alerts'[m] = alerts[m]
          BY <1>1, <1>2, <1>6, <3>2, <4>1
        <4> QED BY <1>1, <2>1, <2>4, <4>1 DEF Knows, Covers
      <3> QED BY <2>1, <2>4, <3>1, <3>3 DEF Knows
    <2> QED BY <2>3, <2>4
  <1>9. Ahead(h)'
    <2> SUFFICES ASSUME next.id \in DOMAIN rows PROVE IsAhead(next, rows[next.id])
      BY <1>1 DEF Ahead, tables
    <2> DEFINE inc == active[h]
               row == rows[next.id]
    <2>1. /\ next.id \in 1 .. n /\ row.severity \in Severity /\ Weight[row.severity] \in Nat
          /\ row.score \in Nat /\ row.paths \in Seq(Paths)
      BY RowTypes DEF IInv
    <2>2. WithinWindow(inc)
      <3> SUFFICES ASSUME ~ WithinWindow(inc) PROVE FALSE
        OBVIOUS
      <3>1. next.id = n + 1
        BY CreatedFacts DEF next
      <3> QED BY <1>1, <2>1, <3>1
    <2>3. /\ inc # None /\ inc \in Incident /\ next.id = inc.id
          /\ next.severity = Escalated(inc.severity, kind.severity)
          /\ next.paths = Merged(inc.paths, kind.path)
          /\ next.score >= inc.score
      BY <2>2, JoinedFacts DEF next
    <2>4. IsAhead(inc, row)
      BY <1>1, <2>3 DEF IInv, ActiveOK, Ahead
    <2>5. /\ inc.severity \in Severity /\ inc.paths \in Seq(Paths) /\ inc.score \in 0 .. 100
          /\ next.score \in 0 .. 100
      BY <1>1, <2>3, IncidentTypes DEF Incident
    <2> HIDE DEF inc, row
    <2>6. /\ Weight[next.severity] >= Weight[inc.severity] /\ next.severity \in Severity
          /\ Extends(next.paths, inc.paths) /\ next.paths \in Seq(Paths)
      BY <1>4, <2>3, <2>5, EscalatedIsHigher, MergedPaths
    <2>7. Weight[next.severity] >= Weight[row.severity]
      <3>1. Weight[next.severity] \in Nat /\ Weight[inc.severity] \in Nat
        BY <2>5, <2>6, WeightTypes
      <3> QED BY <2>1, <2>4, <2>6, <3>1 DEF IsAhead
    <2>8. next.score >= row.score
      <3>1. next.score \in Nat /\ inc.score \in Nat /\ row.score \in Nat
        BY <2>1, <2>5, SmallIsNatural, Zenon
      <3> QED BY <2>3, <2>4, <3>1 DEF IsAhead
    <2>9. Extends(next.paths, row.paths)
      BY <2>1, <2>4, <2>5, <2>6 DEF IsAhead, Extends
    <2> QED BY <2>7, <2>8, <2>9 DEF IsAhead, row
  <1>10. ASSUME NEW g \in HostKeys, g # h PROVE Ahead(g)'
    <2>1. active'[g] = active[g] /\ rows' = rows
      BY <1>1, <1>10 DEF tables
    <2> QED BY <2>1 DEF IInv, ActiveOK, Ahead
  <1> QED BY <1>5, <1>7, <1>8, <1>9, <1>10 DEF ActiveOK

LEMMA ProcessAlertGroups ==
    ASSUME IInv, NEW host \in HostInfos, NEW kind \in Kinds, ProcessAlert(host, kind)
    PROVE  GroupedByWindow'
  <1> PICK n : n = Len(alerts) + 1
    OBVIOUS
  <1> DEFINE h == HostKey(host)
             next == NextIncident(host, kind)
             a == NewAlert(host, kind)
             Grouped(k) ==
                 \/ \E m \in Previous(k) :
                        /\ \A j \in Previous(k) : j <= m
                        /\ alerts[k].at - alerts[m].at <= Window
                        /\ alerts[k].run = alerts[m].run
                        /\ alerts[k].incident = alerts[m].incident
                 \/ /\ alerts[k].incident = k
                    /\ \A m \in Previous(k) :
                           \/ alerts[k].at - alerts[m].at > Window
                           \/ alerts[k].run # alerts[m].run
  <1>1. /\ Len(alerts) \in Nat /\ n \in Nat /\ Len(alerts') = n
        /\ \A i \in 1 .. Len(alerts) : alerts'[i] = alerts[i]
        /\ alerts'[n] = a
        /\ h \in HostKeys
    BY ProcessAlertStep
  <1>2. /\ a.host = host /\ a.at = now /\ a.run = restarts /\ a.incident = next.id
    BY DEF NewAlert
  <1> HIDE DEF a, next
  <1>3. DOMAIN alerts = 1 .. Len(alerts) /\ DOMAIN alerts' = 1 .. n /\ n - 1 = Len(alerts)
    BY <1>1, ProcessAlertHistory DEF IInv, HistoryOK
  <1>4. ASSUME NEW k \in 1 .. Len(alerts) PROVE Grouped(k)'
    <2>1. Grouped(k)
      BY <1>3 DEF IInv, GroupedByWindow
    <2>2. Previous(k)' = Previous(k) /\ alerts'[k] = alerts[k]
      BY <1>1 DEF Previous
    <2>3. \A m \in Previous(k) : alerts'[m] = alerts[m]
      BY <1>1 DEF Previous
    <2> QED BY <2>1, <2>2, <2>3
  <1>5. Previous(n)' = OfHost(h) /\ \A m \in OfHost(h) : alerts'[m] = alerts[m]
    <2>1. HostKey(alerts'[n].host) = h
      BY <1>1, <1>2
    <2>2. \A m \in 1 .. Len(alerts) : alerts'[m] = alerts[m]
      BY <1>1
    <2> HIDE DEF h
    <2> QED BY <1>3, <2>1, <2>2 DEF Previous, OfHost
  <1>6. /\ now \in Nat /\ restarts \in Nat /\ Window \in Nat
        /\ \A m \in OfHost(h) : /\ m \in 1 .. Len(alerts)
                              /\ alerts[m].at \in Nat /\ alerts[m].run \in Nat
    BY AlertTypes, IncidentsAssumption DEF OfHost, IInv, HistoryOK
  <1>7. Knows(h)
    BY <1>1 DEF IInv, ActiveOK
  <1>8. Grouped(n)'
    <2>1. CASE WithinWindow(active[h])
      <3>1. active[h] # None /\ now - active[h].updated <= Window
        BY <2>1 DEF WithinWindow
      <3>2. next.id = active[h].id
        BY <2>1, JoinedFacts DEF next
      <3>3. PICK m \in OfHost(h) :
               /\ \A k \in OfHost(h) : k <= m
               /\ alerts[m].at = active[h].updated
               /\ alerts[m].run = restarts
               /\ alerts[m].incident = active[h].id
        BY <1>7, <3>1 DEF Knows, Follows
      <3>4. m \in Previous(n)' /\ \A k \in Previous(n)' : k <= m
        BY <1>5, <3>3
      <3>5. /\ alerts'[n].at - alerts'[m].at <= Window
            /\ alerts'[n].run = alerts'[m].run
            /\ alerts'[n].incident = alerts'[m].incident
        BY <1>1, <1>2, <1>5, <3>1, <3>2, <3>3
      <3> QED BY <3>4, <3>5
    <2>2. CASE ~ WithinWindow(active[h])
      <3>1. next.id = n
        BY <2>2, CreatedFacts DEF next
      <3>2. CASE active[h] = None
        <4>1. \A m \in OfHost(h) : restarts # alerts[m].run
          BY <1>6, <1>7, <3>2 DEF Knows, Forgotten
        <4>2. \A m \in Previous(n)' : alerts'[n].run # alerts'[m].run
          BY <1>1, <1>2, <1>5, <4>1
        <4> QED BY <1>1, <1>2, <3>1, <4>2
      <3>3. CASE active[h] # None
        <4>1. active[h].status = "open" /\ active[h].updated \in Nat
          <5>1. active[h] \in Incident
            BY <1>1, <3>3 DEF IInv, TypeOK
          <5> QED BY <5>1, IncidentTypes
        <4>2. now - active[h].updated > Window
          BY <1>6, <2>2, <3>3, <4>1 DEF WithinWindow
        <4>3. PICK m \in OfHost(h) :
                 /\ \A k \in OfHost(h) : k <= m
                 /\ alerts[m].at = active[h].updated
          BY <1>7, <3>3 DEF Knows, Follows
        <4>4. ASSUME NEW k \in OfHost(h) PROVE now - alerts[k].at > Window
          <5>1. alerts[k].at <= alerts[m].at
            BY <1>6, <4>3 DEF IInv, HistoryOK
          <5> QED BY <1>6, <4>1, <4>2, <4>3, <5>1
        <4>5. \A j \in Previous(n)' : alerts'[n].at - alerts'[j].at > Window
          BY <1>1, <1>2, <1>5, <4>4
        <4> QED BY <1>1, <1>2, <3>1, <4>5
      <3> QED BY <3>2, <3>3
    <2> QED BY <2>1, <2>2
  <1>9. \A k \in 1 .. n : Grouped(k)'
    <2>1. \A k \in 1 .. n : k = n \/ k \in 1 .. Len(alerts)
      BY <1>1, <1>3
    <2> HIDE DEF Grouped
    <2> QED BY <1>4, <1>8, <2>1
  <1> QED BY <1>3, <1>9 DEF GroupedByWindow

LEMMA ProcessAlertKeeps ==
    ASSUME IInv, NEW host \in HostInfos, NEW kind \in Kinds, ProcessAlert(host, kind)
    PROVE  IInv'
  <1> DEFINE n == Len(alerts)
             h == HostKey(host)
             next == NextIncident(host, kind)
             a == NewAlert(host, kind)
  <1>1. /\ saving' = "event"
        /\ UNCHANGED <<now, tables, saved, restarts>>
        /\ n \in Nat /\ Len(alerts') = n + 1
        /\ \A i \in 1 .. n : alerts'[i] = alerts[i]
        /\ alerts'[n + 1] = a
        /\ h \in HostKeys /\ active'[h] = next /\ next # None
    BY ProcessAlertStep
  <1>2. a.host = host /\ a.incident = next.id
    BY DEF NewAlert
  <1> HIDE DEF a, next
  <1>3. HistoryOK' /\ TypeOK' /\ RowsOK' /\ ActiveOK' /\ GroupedByWindow'
    BY ProcessAlertHistory, ProcessAlertTypes, ProcessAlertActive, ProcessAlertGroups
  <1>4. SavingOK'
    <2>1. alerts' # << >>
      BY <1>1
    <2>2. CurrentIncident' = next /\ Current' = n + 1
      BY <1>1, <1>2 DEF CurrentIncident, Current
    <2> QED BY <1>1, <1>2, <2>1, <2>2 DEF SavingOK
  <1>5. saved' \subseteq alertRows'
    BY <1>1 DEF IInv, tables
  <1>6. RowsCoverMembers'
    <2> DEFINE Covered(k, id) ==
                   /\ k \in alertRows /\ k \in eventRows /\ id \in DOMAIN rows
                   /\ rows[id].score >= IncidentScore(MemberScores(alerts', id)[k])
                   /\ \A m \in DOMAIN alerts' : alerts'[m].incident = id /\ m <= k =>
                          /\ Weight[rows[id].severity] >= Weight[alerts'[m].kind.severity]
                          /\ alerts'[m].kind.path # Empty =>
                                 alerts'[m].kind.path \in Range(rows[id].paths)
    <2>1. ASSUME NEW k \in saved PROVE Covered(k, alerts'[k].incident)
      <3> DEFINE id == alerts[k].incident
      <3>1. k \in 1 .. n
        BY DEF IInv, TypeOK, HistoryOK
      <3>2. /\ k \in alertRows /\ k \in eventRows /\ id \in DOMAIN rows
            /\ rows[id].score >= IncidentScore(MemberScores(alerts, id)[k])
            /\ \A m \in Members(id) : m <= k =>
                   /\ Weight[rows[id].severity] >= Weight[alerts[m].kind.severity]
                   /\ alerts[m].kind.path # Empty => alerts[m].kind.path \in Range(rows[id].paths)
        BY DEF IInv, RowsCoverMembers
      <3>3. alerts'[k].incident = id
        BY <1>1, <3>1
      <3>4. MemberScores(alerts', id)[k] = MemberScores(alerts, id)[k]
        <4>1. k \in 0 .. Len(alerts)
          BY <1>1, <3>1
        <4> QED BY <4>1, ProcessAlertScores
      <3>5. ASSUME NEW m \in DOMAIN alerts', alerts'[m].incident = id, m <= k
            PROVE  m \in Members(id) /\ alerts'[m] = alerts[m]
        <4>1. DOMAIN alerts' = 1 .. n + 1 /\ DOMAIN alerts = 1 .. n
          BY <1>1, <1>3 DEF IInv, HistoryOK
        <4>2. m \in 1 .. n
          BY <1>1, <3>1, <3>5, <4>1
        <4> QED BY <1>1, <3>5, <4>1, <4>2 DEF Members
      <3> HIDE DEF id
      <3>6. Covered(k, id)
        BY <3>2, <3>4, <3>5
      <3> QED BY <3>3, <3>6
    <2> QED BY <1>1, <2>1 DEF RowsCoverMembers, Members, tables
  <1> QED BY <1>3, <1>4, <1>5, <1>6 DEF IInv

-----------------------------------------------------------------------------
LEMMA NextKeeps ==
    ASSUME IInv, [Next]_vars
    PROVE  IInv'
  <1>1. CASE Tick
    BY <1>1, TickKeeps
  <1>2. ASSUME NEW host \in HostInfos, NEW kind \in Kinds, ProcessAlert(host, kind)
        PROVE  IInv'
    BY <1>2, ProcessAlertKeeps
  <1>3. CASE SaveEvent \/ SaveAlert \/ SaveFails
    BY <1>3, SaveKeeps
  <1>4. CASE SaveIncident
    BY <1>4, SaveIncidentKeeps
  <1>5. CASE Restart
    BY <1>5, RestartKeeps
  <1>6. ASSUME NEW id \in DOMAIN rows, NEW status \in Statuses, SetStatus(id, status)
        PROVE  IInv'
    <2>1. SameRows
      BY <1>6, StatusIsFree DEF SetStatus, IInv
    <2> QED BY <1>6, <2>1, SameRowsKeep DEF SetStatus
  <1>7. CASE UNCHANGED vars
    <2>1. SameRows
      BY <1>7 DEF SameRows, vars, tables
    <2> QED BY <1>7, <2>1, SameRowsKeep DEF vars, tables
  <1> QED BY <1>1, <1>2, <1>3, <1>4, <1>5, <1>6, <1>7 DEF Next, Agent, Analyst

LEMMA NextGrows ==
    ASSUME IInv, [Next]_vars
    PROVE  RowsGrow
  <1>1. CASE SaveIncident
    BY <1>1, SaveIncidentGrows
  <1>2. ASSUME NEW id \in DOMAIN rows, NEW status \in Statuses, SetStatus(id, status)
        PROVE  RowsGrow
    BY <1>2, StatusIsFree, SameRowsGrow DEF SetStatus, IInv
  <1>3. CASE rows' = rows
    BY <1>3, SameRowsGrow DEF SameRows, IInv
  <1> QED BY <1>1, <1>2, <1>3 DEF Next, Agent, Analyst, Tick, ProcessAlert, SaveEvent,
             SaveAlert, SaveFails, Restart, tables, vars

THEOREM Invariance == Spec => []IInv
  <1>1. Init => IInv
    BY InitIInv
  <1>2. IInv /\ [Next]_vars => IInv'
    BY NextKeeps
  <1> QED BY <1>1, <1>2, PTL DEF Spec

(* The tables refer to alerts that were raised and the active incident of  *)
(* a host to its alerts, whose scores it holds in their order.             *)
THEOREM TypeCorrect == Spec => []TypeOK
  <1>1. IInv => TypeOK
    BY DEF IInv
  <1> QED BY <1>1, Invariance, PTL

(* No alert is forgotten: what ProcessAlert has saved accounts for every   *)
(* alert of the incident up to then, whatever saves failed before.         *)
THEOREM NothingForgotten == Spec => []RowsCoverMembers
  <1>1. IInv => RowsCoverMembers
    BY DEF IInv
  <1> QED BY <1>1, Invariance, PTL

(* findOrCreateIncident slides its window: an alert joins the incident of  *)
(* the one before it when they are at most the window apart.               *)
THEOREM WindowSlides == Spec => []GroupedByWindow
  <1>1. IInv => GroupedByWindow
    BY DEF IInv
  <1> QED BY <1>1, Invariance, PTL

LEMMA ExtendsIsPrefix ==
    ASSUME NEW S, NEW long \in Seq(S), NEW short \in Seq(S), Extends(long, short)
    PROVE  SubSeq(long, 1, Len(short)) = short
  BY DEF Extends

(* No write weakens a stored incident, whatever fails and in any order:    *)
(* severity and score never fall and the paths only grow.                  *)
THEOREM RowsNeverWeaken == Spec => RowsOnlyGrow
  <1> DEFINE Grow == \A id \in DOMAIN rows :
                 /\ Weight[rows'[id].severity] >= Weight[rows[id].severity]
                 /\ rows'[id].score >= rows[id].score
                 /\ SubSeq(rows'[id].paths, 1, Len(rows[id].paths)) = rows[id].paths
  <1>1. IInv /\ [Next]_vars => Grow
    <2> SUFFICES ASSUME IInv, [Next]_vars, NEW id \in DOMAIN rows
                 PROVE  /\ Weight[rows'[id].severity] >= Weight[rows[id].severity]
                        /\ rows'[id].score >= rows[id].score
                        /\ SubSeq(rows'[id].paths, 1, Len(rows[id].paths)) = rows[id].paths
      OBVIOUS
    <2>1. RowsGrow /\ RowsOK /\ RowsOK'
      BY NextGrows, NextKeeps DEF IInv
    <2>2. id \in DOMAIN rows' /\ rows[id].paths \in Seq(Paths) /\ rows'[id].paths \in Seq(Paths)
      BY <2>1 DEF RowsGrow, RowsOK
    <2> QED BY <2>1, <2>2, ExtendsIsPrefix DEF RowsGrow
  <1>2. IInv /\ [Next]_vars => [Grow]_vars
    BY <1>1
  <1> QED BY <1>2, Invariance, PTL DEF Spec, RowsOnlyGrow

=============================================================================
