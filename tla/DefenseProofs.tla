--------------------------- MODULE DefenseProofs ---------------------------
(***************************************************************************)
(* Defense: what the defender does to the host has its cause in a stored   *)
(* incident, a dry run does nothing, and no response is cut short, for any *)
(* hosts, alerts, playbooks, threshold and bounds.                         *)
(***************************************************************************)
EXTENDS Defense, IncidentsProofs, FiniteSetTheorems

-----------------------------------------------------------------------------
(* Snapshots.                                                              *)

(* An incident as it was read: what is stored now has grown from it.       *)
SnapshotOK(inc) ==
    /\ inc.id \in DOMAIN rows
    /\ inc.title = alerts[inc.id].kind.rule
    /\ inc.severity \in Severity /\ inc.score \in Nat /\ inc.paths \in Seq(Paths)
    /\ DOMAIN inc.alerts \subseteq alertRows \cap Members(inc.id)
    /\ \A n \in DOMAIN inc.alerts : inc.alerts[n] = Loaded(n)
    /\ inc.score <= rows[inc.id].score
    /\ Weight[inc.severity] <= Weight[rows[inc.id].severity]
    /\ Extends(rows[inc.id].paths, inc.paths)

(* A step that adds to the alerts.                                         *)
AlertsGrow ==
    /\ alertRows \subseteq alertRows'
    /\ DOMAIN alerts \subseteq DOMAIN alerts'
    /\ \A n \in DOMAIN alerts : alerts'[n] = alerts[n]

LEMMA SameAlertsGrow ==
    ASSUME UNCHANGED <<alerts, alertRows>>
    PROVE  AlertsGrow
  BY DEF AlertsGrow

LEMMA NextAddsAlerts ==
    ASSUME IInv, [Next]_vars
    PROVE  AlertsGrow
  <1>1. ASSUME NEW host \in HostInfos, NEW kind \in Kinds, ProcessAlert(host, kind)
        PROVE  AlertsGrow
    <2>1. /\ UNCHANGED tables
          /\ Len(alerts) \in Nat /\ Len(alerts') = Len(alerts) + 1
          /\ \A i \in 1 .. Len(alerts) : alerts'[i] = alerts[i]
      BY <1>1, ProcessAlertStep
    <2>2. alerts \in Seq(Alert) /\ alerts' \in Seq(Alert)
      BY <1>1, ProcessAlertHistory DEF IInv, HistoryOK
    <2>3. DOMAIN alerts = 1 .. Len(alerts) /\ DOMAIN alerts' = 1 .. Len(alerts) + 1
      BY <2>1, <2>2
    <2> QED BY <2>1, <2>3 DEF AlertsGrow, tables
  <1>2. CASE SaveAlert
    BY <1>2 DEF SaveAlert, AlertsGrow
  <1>3. CASE UNCHANGED <<alerts, alertRows>>
    BY <1>3, SameAlertsGrow
  <1> QED BY <1>1, <1>2, <1>3 DEF Next, Agent, Analyst, Tick, SaveEvent, SaveIncident,
             SaveFails, Restart, SetStatus, tables, agentVars, vars

LEMMA SnapshotOfRow ==
    ASSUME IInv, NEW id \in DOMAIN rows
    PROVE  SnapshotOK(Snapshot(id)) /\ Snapshot(id).id = id
  <1> DEFINE inc == Snapshot(id)
  <1>1. /\ inc.id = id /\ inc.title = alerts[id].kind.rule
        /\ inc.severity = rows[id].severity /\ inc.score = rows[id].score
        /\ inc.paths = rows[id].paths
        /\ inc.alerts = [n \in alertRows \cap Members(id) |-> Loaded(n)]
    BY DEF Snapshot
  <1>2. /\ rows[id].severity \in Severity /\ Weight[rows[id].severity] \in Nat
        /\ rows[id].score \in Nat /\ rows[id].paths \in Seq(Paths)
    BY RowTypes DEF IInv
  <1>3. Extends(rows[id].paths, rows[id].paths)
    BY <1>2, Itself
  <1> HIDE DEF inc
  <1>4. SnapshotOK(inc)
    BY <1>1, <1>2, <1>3 DEF SnapshotOK
  <1> QED BY <1>1, <1>4 DEF inc

LEMMA ExtendsFurther ==
    ASSUME NEW S, NEW r \in Seq(S), NEW s \in Seq(S), NEW t \in Seq(S),
           Extends(t, s), Extends(s, r)
    PROVE  Extends(t, r)
  BY DEF Extends

LEMMA SnapshotKeeps ==
    ASSUME IInv, IInv', RowsGrow, AlertsGrow, NEW inc, SnapshotOK(inc)
    PROVE  SnapshotOK(inc)'
  <1> DEFINE id == inc.id
  <1>1. id \in DOMAIN rows /\ id \in DOMAIN rows'
    BY DEF SnapshotOK, RowsGrow
  <1>2. /\ rows[id].severity \in Severity /\ Weight[rows[id].severity] \in Nat
        /\ rows[id].score \in Nat /\ rows[id].paths \in Seq(Paths)
        /\ id \in 1 .. Len(alerts)
    BY <1>1, RowTypes DEF IInv
  <1>3. /\ rows'[id].severity \in Severity /\ Weight[rows'[id].severity] \in Nat
        /\ rows'[id].score \in Nat /\ rows'[id].paths \in Seq(Paths)
    <2>1. RowsOK'
      BY DEF IInv
    <2>2. rows'[id].severity \in Severity /\ rows'[id].score \in 0 .. 100
          /\ rows'[id].paths \in Seq(Paths)
      BY <1>1, <2>1 DEF RowsOK
    <2> QED BY <2>2, WeightTypes, SmallIsNatural, Zenon
  <1>4. id \in DOMAIN alerts
    BY <1>2 DEF IInv, HistoryOK
  <1>5. inc.severity \in Severity /\ Weight[inc.severity] \in Nat /\ inc.score \in Nat
        /\ inc.paths \in Seq(Paths)
    BY WeightTypes DEF SnapshotOK
  <1>6. inc.score <= rows'[id].score /\ Weight[inc.severity] <= Weight[rows'[id].severity]
    <2>1. inc.score <= rows[id].score /\ Weight[inc.severity] <= Weight[rows[id].severity]
      BY DEF SnapshotOK
    <2>2. rows'[id].score >= rows[id].score
          /\ Weight[rows'[id].severity] >= Weight[rows[id].severity]
      BY <1>1 DEF RowsGrow
    <2>3. \A x, y, z \in Nat : x <= y /\ z >= y => x <= z
      OBVIOUS
    <2> HIDE DEF id
    <2> QED BY <1>2, <1>3, <1>5, <2>1, <2>2, <2>3, Zenon
  <1>7. Extends(rows'[id].paths, inc.paths)
    <2>1. Extends(rows[id].paths, inc.paths) /\ Extends(rows'[id].paths, rows[id].paths)
      BY <1>1 DEF SnapshotOK, RowsGrow
    <2> HIDE DEF id
    <2> QED BY <1>2, <1>3, <1>5, <2>1, ExtendsFurther, Zenon
  <1>8. inc.title = alerts'[id].kind.rule
    BY <1>4 DEF SnapshotOK, AlertsGrow
  <1>9. ASSUME NEW n \in DOMAIN inc.alerts
        PROVE  n \in alertRows' /\ n \in Members(id)' /\ inc.alerts[n] = Loaded(n)'
    <2>1. n \in alertRows /\ n \in DOMAIN alerts /\ alerts[n].incident = id
          /\ inc.alerts[n] = Loaded(n)
      BY DEF SnapshotOK, Members
    <2>2. n \in alertRows' /\ n \in DOMAIN alerts' /\ alerts'[n] = alerts[n]
      BY <2>1 DEF AlertsGrow
    <2> QED BY <2>1, <2>2 DEF Members, Loaded
  <1> HIDE DEF id
  <1>10. DOMAIN inc.alerts \subseteq alertRows' \cap Members(id)'
    BY <1>9
  <1> QED BY <1>1, <1>5, <1>6, <1>7, <1>8, <1>9, <1>10 DEF SnapshotOK, id

(* One incident, read twice.                                               *)
Later(inc, new) ==
    /\ new.title = inc.title
    /\ inc.score \in Nat /\ new.score \in Nat /\ inc.score <= new.score
    /\ inc.severity \in Severity /\ new.severity \in Severity
    /\ Weight[inc.severity] <= Weight[new.severity]
    /\ \A n \in DOMAIN inc.alerts : n \in DOMAIN new.alerts /\ new.alerts[n] = inc.alerts[n]

LEMMA SnapshotLater ==
    ASSUME IInv, NEW inc, SnapshotOK(inc)
    PROVE  Later(inc, Snapshot(inc.id))
  <1> DEFINE id == inc.id
             new == Snapshot(id)
  <1>1. /\ new.title = inc.title
        /\ new.severity = rows[id].severity /\ new.score = rows[id].score
        /\ new.alerts = [n \in alertRows \cap Members(id) |-> Loaded(n)]
    BY DEF Snapshot, SnapshotOK
  <1>2. /\ rows[id].severity \in Severity /\ rows[id].score \in Nat
    BY RowTypes DEF IInv, SnapshotOK
  <1>3. \A n \in DOMAIN inc.alerts : n \in DOMAIN new.alerts /\ new.alerts[n] = inc.alerts[n]
    BY <1>1 DEF SnapshotOK
  <1>4. /\ inc.score \in Nat /\ inc.severity \in Severity /\ inc.score <= rows[id].score
        /\ Weight[inc.severity] <= Weight[rows[id].severity]
    BY DEF SnapshotOK
  <1> HIDE DEF id, new
  <1> QED BY <1>1, <1>2, <1>3, <1>4 DEF Later, new, id

LEMMA SnapshotsGrow ==
    ASSUME IInv, IInv', RowsGrow, AlertsGrow, NEW id \in DOMAIN rows
    PROVE  Later(Snapshot(id), Snapshot(id)')
  <1> DEFINE inc == Snapshot(id)
             new == Snapshot(id)'
  <1>1. /\ inc.title = alerts[id].kind.rule /\ new.title = alerts'[id].kind.rule
        /\ inc.severity = rows[id].severity /\ new.severity = rows'[id].severity
        /\ inc.score = rows[id].score /\ new.score = rows'[id].score
        /\ inc.alerts = [n \in alertRows \cap Members(id) |-> Loaded(n)]
        /\ new.alerts = [n \in alertRows' \cap Members(id)' |-> Loaded(n)']
    BY DEF Snapshot
  <1>2. /\ rows[id].severity \in Severity /\ rows[id].score \in Nat
        /\ id \in 1 .. Len(alerts)
    BY RowTypes DEF IInv
  <1>3. id \in DOMAIN alerts
    BY <1>2 DEF IInv, HistoryOK
  <1>4. /\ rows'[id].severity \in Severity /\ rows'[id].score \in Nat
    <2>1. RowsOK' /\ id \in DOMAIN rows'
      BY DEF IInv, RowsGrow
    <2>2. rows'[id].severity \in Severity /\ rows'[id].score \in 0 .. 100
      BY <2>1 DEF RowsOK
    <2> QED BY <2>2, SmallIsNatural, Zenon
  <1>5. /\ rows[id].score <= rows'[id].score
        /\ Weight[rows[id].severity] <= Weight[rows'[id].severity]
    <2>1. /\ rows'[id].score >= rows[id].score
          /\ Weight[rows'[id].severity] >= Weight[rows[id].severity]
      BY DEF RowsGrow
    <2>2. Weight[rows[id].severity] \in Nat /\ Weight[rows'[id].severity] \in Nat
      BY <1>2, <1>4, WeightTypes
    <2>3. \A x, y \in Nat : y >= x => x <= y
      OBVIOUS
    <2> QED BY <1>2, <1>4, <2>1, <2>2, <2>3, Zenon
  <1>6. alerts'[id] = alerts[id]
    BY <1>3 DEF AlertsGrow
  <1>7. ASSUME NEW n \in alertRows \cap Members(id)
        PROVE  n \in alertRows' \cap Members(id)' /\ Loaded(n)' = Loaded(n)
    <2>1. alerts'[n] = alerts[n] /\ n \in DOMAIN alerts' /\ n \in alertRows'
          /\ alerts[n].incident = id
      BY DEF AlertsGrow, Members
    <2> QED BY <2>1 DEF Members, Loaded
  <1> HIDE DEF inc, new
  <1>8. \A n \in DOMAIN inc.alerts : n \in DOMAIN new.alerts /\ new.alerts[n] = inc.alerts[n]
    BY <1>1, <1>7
  <1> QED BY <1>1, <1>2, <1>4, <1>5, <1>6, <1>8 DEF Later, inc, new

(* What an incident had that a playbook asks for, it still has.            *)
LEMMA MatchesGrow ==
    ASSUME NEW inc, NEW new, Later(inc, new), NEW b \in Playbooks, Matches(b, inc)
    PROVE  Matches(b, new)
  <1>1. new.score >= b.score /\ Weight[new.severity] >= Weight[b.severity]
    <2>1. /\ inc.score \in Nat /\ new.score \in Nat /\ inc.score <= new.score
          /\ Weight[inc.severity] \in Nat /\ Weight[new.severity] \in Nat
          /\ Weight[inc.severity] <= Weight[new.severity]
      BY WeightTypes DEF Later
    <2>2. b.score \in Nat /\ Weight[b.severity] \in Nat
      BY WeightTypes, DefenseAssumption
    <2>3. inc.score >= b.score /\ Weight[inc.severity] >= Weight[b.severity]
      BY DEF Matches
    <2> QED BY <2>1, <2>2, <2>3
  <1>2. \/ b.type = Empty
        \/ b.type = new.title
        \/ \E i \in DOMAIN new.alerts : b.type = new.alerts[i].rule
    BY DEF Matches, Later
  <1>3. b.tags \subseteq UNION {new.alerts[i].tags : i \in DOMAIN new.alerts}
    BY DEF Matches, Later
  <1> QED BY <1>1, <1>2, <1>3 DEF Matches

-----------------------------------------------------------------------------
(* Plans.                                                                  *)

LEMMA FromAlertsEmpty ==
    ASSUME HistoryOK, NEW inc, SnapshotOK(inc)
    PROVE  FromAlerts(inc) = << >>
  <1> DEFINE N == Len(alerts)
             Equation(g) ==
                 g = [n \in 0 .. N |->
                         CASE n = 0 -> << >>
                           [] n > 0 /\ n \in DOMAIN inc.alerts ->
                                  g[n - 1] \o inc.alerts[n].data
                           [] OTHER -> g[n - 1]]
             none == [n \in 0 .. N |-> << >>]
             T == CHOOSE g : Equation(g)
  <1>1. N \in Nat
    BY DEF HistoryOK
  <1>2. \A n \in DOMAIN inc.alerts : inc.alerts[n].data = << >>
    <2>1. \A n \in DOMAIN inc.alerts : inc.alerts[n] = Loaded(n)
      BY DEF SnapshotOK
    <2>2. \A n : Loaded(n).data = << >>
      BY DEF Loaded
    <2> QED BY <2>1, <2>2
  <1>3. FromAlerts(inc) = T[N]
    BY DEF FromAlerts
  <1> HIDE DEF N
  <1>4. Equation(none)
    <2>1. ASSUME NEW n \in 0 .. N, n # 0 PROVE n - 1 \in 0 .. N
      BY <1>1, <2>1
    <2>2. << >> \o << >> = << >>
      OBVIOUS
    <2>3. ASSUME NEW n \in 0 .. N
          PROVE  << >> = CASE n = 0 -> << >>
                           [] n > 0 /\ n \in DOMAIN inc.alerts ->
                                  none[n - 1] \o inc.alerts[n].data
                           [] OTHER -> none[n - 1]
      <3>1. CASE n = 0
        BY <3>1
      <3>2. CASE n # 0
        <4>1. none[n - 1] = << >>
          BY <2>1, <3>2
        <4>2. n > 0
          BY <1>1, <3>2
        <4> QED BY <1>2, <2>2, <3>2, <4>1, <4>2
      <3> QED BY <3>1, <3>2
    <2> QED BY <2>3
  <1>5. Equation(T)
    <2> HIDE DEF Equation, none
    <2> QED BY <1>4
  <1> HIDE DEF T
  <1> DEFINE S == {n \in Nat : n <= N => T[n] = << >>}
  <1>6. 0 \in S
    BY <1>1, <1>5
  <1>7. ASSUME NEW n \in Nat, n \in S PROVE n + 1 \in S
    <2> SUFFICES ASSUME n + 1 <= N PROVE T[n + 1] = << >>
      OBVIOUS
    <2>1. T[n] = << >> /\ n + 1 \in 0 .. N /\ n + 1 > 0 /\ n + 1 # 0 /\ (n + 1) - 1 = n
      BY <1>1, <1>7
    <2>2. T[n + 1] = IF n + 1 \in DOMAIN inc.alerts
                     THEN T[n] \o inc.alerts[n + 1].data ELSE T[n]
      BY <1>5, <2>1
    <2>3. << >> \o << >> = << >>
      OBVIOUS
    <2> QED BY <1>2, <2>1, <2>2, <2>3
  <1>8. Nat \subseteq S
    <2> HIDE DEF S
    <2> QED BY <1>6, <1>7, Induction
  <1> QED BY <1>1, <1>3, <1>8

(* Sequences put one after the other.                                      *)
LEMMA FlattenType ==
    ASSUME NEW S, NEW seqs \in Seq(Seq(S))
    PROVE  FlattenSeq(seqs) \in Seq(S)
  <1> DEFINE N == Len(seqs)
             V == Seq(S)
             F == [i \in Nat |-> [x \in V |-> IF i < N THEN x \o seqs[i + 1] ELSE x]]
             Equation(g) ==
                 g = [i \in 1 .. N |-> IF i = 1 THEN seqs[i] ELSE g[i - 1] \o seqs[i]]
             T == CHOOSE g : Equation(g)
  <1>1. N \in Nat /\ \A i \in 1 .. N : seqs[i] \in V
    OBVIOUS
  <1>2. CASE N = 0
    <2>1. seqs = << >>
      BY <1>2
    <2> QED BY <1>2, <2>1 DEF FlattenSeq
  <1>3. CASE N # 0
    <2>1. FlattenSeq(seqs) = T[N]
      BY <1>3 DEF FlattenSeq
    <2>2. << >> \in V /\ (\A x, y \in V : x \o y \in V) /\ (\A x \in V : << >> \o x = x)
      OBVIOUS
    <2> HIDE DEF N, V
    <2>3. Steps(V, F)
      BY <1>1, <2>2 DEF Steps
    <2>4. ASSUME NEW i \in 0 .. N - 1, NEW x \in V PROVE F[i][x] = x \o seqs[i + 1]
      BY <1>1
    <2> HIDE DEF F
    <2>5. PICK g : Beginning(N, g, V, << >>, F)
      BY <1>1, <2>2, <2>3, BeginningsExist, Zenon
    <2> DEFINE h == [i \in 1 .. N |-> g[i]]
    <2>6. ASSUME NEW i \in 1 .. N
          PROVE  h[i] = IF i = 1 THEN seqs[i] ELSE h[i - 1] \o seqs[i]
      <3>1. i - 1 \in 0 .. N - 1 /\ i - 1 \in 0 .. N /\ (i - 1) + 1 = i
        BY <1>1
      <3>2. g[(i - 1) + 1] = F[i - 1][g[i - 1]] /\ g[i - 1] \in V /\ g[0] = << >>
        BY <2>5, <3>1 DEF Beginning
      <3>3. g[i] = g[i - 1] \o seqs[i]
        BY <2>4, <3>1, <3>2
      <3>4. CASE i = 1
        <4>1. g[i - 1] = << >> /\ seqs[i] \in V
          BY <1>1, <3>2, <3>4
        <4> QED BY <2>2, <3>3, <3>4, <4>1
      <3>5. CASE i # 1
        <4>1. h[i - 1] = g[i - 1]
          BY <1>1, <3>5
        <4> QED BY <3>3, <3>5, <4>1
      <3> QED BY <3>4, <3>5
    <2>7. Equation(h)
      BY <2>6
    <2>8. Equation(T)
      <3> HIDE DEF Equation, h
      <3> QED BY <2>7
    <2> HIDE DEF T
    <2> DEFINE G == {n \in Nat : n + 1 <= N => T[n + 1] \in V}
    <2>9. 0 \in G
      BY <1>1, <1>3, <2>8
    <2>10. ASSUME NEW n \in Nat, n \in G PROVE n + 1 \in G
      <3> SUFFICES ASSUME (n + 1) + 1 <= N PROVE T[(n + 1) + 1] \in V
        OBVIOUS
      <3>1. /\ T[n + 1] \in V /\ (n + 1) + 1 \in 1 .. N /\ (n + 1) + 1 # 1
            /\ ((n + 1) + 1) - 1 = n + 1
        BY <1>1, <2>10
      <3>2. T[(n + 1) + 1] = T[n + 1] \o seqs[(n + 1) + 1]
        BY <2>8, <3>1
      <3> QED BY <1>1, <2>2, <3>1, <3>2
    <2>11. Nat \subseteq G
      <3> HIDE DEF G
      <3> QED BY <2>9, <2>10, Induction
    <2>12. N - 1 \in Nat /\ (N - 1) + 1 = N
      BY <1>1, <1>3
    <2>13. T[N] \in V
      BY <1>1, <2>11, <2>12
    <2> QED BY <2>1, <2>13 DEF V
  <1> QED BY <1>2, <1>3

LEMMA Listed ==
    ASSUME NEW S, NEW n \in Nat, NEW f, f = [i \in 1 .. n |-> f[i]],
           \A i \in 1 .. n : f[i] \in S
    PROVE  f \in Seq(S) /\ Len(f) = n
  OBVIOUS

LEMMA PutTogether ==
    ASSUME NEW S, NEW s \in Seq(S), NEW t \in Seq(S)
    PROVE  /\ s \o t \in Seq(S) /\ Len(s) \in Nat /\ Len(s \o t) = Len(s) + Len(t)
           /\ \A i \in 1 .. Len(s) : i \in 1 .. Len(s \o t) /\ (s \o t)[i] = s[i]
           /\ \A i \in 1 .. Len(t) :
                  Len(s) + i \in 1 .. Len(s \o t) /\ (s \o t)[Len(s) + i] = t[i]
  OBVIOUS

(* A playbook that the incident matches has such a step.                   *)
Asked(inc, action, arg) ==
    \E b \in Playbooks :
        /\ Matches(b, inc)
        /\ \E s \in Range(b.steps) : s.action = action /\ s.arg = arg

(* Why a step is in the plan of an incident.                               *)
Cause(inc, s) ==
    /\ s.action = "quarantine_file" /\ s.arg \in Paths =>
           s.arg \in Range(inc.paths) \/ Asked(inc, "quarantine_file", s.arg)
    /\ s.action = "isolate_host" =>
           \/ inc.severity = "critical"
           \/ \E arg : Asked(inc, "isolate_host", arg)
    /\ s.book = Direct => s.onFailure = "continue"

PlanOK(plan, inc) == \E S : plan \in Seq(S) /\ \A s \in S : Cause(inc, s)

(* What the direct response owes to an incident, and what a plan holds.    *)
Owed(inc) ==
    (IF inc.severity = "critical" THEN {<<"isolate_host", Empty>>} ELSE {})
    \cup {<<"quarantine_file", p>> : p \in Range(inc.paths)}

Holds(plan, r) ==
    \E i \in 1 .. Len(plan) :
        /\ plan[i].book = Direct
        /\ <<plan[i].action, plan[i].arg>> = r

LEMMA PrimaryIsNone ==
    ASSUME HistoryOK, NEW inc, SnapshotOK(inc), NEW action, NEW none
    PROVE  Primary(inc, action, none) = none
  <1>1. FromAlerts(inc) = << >>
    BY FromAlertsEmpty
  <1>2. DOMAIN << >> = {}
    OBVIOUS
  <1> QED BY <1>1, <1>2 DEF Primary

LEMMA ResolvedPath ==
    ASSUME HistoryOK, NEW inc, SnapshotOK(inc), NEW arg, Resolved(arg, inc) \in Paths
    PROVE  Resolved(arg, inc) = arg \/ Resolved(arg, inc) \in Range(inc.paths)
  <1>1. 0 \notin Paths /\ Empty \notin Paths
    BY DefenseAssumption, IncidentsAssumption
  <1>2. \A action, none : Primary(inc, action, none) = none
    BY PrimaryIsNone
  <1>3. ASSUME inc.paths # << >> PROVE inc.paths[1] \in Range(inc.paths)
    <2>1. inc.paths \in Seq(Paths)
      BY DEF SnapshotOK
    <2>2. 1 \in DOMAIN inc.paths
      BY <1>3, <2>1
    <2> QED BY <2>2 DEF Range
  <1>4. CASE arg = "primary_pid"
    BY <1>1, <1>2, <1>4 DEF Resolved
  <1>5. CASE arg = "primary_ip"
    BY <1>1, <1>2, <1>5 DEF Resolved
  <1>6. CASE arg = "primary_path"
    BY <1>1, <1>2, <1>3, <1>6 DEF Resolved
  <1>7. CASE arg \notin {"primary_pid", "primary_ip", "primary_path"}
    BY <1>7 DEF Resolved
  <1> QED BY <1>4, <1>5, <1>6, <1>7

LEMMA BookStepsCaused ==
    ASSUME HistoryOK, NEW inc, SnapshotOK(inc), NEW b \in Playbooks, Matches(b, inc)
    PROVE  /\ BookSteps(b, inc) \in Seq(Range(BookSteps(b, inc)))
           /\ \A s \in Range(BookSteps(b, inc)) : Cause(inc, s)
  <1>1. b.steps \in Seq(Range(b.steps)) /\ b.id # Direct
    BY DefenseAssumption
  <1>2. DOMAIN b.steps = 1 .. Len(b.steps) /\ Len(b.steps) \in Nat
    BY <1>1
  <1> DEFINE steps == BookSteps(b, inc)
  <1>3. /\ steps = [i \in 1 .. Len(b.steps) |-> steps[i]]
        /\ \A i \in 1 .. Len(b.steps) :
               /\ steps[i].action = b.steps[i].action
               /\ steps[i].arg = Resolved(b.steps[i].arg, inc)
               /\ steps[i].book = b.id
    BY <1>2 DEF BookSteps
  <1> HIDE DEF steps
  <1>4. steps \in Seq(Range(steps))
    BY <1>2, <1>3 DEF Range
  <1>5. ASSUME NEW i \in 1 .. Len(b.steps) PROVE Cause(inc, steps[i])
    <2> DEFINE t == b.steps[i]
               arg == Resolved(t.arg, inc)
    <2>1. t \in Range(b.steps)
      BY <1>2 DEF Range
    <2>2. arg \in Paths => arg = t.arg \/ arg \in Range(inc.paths)
      BY ResolvedPath
    <2>3. steps[i].action = t.action /\ steps[i].arg = arg /\ steps[i].book # Direct
      BY <1>1, <1>3
    <2> HIDE DEF t, arg
    <2>4. Asked(inc, t.action, t.arg)
      BY <2>1 DEF Asked
    <2> QED BY <2>2, <2>3, <2>4 DEF Cause
  <1>6. \A s \in Range(steps) : Cause(inc, s)
    BY <1>3, <1>5 DEF Range
  <1> QED BY <1>4, <1>6 DEF steps

LEMMA DirectStepsCaused ==
    ASSUME HistoryOK, NEW inc, SnapshotOK(inc)
    PROVE  /\ DirectSteps(inc) \in Seq(Range(DirectSteps(inc)))
           /\ \A s \in Range(DirectSteps(inc)) : Cause(inc, s)
           /\ \A r \in Owed(inc) : Holds(DirectSteps(inc), r)
  <1> DEFINE isolation == IF inc.severity = "critical"
                          THEN <<DirectStep("isolate_host", Empty)>> ELSE << >>
             files == [i \in DOMAIN inc.paths |-> DirectStep("quarantine_file", inc.paths[i])]
             steps == DirectSteps(inc)
             S == {s \in Range(isolation) \cup Range(files) : Cause(inc, s)}
  <1>1. inc.paths \in Seq(Paths) /\ DOMAIN inc.paths = 1 .. Len(inc.paths)
        /\ Len(inc.paths) \in Nat
    BY DEF SnapshotOK
  <1>2. \A action, arg : /\ DirectStep(action, arg).action = action
                        /\ DirectStep(action, arg).arg = arg
                        /\ DirectStep(action, arg).onFailure = "continue"
                        /\ DirectStep(action, arg).book = Direct
    BY DEF DirectStep
  <1>3. steps = isolation \o files
    <2>1. [i \in DOMAIN FromAlerts(inc) |->
              DirectStep(FromAlerts(inc)[i].action, FromAlerts(inc)[i].arg)] = << >>
      <3>1. FromAlerts(inc) = << >>
        BY FromAlertsEmpty
      <3> QED BY <3>1
    <2>2. isolation \o << >> = isolation
      OBVIOUS
    <2> HIDE DEF isolation
    <2> QED BY <2>1, <2>2 DEF DirectSteps, isolation
  <1>4. isolation \in Seq(S)
    <2>1. CASE inc.severity = "critical"
      <3>1. Cause(inc, DirectStep("isolate_host", Empty))
        BY <1>2, <2>1 DEF Cause
      <3>2. DirectStep("isolate_host", Empty) \in Range(isolation)
        BY <2>1 DEF Range
      <3> QED BY <2>1, <3>1, <3>2
    <2>2. CASE inc.severity # "critical"
      BY <2>2
    <2> QED BY <2>1, <2>2
  <1>5. files \in Seq(S)
    <2>1. ASSUME NEW i \in 1 .. Len(inc.paths) PROVE files[i] \in S
      <3>1. files[i] = DirectStep("quarantine_file", inc.paths[i])
        BY <1>1
      <3>2. inc.paths[i] \in Range(inc.paths)
        BY <1>1 DEF Range
      <3>3. Cause(inc, files[i])
        BY <1>2, <3>1, <3>2 DEF Cause
      <3>4. files[i] \in Range(files)
        BY <1>1 DEF Range
      <3> QED BY <3>3, <3>4
    <2>2. files = [i \in 1 .. Len(inc.paths) |-> files[i]]
      BY <1>1
    <2> HIDE DEF files, S
    <2> QED BY <1>1, <2>1, <2>2, Listed, Zenon
  <1>6. Len(files) = Len(inc.paths)
    BY <1>1, <1>5
  <1> HIDE DEF S
  <1>7. steps \in Seq(S)
    <2> HIDE DEF isolation, files, steps
    <2> QED BY <1>3, <1>4, <1>5
  <1>8. steps \in Seq(Range(steps)) /\ Range(steps) \subseteq S
    <2> HIDE DEF steps
    <2>1. /\ steps = [i \in 1 .. Len(steps) |-> steps[i]] /\ Len(steps) \in Nat
          /\ \A i \in 1 .. Len(steps) : steps[i] \in S
          /\ DOMAIN steps = 1 .. Len(steps)
      BY <1>7
    <2>2. \A i \in 1 .. Len(steps) : steps[i] \in Range(steps)
      BY <2>1 DEF Range
    <2>3. Range(steps) \subseteq S
      BY <2>1 DEF Range
    <2> QED BY <2>1, <2>2, <2>3
  <1>9. ASSUME NEW r \in Owed(inc) PROVE Holds(steps, r)
    <2>1. CASE inc.severity = "critical" /\ r = <<"isolate_host", Empty>>
      <3>1. isolation = <<DirectStep("isolate_host", Empty)>>
        BY <2>1
      <3> HIDE DEF isolation, files, steps
      <3>2. Len(isolation) = 1 /\ isolation[1] = DirectStep("isolate_host", Empty)
        BY <3>1
      <3>3. 1 \in 1 .. Len(steps) /\ steps[1] = isolation[1]
        <4>1. 1 \in 1 .. Len(isolation)
          BY <3>2
        <4> QED BY <1>3, <1>4, <1>5, <4>1, PutTogether
      <3> QED BY <1>2, <2>1, <3>2, <3>3 DEF Holds
    <2>2. CASE \E i \in 1 .. Len(inc.paths) : r = <<"quarantine_file", inc.paths[i]>>
      <3>1. PICK i \in 1 .. Len(inc.paths) : r = <<"quarantine_file", inc.paths[i]>>
        BY <2>2
      <3>2. files[i] = DirectStep("quarantine_file", inc.paths[i])
        BY <1>1
      <3> HIDE DEF isolation, files, steps
      <3>3. Len(isolation) + i \in 1 .. Len(steps) /\ steps[Len(isolation) + i] = files[i]
        BY <1>3, <1>4, <1>5, <1>6, PutTogether
      <3>4. /\ steps[Len(isolation) + i].book = Direct
            /\ <<steps[Len(isolation) + i].action, steps[Len(isolation) + i].arg>> = r
        BY <1>2, <3>1, <3>2, <3>3
      <3> QED BY <3>3, <3>4 DEF Holds
    <2> QED BY <1>1, <2>1, <2>2 DEF Owed, Range
  <1> QED BY <1>8, <1>9 DEF S

LEMMA PlansCaused ==
    ASSUME HistoryOK, NEW inc, SnapshotOK(inc), NEW plan \in Plans(inc)
    PROVE  PlanOK(plan, inc) /\ \A r \in Owed(inc) : Holds(plan, r)
  <1> DEFINE M == {b \in Playbooks : Matches(b, inc)}
             N == Cardinality(M)
             direct == DirectSteps(inc)
             every == (UNION {Range(BookSteps(b, inc)) : b \in M}) \cup Range(direct)
             S == {s \in every : Cause(inc, s)}
  <1>1. N \in Nat
    <2>1. IsFiniteSet(Playbooks) /\ M \in SUBSET Playbooks
      BY DefenseAssumption
    <2> HIDE DEF M
    <2>2. IsFiniteSet(M)
      BY <2>1, FS_Subset
    <2> QED BY <2>2, FS_CardinalityType
  <1>2. PICK order \in SetToSeqs(M) :
            plan = FlattenSeq([i \in DOMAIN order |-> BookSteps(order[i], inc)]) \o direct
    BY DEF Plans
  <1>3. order \in [1 .. N -> M]
    BY <1>2 DEF SetToSeqs
  <1>4. \A b \in M : BookSteps(b, inc) \in Seq(S)
    <2>1. ASSUME NEW b \in M PROVE BookSteps(b, inc) \in Seq(S)
      <3>1. /\ BookSteps(b, inc) \in Seq(Range(BookSteps(b, inc)))
            /\ \A s \in Range(BookSteps(b, inc)) : Cause(inc, s)
        BY BookStepsCaused
      <3>2. Range(BookSteps(b, inc)) \subseteq S
        BY <3>1
      <3> HIDE DEF S
      <3> QED BY <3>1, <3>2, LargerElements
    <2> QED BY <2>1
  <1>5. direct \in Seq(S) /\ \A r \in Owed(inc) : Holds(direct, r)
    <2>1. /\ direct \in Seq(Range(direct))
          /\ \A s \in Range(direct) : Cause(inc, s)
          /\ \A r \in Owed(inc) : Holds(direct, r)
      BY DirectStepsCaused
    <2> HIDE DEF direct
    <2>2. Range(direct) \subseteq S
      <3>1. Range(direct) \subseteq every
        OBVIOUS
      <3> HIDE DEF every
      <3> QED BY <2>1, <3>1
    <2> HIDE DEF S
    <2> QED BY <2>1, <2>2, LargerElements
  <1>6. \A s \in S : Cause(inc, s)
    OBVIOUS
  <1> HIDE DEF M, N, S, direct
  <1> DEFINE books == [i \in DOMAIN order |-> BookSteps(order[i], inc)]
  <1>7. FlattenSeq(books) \in Seq(S)
    <2>1. \A i \in 1 .. N : books[i] \in Seq(S)
      BY <1>3, <1>4
    <2>2. books = [i \in 1 .. N |-> books[i]]
      BY <1>3
    <2> HIDE DEF books
    <2>3. books \in Seq(Seq(S))
      BY <1>1, <2>1, <2>2, Listed, Zenon
    <2> QED BY <2>3, FlattenType
  <1> HIDE DEF books
  <1>8. plan = FlattenSeq(books) \o direct
    BY <1>2 DEF books
  <1>9. plan \in Seq(S)
    BY <1>5, <1>7, <1>8
  <1>10. ASSUME NEW r \in Owed(inc) PROVE Holds(plan, r)
    <2>1. PICK i \in 1 .. Len(direct) :
              direct[i].book = Direct /\ <<direct[i].action, direct[i].arg>> = r
      BY <1>5 DEF Holds
    <2> DEFINE j == Len(FlattenSeq(books)) + i
    <2>2. j \in 1 .. Len(plan) /\ plan[j] = direct[i]
      BY <1>5, <1>7, <1>8, PutTogether
    <2> HIDE DEF j
    <2> QED BY <2>1, <2>2 DEF Holds
  <1> QED BY <1>6, <1>9, <1>10 DEF PlanOK

-----------------------------------------------------------------------------
(* The inductive invariant.                                                *)

WorkOK ==
    work # NoWork =>
        /\ DOMAIN work = {"id", "inc", "plan", "acted", "clean", "tried", "failed"}
        /\ work.inc.id = work.id
        /\ SnapshotOK(work.inc)
        /\ work.inc.score >= Threshold
        /\ PlanOK(work.plan, work.inc)
        /\ \A r \in Owed(work.inc) : r \in work.tried \/ Holds(work.plan, r)

(* The incidents that files and isolation come from, and their playbooks.  *)
FileCaused(p) ==
    \E id \in DOMAIN rows :
        /\ rows[id].score >= Threshold
        /\ \/ p \in Range(rows[id].paths)
           \/ \E s \in Ordered(id) : s.action = "quarantine_file" /\ s.arg = p

IsolationCaused ==
    \E id \in DOMAIN rows :
        /\ rows[id].score >= Threshold
        /\ \/ rows[id].severity = "critical"
           \/ \E s \in Ordered(id) : s.action = "isolate_host"

DInv ==
    /\ IInv
    /\ \A inc \in todo : SnapshotOK(inc)
    /\ WorkOK
    /\ isolated \in BOOLEAN
    /\ quarantined \subseteq Paths
    /\ passive \in BOOLEAN
    /\ \A p \in quarantined : FileCaused(p)
    /\ isolated => IsolationCaused
    /\ PassiveIsHarmless

LEMMA OnlyCritical ==
    ASSUME NEW s \in Severity, Weight[s] >= Weight["critical"]
    PROVE  s = "critical"
  BY DEF Weight, Severity

(* A cause stays one.                                                      *)
LEMMA OrderedGrows ==
    ASSUME IInv, IInv', RowsGrow, AlertsGrow, NEW id \in DOMAIN rows
    PROVE  Ordered(id) \subseteq Ordered(id)'
  <1> SUFFICES ASSUME NEW s \in Ordered(id) PROVE s \in Ordered(id)'
    OBVIOUS
  <1>1. PICK b \in Playbooks : Matches(b, Snapshot(id)) /\ s \in Range(b.steps)
    BY DEF Ordered
  <1>2. Matches(b, Snapshot(id)')
    BY <1>1, SnapshotsGrow, MatchesGrow
  <1> QED BY <1>1, <1>2 DEF Ordered

LEMMA CausesGrow ==
    ASSUME IInv, IInv', RowsGrow, AlertsGrow
    PROVE  /\ \A p : FileCaused(p) => FileCaused(p)'
           /\ IsolationCaused => IsolationCaused'
  <1>1. ASSUME NEW id \in DOMAIN rows, rows[id].score >= Threshold
        PROVE  /\ id \in DOMAIN rows' /\ rows'[id].score >= Threshold
               /\ rows[id].severity = "critical" => rows'[id].severity = "critical"
               /\ Range(rows[id].paths) \subseteq Range(rows'[id].paths)
               /\ Ordered(id) \subseteq Ordered(id)'
    <2>1. /\ rows[id].severity \in Severity /\ rows[id].score \in Nat
          /\ rows[id].paths \in Seq(Paths)
      BY RowTypes DEF IInv
    <2>2. /\ id \in DOMAIN rows'
          /\ Weight[rows'[id].severity] >= Weight[rows[id].severity]
          /\ rows'[id].score >= rows[id].score
          /\ Extends(rows'[id].paths, rows[id].paths)
      BY DEF RowsGrow
    <2>3. /\ rows'[id].severity \in Severity /\ rows'[id].score \in Nat
          /\ rows'[id].paths \in Seq(Paths)
      <3>1. RowsOK'
        BY DEF IInv
      <3>2. rows'[id].severity \in Severity /\ rows'[id].score \in 0 .. 100
            /\ rows'[id].paths \in Seq(Paths)
        BY <2>2, <3>1 DEF RowsOK
      <3> QED BY <3>2, SmallIsNatural, Zenon
    <2>4. rows'[id].score >= Threshold
      BY <1>1, <2>1, <2>2, <2>3, DefenseAssumption
    <2>5. rows[id].severity = "critical" => rows'[id].severity = "critical"
      BY <2>2, <2>3, OnlyCritical
    <2>6. Range(rows[id].paths) \subseteq Range(rows'[id].paths)
      BY <2>1, <2>2, <2>3, RangeExtends
    <2> QED BY <2>2, <2>4, <2>5, <2>6, OrderedGrows
  <1>2. ASSUME NEW p, FileCaused(p) PROVE FileCaused(p)'
    <2>1. PICK id \in DOMAIN rows :
              /\ rows[id].score >= Threshold
              /\ \/ p \in Range(rows[id].paths)
                 \/ \E s \in Ordered(id) : s.action = "quarantine_file" /\ s.arg = p
      BY <1>2 DEF FileCaused
    <2> QED BY <1>1, <2>1 DEF FileCaused
  <1>3. ASSUME IsolationCaused PROVE IsolationCaused'
    <2>1. PICK id \in DOMAIN rows :
              /\ rows[id].score >= Threshold
              /\ \/ rows[id].severity = "critical"
                 \/ \E s \in Ordered(id) : s.action = "isolate_host"
      BY <1>3 DEF IsolationCaused
    <2> QED BY <1>1, <2>1 DEF IsolationCaused
  <1> QED BY <1>2, <1>3

(* An action that a plan gives for a cause touches the host for one.       *)
LEMMA CauseCounts ==
    ASSUME IInv, NEW inc, SnapshotOK(inc), inc.score >= Threshold, NEW s, Cause(inc, s)
    PROVE  /\ s.action = "quarantine_file" /\ s.arg \in Paths => FileCaused(s.arg)
           /\ s.action = "isolate_host" => IsolationCaused
  <1> DEFINE id == inc.id
  <1>1. id \in DOMAIN rows
    BY DEF SnapshotOK
  <1>2. /\ rows[id].severity \in Severity /\ rows[id].score \in Nat
        /\ rows[id].paths \in Seq(Paths)
    BY <1>1, RowTypes DEF IInv
  <1>3. rows[id].score >= Threshold
    BY <1>2, DefenseAssumption DEF SnapshotOK
  <1>4. inc.severity = "critical" => rows[id].severity = "critical"
    <2>1. Weight[inc.severity] <= Weight[rows[id].severity] /\ inc.severity \in Severity
      BY DEF SnapshotOK
    <2>2. Weight[inc.severity] \in Nat /\ Weight[rows[id].severity] \in Nat
      BY <1>2, <2>1, WeightTypes
    <2> QED BY <1>2, <2>1, <2>2, OnlyCritical
  <1>5. Range(inc.paths) \subseteq Range(rows[id].paths)
    <2>1. Extends(rows[id].paths, inc.paths) /\ inc.paths \in Seq(Paths)
      BY DEF SnapshotOK
    <2> QED BY <1>2, <2>1, RangeExtends
  <1>6. ASSUME NEW action, NEW arg, Asked(inc, action, arg)
        PROVE  \E t \in Ordered(id) : t.action = action /\ t.arg = arg
    <2>1. PICK b \in Playbooks : Matches(b, inc)
                               /\ \E t \in Range(b.steps) : t.action = action /\ t.arg = arg
      BY <1>6 DEF Asked
    <2>2. Matches(b, Snapshot(id))
      BY <2>1, SnapshotLater, MatchesGrow
    <2> QED BY <2>1, <2>2 DEF Ordered
  <1> HIDE DEF id
  <1>7. ASSUME s.action = "quarantine_file", s.arg \in Paths PROVE FileCaused(s.arg)
    BY <1>1, <1>3, <1>5, <1>6, <1>7 DEF Cause, FileCaused
  <1>8. ASSUME s.action = "isolate_host" PROVE IsolationCaused
    BY <1>1, <1>3, <1>4, <1>6, <1>8 DEF Cause, IsolationCaused
  <1> QED BY <1>7, <1>8

-----------------------------------------------------------------------------
(* Steps.                                                                  *)

LEMMA SmallestElement ==
    ASSUME NEW S, S \subseteq Nat, S # {}
    PROVE  Min(S) \in S /\ \A y \in S : Min(S) <= y
  <1>1. \E x \in S : \A y \in S : ~ (<<y, x>> \in Smaller)
    BY SmallerIsWellFounded, WFMin
  <1>2. \E x \in S : \A y \in S : x <= y
    <2>1. PICK x \in S : \A y \in S : ~ (<<y, x>> \in Smaller)
      BY <1>1
    <2>2. ASSUME NEW y \in S PROVE x <= y
      <3>1. x \in Nat /\ y \in Nat
        OBVIOUS
      <3>2. ~ (y < x)
        BY <2>1, <3>1 DEF Smaller
      <3> QED BY <3>1, <3>2
    <2> QED BY <2>2
  <1> QED BY <1>2 DEF Min

(* What is left of a plan has its causes, and nothing is left out that is  *)
(* owed but what was just tried.                                           *)
LEMMA RemainingKeeps ==
    ASSUME NEW inc, PlanOK(work.plan, inc), work.plan # << >>, NEW ok \in BOOLEAN
    PROVE  LET s == Head(work.plan)
           IN  /\ Cause(inc, s)
               /\ PlanOK(Remaining(s, ok), inc)
               /\ \A r : Holds(work.plan, r) =>
                      r = <<s.action, s.arg>> \/ Holds(Remaining(s, ok), r)
  <1> DEFINE s == Head(work.plan)
             others == {i \in DOMAIN work.plan : work.plan[i].book # s.book}
             m == Min(others)
  <1>1. PICK plan : plan = work.plan
    OBVIOUS
  <1>2. PICK S : plan \in Seq(S) /\ \A t \in S : Cause(inc, t)
    BY <1>1 DEF PlanOK
  <1>3. /\ plan # << >> /\ Len(plan) \in Nat /\ DOMAIN plan = 1 .. Len(plan)
        /\ s = plan[1] /\ s \in S
    BY <1>1, <1>2
  <1>4. Cause(inc, s)
    BY <1>2, <1>3
  <1> HIDE DEF s
  <1>5. CASE ok \/ s.onFailure # "abort"
    <2>1. Remaining(s, ok) = Tail(plan)
      BY <1>1, <1>5 DEF Remaining
    <2>2. /\ Tail(plan) \in Seq(S) /\ Len(Tail(plan)) = Len(plan) - 1
          /\ \A i \in 1 .. Len(plan) - 1 : Tail(plan)[i] = plan[i + 1]
      BY <1>2, <1>3
    <2>3. ASSUME NEW r, Holds(plan, r)
          PROVE  r = <<s.action, s.arg>> \/ Holds(Tail(plan), r)
      <3>1. PICK i \in 1 .. Len(plan) :
                plan[i].book = Direct /\ <<plan[i].action, plan[i].arg>> = r
        BY <2>3 DEF Holds
      <3>2. CASE i = 1
        BY <1>3, <3>1, <3>2
      <3>3. CASE i # 1
        <4>1. i - 1 \in 1 .. Len(plan) - 1 /\ (i - 1) + 1 = i
          BY <1>3, <3>3
        <4>2. i - 1 \in 1 .. Len(Tail(plan)) /\ Tail(plan)[i - 1] = plan[i]
          BY <2>2, <4>1
        <4> QED BY <3>1, <4>2 DEF Holds
      <3> QED BY <3>2, <3>3
    <2> QED BY <1>1, <1>2, <1>4, <2>1, <2>2, <2>3 DEF PlanOK, s
  <1>6. CASE ~ (ok \/ s.onFailure # "abort")
    <2>1. s.book # Direct
      BY <1>4, <1>6 DEF Cause
    <2>2. CASE others = {}
      <3>1. Remaining(s, ok) = << >>
        BY <1>6, <2>2 DEF Remaining
      <3>2. << >> \in Seq(S)
        OBVIOUS
      <3>3. ASSUME NEW r PROVE ~ Holds(plan, r)
        BY <1>1, <1>3, <2>1, <2>2 DEF Holds
      <3> QED BY <1>1, <1>2, <1>4, <3>1, <3>2, <3>3 DEF PlanOK, s
    <2>3. CASE others # {}
      <3>1. others \subseteq 1 .. Len(plan) /\ \A i \in 1 .. Len(plan) :
                i \in others <=> plan[i].book # s.book
        BY <1>1, <1>3
      <3>2. Remaining(s, ok) = SubSeq(plan, m, Len(plan))
        BY <1>1, <1>6, <2>3 DEF Remaining
      <3> HIDE DEF others
      <3>3. m \in 1 .. Len(plan) /\ \A i \in others : m <= i
        <4>1. others \subseteq Nat
          BY <3>1
        <4> QED BY <2>3, <3>1, <4>1, SmallestElement
      <3> HIDE DEF m
      <3> DEFINE rest == SubSeq(plan, m, Len(plan))
      <3>4. /\ rest \in Seq(S) /\ Len(rest) = Len(plan) - m + 1
            /\ \A i \in m .. Len(plan) : rest[i - m + 1] = plan[i]
        BY <1>2, <1>3, <3>3
      <3> HIDE DEF rest
      <3>5. ASSUME NEW r, Holds(plan, r) PROVE Holds(rest, r)
        <4>1. PICK i \in 1 .. Len(plan) :
                  plan[i].book = Direct /\ <<plan[i].action, plan[i].arg>> = r
          BY <3>5 DEF Holds
        <4>2. m <= i
          BY <2>1, <3>1, <3>3, <4>1
        <4>3. i - m + 1 \in 1 .. Len(rest) /\ rest[i - m + 1] = plan[i]
          BY <1>3, <3>3, <3>4, <4>2
        <4> QED BY <4>1, <4>3 DEF Holds
      <3> QED BY <1>1, <1>2, <1>4, <3>2, <3>4, <3>5 DEF PlanOK, s, rest
    <2> QED BY <2>2, <2>3
  <1> QED BY <1>5, <1>6

LEMMA FinishRows ==
    ASSUME DInv, Finish
    PROVE  SameRows /\ UNCHANGED <<now, agentVars, eventRows, alertRows, saved>>
  <1>1. work # NoWork /\ RowsOK
    BY DEF Finish, DInv, IInv
  <1>2. work.id \in DOMAIN rows
    BY <1>1 DEF DInv, WorkOK, SnapshotOK
  <1>3. CASE rows' = [rows EXCEPT ![work.id].status = Verdict]
    BY <1>1, <1>2, <1>3, StatusIsFree DEF Finish
  <1>4. CASE UNCHANGED rows
    BY <1>4 DEF Finish, SameRows
  <1> QED BY <1>3, <1>4 DEF Finish

(* The tables keep their invariant and grow, whoever steps.                *)
LEMMA TablesKeep ==
    ASSUME DInv, [NextDefense]_allVars
    PROVE  IInv' /\ RowsGrow /\ AlertsGrow
  <1>1. CASE [Next]_vars
    BY <1>1, NextKeeps, NextGrows, NextAddsAlerts DEF DInv
  <1>2. CASE Finish
    <2>1. SameRows /\ UNCHANGED <<now, agentVars, eventRows, alertRows, saved>>
      BY <1>2, FinishRows
    <2>2. IInv'
      BY <2>1, SameRowsKeep DEF DInv
    <2>3. RowsGrow
      BY <2>1, SameRowsGrow DEF DInv, IInv
    <2>4. AlertsGrow
      BY <2>1, SameAlertsGrow DEF agentVars
    <2> QED BY <2>2, <2>3, <2>4
  <1>3. CASE UNCHANGED vars
    BY <1>1, <1>3
  <1> QED BY <1>1, <1>2, <1>3 DEF NextDefense, Defender, Poll, Skip, Begin, Succeeds, Fails,
             StopDefender, allVars

LEMMA SnapshotsKeep ==
    ASSUME DInv, [NextDefense]_allVars
    PROVE  \A inc : SnapshotOK(inc) => SnapshotOK(inc)'
  BY TablesKeep, SnapshotKeeps DEF DInv

LEMMA CausesKeep ==
    ASSUME DInv, [NextDefense]_allVars
    PROVE  /\ \A p : FileCaused(p) => FileCaused(p)'
           /\ IsolationCaused => IsolationCaused'
  BY TablesKeep, CausesGrow DEF DInv

LEMMA TodoKeeps ==
    ASSUME DInv, [NextDefense]_allVars
    PROVE  \A inc \in todo' : SnapshotOK(inc)'
  <1>1. \A inc \in todo : SnapshotOK(inc)'
    BY SnapshotsKeep DEF DInv
  <1>2. CASE todo' \subseteq todo
    BY <1>1, <1>2
  <1>3. CASE Poll
    <2> SUFFICES ASSUME NEW inc \in todo' PROVE SnapshotOK(inc)'
      OBVIOUS
    <2>1. PICK id \in DOMAIN rows : inc = Snapshot(id)
      BY <1>3 DEF Poll
    <2>2. SnapshotOK(inc)
      BY <2>1, SnapshotOfRow DEF DInv
    <2> QED BY <2>2, SnapshotsKeep
  <1> QED BY <1>2, <1>3 DEF NextDefense, Defender, Skip, Begin, Succeeds, Fails, Finish,
             StopDefender, defVars, allVars

(* A step of the plan.                                                     *)
LEMMA RecordedKeeps ==
    ASSUME DInv, [NextDefense]_allVars, work # NoWork, work.plan # << >>,
           NEW ok \in BOOLEAN, Recorded(Head(work.plan), ok)
    PROVE  WorkOK'
  <1> DEFINE s == Head(work.plan)
  <1>1. /\ DOMAIN work = {"id", "inc", "plan", "acted", "clean", "tried", "failed"}
        /\ work.inc.id = work.id /\ SnapshotOK(work.inc) /\ work.inc.score >= Threshold
        /\ PlanOK(work.plan, work.inc)
        /\ \A r \in Owed(work.inc) : r \in work.tried \/ Holds(work.plan, r)
    BY DEF DInv, WorkOK
  <1>2. PICK inc : inc = work.inc
    OBVIOUS
  <1>3. PICK rest : rest = Remaining(s, ok)
    OBVIOUS
  <1>4. /\ PlanOK(rest, inc)
        /\ \A r : Holds(work.plan, r) => r = <<s.action, s.arg>> \/ Holds(rest, r)
    BY <1>1, <1>2, <1>3, RemainingKeeps
  <1>5. /\ DOMAIN work' = DOMAIN work /\ work'.id = work.id /\ work'.inc = inc
        /\ work'.plan = rest /\ work'.tried = work.tried \cup {<<s.action, s.arg>>}
    BY <1>1, <1>2, <1>3 DEF Recorded
  <1>6. SnapshotOK(inc)'
    BY <1>1, <1>2, SnapshotsKeep
  <1>7. \A r \in Owed(inc) : r \in work'.tried \/ Holds(rest, r)
    BY <1>1, <1>2, <1>4, <1>5
  <1> HIDE DEF s
  <1>8. /\ DOMAIN work' = {"id", "inc", "plan", "acted", "clean", "tried", "failed"}
        /\ work'.inc.id = work'.id /\ work'.inc.score >= Threshold
    BY <1>1, <1>2, <1>5
  <1> QED BY <1>4, <1>5, <1>6, <1>7, <1>8 DEF WorkOK

LEMMA WorkKeeps ==
    ASSUME DInv, [NextDefense]_allVars
    PROVE  WorkOK'
  <1>1. CASE UNCHANGED work
    <2>1. PICK inc : inc = work.inc
      OBVIOUS
    <2>2. SnapshotOK(inc) => SnapshotOK(inc)'
      BY SnapshotsKeep
    <2> QED BY <1>1, <2>1, <2>2 DEF DInv, WorkOK
  <1>2. CASE work' = NoWork
    BY <1>2 DEF WorkOK
  <1>3. ASSUME NEW inc \in todo, Begin(inc) PROVE WorkOK'
    <2>1. SnapshotOK(inc) /\ SnapshotOK(inc)' /\ HistoryOK
      BY SnapshotsKeep DEF DInv, IInv
    <2>2. PICK plan \in Plans(inc) :
              work' = [id |-> inc.id, inc |-> inc, plan |-> plan,
                       acted |-> FALSE, clean |-> TRUE, tried |-> {}, failed |-> FALSE]
      BY <1>3 DEF Begin
    <2>3. PlanOK(plan, inc) /\ \A r \in Owed(inc) : Holds(plan, r)
      BY <2>1, PlansCaused
    <2>4. inc.score >= Threshold
      BY <1>3 DEF Begin, Due
    <2> QED BY <2>1, <2>2, <2>3, <2>4 DEF WorkOK
  <1>4. CASE Succeeds
    BY <1>4, RecordedKeeps DEF Succeeds
  <1>5. CASE Fails
    BY <1>5, RecordedKeeps DEF Fails
  <1> QED BY <1>1, <1>2, <1>3, <1>4, <1>5 DEF NextDefense, Defender, Poll, Skip, Finish,
             StopDefender, defVars, allVars

(* What is new on the host is an action of the plan.                       *)
LEMMA EffectsKeep ==
    ASSUME DInv, [NextDefense]_allVars
    PROVE  /\ isolated' \in BOOLEAN
           /\ quarantined' \subseteq Paths
           /\ \A p \in quarantined' : FileCaused(p)'
           /\ isolated' => IsolationCaused'
  <1>1. CASE UNCHANGED effects
    BY <1>1, CausesKeep DEF DInv, effects
  <1>2. CASE Succeeds /\ Applied(Head(work.plan))
    <2> DEFINE s == Head(work.plan)
    <2>1. work # NoWork /\ work.plan # << >> /\ Applied(s)
      BY <1>2 DEF Succeeds
    <2>2. /\ SnapshotOK(work.inc) /\ work.inc.score >= Threshold
          /\ PlanOK(work.plan, work.inc)
      BY <2>1 DEF DInv, WorkOK
    <2>3. Cause(work.inc, s)
      BY <2>1, <2>2, RemainingKeeps
    <2> HIDE DEF s
    <2>4. /\ s.action = "quarantine_file" /\ s.arg \in Paths => FileCaused(s.arg)
          /\ s.action = "isolate_host" => IsolationCaused
      BY <2>2, <2>3, CauseCounts DEF DInv
    <2>5. s.action = "quarantine_file" => s.arg \in Paths \/ UNCHANGED quarantined
      <3>1. CanSucceed(s) /\ (~ Simulated \/ UNCHANGED effects)
        BY <1>2 DEF Succeeds, s
      <3> QED BY <3>1 DEF CanSucceed, Possible, effects
    <2>6. /\ isolated' = isolated \/ (s.action = "isolate_host" /\ isolated' \in {isolated, TRUE})
          /\ quarantined' = quarantined \cup
                 (IF s.action = "quarantine_file" THEN {s.arg} ELSE {})
      BY <2>1 DEF Applied
    <2>7. isolated' \in BOOLEAN /\ quarantined' \subseteq Paths
      BY <2>5, <2>6 DEF DInv
    <2>8. \A p \in quarantined' : FileCaused(p)
      BY <2>4, <2>5, <2>6 DEF DInv
    <2>9. isolated' => IsolationCaused
      BY <2>4, <2>6 DEF DInv
    <2> QED BY <2>7, <2>8, <2>9, CausesKeep
  <1> QED BY <1>1, <1>2 DEF NextDefense, Defender, Poll, Skip, Begin, Succeeds, Fails,
             Finish, StopDefender, defVars, allVars

LEMMA StatusesKeep ==
    ASSUME IInv, [Next]_vars,
           \A id \in DOMAIN rows : rows[id].status \in Statuses \cup {"open"}
    PROVE  \A id \in DOMAIN rows' : rows'[id].status \in Statuses \cup {"open"}
  <1>1. CASE SaveIncident
    <2>1. saving # "done"
      BY <1>1 DEF SaveIncident
    <2>2. CurrentIncident \in Incident
      BY <2>1, CurrentTypes
    <2>3. Row(CurrentIncident).status = "open"
      BY <2>2 DEF Row, Incident
    <2> QED BY <1>1, <2>3, SaveIncidentRows
  <1>2. ASSUME NEW id \in DOMAIN rows, NEW status \in Statuses, SetStatus(id, status)
        PROVE  \A i \in DOMAIN rows' : rows'[i].status \in Statuses \cup {"open"}
    <2>1. DOMAIN rows[id] = {"status", "severity", "score", "paths"}
      BY DEF IInv, RowsOK
    <2> QED BY <1>2, <2>1 DEF SetStatus
  <1>3. CASE UNCHANGED rows
    BY <1>3
  <1> QED BY <1>1, <1>2, <1>3 DEF Next, Agent, Analyst, Tick, ProcessAlert, SaveEvent,
             SaveAlert, SaveFails, Restart, tables, vars

LEMMA PassiveKeeps ==
    ASSUME DInv, [NextDefense]_allVars
    PROVE  passive' \in BOOLEAN /\ PassiveIsHarmless'
  <1>1. passive' = passive
    BY DEF NextDefense, Defender, Poll, Skip, Begin, Succeeds, Fails, Finish, StopDefender,
           process, defVars, allVars
  <1> SUFFICES ASSUME passive PROVE PassiveIsHarmless'
    BY <1>1 DEF DInv, PassiveIsHarmless
  <1>2. /\ ~isolated /\ quarantined = {} /\ killed = {} /\ blocked = {}
        /\ \A id \in DOMAIN rows : rows[id].status \in Statuses \cup {"open"}
    BY DEF DInv, PassiveIsHarmless
  <1>3. UNCHANGED effects
    BY DEF NextDefense, Defender, Poll, Skip, Begin, Succeeds, Fails, Finish, StopDefender,
           Simulated, defVars, allVars
  <1>4. [Next]_vars \/ UNCHANGED rows
    BY DEF NextDefense, Defender, Poll, Skip, Begin, Succeeds, Fails, Finish, StopDefender,
           Writes, allVars
  <1>5. \A id \in DOMAIN rows' : rows'[id].status \in Statuses \cup {"open"}
    BY <1>2, <1>4, StatusesKeep DEF DInv
  <1> QED BY <1>2, <1>3, <1>5 DEF PassiveIsHarmless, effects

LEMMA InitDInv == InitDefense => DInv
  <1> SUFFICES ASSUME InitDefense PROVE DInv
    OBVIOUS
  <1>1. IInv
    BY InitIInv DEF InitDefense
  <1>2. rows = << >> /\ DOMAIN << >> = {}
    BY DEF InitDefense, Init
  <1> QED BY <1>1, <1>2 DEF InitDefense, DInv, WorkOK, PassiveIsHarmless

LEMMA DInvKeeps ==
    ASSUME DInv, [NextDefense]_allVars
    PROVE  DInv'
  BY TablesKeep, TodoKeeps, WorkKeeps, EffectsKeep, PassiveKeeps DEF DInv

THEOREM DefenseInvariance == SpecDefense => []DInv
  <1>1. InitDefense => DInv
    BY InitDInv
  <1>2. DInv /\ [NextDefense]_allVars => DInv'
    BY DInvKeeps
  <1> QED BY <1>1, <1>2, PTL DEF SpecDefense

(* What the defender holds of an incident is of a stored one that weighs   *)
(* no more than its row does now, and the files it moved away existed.     *)
THEOREM DefenseTypeCorrect == SpecDefense => []DefenseTypeOK
  <1>1. DInv => DefenseTypeOK
    BY DEF DInv, IInv, WorkOK, SnapshotOK, DefenseTypeOK
  <1> QED BY <1>1, DefenseInvariance, PTL

(* defend.go touches the host only for cause: isolation and every file     *)
(* moved away have one in an incident that is stored, though the defender  *)
(* acts on what it read long before.                                       *)
THEOREM ActionsJustified == SpecDefense => []ActionsAreJustified
  <1>1. DInv => ActionsAreJustified
    BY DEF DInv, FileCaused, IsolationCaused, ActionsAreJustified
  <1> QED BY <1>1, DefenseInvariance, PTL

(* defend --mode passive does nothing to the host and writes no status.    *)
THEOREM PassiveHarmless == SpecDefense => []PassiveIsHarmless
  <1>1. DInv => PassiveIsHarmless
    BY DEF DInv
  <1> QED BY <1>1, DefenseInvariance, PTL

(* A playbook that aborts does not cut the direct response short: before a *)
(* status is written, isolation of a critical incident and quarantine of   *)
(* each of its paths were tried.                                           *)
THEOREM ResponseComplete == SpecDefense => ResponseIsComplete
  <1> DEFINE Complete ==
          work # NoWork /\ work' = NoWork /\ rows' # rows =>
              /\ work.inc.severity = "critical" => <<"isolate_host", Empty>> \in work.tried
              /\ \A p \in ToSet(work.inc.paths) : <<"quarantine_file", p>> \in work.tried
  <1>1. DInv /\ [NextDefense]_allVars => Complete
    <2> SUFFICES ASSUME DInv, [NextDefense]_allVars,
                        work # NoWork, work' = NoWork, rows' # rows
                 PROVE  /\ work.inc.severity = "critical" =>
                               <<"isolate_host", Empty>> \in work.tried
                        /\ \A p \in ToSet(work.inc.paths) :
                               <<"quarantine_file", p>> \in work.tried
      OBVIOUS
    <2>1. Finish
      BY DEF NextDefense, Defender, Poll, Skip, Begin, Succeeds, Fails, StopDefender,
             tables, vars, defVars, allVars
    <2>2. work.plan = << >>
      BY <2>1 DEF Finish
    <2>3. \A r : ~ Holds(work.plan, r)
      BY <2>2 DEF Holds
    <2>4. \A r \in Owed(work.inc) : r \in work.tried
      BY <2>3 DEF DInv, WorkOK
    <2>5. ToSet(work.inc.paths) = Range(work.inc.paths)
      BY DEF ToSet, Range
    <2> QED BY <2>4, <2>5 DEF Owed
  <1>2. DInv /\ [NextDefense]_allVars => [Complete]_allVars
    BY <1>1
  <1> QED BY <1>2, DefenseInvariance, PTL DEF SpecDefense, ResponseIsComplete

=============================================================================
