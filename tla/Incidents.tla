----------------------------- MODULE Incidents -----------------------------
(***************************************************************************)
(* internal/correlation/aggregator.go: the agent groups the alerts of each *)
(* host into incidents and saves event, alert and incident in three calls  *)
(* of the store.  An analyst changes the status of saved incidents through *)
(* the API server, another process on the same database.                   *)
(*                                                                         *)
(* An incident is named by the position in `alerts` of the alert that      *)
(* created it.                                                             *)
(***************************************************************************)
EXTENDS Scoring, Functions

CONSTANTS
    HostInfos,      \* Event.Host: records [id, hostname]
    Empty,          \* the empty string
    UnknownHost,    \* "unknown-host"
    Kinds,          \* alerts: records [severity, score, path, rule, data], where
                    \* data lists the response actions that Event.Data leads to
    Paths,
    Window,         \* cfg.CorrelateWindow
    Statuses,       \* bound: the statuses that the analyst sets
    MaxAlerts,      \* bound: calls of ProcessAlert
    MaxTime,        \* bound: the clock
    MaxRestarts     \* bound: restarts of the agent

ASSUME IncidentsAssumption ==
    /\ \A k \in Kinds : k.severity \in Severity /\ k.score \in 0 .. 100
                        /\ k.path \in Paths \cup {Empty}
    /\ Empty \notin Paths
    /\ Window \in Nat \ {0}

None == [severity |-> "none"]

VARIABLES
    now,         \* the clock
    alerts,      \* history: the alerts, with time, incident and run of the agent
    active,      \* a.activeIncidents
    saving,      \* the next row ProcessAlert saves; "done" outside of it
    eventRows,   \* events of alerts, by position of the alert
    alertRows,   \* table alerts, by position
    rows,        \* table incidents
    saved,       \* history: alerts whose ProcessAlert returned no error
    restarts     \* history: restarts of the agent

agentVars == <<alerts, active, saving, restarts>>
tables == <<eventRows, alertRows, rows>>
vars == <<now, agentVars, tables, saved>>

(* hostKey. *)
HostKey(host) ==
    IF host.id # Empty THEN host.id
    ELSE IF host.hostname # Empty THEN host.hostname ELSE UnknownHost

HostKeys == {HostKey(h) : h \in HostInfos}

(* extractArtifacts: one path per event here. *)
Merged(paths, p) ==
    IF p = Empty \/ \E i \in DOMAIN paths : paths[i] = p
    THEN paths
    ELSE Append(paths, p)

(* Mutant of Escalated: the newest alert decides. *)
EscalatedToNewest(severity, new) == new

Escalated(severity, new) ==
    IF Weight[new] > Weight[severity] THEN new ELSE severity

(* Mutant of WithinWindow: a fixed window from the first alert. *)
FixedWindow(inc) ==
    inc # None /\ now - alerts[inc.id].at <= Window /\ inc.status = "open"

WithinWindow(inc) ==
    inc # None /\ now - inc.updated <= Window /\ inc.status = "open"

(* A new incident from the alert at position n. *)
Created(n, kind) ==
    [id |-> n, status |-> "open", severity |-> kind.severity,
     score |-> kind.score, paths |-> Merged(<< >>, kind.path),
     scores |-> <<kind.score>>, updated |-> now]

(* Mutant of Joined: the score is computed before the alert is appended. *)
JoinedLate(inc, kind) ==
    [inc EXCEPT !.severity = Escalated(@, kind.severity),
                !.scores = Append(@, kind.score),
                !.score = IncidentScore(inc.scores),
                !.paths = Merged(@, kind.path),
                !.updated = now]

(* The incident with one more alert. *)
Joined(inc, kind) ==
    [inc EXCEPT !.severity = Escalated(@, kind.severity),
                !.scores = Append(@, kind.score),
                !.score = IncidentScore(Append(inc.scores, kind.score)),
                !.paths = Merged(@, kind.path),
                !.updated = now]

(* The columns of an incident that another process reads. *)
Row(inc) ==
    [status |-> inc.status, severity |-> inc.severity,
     score |-> inc.score, paths |-> inc.paths]

(* The alert ProcessAlert works on, and its incident. *)
Current == Len(alerts)
CurrentIncident == active[HostKey(alerts[Current].host)]

Init ==
    /\ now = 0
    /\ alerts = << >>
    /\ active = [h \in HostKeys |-> None]
    /\ saving = "done"
    /\ eventRows = {} /\ alertRows = {} /\ rows = << >>
    /\ saved = {}
    /\ restarts = 0

Tick ==
    /\ now < MaxTime
    /\ now' = now + 1
    /\ UNCHANGED <<agentVars, tables, saved>>

(* ProcessAlert up to the first call of the store. *)
ProcessAlert(host, kind) ==
    LET n == Len(alerts) + 1
        inc == active[HostKey(host)]
        next == IF WithinWindow(inc) THEN Joined(inc, kind) ELSE Created(n, kind)
    IN  /\ saving = "done"
        /\ n <= MaxAlerts
        /\ alerts' = Append(alerts,
               [host |-> host, kind |-> kind, at |-> now,
                incident |-> next.id, run |-> restarts])
        /\ active' = [active EXCEPT ![HostKey(host)] = next]
        /\ saving' = "event"
        /\ UNCHANGED <<now, tables, saved, restarts>>

(* SaveEvent, which leaves an event that is already there alone. *)
SaveEvent ==
    /\ saving = "event"
    /\ eventRows' = eventRows \cup {Current}
    /\ saving' = "alert"
    /\ UNCHANGED <<now, alerts, active, restarts, alertRows, rows, saved>>

(* SaveAlert; its row refers to a row of events. *)
SaveAlert ==
    /\ saving = "alert"
    /\ Current \in eventRows
    /\ alertRows' = alertRows \cup {Current}
    /\ saving' = "incident"
    /\ UNCHANGED <<now, alerts, active, restarts, eventRows, rows, saved>>

(* SaveIncident replaces the whole row, its status too. *)
Stored(id, row) ==
    [i \in DOMAIN rows \cup {id} |-> IF i = id THEN row ELSE rows[i]]

SaveIncident ==
    /\ saving = "incident"
    /\ rows' = Stored(CurrentIncident.id, Row(CurrentIncident))
    /\ saved' = saved \cup {Current}
    /\ saving' = "done"
    /\ UNCHANGED <<now, alerts, active, restarts, eventRows, alertRows>>

(* Mutant of AfterFailure: the next save is tried all the same. *)
AfterFailureNext(s) ==
    CASE s = "event" -> "alert" [] s = "alert" -> "incident" [] OTHER -> "done"

(* ProcessAlert returns at the first error. *)
AfterFailure(s) == "done"

(* The store returns an error. *)
SaveFails ==
    /\ saving # "done"
    /\ saving' = AfterFailure(saving)
    /\ UNCHANGED <<now, alerts, active, restarts, tables, saved>>

(* What a new agent knows of the incidents: they are not read back. *)
Remembered(h) == None

(* The agent stops, at any point of ProcessAlert, and is started again. *)
Restart ==
    /\ restarts < MaxRestarts
    /\ restarts' = restarts + 1
    /\ active' = [h \in HostKeys |-> Remembered(h)]
    /\ saving' = "done"
    /\ UNCHANGED <<now, alerts, tables, saved>>

(* UpdateIncidentStatus of the API: any status for any row. *)
SetStatus(id, status) ==
    /\ id \in DOMAIN rows
    /\ rows' = [rows EXCEPT ![id].status = status]
    /\ UNCHANGED <<now, agentVars, eventRows, alertRows, saved>>

Agent ==
    \/ \E host \in HostInfos, kind \in Kinds : ProcessAlert(host, kind)
    \/ SaveEvent
    \/ SaveAlert
    \/ SaveIncident
    \/ SaveFails
    \/ Restart

Analyst == \E id \in DOMAIN rows, status \in Statuses : SetStatus(id, status)

Next == Tick \/ Agent \/ Analyst

Spec == Init /\ [][Next]_vars

-----------------------------------------------------------------------------
(* Properties. *)

Incident ==
    [id : 1 .. Len(alerts), status : {"open"}, severity : Severity,
     score : 0 .. 100, paths : Seq(Paths), scores : Seq(0 .. 100), updated : Nat]

Members(id) == {n \in DOMAIN alerts : alerts[n].incident = id}

(* The scores of the members of id among the first n alerts, in order.     *)
MemberScores(log, id) ==
    LET scores[n \in 0 .. Len(log)] ==
            CASE n = 0                -> << >>
              [] n > 0 /\ log[n].incident = id ->
                     Append(scores[n - 1], log[n].kind.score)
              [] OTHER                -> scores[n - 1]
    IN  scores

(* The tables refer to alerts that were raised and the active incident of  *)
(* a host to its alerts; an incident counts each alert of it once.         *)
TypeOK ==
    /\ now \in Nat
    /\ \A h \in HostKeys : active[h] # None =>
           /\ active[h] \in Incident
           /\ HostKey(alerts[active[h].id].host) = h
           /\ active[h].scores = MemberScores(alerts, active[h].id)[Len(alerts)]
    /\ saving \in {"event", "alert", "incident", "done"}
    /\ alertRows \subseteq eventRows
    /\ eventRows \subseteq DOMAIN alerts
    /\ DOMAIN rows \subseteq {alerts[n].incident : n \in alertRows}

(* No alert is forgotten: once the processing of an alert has succeeded,   *)
(* it, its event and its incident are stored, and the stored incident      *)
(* accounts for every member up to it, those whose own save failed         *)
(* included: its severity and paths, and the score of all of them together.*)
(* An error of the store heals with the next alert.                        *)
RowsCoverMembers ==
    \A n \in saved :
        LET id == alerts[n].incident
        IN  /\ n \in alertRows /\ n \in eventRows /\ id \in DOMAIN rows
            /\ rows[id].score >= IncidentScore(MemberScores(alerts, id)[n])
            /\ \A m \in Members(id) : m <= n =>
                   /\ Weight[rows[id].severity] >= Weight[alerts[m].kind.severity]
                   /\ alerts[m].kind.path # Empty => alerts[m].kind.path \in Range(rows[id].paths)

Previous(n) ==
    {m \in 1 .. n - 1 : HostKey(alerts[m].host) = HostKey(alerts[n].host)}

(* Sliding window: an alert joins the incident of the alert before it on   *)
(* its host when they are at most the window apart and the agent was not   *)
(* restarted in between, and otherwise begins an incident of its own.      *)
GroupedByWindow ==
    \A n \in DOMAIN alerts :
        LET joins == \E m \in Previous(n) :
                         /\ \A k \in Previous(n) : k <= m
                         /\ alerts[n].at - alerts[m].at <= Window
                         /\ alerts[n].run = alerts[m].run
                         /\ alerts[n].incident = alerts[m].incident
            starts == /\ alerts[n].incident = n
                      /\ \A m \in Previous(n) :
                             \/ alerts[n].at - alerts[m].at > Window
                             \/ alerts[n].run # alerts[m].run
        IN  joins \/ starts

(* No write weakens a stored incident: its severity and score never fall   *)
(* and its artifact paths only grow, whatever fails and in any order.      *)
RowsOnlyGrow ==
    [][\A id \in DOMAIN rows :
           /\ Weight[rows'[id].severity] >= Weight[rows[id].severity]
           /\ rows'[id].score >= rows[id].score
           /\ SubSeq(rows'[id].paths, 1, Len(rows[id].paths)) = rows[id].paths]_vars

=============================================================================
