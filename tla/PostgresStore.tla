--------------------------- MODULE PostgresStore ---------------------------
(***************************************************************************)
(* The calls of the PostgreSQL store, as functions of its tables.  Times   *)
(* are instants here, and no table refers to another.                      *)
(***************************************************************************)
EXTENDS Tables

SaveEvents(db, batch) ==
    Done([db EXCEPT !.events = PutAllNew(@, batch)])

GetEvent(db, id) == IF id \in DOMAIN db.events THEN {db.events[id]} ELSE {}

\* the offset of the query is not looked at
QueryEvents(db, q) ==
    LET found == {e \in Selected(db.events, q) :
                    /\ q.since.at # Unset => db.events[e].at >= q.since.at
                    /\ q.until.at # Unset => db.events[e].at <= q.until.at}
    IN  Page(NewestFirst({[id |-> e, at |-> db.events[e].at] : e \in found}), 0, Limited(q.limit))

\* What a call may answer in the place of its page: a row that cannot be scanned
\* is passed over and a read that breaks off ends the answer, both without an error.
Shortened(page) == SUBSET ToSet(page) \ {ToSet(page)}

SaveAlert(db, row) ==
    Done([db EXCEPT !.alerts =
            IF row.id \in DOMAIN @
            THEN [@ EXCEPT ![row.id].acknowledged = row.acknowledged, ![row.id].incident = row.incident]
            ELSE Put(@, row)])

SaveIncident(db, row) == Done([db EXCEPT !.incidents = Merge(@, row)])

GetIncident(db, id) ==
    IF id \in DOMAIN db.incidents THEN {[row |-> db.incidents[id], alerts |-> {}]} ELSE {}

\* no status is no condition
QueryIncidents(db, statuses) ==
    LET found == {i \in DOMAIN db.incidents : statuses # {} => db.incidents[i].status \in statuses}
        rows == NewestFirst({[id |-> i, at |-> db.incidents[i].created] : i \in found})
    IN  [k \in DOMAIN rows |-> [row |-> db.incidents[rows[k]], alerts |-> {}]]

UpdateIncidentStatus(db, id, status) ==
    Done(IF id \in DOMAIN db.incidents THEN [db EXCEPT !.incidents[id].status = status] ELSE db)

\* a time that the caller leaves out is the time of the call
Dated(row, now) == IF row.created = Unset THEN [row EXCEPT !.created = now] ELSE row

SaveHost(db, row, now) == Done([db EXCEPT !.hosts = Merge(@, Dated(row, now))])

GetHost(db, id) == IF id \in DOMAIN db.hosts THEN {db.hosts[id]} ELSE {}

ListHosts(db) == Rows(db.hosts)

SaveRule(db, row, now) == Done([db EXCEPT !.rules = Merge(@, Dated(row, now))])

GetRule(db, id) == IF id \in DOMAIN db.rules THEN {db.rules[id]} ELSE {}

ListRules(db, enabledOnly) == {r \in Rows(db.rules) : enabledOnly => r.enabled}

DeleteRule(db, id) ==
    IF id \notin DOMAIN db.rules THEN Refused(db)
    ELSE Done([db EXCEPT !.rules = Only(@, DOMAIN @ \ {id})])

\* ON CONFLICT (id) does not cover UNIQUE(type, value): that conflict is an error
SaveIOC(db, row, now) ==
    IF \E i \in DOMAIN db.iocs \ {row.id} : db.iocs[i].mark = row.mark THEN Refused(db)
    ELSE Done([db EXCEPT !.iocs = Merge(@, Dated(row, now))])

QueryIOCs(db, mark) == {r \in Rows(db.iocs) : mark \in {NoFilter, r.mark}}

PruneEvents(db, cutoff) ==
    Done([db EXCEPT !.events = Only(@, {e \in DOMAIN @ : @[e].at >= cutoff})])

=============================================================================
