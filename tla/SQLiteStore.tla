---------------------------- MODULE SQLiteStore ----------------------------
(***************************************************************************)
(* The calls of the SQLite store, as functions of its tables.              *)
(*                                                                         *)
(* A time is written as text, in the zone it carries, and compared as      *)
(* text, which is what orders its wall-clock readings.  The connections of *)
(* the pool differ: the pragmas of New reach one of them, so whether a     *)
(* call checks foreign keys depends on the connection it is given          *)
(* (enforced).                                                             *)
(***************************************************************************)
EXTENDS Tables

Text(t) == t.at + t.zone

(* Mutant of SaveEvents: a conflict updates the row. *)
SaveEventsUpdating(db, batch) ==
    Done([db EXCEPT !.events = PutAllNew(Only(@, DOMAIN @ \ {row.id : row \in batch}), batch)])

SaveEvents(db, batch) ==
    Done([db EXCEPT !.events = PutAllNew(@, batch)])

QueryEvents(db, q) ==
    LET found == {e \in Selected(db.events, q) :
                    /\ q.since.at # Unset => Text(db.events[e]) >= Text(q.since)
                    /\ q.until.at # Unset => Text(db.events[e]) <= Text(q.until)}
    IN  Page(NewestFirst({[id |-> e, at |-> Text(db.events[e])] : e \in found}),
             IF q.offset > 0 THEN q.offset ELSE 0, Limited(q.limit))

GetEvent(db, id) == IF id \in DOMAIN db.events THEN {db.events[id]} ELSE {}

SaveAlert(db, row, enforced) ==
    IF enforced /\ row.event \notin DOMAIN db.events THEN Refused(db)
    ELSE Done([db EXCEPT !.alerts = Put(@, row)])

SaveIncident(db, row) == Done([db EXCEPT !.incidents = Put(@, row)])

AlertsOf(db, id) == {a \in DOMAIN db.alerts : db.alerts[a].incident = id}

GetIncident(db, id) ==
    IF id \in DOMAIN db.incidents THEN {[row |-> db.incidents[id], alerts |-> AlertsOf(db, id)]} ELSE {}

QueryIncidents(db, statuses) ==
    LET found == {i \in DOMAIN db.incidents : db.incidents[i].status \in statuses}
        rows == Reverse(NewestFirst({[id |-> i, at |-> db.incidents[i].created] : i \in found}))
    IN  [k \in DOMAIN rows |->
            [row |-> db.incidents[rows[k]], alerts |-> AlertsOf(db, rows[k])]]

UpdateIncidentStatus(db, id, status) ==
    IF id \notin DOMAIN db.incidents THEN Refused(db)
    ELSE Done([db EXCEPT !.incidents[id].status = status])

SaveHost(db, row) == Done([db EXCEPT !.hosts = Put(@, row)])

GetHost(db, id) == IF id \in DOMAIN db.hosts THEN {db.hosts[id]} ELSE {}

ListHosts(db) == Rows(db.hosts)

SaveRule(db, row) == Done([db EXCEPT !.rules = Put(@, row)])

GetRule(db, id) == IF id \in DOMAIN db.rules THEN {db.rules[id]} ELSE {}

ListRules(db, enabledOnly) == {r \in Rows(db.rules) : enabledOnly => r.enabled}

DeleteRule(db, id) == Done([db EXCEPT !.rules = Only(@, DOMAIN @ \ {id})])

(* Mutant of SaveIOC: the UNIQUE constraint is forgotten. *)
SaveIOCByKey(db, row) == Done([db EXCEPT !.iocs = Put(@, row)])

\* INSERT OR REPLACE: a row that has the same type and value under another key goes
SaveIOC(db, row) ==
    LET others == {i \in DOMAIN db.iocs : db.iocs[i].mark # row.mark}
    IN  Done([db EXCEPT !.iocs = Put(Only(@, others), row)])

QueryIOCs(db, mark) == {r \in Rows(db.iocs) : mark \in {NoFilter, r.mark}}

PruneEvents(db, cutoff, enforced) ==
    LET old == {e \in DOMAIN db.events : Text(db.events[e]) < cutoff}
    IN  IF enforced /\ \E a \in DOMAIN db.alerts : db.alerts[a].event \in old THEN Refused(db)
        ELSE Done([db EXCEPT !.events = Only(@, DOMAIN @ \ old)])

=============================================================================
