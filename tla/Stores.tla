------------------------------- MODULE Stores -------------------------------
(***************************************************************************)
(* One stream of calls, from the handlers of the REST API and from the     *)
(* agent, answered by both stores side by side.  A call that the handler   *)
(* turns away never reaches a store.                                       *)
(*                                                                         *)
(* A call on SQLite may fail because another connection writes: the busy   *)
(* timeout, a pragma as well, holds on one connection of the pool only.    *)
(* PostgreSQL is either there when New is called, or it stays without its  *)
(* schema and refuses every call.                                          *)
(***************************************************************************)
EXTENDS Tables

CONSTANTS EventRows, AlertRows, IncidentRows, Statuses,
          HostRows, RuleRows, IOCRows,
          Cutoffs, Queries,
          MaxBatch,     \* events of a request at most
          MaxCalls      \* bound: calls of a behaviour

\* An incident keeps the time it was created at.
ASSUME StoresAssumption ==
    /\ \A row \in EventRows :
         /\ row = [id |-> row.id, at |-> row.at, zone |-> row.zone, type |-> row.type,
                   severity |-> row.severity, host |-> row.host]
         /\ row.at \in Int /\ row.zone \in Int /\ row.id \in DOMAIN RowId
    /\ \A row \in AlertRows :
         row = [id |-> row.id, event |-> row.event, incident |-> row.incident,
                acknowledged |-> row.acknowledged]
    /\ \A row \in IncidentRows :
         /\ row = [id |-> row.id, created |-> row.created, status |-> row.status]
         /\ row.created \in Int /\ row.id \in DOMAIN RowId
    /\ \A a, b \in IncidentRows : a.id = b.id => a.created = b.created
    /\ \A row \in HostRows : row = [id |-> row.id, name |-> row.name, created |-> row.created]
    /\ \A row \in RuleRows :
         row = [id |-> row.id, name |-> row.name, enabled |-> row.enabled, created |-> row.created]
    /\ \A row \in IOCRows : row = [id |-> row.id, mark |-> row.mark, created |-> row.created]
    /\ \A q \in Queries :
         /\ q = [type |-> q.type, severity |-> q.severity, host |-> q.host, since |-> q.since,
                 until |-> q.until, limit |-> q.limit, offset |-> q.offset]
         /\ {q.since.at, q.until.at, q.limit, q.offset} \subseteq Int
    /\ Cutoffs \subseteq Int
    /\ MaxBatch \in Nat /\ MaxCalls \in Nat

VARIABLES db,           \* store -> tables
          reachable,    \* PostgreSQL was there when New was called
          agreed,       \* so far both stores have answered every call alike
          utc,          \* history: every event so far was written in UTC
          calls

vars == <<db, reachable, agreed, utc, calls>>

S == INSTANCE SQLiteStore
P == INSTANCE PostgresStore

Nameless == ""

Init ==
    /\ db = [d \in {"sqlite", "postgres"} |-> NoTables]
    /\ reachable \in BOOLEAN
    /\ agreed = TRUE /\ utc = TRUE
    /\ calls = 0

Answered(sqlite, postgres) ==
    /\ db' = [sqlite |-> sqlite.db, postgres |-> postgres.db]
    /\ agreed' = (agreed /\ (sqlite.ok <=> postgres.ok))

Call(sqlite, postgres) ==
    /\ calls < MaxCalls
    /\ calls' = calls + 1
    /\ \E busy \in BOOLEAN :
         Answered(IF busy THEN Refused(db.sqlite) ELSE sqlite,
                  IF reachable THEN postgres ELSE Refused(db.postgres))
    /\ UNCHANGED reachable

Clock == calls + 1

-----------------------------------------------------------------------------
(* Events: the batches of the pipeline and of BatchIngestEvents.           *)

BatchIngestEvents(batch) ==
    /\ batch # {}
    /\ Cardinality(batch) <= MaxBatch
    /\ \A a, b \in batch : a.id = b.id => a = b
    /\ Call(S!SaveEvents(db.sqlite, batch), P!SaveEvents(db.postgres, batch))
    /\ utc' = (utc /\ \A row \in batch : row.zone = 0)

SaveAlert(row) ==
    \E enforced \in BOOLEAN :
      Call(S!SaveAlert(db.sqlite, row, enforced), P!SaveAlert(db.postgres, row))

SaveIncident(row) ==
    Call(S!SaveIncident(db.sqlite, row), P!SaveIncident(db.postgres, row))

UpdateIncidentStatus(id, status) ==
    Call(S!UpdateIncidentStatus(db.sqlite, id, status),
         P!UpdateIncidentStatus(db.postgres, id, status))

PruneEvents(cutoff) ==
    \E enforced \in BOOLEAN :
      Call(S!PruneEvents(db.sqlite, cutoff, enforced), P!PruneEvents(db.postgres, cutoff))

-----------------------------------------------------------------------------
(* Hosts, rules and indicators: the handlers of the management API.        *)

RegisterHost(row) ==
    /\ row.name # Nameless
    /\ Call(S!SaveHost(db.sqlite, row), P!SaveHost(db.postgres, row, Clock))

CreateRule(row) ==
    /\ row.name # Nameless
    /\ Call(S!SaveRule(db.sqlite, row), P!SaveRule(db.postgres, row, Clock))

\* the key comes from the path, and the rule need neither exist nor have a name
UpdateRule(id, row) ==
    LET rule == [row EXCEPT !.id = id]
    IN  Call(S!SaveRule(db.sqlite, rule), P!SaveRule(db.postgres, rule, Clock))

DeleteRule(id) ==
    Call(S!DeleteRule(db.sqlite, id), P!DeleteRule(db.postgres, id))

AddIOC(row) ==
    /\ row.mark # NoFilter
    /\ Call(S!SaveIOC(db.sqlite, row), P!SaveIOC(db.postgres, row, Clock))

OtherCall ==
    \/ \E row \in AlertRows : SaveAlert(row)
    \/ \E row \in IncidentRows : SaveIncident(row)
    \/ \E row \in IncidentRows, status \in Statuses : UpdateIncidentStatus(row.id, status)
    \/ \E cutoff \in Cutoffs : PruneEvents(cutoff)
    \/ \E row \in HostRows : RegisterHost(row)
    \/ \E row \in RuleRows : CreateRule(row)
    \/ \E row, other \in RuleRows : UpdateRule(other.id, row)
    \/ \E row \in RuleRows : DeleteRule(row.id)
    \/ \E row \in IOCRows : AddIOC(row)

Next ==
    \/ \E batch \in SUBSET EventRows : BatchIngestEvents(batch)
    \/ OtherCall /\ UNCHANGED utc

Spec == Init /\ [][Next]_vars

-----------------------------------------------------------------------------
(* What the GET handlers answer.                                           *)

\* GET /events, whose limit is 50 when the request gives none
EventsPage(q) ==
    LET given == [q EXCEPT !.limit = IF @ = 0 THEN MaxLimit ELSE @]
    IN  [sqlite |-> S!QueryEvents(db.sqlite, given), postgres |-> P!QueryEvents(db.postgres, given)]

\* GET /events/{id}, GET /incidents/{id}, GET /hosts/{id}
OneEvent(id) == [sqlite |-> S!GetEvent(db.sqlite, id), postgres |-> P!GetEvent(db.postgres, id)]
OneIncident(id) ==
    [sqlite |-> S!GetIncident(db.sqlite, id), postgres |-> P!GetIncident(db.postgres, id)]
OneHost(id) == [sqlite |-> S!GetHost(db.sqlite, id), postgres |-> P!GetHost(db.postgres, id)]
OneRule(id) == [sqlite |-> S!GetRule(db.sqlite, id), postgres |-> P!GetRule(db.postgres, id)]

\* GET /incidents, with the status of the request or without one
IncidentList(statuses) ==
    [sqlite |-> S!QueryIncidents(db.sqlite, statuses),
     postgres |-> P!QueryIncidents(db.postgres, statuses)]

\* GET /hosts, GET /rules, GET /iocs
HostList == [sqlite |-> S!ListHosts(db.sqlite), postgres |-> P!ListHosts(db.postgres)]
RuleList(enabledOnly) ==
    [sqlite |-> S!ListRules(db.sqlite, enabledOnly), postgres |-> P!ListRules(db.postgres, enabledOnly)]
IOCList(mark) == [sqlite |-> S!QueryIOCs(db.sqlite, mark), postgres |-> P!QueryIOCs(db.postgres, mark)]

-----------------------------------------------------------------------------
Alike(answer) == answer.sqlite = answer.postgres

\* creation times are kept by one store and replaced by the other
Undated(rows) == {[r EXCEPT !.created = Unset] : r \in rows}
AlikeButDates(answer) == Undated(answer.sqlite) = Undated(answer.postgres)

\* in any order, and without the alerts that only SQLite loads
SameIncidents(answer) ==
    LET rows(list) == {list[k].row : k \in DOMAIN list}
    IN  rows(answer.sqlite) = rows(answer.postgres)

IdsOf(rows) == {row.id : row \in rows}
Marks == {row.mark : row \in IOCRows} \cup {NoFilter}

\* Each table holds rows under their own keys, and a type and value of an
\* indicator once (the UNIQUE constraint of ioc_entries).
TypeOK ==
    /\ calls \in 0 .. MaxCalls
    /\ \A d \in DOMAIN db :
         /\ \A t \in DOMAIN NoTables : \A i \in DOMAIN db[d][t] : db[d][t][i].id = i
         /\ \A i, j \in DOMAIN db[d].iocs : db[d].iocs[i].mark = db[d].iocs[j].mark => i = j

\* The stores list events of one time in different orders.
Untied == \A a, b \in DOMAIN db.sqlite.events : db.sqlite.events[a].at = db.sqlite.events[b].at => a = b

\* Only SQLite looks at the offset of a query, and it compares times as text.
Comparable(q) == q.offset <= 0 /\ q.since.zone = 0 /\ q.until.zone = 0

\* While both stores have answered every call alike, their hosts, rules,
\* indicators and the incidents in a status are alike for who reads them, and
\* the same alerts belong to an incident; so are the events, one by one, as
\* long as all of them came in UTC, and their pages with and without filters,
\* where no two stored events have one time and the query can be compared.
\* Two hand-written sets of statements (ON CONFLICT in one, OR REPLACE in the
\* other) have the same effect, on the first call and on later ones with the
\* same key.
SameAnswers ==
    agreed =>
      /\ utc => \A id \in IdsOf(EventRows) : Alike(OneEvent(id))
      /\ utc /\ Untied => \A q \in Queries : Comparable(q) => Alike(EventsPage(q))
      /\ \A id \in IdsOf(HostRows) : AlikeButDates(OneHost(id))
      /\ \A id \in IdsOf(RuleRows) : AlikeButDates(OneRule(id))
      /\ AlikeButDates(HostList)
      /\ \A enabledOnly \in BOOLEAN : AlikeButDates(RuleList(enabledOnly))
      /\ \A mark \in Marks : AlikeButDates(IOCList(mark))
      /\ \A status \in Statuses : SameIncidents(IncidentList({status}))
      /\ \A id \in IdsOf(IncidentRows) : S!AlertsOf(db.sqlite, id) = S!AlertsOf(db.postgres, id)

=============================================================================
