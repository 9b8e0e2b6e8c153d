----------------------------- MODULE Retention -----------------------------
(***************************************************************************)
(* The retention manager: a cycle reads the events older than a cutoff     *)
(* page by page into an archive file and then prunes them, while agents    *)
(* and API clients go on storing events, old ones too, and alerts.         *)
(*                                                                         *)
(* A reading of the clock and the timestamp of an event are pairs of the   *)
(* instant and the zone it is written in.  The cutoff is taken in the      *)
(* host's zone (HostZone) and goes into the queries like that, whereas     *)
(* PruneEvents converts it to UTC.                                         *)
(***************************************************************************)
EXTENDS Tables

CONSTANTS RetainedRows,        \* the events that clients may store, with distinct keys
          Evidence,         \* the events that an alert may refer to
          Backends,         \* the stores to consider: "sqlite", "postgres"
          HostZone,
          Keep,             \* RetentionManager.retention
          ChunkSize,
          StatsCap,         \* capacity of statsChan
          MaxClock,         \* bound: readings of the clock
          MaxFailures,      \* bound: failing calls and broken reads
          MaxOffset         \* bound: the offset is counted modulo this, which is more than there
                            \* are events: only PostgreSQL, which ignores it, gets that far

ASSUME RetentionAssumption ==
    /\ ChunkSize \in 1 .. MaxLimit
    /\ StatsCap \in Nat \ {0}
    /\ IsFiniteSet(RetainedRows)
    /\ \A row \in RetainedRows : row.at \in Int /\ row.zone \in Int /\ row.id \in DOMAIN RowId
    /\ \A a, b \in RetainedRows : a.id = b.id => a = b
    /\ Keep \in Int /\ HostZone \in Int
    /\ MaxOffset \in Nat /\ MaxOffset > Cardinality(RetainedRows)
    /\ Backends \subseteq {"sqlite", "postgres"}

VARIABLES backend, tables, clock,
          state,            \* where the worker is
          cutoff, offset,
          written,          \* the ids in the file of this cycle
          archives,         \* name of a file (its cutoff) -> the ids in it
          statsChan,
          failures,
          lost,             \* history: pruned, but in no file
          late,             \* history: stored since the cycle began to read, or lost like that
          missed            \* history: in no file when a read broke off, or lost like that

worker == <<state, cutoff, offset, written, archives>>
retentionVars == <<backend, tables, clock, worker, statsChan, failures, lost, late, missed>>

SQLite == INSTANCE SQLiteStore
Postgres == INSTANCE PostgresStore

Archived == UNION {archives[name] : name \in DOMAIN archives}

RetentionInit ==
    /\ backend \in Backends
    /\ tables = NoTables
    /\ clock = Keep
    /\ state = "waiting"
    /\ cutoff = Unset /\ offset = 0 /\ written = {}
    /\ archives = <<>>
    /\ statsChan = <<>>
    /\ failures = 0
    /\ lost = {} /\ late = {} /\ missed = {}

-----------------------------------------------------------------------------
(* The store's other clients.                                              *)

Ingest(row) ==
    /\ row.at <= clock
    /\ row.id \notin DOMAIN tables.events \cup Archived \cup lost
    /\ tables' = IF backend = "sqlite" THEN SQLite!SaveEvents(tables, {row}).db
                 ELSE Postgres!SaveEvents(tables, {row}).db
    /\ late' = IF state \in {"paging", "pruning"} THEN late \cup {row.id} ELSE late
    /\ UNCHANGED <<backend, clock, worker, statsChan, failures, lost, missed>>

RaiseAlert(id) ==
    /\ id \in DOMAIN tables.events
    /\ id \notin DOMAIN tables.alerts
    /\ tables' = [tables EXCEPT !.alerts = Put(@, [id |-> id, event |-> id])]
    /\ UNCHANGED <<backend, clock, worker, statsChan, failures, lost, late, missed>>

Drain ==
    /\ statsChan # <<>>
    /\ statsChan' = Tail(statsChan)
    /\ UNCHANGED <<backend, tables, clock, worker, failures, lost, late, missed>>

TimePasses ==
    /\ clock < MaxClock
    /\ clock' = clock + 1
    /\ UNCHANGED <<backend, tables, worker, statsChan, failures, lost, late, missed>>

-----------------------------------------------------------------------------
(* The cycle.                                                              *)

Aged(limit, from, until) ==
    LET q == [type |-> NoFilter, severity |-> NoFilter, host |-> NoFilter,
              since |-> [at |-> Unset, zone |-> 0], until |-> [at |-> until, zone |-> HostZone],
              limit |-> limit, offset |-> from]
    IN  IF backend = "sqlite" THEN SQLite!QueryEvents(tables, q) ELSE Postgres!QueryEvents(tables, q)

\* The ticker, the initial query and os.Create, which empties a file of that name.
\* Cycles are an interval apart, so each has a cutoff, and thereby a file, of its own.
\* When the initial query finds nothing there is no file and nothing is pruned;
\* the same when it fails, or breaks off without an error.
StartCycle ==
    /\ state = "waiting"
    /\ cutoff # clock - Keep
    /\ cutoff' = clock - Keep
    /\ written' = {} /\ offset' = 0 /\ late' = late \cap lost /\ missed' = missed \cap lost
    /\ \/ Aged(1, 0, cutoff') = <<>> /\ UNCHANGED <<state, archives, failures>>
       \/ /\ Aged(1, 0, cutoff') # <<>>
          /\ failures < MaxFailures /\ failures' = failures + 1
          /\ UNCHANGED <<state, archives>>
       \/ /\ Aged(1, 0, cutoff') # <<>>
          /\ state' = "paging"
          /\ archives' = [name \in DOMAIN archives \cup {cutoff'} |->
                               IF name = cutoff' THEN {} ELSE archives[name]]
          /\ UNCHANGED failures
    /\ UNCHANGED <<backend, tables, clock, statsChan, lost>>

(* Mutants of ReadPage: the offset moves past the row behind the page; it stays. *)
ReadPageSkipping ==
    /\ state = "paging"
    /\ LET page == Aged(ChunkSize, offset, cutoff)
       IN  /\ archives' = [archives EXCEPT ![cutoff] = @ \cup ToSet(page)]
           /\ written' = written \cup ToSet(page)
           /\ offset' = offset + Len(page) + 1
           /\ state' = IF Len(page) = ChunkSize THEN "paging" ELSE "pruning"
    /\ UNCHANGED <<backend, tables, clock, cutoff, statsChan, failures, lost, late, missed>>
ReadPageAgain ==
    /\ state = "paging"
    /\ LET page == Aged(ChunkSize, offset, cutoff)
       IN  /\ archives' = [archives EXCEPT ![cutoff] = @ \cup ToSet(page)]
           /\ written' = written \cup ToSet(page)
           /\ state' = IF Len(page) = ChunkSize THEN "paging" ELSE "pruning"
    /\ UNCHANGED <<backend, tables, clock, cutoff, offset, statsChan, failures, lost, late, missed>>

ReadPage ==
    /\ state = "paging"
    /\ LET page == Aged(ChunkSize, offset, cutoff)
       IN  /\ archives' = [archives EXCEPT ![cutoff] = @ \cup ToSet(page)]
           /\ written' = written \cup ToSet(page)
           /\ offset' = IF Len(page) = ChunkSize THEN (offset + Len(page)) % MaxOffset ELSE offset
           /\ state' = IF Len(page) = ChunkSize THEN "paging" ELSE "pruning"
    /\ UNCHANGED <<backend, tables, clock, cutoff, statsChan, failures, lost, late, missed>>

\* A page that PostgreSQL answers short, without an error, is taken for the last one.
ReadBrokenPage ==
    /\ state = "paging" /\ backend = "postgres"
    /\ failures < MaxFailures /\ failures' = failures + 1
    /\ \E rows \in Postgres!Shortened(Aged(ChunkSize, offset, cutoff)) :
         /\ archives' = [archives EXCEPT ![cutoff] = @ \cup rows]
         /\ written' = written \cup rows
         /\ missed' = missed \cup (DOMAIN tables.events \ (Archived \cup rows))
    /\ state' = "pruning"
    /\ UNCHANGED <<backend, tables, clock, cutoff, offset, statsChan, lost, late>>

\* PruneEvents: refused where an alert still refers to an event and the
\* connection checks it
Prune ==
    /\ state = "pruning"
    /\ \E enforced \in BOOLEAN :
         LET answer == IF backend = "sqlite" THEN SQLite!PruneEvents(tables, cutoff, enforced)
                       ELSE Postgres!PruneEvents(tables, cutoff)
             pruned == DOMAIN tables.events \ DOMAIN answer.db.events
         IN  /\ tables' = answer.db
             /\ lost' = lost \cup (pruned \ Archived)
             /\ state' = IF answer.ok /\ written # {} THEN "reporting" ELSE "waiting"
    /\ UNCHANGED <<backend, clock, cutoff, offset, written, archives, statsChan, failures, late, missed>>

\* A query, a write to the file or the pruning fails: the cycle is given up.
CycleFails ==
    /\ state \in {"paging", "pruning"}
    /\ failures < MaxFailures
    /\ failures' = failures + 1
    /\ state' = "waiting"
    /\ UNCHANGED <<backend, tables, clock, cutoff, offset, written, archives, statsChan, lost, late, missed>>

Report ==
    /\ state = "reporting"
    /\ Len(statsChan) < StatsCap
    /\ statsChan' = Append(statsChan, cutoff)
    /\ state' = "waiting"
    /\ UNCHANGED <<backend, tables, clock, cutoff, offset, written, archives, failures, lost, late, missed>>

RetentionNext ==
    \/ \E row \in RetainedRows : Ingest(row)
    \/ \E id \in Evidence : RaiseAlert(id)
    \/ Drain
    \/ TimePasses
    \/ StartCycle
    \/ ReadPage
    \/ ReadBrokenPage
    \/ Prune
    \/ CycleFails
    \/ Report

\* The worker is a goroutine that is never blocked while it pages and prunes.
RetentionSpec == RetentionInit /\ [][RetentionNext]_retentionVars /\ WF_retentionVars(ReadPage) /\ WF_retentionVars(Prune)

-----------------------------------------------------------------------------
RetentionTypeOK ==
    /\ state \in {"waiting", "paging", "pruning", "reporting"}
    /\ DOMAIN tables.events \subseteq {row.id : row \in RetainedRows}
    /\ Len(statsChan) <= StatsCap
    /\ written \subseteq Archived

\* An event that was in the store when a cycle began to read is not deleted
\* without being in a file, in spite of paging by offset over rows that
\* insertions move, of failed cycles and of refused prunings.  The exceptions
\* are the rows that a read of PostgreSQL left out without an error.
ArchivedUnlessMissed == lost \subseteq late \cup missed

\* OPERATOR_GUIDE.md, Automated Retention Pruning: "Archives aged events into
\* gzipped JSONL files for compliance retention".  What was there when the
\* cycle began to read is archived before it is deleted, by every store.
ArchivedBeforePruned == lost \subseteq late

\* A cycle on SQLite comes to its end although events keep arriving.
CyclesEnd == (backend = "sqlite" /\ state = "paging") ~> (state \notin {"paging", "pruning"})

\* CHANGELOG.md: "Fixed retention purge bug to support multi-chunk pagination
\* beyond 1,000 events": a cycle comes to its end on every store.
PagingEnds == (state = "paging") ~> (state # "paging")

=============================================================================
