# Verification of R3TRIVE

TLA+ models of R3TRIVE's detection and response core, the TLC runs that check
them on small instances, and theorems that TLAPS proves about eighteen of them for
every value of the constants.  Source locations are relative to `src/`.

* `PROJECT.json` lists components, runs, mutants (a plausible bug for every
  property, which the property must catch), the lines each definition models,
  findings, hazards and theorems.
* A run is `tlc -config X.cfg M`; a proof check is `tlapm XProofs.tla`.

## 1. Inventory

R3TRIVE is a Go program with three long-running commands that share one
database and no other channel.  Inside a command, goroutines share channels
and mutexes:

```
 sensors --> eventCh --> Pipeline.Start --> callback: correlation engine --> aggregator --+
 (monitor)      |            |   |                                                        |
                |            |   +--> YARA pool          SaveEvent, SaveAlert, SaveIncident
                |            +--> batchCh --> batchWriter --> SaveEvents ---> events      |
                |                                             alerts, incidents <---------+
 API server (serve) ------ UpdateIncidentStatus ------------> incidents
 defend --daemon --------- QueryIncidents, UpdateIncidentStatus <-> incidents --> host
```

| component | state it keeps | operations | hard behaviour | what makes it correct |
|---|---|---|---|---|
| Pipeline `internal/detection/pipeline` | `eventCh`, `batchCh`, `yaraJobCh`, ring, `batch`, wait groups | receive, scan offer, push, notify, forward; collect, tick, flush; shutdown | 2 + sensors + workers goroutines; non-blocking sends; cancellation at any point | callbacks see each event once, in order; what the loop received and misses the store is reported; `Start` returns, and returns quiet |
| Ring buffer `pkg/utils/ringbuffer.go` | items, head, size | Push, Snapshot, Last, Len, Cap | index arithmetic modulo capacity | both readers show the recent items, oldest first |
| Sensors `internal/detection/sensor` | `knownPIDs`, `knownConnections`, `knownUnits`, watch handles, error counts | Start, poll or read, compare, send, Stop | the host changes during a poll that waits on a full channel; tables that cannot be read; queues that overflow; renames in two halves | nothing is told twice or silently taken for known; what stays is told; replaying the events gives the files, but for losses that no event tells of; every sensor ends |
| Correlation engine `internal/correlation/engine.go` | rules, a buffer of events per rule and host | LoadRules, Evaluate | events out of order of their timestamps; a stream that never ends | an alert exactly when enough events of one host fall in a timeframe, none counted twice |
| Scoring `internal/correlation/scorer.go` | none | CalculateRiskScore, CalculateIncidentScore | rounding, clamping, weights that fall against a multiplier that rises | more alerts never lower a score |
| Aggregator `internal/correlation/aggregator.go` | active incident of each host | ProcessAlert | three transactions per alert; restarts; other writers of the same rows | incidents follow the sliding window; rows never forget a member |
| SQLite and PostgreSQL stores `internal/storage` | events, alerts, incidents, hosts, rules, indicators | Save*, Get*, Query*, List*, Update*, Delete*, Prune | several processes; pragmas that hold on one pooled connection; times as text; conflicts resolved by different statements | one set of calls has one effect; pages cover what was asked for |
| Retention `internal/storage/retention.go` | archive files, `statsChan` | ExecutePurgeCycle, background worker | insertions while pages are read; failure between archive and prune; two readings of one cutoff | what a cycle found is not pruned unarchived; a cycle ends |
| Defender `cmd/r3trive/defend.go` | the rows of the current poll | processIncidents | acts on stale rows; crash between action and verdict | acts for cause only; a verdict follows a complete response |
| Response engine `internal/response` | audit log; the host's iptables, files and quarantine | Execute, RespondToIncident, the actions and their inverses | actions of several commands; copies that fail half way; repetition | dry run changes nothing; no file is lost; what was done is logged |
| Playbooks `internal/response/playbook` | playbooks, executions | EvaluateAndExecute, ExecutePlaybook, ExecuteRollback | failure strategies; parameters read from the incident; inverses in reverse order | a failed step stops what it should and nothing else; a rollback restores contents |
| REST API `internal/api` | rate limiter's buckets | status updates, ingestion, queries, management | concurrent requests | an analyst's decision is stored; the two stores answer alike |
| Rate limiter `internal/api/middleware/ratelimit.go` | a bucket for each address | allow, with a clean-up | forgotten clients | decides as if nobody were forgotten |
| AI router `internal/ai/router`, `internal/ai/client.go` | health of each backend | Chat with fallbacks, cooldown and retries | availability read before, recorded after the call; overlapping chats | the first backend that works answers; every chat ends |
| Plugins `internal/plugins` | plugins and sandboxes | Register, Unregister, ProcessEvent, Execute | a timeout leaves a goroutine behind that reads and writes captured variables, and a map and pointers that all copies of an event share | what is returned too late is dropped |
| Threat intelligence `internal/intelligence` | maps of indicators, a bloom filter, a list of subnets | AddEntry, MatchEvent | several indexes of one feed; spellings | the newest entry of an indicator is found |
| Attack chains, windows, anomaly detectors | sliding windows | Add, prune, score | clocks | what falls out of a window no longer counts |
| AI analyst, audit, output, telemetry, config | caches, none | parsing, HTTP, formatting | I/O | outside of what the models state |

`PROJECT.json` lists every component with its status and every hazard with
its line and the properties aimed at it.

## 2. Modules

| module | models | abstraction |
|---|---|---|
| `Delivery` | what the pipeline promises | events are the numbers 1, 2, ... of their acceptance |
| `Pipeline` | `pipeline.go`: every goroutine and channel of `Start` and `batchWriter` | an event is its number; normalising and enriching keep it |
| `SensorFeed` | context and event channel of a platform sensor, with its reader | the reports themselves |
| `Polling` | process, network and service sensors of Linux, Windows and macOS | a PID, connection or service is a key; an item that comes back under its key has a new version |
| `Watching` | file sensors of Windows and Linux, the registry sensor | the system's queue as records of an action and a path, losses included |
| `RecentLog`, `RingBuffer` | the bounded log; `ringbuffer.go` | items are model values |
| `Scoring` | `scorer.go`, `Severity.Weight` | exact fractions for `float64` |
| `Correlation` | `engine.go` | a condition is the set of values its operator accepts; buffered events are positions in the history |
| `Incidents` | `aggregator.go`, the tables it writes, the status handler | an incident is named by its first alert |
| `Defense` | `defend.go`, `response/engine.go`, the playbook engine, on top of `Incidents` | files, processes and addresses are model values |
| `HostActions` | `actions_posix.go` and the playbooks' rollback | iptables counts equal rules; a file is its content, without owner and mode; a base name knows those that go on where it ends |
| `Tables` | rows, keys, results and conflicts both stores share | a row keeps the columns that the calls tell apart |
| `SQLiteStore`, `PostgresStore` | every call of `sqlite.go` and `postgres.go`, as functions of the tables | a time is an instant with the zone it is written in |
| `Stores` | both stores behind the API's handlers and the agent | one stream of calls, answered by both |
| `Retention` | `retention.go` on either store, beside its other clients | a file is the set of the events in it |
| `RateLimiter` | `ratelimit.go` | ages in place of times; a token per unit of time |
| `AIRouter` | `router.go`, `RetryingClient` | a backend is up or down |
| `PluginHost` | `manager.go`, `sandbox.go` | the fields of a copy are the sequence of the plugins that enriched it; what the copies share is the set of plugins that wrote there |
| `IOCEngine` | `ioc.go` without the parsing of feeds | a hash has two bits; a subnet is the set of its addresses |
| `PipelineProofs`, `CorrelationProofs`, `ScoringProofs`, `IncidentsProofs`, `DefenseProofs` | theorems about the modules of those names | |
| `SensorProofs` | theorems about `Polling` and `Watching` | |
| `StorageProofs` | theorems about `Stores` and `Retention`, with both stores and `Tables` | |
| `ServicesProofs` | theorems about `RingBuffer`, `RateLimiter`, `AIRouter`, `PluginHost`, `IOCEngine` and `HostActions` | |

`Defense` extends `Incidents`, which extends `Scoring`: agent, analyst and
defender are three processes on one set of tables.  `Stores` and `Retention`
instantiate both stores over `Tables`; `Polling` and `Watching` extend
`SensorFeed`.  `Delivery` and `RecentLog` are abstract specifications,
implemented by `Pipeline` and `RingBuffer` under the refinement mappings at
the end of those modules.  The `MC` modules hold instances.  `MCSensors`,
`MCStorage` and `MCServices` let one of several components move, chosen in
the initial state, while the variables of the others rest: they share no
state in the code.

### Pipeline

`Start` is the program counter `main`: `select`, `process` (an event was
received), `forward` (callbacks done), then the waits of the shutdown
sequence.  `Receive`, `Process` and `Forward` are one loop body cut where
another goroutine can see the difference: the send to `batchCh` is a step of
its own, since the writer may have freed a place by then.  `Process` keeps
scan offer, `ring.Push` and callbacks together, because nothing else reads
`ring` or `seen`.  `batchWriter` is `writer`: `idle` is its select, `saving`
a flush by size or ticker, `closing` the flush after the channel was closed.
A blocking sensor goes from `polling` to `sending` and back; a detached one
offers without blocking, and `StartReturns` takes it out of the wait group.
`SaveOK` needs `~cancelled`: `SaveEvents` begins and commits its transaction
under the context that the shutdown cancels.  `seen`, `stored`, `dropped`,
`lost` and `accepted` are history.

`Receive` and `BeginShutdown` are both enabled while `eventCh` holds events and
the context is done, as in the `select`: what is in the channel then stays there
when `Start` returns, and neither warning mentions it (`pipeline.go:147`).
`Accounted` is therefore about the events that `Start` has received.

### Sensors

The variable `kind` says which sensor runs; each has its own actions, because
they differ in what the properties are about.  Some learn an item before they
send its report, some after (`known` against `todo` and `next`); the macOS
sensor never forgets a PID; the Linux network sensor drops a report on a full
channel and counts an error, the others wait; the Windows network sensor
takes a table it cannot query for an empty one; the Windows process
sensor ends a listing at any error and goes on with the part it has, so that its
listing may lack any keys.  A poll that waits goes on
with the `listing` it began with, while processes end and PIDs are reused:
`version` tells the items of one key apart.  `baseline` and `forgotten` are
history: what the first poll took for known, and what a sensor dropped though
it lasted, or told in a poll that the context ended before the Linux network
sensor had learnt of it.

In `Watching` the system loses records when its queue is full: Windows
discards it and the next read returns nothing, inotify appends a mark that
names no watch, ETW loses what comes (`Overflown`); only the first is counted as
an error.  Files may be renamed and moved onto paths that exist.  Windows records
the removal of what was there; inotify does not, and as the Linux sensor calls
both halves of a move `FileRename` (`linux/file.go:180`), the event of the new
name reads like the leaving of a path that is there.  `replaced` remembers that
this happened, and `ReportsReplay` excuses it.  Opening a registry key is an event
of its own, reading a value is none.  A batch read at once is turned into events one or two records
at a time, since `windows/file.go` pairs the halves of a rename only when they
follow each other in one read.

### Correlation

`Evaluate` holds the mutex, so it is one action over all rules.  The history
`events` names every event by its position; `state` holds positions where
the code holds copies.  Timestamps may lie up to `Skew` behind the newest.

### Incidents

`ProcessAlert` changes the memory and then calls the store three times; each
call is an action (`SaveEvent`, `SaveAlert`, `SaveIncident`), any of them may
fail instead (`SaveFails`, after which `ProcessAlert` returns) and the agent
may be restarted between any two (`Restart`).  The callback runs one alert at
a time, so the next `ProcessAlert` waits for `saving = "done"`.  The analyst's
`SetStatus` interleaves with all of it.

### Defense and HostActions

`Poll` reads the rows and their alerts at one moment.  Each incident is then
`Skip`ped or begun with one of its plans: the steps of the matching
playbooks, in any order of playbooks (they are kept in a Go map), followed by
the direct response.  Each step `Succeeds` or `Fails`; `Finish` writes the
verdict or fails to.  The mode is chosen when the defender starts and kept by
`passive`.  Isolation affects the host of the defender, wherever the incident
came from, as in the code.

`HostActions` opens up what a step of `Defense` takes as one: `block_ip` is
two commands of which the second may fail, isolation ignores its errors, and a
file goes into and out of the quarantine by open, copy and remove, each of which
may fail.  A file is looked for in the quarantine by a prefix of the names there
(`NamesUnder`): base name `x` also finds the copy of `x.log`.  A plan is
a playbook's list of steps; `Undo` collects the compensation steps that
`ExecuteRollback` runs backwards.

### Stores and Retention

A call is an operator from the tables and its arguments to the new tables and
whether it succeeded; the two modules are written from the two sets of SQL
statements, which resolve conflicts differently (`OR REPLACE`, `OR IGNORE`,
`ON CONFLICT DO UPDATE`).  `enforced` says whether the connection that SQLite's
pool hands out is the one on which `New` switched foreign keys on, and `busy`
whether it fails at another writer.  `agreed` remembers whether all calls so
far had the same outcome on both.

A listing is given by places: the place of a row is the number of rows that
come before it (`Sooner`), and a page is a range of places.  Rows of one time
are ordered by `RowId`.  SQLite reads the events backwards over
`idx_events_timestamp`, whose entries of one time are in the order of their
rowids; each key is inserted at most once in `Retention`, so that some value of
the constant `RowId` is the order of a behaviour's insertions.  PostgreSQL
promises nothing about rows of one time.  `SameAnswers` therefore compares pages
only while no two stored events have one time (`Untied`), and only for queries that
SQLite does not read differently (`Comparable`: no offset, bounds in UTC).  Events
in other zones are among the rows of the run; `utc` remembers whether one has come.

`Retention` cuts a cycle at every query: between two pages, and between the
last page and the pruning, clients store events of any age and raise alerts.
The cutoff is a reading of the clock in the host's zone, which the queries of
SQLite compare as text and the pruning as an instant.  On PostgreSQL a row that
cannot be scanned is skipped and `rows.Err` is never asked, so that a read may
break off without an error (`Shortened`, `ReadBrokenPage`); the cycle takes the
short page for its last one.  `missed` remembers what was in no file then, `late`
what was stored since the cycle began to read.

### Services

`RateLimiter` carries a second limiter, `full`, that forgets nobody, to
compare with.  `AIRouter` has three steps per backend (`Check`, the call with
its retries, `Succeed` or `Fail`), interleaved among the callers.
`PluginHost` keeps the goroutines of `Execute` as `jobs`: a job reads
`currentEvt` when it runs, which may be after its timeout, and what it returns then
is dropped.  The copies of an event share their map of enrichments and the details
behind their pointers, though, and a job may write there until it ends, in time or
not (`WriteInPlace`, `written`).  `IOCEngine` keeps
`feed`, everything that was ever added, and compares what a match finds with
it.

## 3. Runs

Deadlock is checked in `Pipeline`, where `Finished` is the only end.  In the
other runs behaviours end when their bounds are reached.

| run | checks | bounds, and why they suffice |
|---|---|---|
| `Pipeline` | four invariants, `DeliveryPromise` | seven events of a blocking and a detached sensor for a batch of two and a `batchCh` of four, so the channel overflows during a write; a YARA queue of one, which overflows too; flushes by size, ticker and closing all occur |
| `PipelineLive` | `ShutdownCompletes`, `EventsAreShown`, `BatchesSettle` | two blocking sensors for one place in `eventCh`: one of them is blocked at the shutdown |
| `MCSensors` | `ToldOnce`, `ReportsReplay`, `ArrivalsAreTold`, `SettledStateIsTold`, `SensorsEnd` | ten sensors; two keys in one of two tables for a channel of one place, so that a poll waits between them and may be ended there; two changes of the host, enough for a key to end and be used again during it; one listing that fails or is cut short. Two paths, of which one or both exist at first, so that one is moved onto the other; a queue of three records, the most that one change makes, and two changes, so that a rename is split over two reads, halves of two renames meet, and the queue overflows |
| `MCCorrelation` | four invariants | four events of a named and a nameless host for thresholds of two and three; a stamp may lie one unit back in a window of two |
| `MCIncidents` | two invariants, `RowsOnlyGrow` | three alerts of two hosts over three instants with a window of one, a restart, an analyst; the alerts' scores are those for which weighing members by their number instead of their place would lower an incident's score |
| `MCDefense` | three invariants, `ResponseIsComplete`, `ResponseIsBegun` | two alerts that join one incident while it is acted on, both playbooks of `rules/playbooks`, both modes, a restart of each process |
| `MCStorage` | `StorageTypeOK`, `SameAnswers`, `ArchivedUnlessMissed`, `CyclesEnd` | four calls, enough to save, conflict, change and prune; rows chosen so that each conflicts with another, one event in a zone of its own and at the time of another; in `Retention` three events, two of one instant, for pages of one row, so that a cycle takes up to four pages and insertions move the rows in between |
| `MCServices` | eight invariants, `ImplementsLog`, `PrimaryComesBack` | a full ring of four with any number of pushes; two clients; two chats, two backends and two changes of what is up; three plugins and one late goroutine; two entries among nine spellings; plans that repeat a block and an isolation, two files, of which the name of one goes on with a dot where the other's ends, one failing command |

The following runs are expected to find a violation: each states what a
document or comment says, and the code does otherwise.

| run | claim | what the code does |
|---|---|---|
| `DefenseFailure` | `defend.go:160`: a partial failure is marked investigating | failures of the direct response are not seen |
| `DefenseKill` | `defend.go:31`: processes are terminated | alerts are loaded without their events, so no process is known |
| `RetentionZone` | `OPERATOR_GUIDE.md:88`: aged events are archived | on SQLite and a host west of UTC the query for the archive and the pruning read the cutoff differently, and hours of events are deleted unarchived |
| `RetentionPaging` | `CHANGELOG.md:28`: pagination beyond 1,000 events | on PostgreSQL the offset is ignored: the first full page is read for ever |

### Differences from the documents that need no run

* `sensor.go:48`: "Start blocks until the context is cancelled".  The Linux
  file and network sensors return at once (`linux/file.go:82`,
  `linux/network.go:64`) and their monitors outlive the pipeline.
  `QuietWhenStopped` therefore speaks of the sensors that block.
* `SYSTEM_ARCHITECTURE.md:920`: events are buffered while the storage is
  unavailable.  A batch that cannot be written is discarded
  (`pipeline.go:228`); the model has it as `lost`.
* `SYSTEM_ARCHITECTURE.md:921`: the oldest event is dropped.  A full `batchCh`
  drops the newest (`pipeline.go:207`).
* `SYSTEM_ARCHITECTURE.md:499`: scores of 70 and 90 raise a severity.  None does.
* `SYSTEM_ARCHITECTURE.md:501`: updates are atomically persisted.  They are
  three transactions (`aggregator.go:161`), and an alert can be left without
  its incident.
* `SOC_WORKFLOW.md:184`: nothing leads from contained to open.  The agent's
  next save of an incident writes open (`aggregator.go:166`).
* `DATABASE_SCHEMA.md:1148`: "strict functional parity across storage
  implementations".  The stores differ in the offset of `QueryEvents`, in the
  order of `QueryIncidents` and the alerts it loads, in the alerts of
  `GetIncident`, in what a status update or a deletion of a missing row
  returns, and in a conflict of two indicators.  `SameAnswers` states what does
  agree: hosts, rules, indicators, the incidents in a status and the alerts of an
  incident, and events under the conditions of section 2.  Besides these
  differences it leaves out the listing of incidents without a status, the order
  of the other listings, the creation times that one store keeps and the other
  replaces, and everything after a call that only one store refused.
* `OPERATOR_GUIDE.md:88`, beyond `RetentionZone`: events that `ArchivedUnlessMissed`
  excuses are deleted unarchived.  One is stored between the last page and the
  pruning (`retention.go:111`; `late`).  Others are left out by a PostgreSQL read
  that breaks off, whose error nobody asks for (`postgres.go:368`; `missed`).
* `sandbox.go:28`: "timeout and panic isolation".  What a plugin wrote into the
  event's map of enrichments, or through its pointers, before it failed is in the
  event, and one that timed out may go on writing there when the event has been
  returned (`manager.go:142`; `written`).  `LateReturnsAreDropped` is about what
  plugins return.  Two that write the map at once are a data race, on which Go
  ends the process; the model has the writes, not the crash.
* `CHANGELOG.md:22`: "reversible playbook execution".  Of two files whose base
  names are equal, or of which one goes on with a dot where the other ends, either
  is restored for the other (`actions_posix.go:93`), and a restored file has the
  owner and mode of the copy.  `RollbackRestores` excludes such names (`Distinct`)
  and compares contents.

### Fairness

* The goroutines of the pipeline keep running: weak fairness on each
  (`PipelineLive`).  Go's `select` picks at random among the ready cases, so a
  case that is ready again and again is taken in the end: strong fairness on
  `ctx.Done` in the main loop and in a sensor, and on the ticker in
  `batchWriter`.  `SaveEvents` and `ScanFile` return, one way or the other.
  Nothing makes a sensor observe something, a write succeed, or the user
  cancel.
* In `MCSensors` a sensor's goroutine runs and the pipeline reads its channel
  until the context is done, not longer; `End` is a `select` case as above.
* `defend --daemon` has a ticker and commands of the operating system that
  return, so some step of it is always taken: weak fairness on `Defender`
  as a whole.  Agent and analyst owe nothing, and the defender restarts
  finitely often (`MaxStops`).
* The retention worker is a goroutine that nothing blocks between `StartCycle`
  and the pruning: weak fairness on reading a page or pruning.
* In `MCServices` the clock advances, and a chat that was begun goes on, since
  its requests end by a timeout.  No backend owes an answer.

### Further hazards

`PROJECT.json` lists those that shaped the models.  Smaller ones, which no
property is stated for:

* `correlation/engine.go:142`: the ID of an alert is the clock in nanoseconds,
  so two rules that match one event within a tick of a coarse clock share one.
* `cmd/r3trive/defend.go:166`: the verdict replaces what an analyst decided
  since the poll; `defend.go:144`: an incident whose status could not be
  written is processed again when its files are gone already, and stays open.
* `plugins/manager.go:90`: a plugin may be closed while a goroutine that timed
  out still uses it.
* `intelligence/ioc/ioc.go:168`: an error of the CSV reader that stays is
  passed over for ever.
* `storage/retention.go:96`: a cycle that failed leaves a partial file, whose
  events the next cycle writes once more into another one.
* `detection/sensor/linux/network.go:152`: when the context ends a poll half way,
  the connections it has told are not learnt, and a tick that the select takes
  before `ctx.Done` tells them again.  `ToldOnce` leaves them out (`forgotten`).
* `detection/sensor/linux/network.go:123`: the key of a connection is its four
  addresses and ports, so two sockets that share them are told twice in the
  poll that first lists them; the model has one key for both.
* `detection/sensor/linux/file.go:167`: an overflow of inotify's queue is not
  counted; `windows/registry.go` counts nothing of what ETW loses.

Some properties hold with exceptions that are the code's own, each stated in the
property; within them a worse behaviour would not be noticed:

| property | what it excuses |
|---|---|
| `Accounted` | events in `eventCh` when the loop ends |
| `ToldOnce`, `ArrivalsAreTold` | what a sensor forgot while it lasted, because a table could not be read; what was dropped on a full channel |
| `ReportsReplay` | records that inotify or ETW lost; on Linux, a move onto a path that exists |
| `GroupedByWindow` | a group split by a restart |
| `RowsOnlyGrow` | the status, which a save from memory overwrites |
| `ActionsAreJustified` | a status that changed since the poll |
| `ArchivedUnlessMissed` | the rows a PostgreSQL read left out; what was stored since the cycle began |
| `CyclesEnd` | a refused pruning, which is an end too, although nothing is deleted then |
| `SameAnswers` | what section 3 lists |
| `LateReturnsAreDropped` | writes in place |
| `IndicatorsAreFound` | which of several entries of one subnet is told |
| `PrimaryComesBack` | a primary kept away by ever new cancellations: they are bounded by `MaxFlips` |
| `RollbackRestores` | two files with one base name, or with one that goes on with a dot where the other ends |

## 4. Proofs

TLAPS proves for every value of the constants that the named assumptions
allow.  Each assumption says what the code or its input guarantees:

| assumption | and why the code justifies it |
|---|---|
| `PipelineAssumption`, `RingAssumption`, `LimiterAssumption`, `RouterAssumption` | sizes, capacities and limits are positive; sensors and YARA workers are finitely many (a slice of sensors, twice as many workers as processors, at least four); backends have names |
| `CorrelationAssumption` | windows and skew are durations, a condition accepts a set of values |
| `IncidentsAssumption` | an alert's severity is one of four and its score in 0 to 100, which `RiskScoreInRange` shows of every score `CalculateRiskScore` returns; an empty path is no path; the window is positive |
| `DefenseAssumption` | the playbooks are finitely many, each with a list of steps and an ID of its own; a threshold is a number |
| `PluginAssumption` | plugins are numbered in their order; the number of late goroutines is a number |
| `IOCAssumption` | `netip.ParseAddr` accepts no blank text, and accepts the trimmed lower-case spelling of what it accepts |
| `PollingAssumption`, `WatchingAssumption` | TCP and UDP are two tables, each connection is in one of them; the channel and the system's queue have a place; the rest bounds |
| `HostAssumption` | the content of a whole file is not that of one cut short; a playbook is a list of steps, each an action, its argument and what to do when it fails (`playbook.Step`); a base name is found under itself |
| `LimitAssumption`, `RowIdAssumption` | the limits of a page are positive; no two rows have one rowid |
| `StoresAssumption` | rows have their columns, times are numbers; an incident is saved again with the creation time it was opened with (`aggregator.go:117`).  Times and zones of events are free: what depends on them is a condition of `SameAnswers` |
| `RetentionAssumption` | finitely many events with distinct keys; a page is not larger than the store allows (`ChunkSize` is 1,000); numbers are numbers |

The theorems, which `PROJECT.json` lists with what each establishes:

* `PipelineProofs`: `TypeCorrect`, `OrderPreserved`, `NothingVanishes`,
  `ShownCorrect`, `StopIsQuiet`, `PromiseKept`, `ShutdownNeverStuck`,
  `ShutdownIsBounded`.
* `CorrelationProofs`: `BuffersAreBounded`, `AlertsEarned`, `CountsOnce`,
  `BurstsAreSeen`.
* `ScoringProofs`: `ScoreInRange`, `RiskScoreInRange`, `ScoreOfOne`,
  `ScoreNeverFalls`.
* `IncidentsProofs`: `Invariance`, `TypeCorrect`, `NothingForgotten`,
  `WindowSlides`, `RowsNeverWeaken`.
* `DefenseProofs`: `DefenseInvariance`, `DefenseTypeCorrect`,
  `ActionsJustified`, `PassiveHarmless`, `ResponseComplete`.
* `SensorProofs`: `ReportedOnce`, `NothingLearntSilently`, `EventsReplay`.
* `StorageProofs`: `RetentionTypeCorrect`, `ArchivedFirst`, `YoungAreKept`,
  `ArchivesKept`, `CyclesAreShort`, `StoresAgree`, `StorageTypeCorrect`.
* `ServicesProofs`: `TypeCorrect`, `LogImplemented`, `LastCorrect` (ring
  buffer), `CleanupInvisible`, `FirstAnswers`, `ChatsAreShort`,
  `LateReturns`, `IndicatorsFound`, `EffectsAudited`, `FilesKept`, `RollbackRestored`.

### Pipeline, ring buffer and correlation

`ShownCorrect` and the ring buffer's `TypeCorrect` have no run of their own:
`DeliveryPromise` and `ImplementsLog` need them.  `TypeOK` of the pipeline is inductive: the program counters step by step
(`ControlStep`), and the buffers with their capacities (`DataStep`), which
need that `hold` has an element exactly while an event is processed and that
an idle writer's batch is not full.

`InOrder` is inductive together with the fact that the events of `hold` and
`eventCh` are the last ones accepted and that everything behind them is
smaller (`OrderInv`).  The proof cuts the concatenation `Flow` at the channel
an action touches: upstream of `batchCh` (`UpstreamStep`) and downstream of it
(`DownstreamStep`).  `OrderInv` also says that the callbacks have seen exactly
the numbers below those, from which `ShownInOrder` follows.

`Accounted` needs `OrderInv`, since the stages of an increasing `Flow` are
disjoint (`StagesApart`) and end with `eventCh`, whose events are the last accepted
(`Received`): then an event that leaves the writer for `lost` is in
no stage any more.  `QuietWhenStopped` follows from what each wait of the
shutdown has established (`ShutdownStep`): the batch channel is closed only
when all sensors have returned, and stays so; a writer that is done has
emptied its channel.  `PromiseKept` maps every step to `Accept`, `Show`,
`Keep` or a stutter, and uses `OrderInv` for `Keep`.

Two theorems are the safety half of `ShutdownCompletes`.  `NeverStuck` says that
after the cancellation, until `Start` has returned, one of the steps that a
goroutine takes by itself has its guard true (`Runnable`): no event need be
observed for it, and no save succeed.  It needs `WaitInv`: a sensor that `wg`
counts has not ended, and a channel whose reader is waited for has been closed.
`StepsLeft` adds up what each goroutine can still do once `Start` has left its
loop: places of `eventCh` that a sensor may fill, a collection, flush or close of
the writer, a job or scan of a worker.  `ShutdownIsBounded` shows that every step
lowers it and that `ShutdownBound`, which the capacities and the numbers of
sensors and workers make up, is never exceeded.  What is left to TLC is the
fairness: that a goroutine which can go on does so, and that `Start`'s `select`
takes the cancellation.

`TypeOK` of the ring buffer is inductive because until the buffer is full head
and size are equal.  `LogImplemented` splits a push by whether there is room;
when there is none, `Snapshot` shifts by one (`Shifted`), by cases on whether
the head wraps.  `LastCorrect` compares Last and Snapshot slot by slot.

`NothingCountsTwice` is inductive only with the fact that what an alert has
counted is no longer buffered for its rule and host (`SpentIsGone`).  A new
alert counts the present event and buffered ones; a buffered one has the host
of its key, so an alert that had counted it would, by `AlertsAreEarned`, be of
that host too, and its events are gone (`NewCountsAreFresh`).
`AlertsAreEarned` needs that no event is stamped more than `Skew` before an
earlier one (`Stamped`), and that a latest stamp exists, without which nothing
is known of `Latest`.  `CountInv` is the conjunction, with the types; each
conjunct has its lemma about a call (`CallKeepsTypes` to `CallCountsOnce`).
`NoBurstMissed` is the other direction, and needs that whatever matched since
the last alert of a rule and host and is not older than the timeframe before
the latest stamp is still buffered (`OpenIsBuffered`): a call drops only what
its own event's cutoff drops (`OldUncounted`).

### Sensors

`ToldOnce` compares any two reports, so `PollInv` says of all that was ever seen
(`Seen`: the baseline, the reports and the one on its way) that it is no newer
than the host and than the listing being gone through (`SeenOK`), that what is
still to be looked at is news or was forgotten (`TodoOK`, `NextOK`), and that
what lasts is known as it is (`Learnt`), except that the Linux network sensor
learns a table only at its end (`GoneThrough`).  The host may move during all of
it: versions only grow, and an item with its old version is as it was
(`HostKeeps`).

`ReportsReplay` is about a moment at which everything has been read.
`WatchInv` extends it to all others: as long as nothing was lost, the records
read and queued would lead from what the events say so far to the files there
are (`QueueLeads`).  `Meaning` is what a record does to the files as each sensor
takes it; a change of the host appends records that mean what it did
(`OneRecord`, `TwoRecords`), also when it takes the name of something there is
(`NameTaken`, `TakesName`), which on Linux is where the records lead elsewhere and
`replaced` is set; and an event means what the one or two records it
stands for mean (`SameMeaning`, `RenameEvent`).  That a loss is an error counted
or about to be read (`LossShows`) makes `errors = 0` enough on Windows.

`NothingLearntSilently` is the safety half of `ArrivalsAreTold`: an item that a
sensor knows is not new to it and will never be told, so it must have been told
already or have been there at the start.  During a poll that may be still due:
the sensors that learn first have the item to look at or about to go out, the
others at most about to go out (`KnownBacked`), and what the Linux network sensor
has gone through of a table is told before it is learnt (`ListedBacked`).  A drop
on a full channel is learnt all the same, and a cancelled poll leaves the rest
untold; both are outside `Clean`, as in `ArrivalsAreTold`.

### Scores

`CalculateIncidentScore` sums weights over a list of any length, so that what
it computes is proved by induction on the length.  `Induction` is derived from
`SmallerIsWellFounded`, for the set of the numbers for which a fact holds, and
`Recursion` shows that a function defined by its value at 0 and its step
exists and obeys its equation; `TotalsEquation` and `DenominatorEquation`
apply it to the sums.  A score is a sum of diminished members times a
multiplier, rounded and cut off at 100; another member takes nothing from the
others (`TotalsAppend`), the multiplier never falls (`CampaignGrows`), and
rounding and cutting off keep the order of fractions (`ClampedMonotone`).
`RowsNeverWeaken` rests on `ScoreNeverFalls`; in the run `MCIncidents` a scorer that
lowers a score violates `RowsOnlyGrow`.  Nothing says that an
incident's score is at least that of each of its alerts, and it may be lower:
an alert of 90 after one of 0 gives an incident of 83.

### Incidents

`RowsCoverMembers` and `GroupedByWindow` are about rows, and the rows are
written from the memory of the agent, which forgets at a restart and may be
ahead of the rows when a save failed.  `IInv` says how the three are
related: the history of the alerts, by host and by incident (`HistoryOK`);
that an active incident is the one of the last alert of its host, and covers
all that incident's alerts of this run (`ActiveOK`); that rows are covered and
below what memory will write next (`RowsOK`, `Ahead`); and what the saves of
the alert being processed have still to write (`SavingOK`).  A host without an
active incident has had no alert since the restart, which is why an incident
cannot be reopened.  `RowsOnlyGrow` is a step property: every action but
`SaveIncident` leaves the members and severities of the rows alone
(`SameRowsGrow`), and that one writes what is ahead (`SaveIncidentGrows`).

### Defense

`DInv` adds to `IInv` that the defender's snapshot is one that the tables had:
its alerts are a part of those of the incident now (`SnapshotOK`), and alerts
are only added (`AlertsGrow`), so that a cause in the snapshot remains one
(`CausesGrow`).  Each step of a plan has a `Cause`: a playbook that matches the
incident and asks for it, or the direct response to one of its alerts
(`PlansCaused`); each effect on the host goes back to one (`FileCaused`,
`IsolationCaused`), which gives `ActionsAreJustified`.  For
`ResponseIsComplete`, what is `Owed` to an incident is either done or in the
remaining plan, until the verdict is written.

### Stores and Retention

`NewestFirst` lists every row at its place because the places of a finite table
are 0 to n - 1, each taken once (`PlacesTaken`, `NewestFirstLists`); a page that
is shorter than asked for therefore holds everything from its first place on
(`PageCovers`).

`ArchivedFirst` needs the moments between two pages: `PagesCover` says that an
old event is in the file, or is `late` or `missed`, or has its place at the offset or
behind.  Insertions only raise the places of what is there (`GrowthRaises`), and
what moves over the boundary is written twice at worst.  A short page covers the
rest, unless it was cut short, and what it then leaves out is `missed`; so all is
covered when the pruning begins (`AllCovered`).  The bound
on the offset is above the number of events and never reached on SQLite.  The
theorem has a hypothesis, that on SQLite the host is not west of UTC: else the
query for the pages, as text, leaves out what the pruning deletes.  The run
`RetentionZone` violates the property there, so it cannot be dropped.
What is about a cycle's pages alone holds in every zone (`PagingInv`).

`YoungAreKept` follows from the cutoff, which is the retention time behind a clock
that goes on while the cycle runs.  Its hypothesis is about the rows: SQLite
compares the time of an event as it was written, and one written in a zone west of
UTC has an earlier text and goes before its time; TLC finds that behaviour with a
row in such a zone.  `ArchivesKept` rests on the names of the files: `os.Create`
would empty a file of the same cutoff, but the cutoffs only rise (`NamesInv`), as
two cycles do not begin at one tick of a clock that is not set back.
`CyclesAreShort` is the safety half of `CyclesEnd`: the offset counts the pages of
a cycle, and is within the number of rows (`AgedWithin`) because a page that is
not short had rows up to it.

`StoresAgree` rests on `StoresInv`: the tables of each store are well formed,
and while all calls were answered alike they are equal, up to the creation times
of hosts, rules and indicators, which one store keeps and the other replaces
(`SameTables`).  Each call has a lemma that says so of its two statements
(`SaveEventsAlike` to `SaveIOCAlike`), where the outcomes matter: a refusal by a
foreign key, a missing row or a second key of an indicator is exactly where the
tables would part.  `SameTablesAnswer` then goes through the queries.

### Services

`CleanupIsInvisible` is inductive with the types (`LimiterInv`).  A tick fills
the record of a client as it fills the limiter that forgets nobody, also when
the age has stopped counting at ten minutes (`RefilledFills`).  Who is
forgotten has not been seen for ten minutes, in which the bucket has filled,
and a client without a record starts with a full one (`ForgottenAreFull`,
`CleanedAgrees`); it is here that ten minutes must suffice for `Burst` tokens.

`AnswersAreFirst` speaks of finished chats only.  Its strengthening
`RouterInv` adds that a chat on its way has failed at, or passed over, exactly
the backends before the one it is at (`OnItsWay`).  Each step of a chat moves
it by one backend or ends it, and no step of another chat touches its record,
whatever it does to the shared health of the backends (`OneChat`).
`ChatsAreShort` counts the steps a chat has left at its backend and at those
after it (`StepsOf`): each look, attempt and failure lowers the count
(`GoesOnCounts`, `AttemptCounts`), and nothing that the others do raises it.

`LateReturnsAreDropped` needs what a goroutine nobody waits for may hold: an event
read when it ran, so that its output may even be the present one with a
plugin twice.  `PluginInv` says that only the job whose serial `Execute` waits
for can be accepted, and that this one reads the present event, extends it by
its own plugin, and stands behind all that succeeded before it (`OnTime`).
The events of others may be anything, and `written` plays no part.

`IndicatorsAreFound` compares four maps, a filter and a list with the feed.
`IOCInv` says of each map that it holds, for each mark a feed entry of its type
lower-cases to, the newest such entry (`MapOK`); of the filter that the bits of
every hash are set; of the list that it holds the subnets in the order of their
arrival (`CidrsOK`), so that the first match is the one the code returns
(`SmallestExists`).  The domains are a map like the others, in which a
destination is looked up as well (`MatchDomain`).

`EffectsAreAudited` is proved for any number of executions at once.  `HostInv`
says that an execution which copies or removes does so for the action at the
head of its plan, and that what its playbook has done is the part of the plan
that is gone.  `FilesSurvive` is proved under `Active = 1`, the defender's own
loop, as in the run: with two executions it does not hold (see section 5).
`FileInv` follows one content through a move: until the copy in the quarantine
is whole the file is on the disk, and until the copy out of it is whole it is in
the quarantine (`MoveOK`); what is in the quarantine otherwise is whole
(`VaultOK`).

`RollbackRestores` is about the end of a rollback; `RollInv` says of each
moment before it what is still to be taken back.  The steps owed (`Owed`) are
the list of inverses while the playbook acts, and the rest of the plan while it
is undone, so that a rollback begins with nothing to show.  The machine is the
one the playbook found, plus a rule of each side for every `unblock_ip` owed for
an address (`RulesOwed`), a jump of each side for every `unisolate_host`, with a
chain exactly while one is owed (`JumpsOwed`), and without the files whose
`unquarantine_file` is owed, each in the quarantine with its content, and
nothing else there (`FilesOwed`).  A copy that is being made is left out of both
sides (`DiskNow`, `VaultNow`) and is one of the target's (`Underway`); `Times`
counts equal steps in a list, and the counting lemmas (`TimesTail`,
`TimesInFront`) say what an action adds or takes away.  What a prefix
finds in the quarantine is the file itself where `Distinct` holds.  The theorem has two
hypotheses.  `Active = 1`: beside another execution the machine is not the one
that was found.  `Invertible`: a playbook of `block_ip`, `isolate_host` and
`quarantine_file`; one that unblocks or restores has steps for which
`ExecutePlaybook` notes no inverse, and its rollback does not take them back.

### What remains to TLC

* Liveness: `ShutdownCompletes`, `EventsAreShown`, `BatchesSettle`,
  `ArrivalsAreTold`, `SettledStateIsTold`, `SensorsEnd`, `ResponseIsBegun`,
  `CyclesEnd`, `PrimaryComesBack`: fairness is beyond the prover, and so is
  `ENABLED`, in whose place `Runnable` lists guards.  The safety halves of
  `ShutdownCompletes`, `CyclesEnd` and `ArrivalsAreTold` are proved.
* The properties of the runs that expect a violation, which the code does not
  have.

## 5. What is not modelled

* The Windows variants of the response actions (`netsh`, `taskkill`); the
  operating system's binary formats; the eBPF manager, which loads nothing;
  the macOS file and network sensors, which only wait for the context; the
  mock sensor.
* Two executions of a playbook at once, by the API's handler
  (`api/handlers/response.go:63`) and by the defender: `Active` is 1 in the
  run.  With 2, a file that takes the place of one being quarantined can be
  removed unseen; no document promises otherwise.
* Owner, group and mode of files: `HostActions` compares contents.
* The mutex of the Linux service sensor, which is held during a send and which
  `Health` and `Stop` need, and the race of `CancelIoEx` with a read of the Windows
  watcher that is about to begin.
* An alert query that fails inside `QueryIncidents` is ignored by the code;
  `Snapshot` loads all alerts.
* Rules with equal IDs, which share a buffer; the repository's rules have
  distinct ones.  Negative timeframes.
* Attack chains, windows and anomaly detectors: not called by the agent.
* Hunter, investigator, Sigma and feeds, the AI analyst, configuration, host
  audit, output, telemetry: parsing, queries, formatting and HTTP, without
  state that a step could leave wrong.
* What a scan, a normaliser, an enricher, a regular expression or a language
  model computes; formatting and logging.
* `MinIncidentRiskScore`, which the aggregator never reads.

## 6. Plan

1. The window and the attack chain; the windows of the anomaly detectors.
2. The Windows response actions beside the POSIX ones.
