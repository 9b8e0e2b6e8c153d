------------------------------ MODULE Polling ------------------------------
(* The sensors that poll: processes from /proc, ps and Toolhelp32, network   *)
(* connections from /proc/net and iphlpapi, services from systemctl and      *)
(* Get-Service.  Each keeps what it knows, lists what there is at every tick *)
(* and reports the difference.  They differ in when they learn an item       *)
(* (before its report is sent, before any is, or after all are), in whether  *)
(* they ever forget one, in what a failed listing does and in whether a full *)
(* channel stops them or costs a report; so each has its own actions.        *)
EXTENDS SensorFeed, FiniteSets, Functions

CONSTANTS
    PollKinds,      \* the sensors, of PollingKinds
    Keys,           \* PIDs, connections or service names
    Tables,         \* the tables a listing is put together from, in order, or the
                    \* parts of one list that may end early
    TableOf,        \* the table of a key
    MaxChanges,     \* bound: changes of the host
    MaxFailures,    \* bound: listings that fail, as a whole or in part
    MaxTold         \* bound: reports after which a sensor whose context is done
                    \* takes its context's end, not one more tick

PollingKinds == {"linuxProcess", "windowsProcess", "macosProcess", "linuxNetwork",
                 "windowsNetwork", "linuxService", "windowsService"}

ASSUME PollingAssumption ==
    /\ PollKinds \subseteq PollingKinds
    /\ Tables = <<Tables[1], Tables[2]>> /\ Tables[1] # Tables[2]
    /\ TableOf \in [Keys -> {Tables[1], Tables[2]}]
    /\ MaxChanges \in Nat
    /\ MaxFailures \in Nat /\ MaxTold \in Nat

VARIABLES
    world,      \* the state of each item that exists
    version,    \* how often each key appeared or changed
    changes,    \* steps the host has taken
    known,      \* knownPIDs, knownConnections, knownUnits: item -> state
    listing,    \* what the current poll listed
    todo,       \* listed keys still to be looked at by the current poll
    next,       \* the report the poll is about to send, or <<>>
    tables,     \* tables the current poll of /proc/net still has to read
    failures,   \* listings that failed so far
    baseline,   \* the <<key, version>>s the sensor knew from its start
    forgotten   \* the <<key, version>>s it dropped from `known`, or told and did
                \* not learn, while they lasted

pollVars == <<world, version, changes, known, listing, todo, next, tables,
              failures, baseline, forgotten>>
worldVars == <<world, version, changes>>
ghosts == <<baseline, forgotten>>

Services == {"linuxService", "windowsService"}
States == IF kind \in Services THEN {"RUNNING", "STOPPED"} ELSE {"PRESENT"}
Nothing == <<>>
With(f, k, x) == [j \in DOMAIN f \cup {k} |-> IF j = k THEN x ELSE f[j]]
AllTables == {Tables[1], Tables[2]}

PollInit ==
    /\ kind \in PollKinds
    /\ FeedInit
    /\ \E there \in SUBSET Keys : world \in [there -> States]
    /\ version = [k \in Keys |-> 0]
    /\ changes = 0
    /\ known = Nothing
    /\ listing = Nothing
    /\ todo = {}
    /\ next = <<>>
    /\ tables = <<>>
    /\ failures = 0
    /\ baseline = {}
    /\ forgotten = {}

-----------------------------------------------------------------------------
(* The host.                                                                 *)

HostStep(k) ==
    /\ changes < MaxChanges
    /\ changes' = changes + 1
    /\ UNCHANGED <<feedVars, known, listing, todo, next, tables, failures, ghosts>>

(* A process starts, a connection opens, a service is installed or changes   *)
(* its state; the key may be one that was used before.                       *)
Arrive(k) ==
    /\ HostStep(k)
    /\ \E s \in States :
           /\ k \in DOMAIN world => world[k] # s
           /\ world' = With(world, k, s)
    /\ version' = [version EXCEPT ![k] = @ + 1]

Leave(k) ==
    /\ HostStep(k)
    /\ k \in DOMAIN world
    /\ world' = Restrict(world, DOMAIN world \ {k})
    /\ UNCHANGED version

-----------------------------------------------------------------------------
(* Listings.  An item is listed with the state it has now; the version is    *)
(* only carried along for the properties.                                    *)

Listed(missing) ==
    [k \in {k \in DOMAIN world : TableOf[k] \notin missing} |->
        [state |-> world[k], version |-> version[k]]]

StatesOf(list) == [k \in DOMAIN list |-> list[k].state]

New(list) == DOMAIN list \ DOMAIN known
(* Mutant: the states of known services are not compared.                    *)
NewOnly(list) == New(list)

NewOrChanged(list) ==
    New(list) \cup {k \in DOMAIN list \cap DOMAIN known : known[k] # list[k].state}

(* `missing` tables cannot be read this time.                                *)
Fails(missing) ==
    /\ failures' = IF missing = {} THEN failures ELSE failures + 1
    /\ failures' <= MaxFailures

(* ServiceCreate for a new name, ServiceStart or ServiceStop for a changed   *)
(* one; ProcessCreate and NetworkConnect have no such distinction.           *)
ReportType(k, state) ==
    IF kind \notin Services \/ k \notin DOMAIN known THEN "create"
    ELSE IF state = "STOPPED" THEN "stop"
    ELSE "start"

ReportOf(k) ==
    [key |-> k, state |-> listing[k].state, version |-> listing[k].version,
     type |-> ReportType(k, listing[k].state)]

-----------------------------------------------------------------------------
(* Start: the sensors on Linux that watch processes and connections begin    *)
(* with nothing known; the others take a baseline, and start empty when it   *)
(* cannot be read.                                                           *)

Ready == phase = "starting" /\ phase' = "waiting" /\
         UNCHANGED <<kind, sent, taken, errors, cancelled, worldVars, listing,
                     todo, next, tables, forgotten>>

(* Mutant: the baseline is listed and not learnt.                            *)
BaselineUnlearnt(missing) ==
    /\ known' = known
    /\ baseline' = {<<k, version[k]>> : k \in DOMAIN Listed(missing)}
    /\ Fails(missing)

Baseline(missing) ==
    /\ known' = StatesOf(Listed(missing))
    /\ baseline' = {<<k, version[k]>> : k \in DOMAIN Listed(missing)}
    /\ Fails(missing)

StartLinuxProcess ==
    /\ kind = "linuxProcess"
    /\ Ready
    /\ UNCHANGED <<known, failures, baseline>>

StartLinuxNetwork ==
    /\ kind = "linuxNetwork"
    /\ Ready
    /\ UNCHANGED <<known, failures, baseline>>

SnapshotLinuxServices ==
    kind = "linuxService" /\ Ready /\ \E missing \in {{}, AllTables} : Baseline(missing)

SnapshotWindowsServices ==
    kind = "windowsService" /\ Ready /\ \E missing \in {{}, AllTables} : Baseline(missing)

SnapshotMacProcesses ==
    kind = "macosProcess" /\ Ready /\ \E missing \in {{}, AllTables} : Baseline(missing)

SnapshotWindowsProcesses ==
    kind = "windowsProcess" /\ Ready /\ \E missing \in SUBSET AllTables : Baseline(missing)

SnapshotWindowsConnections ==
    kind = "windowsNetwork" /\ Ready /\ \E missing \in SUBSET AllTables : Baseline(missing)

-----------------------------------------------------------------------------
(* The tick: list and compare.                                               *)

Begin(list, keys) ==
    /\ phase = "waiting"
    /\ phase' = "sending"
    /\ listing' = list
    /\ todo' = keys
    /\ UNCHANGED <<kind, sent, taken, cancelled, worldVars, next, baseline>>

(* A poll that cannot list anything returns and keeps what is known, in one  *)
(* of three cases with an error.                                             *)
SkipPoll ==
    /\ phase = "waiting"
    /\ kind \in {"linuxProcess", "windowsProcess"}
    /\ Fails(AllTables)
    /\ errors' \in {errors} \cup (IF kind = "windowsProcess" THEN {errors + 1} ELSE {})
    /\ UNCHANGED <<kind, phase, sent, taken, cancelled, worldVars, known, listing, todo, next,
                   tables, ghosts>>

PollProcFS ==
    /\ kind = "linuxProcess"
    /\ LET list == Listed({}) IN Begin(list, New(list))
    /\ UNCHANGED <<known, tables, failures, errors, forgotten>>

(* A failed query is an empty list, in which nothing is new and from which   *)
(* nothing is forgotten.                                                     *)
QueryThenReport ==
    \E missing \in {{}, AllTables} :
        LET list == Listed(missing) IN
        /\ Fails(missing)
        /\ Begin(list, NewOrChanged(list))
        /\ UNCHANGED <<known, tables, errors, forgotten>>

PollLinuxServices == kind = "linuxService" /\ QueryThenReport
PollWindowsServices == kind = "windowsService" /\ QueryThenReport
PollMacProcesses == kind = "macosProcess" /\ QueryThenReport

(* Mutant: the comparison comes after the learning, and finds nothing.       *)
ReplaceThenCompare(list) ==
    /\ Begin(list, {})
    /\ known' = StatesOf(list)
    /\ UNCHANGED <<forgotten, tables, errors>>

(* Learn and forget everything under the lock, then report.                  *)
Replace(list) ==
    /\ Begin(list, New(list))
    /\ known' = StatesOf(list)
    /\ forgotten' = forgotten \cup
           {<<k, version[k]>> : k \in (DOMAIN known \cap DOMAIN world) \ DOMAIN list}
    /\ UNCHANGED <<tables, errors>>

(* Whatever ends the walk through the list of processes ends it early        *)
(* without notice: what was not reached is forgotten.                        *)
PollToolhelp ==
    /\ kind = "windowsProcess"
    /\ \E missing \in SUBSET AllTables : Fails(missing) /\ Replace(Listed(missing))

(* Any of the tables may be missing from the list, unnoticed.                *)
PollIphlpapi ==
    /\ kind = "windowsNetwork"
    /\ \E missing \in SUBSET AllTables : Fails(missing) /\ Replace(Listed(missing))

(* One of /proc/net/tcp and /proc/net/udp after the other.                   *)
ReadTable(t) ==
    LET all == Listed({})
        list == Restrict(all, {k \in DOMAIN all : TableOf[k] = t})
    IN  listing' = list /\ todo' = New(list)

PollProcNet ==
    /\ kind = "linuxNetwork"
    /\ phase = "waiting"
    /\ cancelled => Len(sent) < MaxTold
    /\ phase' = "sending"
    /\ tables' = Tables
    /\ ReadTable(Head(Tables))
    /\ UNCHANGED <<kind, sent, taken, errors, cancelled, worldVars, known, next,
                   failures, ghosts>>

(* A table that cannot be opened is passed over with an error.               *)
SkipTable ==
    /\ phase = "waiting"
    /\ kind = "linuxNetwork"
    /\ cancelled => Len(sent) < MaxTold
    /\ Fails({Head(Tables)})
    /\ errors' = errors + 1
    /\ phase' = "sending"
    /\ tables' = Tail(Tables)
    /\ ReadTable(Head(tables'))
    /\ UNCHANGED <<kind, sent, taken, cancelled, worldVars, known, next, ghosts>>

-----------------------------------------------------------------------------
(* Sending what is new.                                                      *)

LearnsAsItReports ==
    {"linuxProcess", "macosProcess", "linuxService", "windowsService"}

(* The next item in the listing's order, which is that of a map.             *)
Offer(k) ==
    /\ phase = "sending"
    /\ next = <<>>
    /\ k \in todo
    /\ todo' = todo \ {k}
    /\ next' = <<ReportOf(k)>>
    /\ known' = IF kind \in LearnsAsItReports
                THEN With(known, k, listing[k].state)
                ELSE known
    /\ UNCHANGED <<feedVars, worldVars, listing, tables, failures, ghosts>>

SendReport ==
    /\ phase = "sending"
    /\ next # <<>>
    /\ Put(Head(next))
    /\ next' = <<>>
    /\ UNCHANGED <<kind, phase, taken, errors, cancelled, worldVars, known, listing,
                   todo, tables, failures, ghosts>>

(* The select of the Linux network sensor has a default.                     *)
DropReport ==
    /\ phase = "sending"
    /\ kind = "linuxNetwork"
    /\ next # <<>>
    /\ ~Room
    /\ ~cancelled
    /\ errors' = errors + 1
    /\ next' = <<>>
    /\ UNCHANGED <<kind, phase, sent, taken, cancelled, worldVars, known, listing,
                   todo, tables, failures, ghosts>>

(* The other table, or the end of the poll when there is none or when it     *)
(* cannot be opened.                                                         *)
NextTable ==
    LET rest == Tail(tables)
        Done == phase' = "waiting" /\ tables' = <<>> /\ todo' = {} /\ UNCHANGED listing
    IN  \/ rest = <<>> /\ Done /\ UNCHANGED <<failures, errors>>
        \/ rest # <<>> /\ Fails({Head(rest)}) /\ errors' = errors + 1 /\ Done
        \/ /\ rest # <<>>
           /\ tables' = rest
           /\ ReadTable(Head(rest))
           /\ UNCHANGED <<phase, failures, errors>>

(* Mutant: the send does not listen to the context.                          *)
AbandonNever == FALSE /\ UNCHANGED <<feedVars, pollVars>>

(* The context ends a send that is waiting: the poll returns with the rest   *)
(* unsent, and without what its end would have learnt or forgotten.  The     *)
(* Linux network sensor has told some of it, and may poll once more before   *)
(* it sees the context done.                                                 *)
Abandon ==
    /\ phase = "sending"
    /\ next # <<>>
    /\ cancelled
    /\ next' = <<>>
    /\ \/ /\ kind = "linuxNetwork"
          /\ NextTable
          /\ forgotten' = forgotten \cup
                 {<<k, listing[k].version>> :
                     k \in DOMAIN listing \ (todo \cup {Head(next).key} \cup DOMAIN known)}
       \/ /\ kind # "linuxNetwork"
          /\ phase' = "waiting"
          /\ todo' = {}
          /\ UNCHANGED <<listing, tables, failures, errors, forgotten>>
    /\ UNCHANGED <<kind, sent, taken, cancelled, worldVars, known, baseline>>

Sent == phase = "sending" /\ next = <<>> /\ todo = {}

(* Processes that have gone are forgotten when all reports are out.          *)
FinishProcFS ==
    /\ Sent
    /\ kind = "linuxProcess"
    /\ known' = Restrict(known, DOMAIN known \cap DOMAIN listing)
    /\ forgotten' = forgotten \cup
           {<<k, version[k]>> : k \in (DOMAIN known \cap DOMAIN world) \ DOMAIN listing}
    /\ phase' = "waiting"
    /\ UNCHANGED <<kind, sent, taken, errors, cancelled, worldVars, listing, todo,
                   next, tables, failures, baseline>>

(* A table's connections are learnt and forgotten when it has been read,     *)
(* the dropped ones included.                                                *)
FinishTable ==
    /\ Sent
    /\ kind = "linuxNetwork"
    /\ LET others == {k \in DOMAIN known : TableOf[k] # Head(tables)}
       IN  known' = [k \in DOMAIN listing \cup others |->
                        IF k \in DOMAIN listing THEN listing[k].state ELSE known[k]]
    /\ forgotten' = forgotten \cup
           {<<k, version[k]>> : k \in (DOMAIN known \cap DOMAIN world) \ DOMAIN known'}
    /\ NextTable
    /\ UNCHANGED <<kind, sent, taken, cancelled, worldVars, next, baseline>>

FinishOthers ==
    /\ Sent
    /\ kind \notin {"linuxProcess", "linuxNetwork"}
    /\ phase' = "waiting"
    /\ UNCHANGED <<kind, sent, taken, errors, cancelled, pollVars>>

-----------------------------------------------------------------------------
Tick ==
    \/ PollProcFS \/ PollLinuxServices \/ PollWindowsServices \/ PollMacProcesses
    \/ PollToolhelp \/ PollIphlpapi \/ PollProcNet \/ SkipPoll \/ SkipTable

Begins ==
    \/ StartLinuxProcess \/ StartLinuxNetwork \/ SnapshotLinuxServices
    \/ SnapshotWindowsServices \/ SnapshotMacProcesses \/ SnapshotWindowsProcesses
    \/ SnapshotWindowsConnections

PollStep ==
    \/ Begins \/ Tick
    \/ \E k \in Keys : Offer(k)
    \/ SendReport \/ DropReport \/ Abandon
    \/ FinishProcFS \/ FinishTable \/ FinishOthers

PollNext ==
    /\ kind \in PollKinds
    /\ \/ PollStep
       \/ \E k \in Keys : Arrive(k) \/ Leave(k)
       \/ (Take \/ Cancel \/ End) /\ UNCHANGED pollVars

PollSpec == PollInit /\ [][PollNext]_<<feedVars, pollVars>>

-----------------------------------------------------------------------------
Reports == IF kind \in PollKinds THEN DOMAIN sent ELSE {}

(* No process, connection or service state is reported twice, nor reported   *)
(* although it was there at the start, unless the sensor forgot it while it  *)
(* lasted: because a table or a part of a list could not be read, or, on     *)
(* Linux, because the context ended a poll that had told it.  (knownPIDs and *)
(* knownConnections against the baseline, the eviction and the reuse of keys *)
(* during a poll that waits on a full channel.)                              *)
ToldOnce ==
    \A i \in Reports :
        LET item == <<sent[i].key, sent[i].version>> IN
        item \notin forgotten =>
            /\ item \notin baseline
            /\ \A j \in Reports :
                   sent[j].key = sent[i].key /\ sent[j].version = sent[i].version => i = j

LastTold(k) ==
    LET at == {i \in Reports : sent[i].key = k} IN
    IF at = {} THEN {} ELSE {sent[CHOOSE i \in at : \A j \in at : j <= i].state}

\* reports the Linux network sensor may have dropped, as its errorCount says
Dropped == IF kind = "linuxNetwork" THEN errors ELSE 0

(* What is there and unknown between two polls is reported, unless it goes   *)
(* or changes first, the sensor is cancelled, or the Linux network sensor    *)
(* finds the channel full: what one poll cannot list, a later poll does.     *)
Told(k, v) == \E i \in Reports : sent[i].key = k /\ sent[i].version = v
Unknown(k, v) ==
    phase = "waiting" /\ k \in DOMAIN world \ DOMAIN known /\ version[k] = v
ArrivalsAreTold ==
    \A k \in Keys, v \in 0..MaxChanges :
        Unknown(k, v) ~>
            \/ Told(k, v) \/ version[k] # v
            \/ k \notin DOMAIN world \/ cancelled \/ Dropped > 0

(* A service that stays in one state is in the end known in that state: by   *)
(* the last report of it, or from the baseline when none was needed; however *)
(* often it changed before, between the polls or during one.                 *)
SettledStateIsTold ==
    \A k \in Keys, s \in {"RUNNING", "STOPPED"} :
        <>[](k \in DOMAIN world /\ world[k] = s) =>
            <>(cancelled \/ [](\/ s \in LastTold(k)
                               \/ LastTold(k) = {} /\ k \in DOMAIN known /\ known[k] = s))

(* Every sensor returns once its context is done, also when nobody reads the *)
(* channel any more.                                                         *)
SensorsEnd == cancelled ~> phase = "ended"
=============================================================================
