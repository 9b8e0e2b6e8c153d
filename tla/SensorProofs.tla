---------------------------- MODULE SensorProofs ----------------------------
(* Theorems about the sensors, proved for every set of keys, tables, paths   *)
(* and for every bound: what Polling reports, it reports once; and whoever   *)
(* replays the reports of Watching has the files.                            *)
EXTENDS Polling, Watching, ScoringProofs, SequenceTheorems

(* The items that a polling sensor has taken for known at its start or has   *)
(* reported, and those it is about to report, with their versions.           *)
ItemOf(r) == <<r.key, r.version>>
Past == baseline \cup {ItemOf(sent[i]) : i \in DOMAIN sent}
Seen == Past \cup {ItemOf(next[i]) : i \in DOMAIN next}

Report == [key : Keys, state : States, version : Nat, type : {"create", "start", "stop"}]
Entry == [state : States, version : Nat]

PollTypes ==
    /\ kind \in PollKinds
    /\ phase \in {"starting", "waiting", "sending", "ended"}
    /\ sent \in Seq(Report)
    /\ next = <<>> \/ (\E r \in Report : next = <<r>>)
    /\ DOMAIN world \subseteq Keys /\ world \in [DOMAIN world -> States]
    /\ version \in [Keys -> Nat]
    /\ DOMAIN known \subseteq Keys /\ known \in [DOMAIN known -> States]
    /\ DOMAIN listing \subseteq Keys /\ listing \in [DOMAIN listing -> Entry]
    /\ todo \subseteq DOMAIN listing
    /\ phase # "sending" => todo = {} /\ next = <<>>
    /\ phase = "starting" => sent = <<>> /\ baseline = {}

(* While a poll sends, its listing is no newer than the host, and what it    *)
(* lists is as it was listed unless its version has changed.                 *)
IsListing(list) ==
    \A k \in DOMAIN list :
        /\ list[k].version <= version[k]
        /\ k \in DOMAIN world /\ list[k].version = version[k] => list[k].state = world[k]

ListingOK ==
    phase = "sending" =>
        /\ IsListing(listing)
        /\ kind = "linuxNetwork" =>
               /\ tables = Tables \/ tables = Tail(Tables)
               /\ \A k \in DOMAIN listing : TableOf[k] = Head(tables)
        /\ kind \in {"windowsProcess", "windowsNetwork"} => known = StatesOf(listing)

(* Nothing seen is newer than the host, or than the listing it is from.      *)
SeenOK ==
    \A x \in Seen :
        /\ x \in Keys \X Nat
        /\ x[2] <= version[x[1]]
        /\ phase = "sending" /\ x[1] \in DOMAIN listing => x[2] <= listing[x[1]].version

(* What is still to be looked at, and what is about to be sent, is news.     *)
TodoOK ==
    \A k \in todo : <<k, listing[k].version>> \in Seen => <<k, listing[k].version>> \in forgotten

NextOK ==
    \A i \in DOMAIN next :
        /\ next[i].key \in DOMAIN listing \ todo
        /\ next[i].version = listing[next[i].key].version
        /\ ItemOf(next[i]) \in Past => ItemOf(next[i]) \in forgotten

(* What was seen and lasts is known as it is, except that the Linux network  *)
(* sensor learns what it has gone through of a table when it is at its end.  *)
Lasts(x) == x \notin forgotten /\ x[1] \in DOMAIN world /\ x[2] = version[x[1]]
Knows(k) == k \in DOMAIN known /\ known[k] = world[k]
GoneThrough(k) == kind = "linuxNetwork" /\ phase = "sending" /\ k \in DOMAIN listing \ todo

Learnt == \A x \in Seen : Lasts(x) => Knows(x[1]) \/ GoneThrough(x[1])

PollInv == PollTypes /\ ListingOK /\ SeenOK /\ TodoOK /\ NextOK /\ Learnt /\ ToldOnce

-----------------------------------------------------------------------------
(* What a listing holds.                                                     *)
LEMMA ListedFacts ==
    ASSUME PollTypes, NEW missing
    PROVE  LET list == Listed(missing)
           IN  /\ DOMAIN list \subseteq DOMAIN world
               /\ DOMAIN list = {k \in DOMAIN world : TableOf[k] \notin missing}
               /\ \A k \in DOMAIN list : list[k].state = world[k] /\ list[k].version = version[k]
               /\ list \in [DOMAIN list -> Entry]
               /\ DOMAIN list \subseteq Keys
               /\ StatesOf(list) = [k \in DOMAIN list |-> world[k]]
               /\ StatesOf(list) \in [DOMAIN list -> States]
  <1> DEFINE list == Listed(missing)
  <1>1. DOMAIN list = {k \in DOMAIN world : TableOf[k] \notin missing}
    BY DEF Listed
  <1>2. \A k \in DOMAIN list : list[k] = [state |-> world[k], version |-> version[k]]
    BY DEF Listed
  <1>3. \A k \in DOMAIN list : world[k] \in States /\ version[k] \in Nat
    BY <1>1 DEF PollTypes
  <1>4. list = [k \in DOMAIN list |-> list[k]]
    BY DEF Listed
  <1> HIDE DEF list
  <1>5. list \in [DOMAIN list -> Entry]
    BY <1>2, <1>3, <1>4 DEF Entry
  <1>6. DOMAIN list \subseteq Keys
    BY <1>1 DEF PollTypes
  <1>7. StatesOf(list) = [k \in DOMAIN list |-> world[k]]
    BY <1>2 DEF StatesOf
  <1>8. StatesOf(list) \in [DOMAIN list -> States]
    BY <1>3, <1>7
  <1>9. /\ DOMAIN list \subseteq DOMAIN world
        /\ \A k \in DOMAIN list : list[k].state = world[k] /\ list[k].version = version[k]
    <2>1. DOMAIN list \subseteq DOMAIN world
      BY <1>1
    <2>2. ASSUME NEW k \in DOMAIN list PROVE list[k].state = world[k] /\ list[k].version = version[k]
      <3>1. list[k] = [state |-> world[k], version |-> version[k]]
        BY <1>2
      <3> QED BY ONLY <3>1
    <2> QED BY <2>1, <2>2
  <1> QED BY <1>1, <1>5, <1>6, <1>7, <1>8, <1>9 DEF list

(* A step at which only the environment or the end of a poll shows: nothing  *)
(* is seen, listed, learnt or forgotten.                                     *)
LEMMA RestKeeps ==
    ASSUME PollInv,
           UNCHANGED <<kind, sent, next, world, version, known, listing, todo, tables,
                       baseline, forgotten>>,
           \/ phase' = phase
           \/ /\ phase' \in {"waiting", "ended"}
              /\ todo = {} /\ next = <<>>
              /\ kind # "linuxNetwork" \/ phase # "sending"
    PROVE  PollInv'
  <1> USE DEF PollInv
  <1>1. /\ Past' = Past /\ Seen' = Seen
    BY DEF Seen, Past, ItemOf
  <1>2. PollTypes'
    BY DEF PollTypes, States, Report, Entry
  <1>3. ListingOK'
    BY DEF ListingOK, IsListing, StatesOf
  <1>4. SeenOK'
    BY <1>1 DEF SeenOK
  <1>5. TodoOK'
    BY <1>1 DEF TodoOK
  <1>6. NextOK'
    BY <1>1 DEF NextOK, ItemOf
  <1>7. Learnt'
    BY <1>1 DEF Learnt, Lasts, Knows, GoneThrough
  <1>8. ToldOnce'
    BY DEF ToldOnce, Reports
  <1> QED BY <1>2, <1>3, <1>4, <1>5, <1>6, <1>7, <1>8

(* A change of the host: an item that is there with its version is as before.*)
LEMMA HostKeeps ==
    ASSUME PollInv,
           UNCHANGED <<kind, phase, sent, next, known, listing, todo, tables, baseline, forgotten>>,
           version' \in [Keys -> Nat],
           DOMAIN world' \subseteq Keys, world' \in [DOMAIN world' -> States],
           \A k \in Keys :
               /\ version[k] <= version'[k]
               /\ k \in DOMAIN world' /\ version'[k] = version[k]
                      => k \in DOMAIN world /\ world'[k] = world[k]
    PROVE  PollInv'
  <1> USE DEF PollInv
  <1>1. /\ Past' = Past /\ Seen' = Seen
    BY DEF Seen, Past, ItemOf
  <1>2. \A k \in Keys : version[k] \in Nat /\ version'[k] \in Nat
    BY DEF PollTypes
  <1>3. PollTypes'
    BY DEF PollTypes, States, Report, Entry
  <1>4. ListingOK'
    <2>1. ASSUME NEW k \in DOMAIN listing, IsListing(listing)
          PROVE  /\ listing[k].version <= version'[k]
                 /\ k \in DOMAIN world' /\ listing[k].version = version'[k]
                        => listing[k].state = world'[k]
      <3>1. k \in Keys /\ listing[k].version \in Nat
        BY DEF PollTypes, Entry
      <3>2. /\ listing[k].version <= version[k]
            /\ k \in DOMAIN world /\ listing[k].version = version[k] => listing[k].state = world[k]
        BY <2>1 DEF IsListing
      <3>3. version[k] <= version'[k] /\ version[k] \in Nat /\ version'[k] \in Nat
        BY <1>2, <3>1
      <3>4. listing[k].version = version'[k] => version'[k] = version[k] /\ listing[k].version = version[k]
        BY <3>1, <3>2, <3>3
      <3> QED BY <3>1, <3>2, <3>3, <3>4
    <2>2. IsListing(listing) => IsListing(listing)'
      BY <2>1 DEF IsListing
    <2> QED BY <2>2 DEF ListingOK, StatesOf
  <1>5. \A x \in Seen : x \in Keys \X Nat /\ x[1] \in Keys /\ x[2] \in Nat /\ x[2] <= version[x[1]]
    BY DEF SeenOK
  <1>6. SeenOK'
    <2>1. \A x \in Seen : x[2] <= version'[x[1]]
      <3> SUFFICES ASSUME NEW x \in Seen PROVE x[2] <= version'[x[1]]
        OBVIOUS
      <3>1. x[2] \in Nat /\ version[x[1]] \in Nat /\ version'[x[1]] \in Nat
            /\ x[2] <= version[x[1]] /\ version[x[1]] <= version'[x[1]]
        BY <1>2, <1>5
      <3> QED BY <3>1
    <2> QED BY <1>1, <2>1 DEF SeenOK
  <1>7. TodoOK'
    BY <1>1 DEF TodoOK
  <1>8. NextOK'
    BY <1>1 DEF NextOK, ItemOf
  <1>9. Learnt'
    <2> SUFFICES ASSUME NEW x \in Seen, Lasts(x)'
                 PROVE  Knows(x[1])' \/ GoneThrough(x[1])'
      BY <1>1 DEF Learnt
    <2>1. x[1] \in Keys /\ x[2] \in Nat /\ version[x[1]] \in Nat /\ version'[x[1]] \in Nat
          /\ x[2] <= version[x[1]] /\ version[x[1]] <= version'[x[1]]
      BY <1>2, <1>5
    <2>2. x[2] = version'[x[1]]
      BY DEF Lasts
    <2>3. version'[x[1]] = version[x[1]] /\ x[2] = version[x[1]]
      BY <2>1, <2>2
    <2>4. x[1] \in DOMAIN world /\ world'[x[1]] = world[x[1]]
      BY <2>1, <2>3 DEF Lasts
    <2>5. Lasts(x)
      BY <2>3, <2>4 DEF Lasts
    <2> QED BY <2>4, <2>5 DEF Learnt, Knows, GoneThrough
  <1>10. ToldOnce'
    BY DEF ToldOnce, Reports
  <1> QED BY <1>3, <1>4, <1>6, <1>7, <1>8, <1>9, <1>10

(* The beginning, the rest or the end of a poll, with nothing on its way: a  *)
(* listing of the host as it is, or none.  It is enough that what is seen    *)
(* and lasts is known, and that what is to be looked at was not seen.        *)
LEMMA PollKeeps ==
    ASSUME PollInv,
           UNCHANGED <<kind, sent, world, version>>, next' = <<>>,
           phase' \in {"waiting", "sending"},
           baseline' = baseline \/ (phase = "starting" /\ baseline' \in SUBSET {<<k, version[k]>> : k \in Keys}),
           DOMAIN known' \subseteq Keys, known' \in [DOMAIN known' -> States],
           forgotten \subseteq forgotten',
           DOMAIN listing' \subseteq Keys, listing' \in [DOMAIN listing' -> Entry],
           todo' \subseteq DOMAIN listing',
           phase' # "sending" => todo' = {},
           phase' = "sending" =>
               /\ DOMAIN listing' \subseteq DOMAIN world
               /\ \A k \in DOMAIN listing' :
                      listing'[k].state = world[k] /\ listing'[k].version = version[k]
               /\ kind = "linuxNetwork" =>
                      /\ tables' = Tables \/ tables' = Tail(Tables)
                      /\ \A k \in DOMAIN listing' : TableOf[k] = Head(tables')
               /\ kind \in {"windowsProcess", "windowsNetwork"} => known' = StatesOf(listing'),
           \A x \in Past' : Lasts(x)' => Knows(x[1])',
           \A k \in todo' : <<k, version[k]>> \in Past' => <<k, version[k]>> \in forgotten'
    PROVE  PollInv'
  <1> USE DEF PollInv
  <1>1. Seen' = Past'
    BY DEF Seen
  <1>2. \A k \in Keys : version[k] \in Nat
    BY DEF PollTypes
  <1>3. /\ ToldOnce'
        /\ PollTypes'
        /\ \A x \in Past' : x \in Keys \X Nat /\ x[2] <= version[x[1]]
    <2>1. CASE baseline' = baseline
      <3>1. Past' = Past
        BY <2>1 DEF Past, ItemOf
      <3>2. Past \subseteq Seen
        BY DEF Seen
      <3>3. PollTypes'
        BY <2>1 DEF PollTypes, States, Report, Entry
      <3>4. ToldOnce'
        BY <2>1 DEF ToldOnce, Reports
      <3> QED BY <3>1, <3>2, <3>3, <3>4 DEF SeenOK
    <2>2. CASE phase = "starting" /\ baseline' \in SUBSET {<<k, version[k]>> : k \in Keys}
      <3>1. sent' = <<>>
        BY <2>2 DEF PollTypes
      <3>2. Past' = baseline'
        BY <3>1 DEF Past
      <3>3. PollTypes'
        BY <2>2 DEF PollTypes, States, Report, Entry
      <3>4. ToldOnce'
        BY <3>1 DEF ToldOnce, Reports
      <3>5. \A x \in baseline' : \E k \in Keys : x = <<k, version[k]>>
        BY <2>2
      <3>6. \A x \in baseline' : x \in Keys \X Nat /\ x[2] <= version[x[1]]
        BY <1>2, <3>5
      <3> QED BY <3>2, <3>3, <3>4, <3>6
    <2> QED BY <2>1, <2>2
  <1>4. ListingOK'
    <2>1. ASSUME phase' = "sending" PROVE IsListing(listing)'
      <3> SUFFICES ASSUME NEW k \in DOMAIN listing'
                   PROVE  listing'[k].version <= version[k] /\ listing'[k].state = world[k]
        BY DEF IsListing
      <3>1. k \in Keys /\ listing'[k].version = version[k] /\ listing'[k].state = world[k]
        BY <2>1
      <3> QED BY <1>2, <3>1
    <2> QED BY <2>1 DEF ListingOK, IsListing, StatesOf
  <1>5. SeenOK'
    <2>1. ASSUME NEW x \in Past', phase' = "sending", x[1] \in DOMAIN listing'
          PROVE  x[2] <= listing'[x[1]].version
      BY <1>3, <2>1
    <2> QED BY <1>1, <1>3, <2>1 DEF SeenOK
  <1>6. TodoOK'
    <2>1. \A k \in todo' : phase' = "sending" /\ listing'[k].version = version[k]
      OBVIOUS
    <2> QED BY <1>1, <2>1 DEF TodoOK
  <1>7. NextOK'
    BY DEF NextOK
  <1>8. Learnt'
    BY <1>1 DEF Learnt
  <1> QED BY <1>3, <1>4, <1>5, <1>6, <1>7, <1>8

(* Something seen that lasts is known, when no poll of /proc/net is on.      *)
LEMMA SeenIsKnown ==
    ASSUME PollInv, NEW x \in Past, Lasts(x)
    PROVE  /\ x \in Keys \X Nat /\ x = <<x[1], x[2]>>
           /\ Knows(x[1]) \/ GoneThrough(x[1])
           /\ phase # "sending" \/ kind # "linuxNetwork" => Knows(x[1])
  <1>1. x \in Seen
    BY DEF Seen
  <1>2. x \in Keys \X Nat
    BY <1>1 DEF PollInv, SeenOK
  <1> QED BY <1>1, <1>2 DEF PollInv, Learnt, GoneThrough

LEMMA BeginsKeeps ==
    ASSUME PollInv, Begins
    PROVE  PollInv'
  <1>1. PollTypes /\ phase = "starting" /\ todo = {} /\ next = <<>> /\ sent = <<>>
    BY DEF PollInv, PollTypes, Begins, Ready, StartLinuxProcess, StartLinuxNetwork,
           SnapshotLinuxServices, SnapshotWindowsServices, SnapshotMacProcesses,
           SnapshotWindowsProcesses, SnapshotWindowsConnections
  <1>2. /\ phase' = "waiting"
        /\ UNCHANGED <<kind, sent, taken, errors, cancelled, worldVars, listing, todo, next,
                       tables, forgotten>>
    BY DEF Begins, Ready, StartLinuxProcess, StartLinuxNetwork,
           SnapshotLinuxServices, SnapshotWindowsServices, SnapshotMacProcesses,
           SnapshotWindowsProcesses, SnapshotWindowsConnections
  <1>3. CASE StartLinuxProcess \/ StartLinuxNetwork
    BY <1>1, <1>2, <1>3, RestKeeps DEF StartLinuxProcess, StartLinuxNetwork, worldVars
  <1>4. CASE \E missing : Baseline(missing)
    <2>1. PICK missing : Baseline(missing)
      BY <1>4
    <2> DEFINE list == Listed(missing)
    <2>2. known' = StatesOf(list) /\ baseline' = {<<k, version[k]>> : k \in DOMAIN list}
      BY <2>1 DEF Baseline
    <2>3. /\ DOMAIN list \subseteq DOMAIN world /\ DOMAIN list \subseteq Keys
          /\ StatesOf(list) = [k \in DOMAIN list |-> world[k]]
          /\ StatesOf(list) \in [DOMAIN list -> States]
      BY <1>1, ListedFacts
    <2> HIDE DEF list
    <2>4. Past' = baseline'
      BY <1>1, <1>2 DEF Past
    <2>5. DOMAIN known' = DOMAIN list /\ \A k \in DOMAIN list : known'[k] = world[k]
      BY <2>2, <2>3
    <2>6. \A x \in Past' : Knows(x[1])'
      BY <1>2, <2>2, <2>4, <2>5 DEF Knows, worldVars
    <2>7. baseline' \in SUBSET {<<k, version[k]>> : k \in Keys}
      BY <2>2, <2>3
    <2>8. DOMAIN known' \subseteq Keys /\ known' \in [DOMAIN known' -> States]
      BY <2>2, <2>3, <2>5
    <2>9. DOMAIN listing \subseteq Keys /\ listing \in [DOMAIN listing -> Entry]
      BY <1>1 DEF PollTypes
    <2> QED BY <1>1, <1>2, <2>6, <2>7, <2>8, <2>9, PollKeeps DEF worldVars
  <1> QED BY <1>3, <1>4 DEF Begins, SnapshotLinuxServices, SnapshotWindowsServices,
             SnapshotMacProcesses, SnapshotWindowsProcesses, SnapshotWindowsConnections

(* A poll that lists before it looks at what it knows.                       *)
LEMMA ComparesKeeps ==
    ASSUME PollInv, kind # "linuxNetwork", kind \notin {"windowsProcess", "windowsNetwork"},
           NEW missing, NEW keys, Begin(Listed(missing), keys),
           keys \subseteq NewOrChanged(Listed(missing)),
           UNCHANGED <<known, forgotten>>
    PROVE  PollInv'
  <1> DEFINE list == Listed(missing)
  <1>1. PollTypes /\ next = <<>>
    BY DEF PollInv, PollTypes, Begin
  <1>2. /\ DOMAIN list \subseteq DOMAIN world /\ DOMAIN list \subseteq Keys
        /\ list \in [DOMAIN list -> Entry]
        /\ \A k \in DOMAIN list : list[k].state = world[k] /\ list[k].version = version[k]
    BY <1>1, ListedFacts
  <1>3. /\ phase = "waiting" /\ phase' = "sending" /\ listing' = list /\ todo' = keys
        /\ UNCHANGED <<kind, sent, world, version, next, baseline>>
    BY DEF Begin, worldVars
  <1>4. keys \subseteq {k \in DOMAIN list : ~ Knows(k)}
    BY <1>2 DEF NewOrChanged, New, Knows
  <1> HIDE DEF list
  <1>5. \A x \in Past' : Lasts(x)' => Knows(x[1])'
    <2> SUFFICES ASSUME NEW x \in Past, Lasts(x) PROVE Knows(x[1])
      BY <1>3 DEF Past, ItemOf, Lasts, Knows
    <2> QED BY <1>3, SeenIsKnown
  <1>6. \A k \in todo' : <<k, version[k]>> \in Past' => <<k, version[k]>> \in forgotten'
    <2> SUFFICES ASSUME NEW k \in keys, <<k, version[k]>> \in Past, <<k, version[k]>> \notin forgotten
                 PROVE  FALSE
      BY <1>3 DEF Past, ItemOf
    <2>1. Lasts(<<k, version[k]>>)
      BY <1>2, <1>4 DEF Lasts
    <2> QED BY <1>3, <1>4, <2>1, SeenIsKnown
  <1>7. DOMAIN known \subseteq Keys /\ known \in [DOMAIN known -> States]
    BY <1>1 DEF PollTypes
  <1> QED BY <1>1, <1>2, <1>3, <1>4, <1>5, <1>6, <1>7, PollKeeps

(* A poll that learns and forgets first.                                     *)
LEMMA ReplaceKeeps ==
    ASSUME PollInv, kind \in {"windowsProcess", "windowsNetwork"},
           NEW missing, Replace(Listed(missing))
    PROVE  PollInv'
  <1> DEFINE list == Listed(missing)
  <1>1. PollTypes /\ next = <<>>
    BY DEF PollInv, PollTypes, Replace, Begin
  <1>2. /\ DOMAIN list \subseteq DOMAIN world /\ DOMAIN list \subseteq Keys
        /\ list \in [DOMAIN list -> Entry]
        /\ \A k \in DOMAIN list : list[k].state = world[k] /\ list[k].version = version[k]
        /\ StatesOf(list) = [k \in DOMAIN list |-> world[k]]
        /\ StatesOf(list) \in [DOMAIN list -> States]
    BY <1>1, ListedFacts
  <1>3. /\ phase = "waiting" /\ phase' = "sending" /\ listing' = list
        /\ todo' = DOMAIN list \ DOMAIN known
        /\ UNCHANGED <<kind, sent, world, version, next, baseline>>
        /\ known' = StatesOf(list)
        /\ forgotten' = forgotten \cup
               {<<k, version[k]>> : k \in (DOMAIN known \cap DOMAIN world) \ DOMAIN list}
    BY DEF Replace, Begin, New, worldVars
  <1> HIDE DEF list
  <1>4. DOMAIN known' = DOMAIN list /\ \A k \in DOMAIN list : known'[k] = world[k]
    BY <1>2, <1>3
  <1>5. \A x \in Past' : Lasts(x)' => Knows(x[1])'
    <2> SUFFICES ASSUME NEW x \in Past, Lasts(x)' PROVE Knows(x[1])'
      BY <1>3 DEF Past, ItemOf
    <2>1. Lasts(x)
      BY <1>3 DEF Lasts
    <2>2. Knows(x[1]) /\ x = <<x[1], x[2]>>
      BY <1>3, <2>1, SeenIsKnown
    <2>3. x[1] \in DOMAIN list
      BY <1>3, <2>2 DEF Lasts, Knows
    <2> QED BY <1>3, <1>4, <2>3 DEF Knows
  <1>6. \A k \in todo' : <<k, version[k]>> \in Past' => <<k, version[k]>> \in forgotten'
    <2> SUFFICES ASSUME NEW k \in DOMAIN list \ DOMAIN known, <<k, version[k]>> \in Past,
                        <<k, version[k]>> \notin forgotten
                 PROVE  FALSE
      BY <1>3 DEF Past, ItemOf
    <2>1. Lasts(<<k, version[k]>>)
      BY <1>2 DEF Lasts
    <2> QED BY <1>3, <2>1, SeenIsKnown DEF Knows
  <1> QED BY <1>1, <1>2, <1>3, <1>4, <1>5, <1>6, PollKeeps

(* Reading one of the tables of /proc/net.                                   *)
LEMMA ReadTableFacts ==
    ASSUME PollTypes, NEW t, ReadTable(t)
    PROVE  /\ DOMAIN listing' = {k \in DOMAIN world : TableOf[k] = t}
           /\ DOMAIN listing' \subseteq DOMAIN world /\ DOMAIN listing' \subseteq Keys
           /\ \A k \in DOMAIN listing' :
                  listing'[k].state = world[k] /\ listing'[k].version = version[k]
           /\ listing' \in [DOMAIN listing' -> Entry]
           /\ todo' = DOMAIN listing' \ DOMAIN known
  <1> DEFINE all == Listed({})
             keys == {k \in DOMAIN all : TableOf[k] = t}
  <1>1. /\ DOMAIN all = {k \in DOMAIN world : TableOf[k] \notin {}}
        /\ \A k \in DOMAIN all : all[k].state = world[k] /\ all[k].version = version[k]
        /\ all \in [DOMAIN all -> Entry]
        /\ DOMAIN all \subseteq Keys
    BY ListedFacts
  <1>2. listing' = [k \in keys |-> all[k]] /\ todo' = DOMAIN listing' \ DOMAIN known
    BY DEF ReadTable, Restrict, New
  <1> HIDE DEF all
  <1>3. DOMAIN listing' = keys /\ \A k \in keys : listing'[k] = all[k] /\ all[k] \in Entry
    BY <1>1, <1>2
  <1>4. keys = {k \in DOMAIN world : TableOf[k] = t} /\ keys \subseteq Keys
    BY <1>1
  <1>5. \A k \in keys : listing'[k].state = world[k] /\ listing'[k].version = version[k]
    BY <1>1, <1>3
  <1> HIDE DEF keys
  <1>6. listing' \in [keys -> Entry]
    BY <1>2, <1>3
  <1> QED BY <1>2, <1>3, <1>4, <1>5, <1>6

(* Going on to a table, or ending the poll, with nothing on its way.         *)
LEMMA NextTableKeeps ==
    ASSUME PollInv, kind = "linuxNetwork", phase \in {"waiting", "sending"},
           UNCHANGED <<kind, sent, world, version, baseline>>, next' = <<>>,
           DOMAIN known' \subseteq Keys, known' \in [DOMAIN known' -> States],
           forgotten \subseteq forgotten',
           \A x \in Past : Lasts(x)' => Knows(x[1])',
           \/ phase' = "waiting" /\ todo' = {} /\ listing' = listing
           \/ /\ phase' = "sending"
              /\ tables' = Tables \/ tables' = Tail(Tables)
              /\ ReadTable(Head(tables'))
              /\ \A k \in DOMAIN world : TableOf[k] = Head(tables') /\ k \in DOMAIN known'
                                           => k \in DOMAIN known
    PROVE  PollInv'
  <1>1. PollTypes
    BY DEF PollInv
  <1>2. Past' = Past
    BY DEF Past, ItemOf
  <1>3. CASE phase' = "waiting" /\ todo' = {} /\ listing' = listing
    <2>1. DOMAIN listing \subseteq Keys /\ listing \in [DOMAIN listing -> Entry]
      BY <1>1 DEF PollTypes
    <2> QED BY <1>2, <1>3, <2>1, PollKeeps
  <1>4. CASE /\ phase' = "sending"
             /\ tables' = Tables \/ tables' = Tail(Tables)
             /\ ReadTable(Head(tables'))
             /\ \A k \in DOMAIN world : TableOf[k] = Head(tables') /\ k \in DOMAIN known'
                                          => k \in DOMAIN known
    <2> DEFINE t == Head(tables')
    <2>1. /\ DOMAIN listing' = {k \in DOMAIN world : TableOf[k] = t}
          /\ DOMAIN listing' \subseteq DOMAIN world /\ DOMAIN listing' \subseteq Keys
          /\ \A k \in DOMAIN listing' :
                 listing'[k].state = world[k] /\ listing'[k].version = version[k]
          /\ listing' \in [DOMAIN listing' -> Entry]
          /\ todo' = DOMAIN listing' \ DOMAIN known
      BY <1>1, <1>4, ReadTableFacts
    <2>2. \A k \in todo' : <<k, version[k]>> \in Past' => <<k, version[k]>> \in forgotten'
      <3> SUFFICES ASSUME NEW k \in todo', <<k, version[k]>> \in Past,
                          <<k, version[k]>> \notin forgotten'
                   PROVE  FALSE
        BY <1>2
      <3>1. k \in DOMAIN world /\ TableOf[k] = t /\ k \notin DOMAIN known
        BY <2>1
      <3>2. Lasts(<<k, version[k]>>)'
        BY <3>1 DEF Lasts
      <3>3. k \in DOMAIN known'
        BY <3>2 DEF Knows
      <3> QED BY <1>4, <3>1, <3>3
    <2> QED BY <1>2, <1>4, <2>1, <2>2, PollKeeps
  <1> QED BY <1>3, <1>4

LEMMA TablesFacts ==
    /\ Head(Tables) = Tables[1] /\ Head(Tail(Tables)) = Tables[2]
    /\ Tail(Tables) # <<>> /\ Tail(Tail(Tables)) = <<>>
    /\ Tables # Tail(Tables)
  <1> DEFINE a == Tables[1]
             b == Tables[2]
  <1>1. Tables = <<a, b>>
    BY PollingAssumption
  <1> HIDE DEF a, b
  <1>2. Head(<<a, b>>) = a /\ Tail(<<a, b>>) = <<b>> /\ Head(<<b>>) = b /\ Tail(<<b>>) = <<>>
        /\ <<b>> # <<>> /\ <<a, b>> # <<b>>
    OBVIOUS
  <1> QED BY <1>1, <1>2 DEF a, b

LEMMA PollProcNetKeeps ==
    ASSUME PollInv, PollProcNet \/ SkipTable
    PROVE  PollInv'
  <1>1. /\ kind = "linuxNetwork" /\ phase = "waiting" /\ phase' = "sending"
        /\ tables' = Tables \/ tables' = Tail(Tables)
        /\ ReadTable(Head(tables'))
        /\ UNCHANGED <<kind, sent, world, version, baseline, next, known, forgotten>>
    BY DEF PollProcNet, SkipTable, worldVars, ghosts
  <1>2. next = <<>> /\ DOMAIN known \subseteq Keys /\ known \in [DOMAIN known -> States]
    BY <1>1 DEF PollInv, PollTypes
  <1>3. ASSUME NEW x \in Past, Lasts(x)' PROVE Knows(x[1])'
    <2>1. Lasts(x)
      BY <1>1, <1>3 DEF Lasts
    <2>2. Knows(x[1])
      BY <1>1, <2>1, SeenIsKnown
    <2> QED BY <1>1, <2>2 DEF Knows
  <1> QED BY <1>1, <1>2, <1>3, NextTableKeeps

LEMMA ReportOfType ==
    ASSUME PollInv, NEW k \in DOMAIN listing
    PROVE  /\ ReportOf(k) \in Report
           /\ ReportOf(k).key = k /\ ReportOf(k).version = listing[k].version
           /\ ItemOf(ReportOf(k)) = <<k, listing[k].version>>
           /\ k \in Keys /\ listing[k].version \in Nat /\ listing[k].state \in States
  <1>1. k \in Keys /\ listing[k] \in Entry
    BY DEF PollInv, PollTypes
  <1>2. listing[k].version \in Nat /\ listing[k].state \in States
    BY <1>1 DEF Entry
  <1>3. ReportType(k, listing[k].state) \in {"create", "start", "stop"}
    BY DEF ReportType
  <1>4. ReportOf(k).key = k /\ ReportOf(k).version = listing[k].version
    BY DEF ReportOf
  <1> QED BY <1>1, <1>2, <1>3, <1>4 DEF ReportOf, Report, ItemOf

(* Taking up the next item.  It is the version that was listed; if the host  *)
(* has a newer one, that one was not seen yet.                               *)
LEMMA OfferKeeps ==
    ASSUME PollInv, NEW k \in Keys, Offer(k)
    PROVE  PollInv'
  <1> USE DEF PollInv
  <1> DEFINE item == <<k, listing[k].version>>
  <1>1. /\ phase = "sending" /\ next = <<>> /\ k \in todo /\ todo' = todo \ {k}
        /\ next' = <<ReportOf(k)>>
        /\ UNCHANGED <<kind, phase, sent, world, version, listing, tables, baseline, forgotten>>
    BY DEF Offer, feedVars, worldVars, ghosts
  <1>2. /\ k \in DOMAIN listing
        /\ \A j \in DOMAIN listing : j \in Keys /\ listing[j].version \in Nat /\ version[j] \in Nat
    BY <1>1, ReportOfType DEF PollTypes
  <1>3. /\ ReportOf(k) \in Report /\ ReportOf(k).key = k /\ ReportOf(k).version = listing[k].version
        /\ ItemOf(ReportOf(k)) = item /\ listing[k].state \in States
    BY <1>2, ReportOfType
  <1>4. next'[1] = ReportOf(k) /\ DOMAIN next' = {1}
    BY <1>1
  <1>5. Past' = Past /\ Seen = Past /\ Seen' = Past \cup {item}
    <2>1. Past' = Past
      BY <1>1 DEF Past, ItemOf
    <2>2. Seen = Past
      BY <1>1 DEF Seen
    <2>3. {ItemOf(next'[i]) : i \in DOMAIN next'} = {item}
      BY <1>3, <1>4
    <2>4. Seen' = Past' \cup {ItemOf(next'[i]) : i \in DOMAIN next'}
      BY DEF Seen, ItemOf
    <2> QED BY <2>1, <2>2, <2>3, <2>4
  <1>6. item \in Past => item \in forgotten
    BY <1>1, <1>5 DEF TodoOK
  <1>7. IsListing(listing)
    BY <1>1 DEF ListingOK
  <1>8. kind \in LearnsAsItReports => known' = With(known, k, listing[k].state)
    BY DEF Offer
  <1>9. kind \notin LearnsAsItReports => known' = known
    BY DEF Offer
  <1>10. kind \in LearnsAsItReports => k \in DOMAIN known' /\ known'[k] = listing[k].state
    BY <1>8 DEF With
  <1>11. /\ DOMAIN known \subseteq DOMAIN known'
         /\ \A j \in DOMAIN known : j # k => known'[j] = known[j]
         /\ \A j \in DOMAIN known' :
               (j \in DOMAIN known /\ known'[j] = known[j]) \/ (j = k /\ known'[j] = listing[k].state)
         /\ known' = [j \in DOMAIN known' |-> known'[j]]
    <2>1. CASE kind \in LearnsAsItReports
      <3> DEFINE x == listing[k].state
      <3>1. /\ known' = [j \in DOMAIN known' |-> known'[j]]
            /\ DOMAIN known' = DOMAIN known \cup {k}
            /\ known'[k] = x
            /\ \A j \in DOMAIN known : j # k => known'[j] = known[j]
        BY <1>8, <2>1 DEF With
      <3> HIDE DEF x
      <3>2. \A j \in DOMAIN known' :
               (j \in DOMAIN known /\ known'[j] = known[j]) \/ (j = k /\ known'[j] = x)
        BY <3>1
      <3> QED BY <3>1, <3>2 DEF x
    <2>2. CASE kind \notin LearnsAsItReports
      <3>1. known' = known /\ known = [j \in DOMAIN known |-> known[j]]
        BY <1>9, <2>2 DEF PollTypes
      <3>2. \A j \in DOMAIN known' : j \in DOMAIN known /\ known'[j] = known[j]
        BY <3>1
      <3> QED BY <3>1, <3>2
    <2> QED BY <2>1, <2>2
  <1>12. PollTypes'
    <2>1. DOMAIN known' \subseteq Keys /\ known' \in [DOMAIN known' -> States]
      <3>1. \A j \in DOMAIN known' : j \in Keys /\ known'[j] \in States
        BY <1>2, <1>3, <1>11 DEF PollTypes
      <3> QED BY <1>11, <3>1
    <2> QED BY <1>1, <1>3, <2>1 DEF PollTypes, States, Report, Entry
  <1>13. ListingOK'
    <2>1. kind \in {"windowsProcess", "windowsNetwork"} => known' = known
      BY <1>9 DEF LearnsAsItReports
    <2> QED BY <1>1, <2>1 DEF ListingOK, IsListing, StatesOf
  <1>14. SeenOK'
    <2>1. item \in Keys \X Nat /\ listing[k].version <= version[k]
          /\ listing[k].version <= listing[k].version
      BY <1>2, <1>7 DEF IsListing
    <2> QED BY <1>1, <1>5, <2>1 DEF SeenOK
  <1>15. TodoOK'
    BY <1>1, <1>5 DEF TodoOK
  <1>16. NextOK'
    <2>1. ItemOf(next[1])' = item
      BY <1>3, <1>4 DEF ItemOf
    <2>2. next'[1].key = k /\ next'[1].version = listing[k].version
      BY <1>3, <1>4
    <2> QED BY <1>1, <1>2, <1>4, <1>5, <1>6, <2>1, <2>2 DEF NextOK
  <1>17. Learnt'
    <2> SUFFICES ASSUME NEW x \in Past \cup {item}, Lasts(x)'
                 PROVE  Knows(x[1])' \/ GoneThrough(x[1])'
      BY <1>5 DEF Learnt
    <2>1. Lasts(x)
      BY <1>1 DEF Lasts
    <2>2. CASE x[1] = k
      <3>1. x[2] \in Nat /\ x[2] <= listing[k].version /\ listing[k].version <= version[k]
        BY <1>1, <1>2, <1>5, <1>7, <2>2 DEF SeenOK, IsListing
      <3>2. listing[k].version = version[k] /\ k \in DOMAIN world
        BY <1>2, <2>1, <2>2, <3>1 DEF Lasts
      <3>3. listing[k].state = world[k]
        BY <1>2, <1>7, <3>2 DEF IsListing
      <3>4. CASE kind \in LearnsAsItReports
        BY <1>1, <1>10, <2>2, <3>3, <3>4 DEF Knows
      <3>5. CASE kind = "linuxNetwork"
        BY <1>1, <1>2, <2>2, <3>5 DEF GoneThrough
      <3>6. CASE kind \in {"windowsProcess", "windowsNetwork"}
        <4>1. known' = StatesOf(listing)
          BY <1>1, <1>9, <3>6 DEF ListingOK, LearnsAsItReports
        <4> QED BY <1>1, <1>2, <2>2, <3>3, <4>1 DEF Knows, StatesOf
      <3> QED BY <3>4, <3>5, <3>6, PollingAssumption
              DEF PollTypes, PollingKinds, LearnsAsItReports
    <2>3. CASE x[1] # k
      <3>1. x \in Seen
        BY <1>5, <2>3
      <3>2. Knows(x[1]) \/ GoneThrough(x[1])
        BY <2>1, <3>1 DEF Learnt
      <3> QED BY <1>1, <1>11, <2>3, <3>2 DEF Knows, GoneThrough
    <2> QED BY <2>2, <2>3
  <1>18. ToldOnce'
    BY <1>1 DEF ToldOnce, Reports
  <1> QED BY <1>12, <1>13, <1>14, <1>15, <1>16, <1>17, <1>18

(* The report goes out, or is dropped.                                       *)
LEMMA SendKeeps ==
    ASSUME PollInv, SendReport
    PROVE  PollInv'
  <1> USE DEF PollInv
  <1>1. /\ phase = "sending" /\ next # <<>> /\ next' = <<>> /\ sent' = Append(sent, Head(next))
        /\ UNCHANGED <<kind, phase, world, version, known, listing, todo, tables, baseline, forgotten>>
    BY DEF SendReport, Put, worldVars, ghosts
  <1>2. PICK r \in Report : next = <<r>>
    BY <1>1 DEF PollTypes
  <1>3. Head(next) = r /\ next[1] = r /\ DOMAIN next = {1}
    BY <1>2
  <1>4. sent \in Seq(Report) /\ sent' \in Seq(Report) /\ Len(sent) \in Nat
        /\ DOMAIN sent = 1 .. Len(sent) /\ DOMAIN sent' = 1 .. Len(sent) + 1
        /\ sent'[Len(sent) + 1] = r /\ \A i \in 1 .. Len(sent) : sent'[i] = sent[i]
    BY <1>1, <1>3 DEF PollTypes
  <1>5. \A i \in DOMAIN sent' :
            (i \in DOMAIN sent /\ sent'[i] = sent[i]) \/ (i = Len(sent) + 1 /\ sent'[i] = r)
    <2>1. \A n \in Nat : \A i \in 1 .. n + 1 : i \in 1 .. n \/ i = n + 1
      OBVIOUS
    <2> QED BY <1>4, <2>1
  <1>6. DOMAIN sent \subseteq DOMAIN sent' /\ Len(sent) + 1 \in DOMAIN sent'
    BY <1>4
  <1>7. Seen' = Seen /\ Past' = Past \cup {ItemOf(r)}
    <2>1. Past' = baseline \cup {ItemOf(sent'[i]) : i \in DOMAIN sent'}
      BY <1>1 DEF Past, ItemOf
    <2>2. {ItemOf(sent'[i]) : i \in DOMAIN sent'} = {ItemOf(sent[i]) : i \in DOMAIN sent} \cup {ItemOf(r)}
      BY <1>4, <1>5, <1>6
    <2>3. Seen' = Past'
      BY <1>1 DEF Seen
    <2>4. {ItemOf(next[i]) : i \in DOMAIN next} = {ItemOf(r)}
      BY <1>3
    <2> QED BY <2>1, <2>2, <2>3, <2>4 DEF Seen, Past
  <1>8. PollTypes'
    BY <1>1, <1>4 DEF PollTypes, States, Report, Entry
  <1>9. ListingOK'
    BY <1>1 DEF ListingOK, IsListing, StatesOf
  <1>10. SeenOK'
    BY <1>1, <1>7 DEF SeenOK
  <1>11. TodoOK'
    BY <1>1, <1>7 DEF TodoOK
  <1>12. NextOK'
    BY <1>1 DEF NextOK
  <1>13. Learnt'
    BY <1>1, <1>7 DEF Learnt, Lasts, Knows, GoneThrough
  <1>14. ItemOf(r) \in Past => ItemOf(r) \in forgotten
    BY <1>3 DEF NextOK
  <1>15. ToldOnce'
    <2> SUFFICES ASSUME NEW i \in DOMAIN sent', kind \in PollKinds, ItemOf(sent'[i]) \notin forgotten
                 PROVE  /\ ItemOf(sent'[i]) \notin baseline
                        /\ \A j \in DOMAIN sent' :
                               sent'[j].key = sent'[i].key /\ sent'[j].version = sent'[i].version => i = j
      BY <1>1 DEF ToldOnce, Reports, ItemOf
    <2>1. \A j \in DOMAIN sent :
              ItemOf(sent[j]) \in Past
              /\ (ItemOf(sent[j]) \notin forgotten =>
                      /\ ItemOf(sent[j]) \notin baseline
                      /\ \A m \in DOMAIN sent :
                            sent[m].key = sent[j].key /\ sent[m].version = sent[j].version => j = m)
      BY DEF ToldOnce, Reports, ItemOf, Past, PollTypes
    <2>2. ItemOf(r) \notin forgotten => ItemOf(r) \notin baseline
      BY <1>14 DEF Past
    <2>3. ASSUME NEW j \in DOMAIN sent', sent'[j].key = sent'[i].key, sent'[j].version = sent'[i].version
          PROVE  i = j
      <3>1. ItemOf(sent'[j]) = ItemOf(sent'[i])
        BY <2>3 DEF ItemOf
      <3> QED BY <1>5, <1>14, <2>1, <2>3, <3>1
    <2> QED BY <1>5, <2>1, <2>2, <2>3
  <1> QED BY <1>8, <1>9, <1>10, <1>11, <1>12, <1>13, <1>15

LEMMA DropKeeps ==
    ASSUME PollInv, DropReport
    PROVE  PollInv'
  <1> USE DEF PollInv
  <1>1. /\ next' = <<>>
        /\ UNCHANGED <<kind, phase, sent, world, version, known, listing, todo, tables, baseline, forgotten>>
    BY DEF DropReport, worldVars, ghosts
  <1>2. Past' = Past /\ Seen' = Past /\ Past \subseteq Seen
    BY <1>1 DEF Seen, Past, ItemOf
  <1>3. PollTypes' /\ ListingOK' /\ NextOK' /\ ToldOnce'
    BY <1>1 DEF PollTypes, ListingOK, NextOK, ToldOnce, States, Report, Entry, IsListing, StatesOf, Reports
  <1>4. SeenOK' /\ TodoOK'
    BY <1>1, <1>2 DEF SeenOK, TodoOK
  <1>5. Learnt'
    BY <1>1, <1>2 DEF Learnt, Lasts, Knows, GoneThrough
  <1> QED BY <1>3, <1>4, <1>5

(* The end of a poll.  What is there and forgotten is remembered as such.    *)
LEMMA FinishOthersKeeps ==
    ASSUME PollInv, FinishOthers
    PROVE  PollInv'
  BY RestKeeps DEF FinishOthers, Sent, pollVars

LEMMA FinishProcFSKeeps ==
    ASSUME PollInv, FinishProcFS
    PROVE  PollInv'
  <1> DEFINE left == DOMAIN known \cap DOMAIN listing
  <1>1. PollTypes
    BY DEF PollInv
  <1>2. /\ kind = "linuxProcess" /\ phase = "sending" /\ next = <<>> /\ todo = {}
        /\ known' = [k \in left |-> known[k]]
        /\ forgotten' = forgotten \cup
               {<<k, version[k]>> : k \in (DOMAIN known \cap DOMAIN world) \ DOMAIN listing}
        /\ phase' = "waiting"
        /\ UNCHANGED <<kind, sent, world, version, listing, todo, next, baseline>>
    BY DEF FinishProcFS, Sent, Restrict, worldVars
  <1>3. DOMAIN known' = left /\ \A k \in left : known'[k] = known[k] /\ k \in Keys /\ known[k] \in States
    BY <1>1, <1>2 DEF PollTypes
  <1>4. DOMAIN known' \subseteq Keys /\ known' \in [DOMAIN known' -> States]
    BY <1>2, <1>3
  <1>5. DOMAIN listing \subseteq Keys /\ listing \in [DOMAIN listing -> Entry]
    BY <1>1 DEF PollTypes
  <1>6. Past' = Past
    BY <1>2 DEF Past, ItemOf
  <1>7. ASSUME NEW x \in Past, Lasts(x)' PROVE Knows(x[1])'
    <2>1. Lasts(x)
      BY <1>2, <1>7 DEF Lasts
    <2>2. Knows(x[1]) /\ x = <<x[1], x[2]>>
      BY <1>2, <2>1, SeenIsKnown
    <2>3. x[1] \in left
      BY <1>2, <1>7, <2>1, <2>2 DEF Lasts, Knows
    <2> QED BY <1>2, <1>3, <2>2, <2>3 DEF Knows
  <1> QED BY <1>2, <1>4, <1>5, <1>6, <1>7, PollKeeps

(* NextTable ends the poll or reads the second table.                        *)
LEMMA NextTableFacts ==
    ASSUME PollInv, kind = "linuxNetwork", phase = "sending", NextTable
    PROVE  \/ phase' = "waiting" /\ todo' = {} /\ listing' = listing
           \/ /\ phase' = "sending" /\ tables' = Tail(Tables)
              /\ ReadTable(Head(tables'))
              /\ Head(tables') # Head(tables)
  <1>1. tables = Tables \/ tables = Tail(Tables)
    BY DEF PollInv, ListingOK
  <1>2. CASE Tail(tables) = <<>>
    BY <1>2 DEF NextTable
  <1>3. CASE Tail(tables) # <<>>
    <2>1. tables = Tables
      BY <1>1, <1>3, TablesFacts
    <2>2. Head(Tail(Tables)) # Head(Tables)
      BY TablesFacts, PollingAssumption
    <2> QED BY <1>3, <2>1, <2>2 DEF NextTable
  <1> QED BY <1>2, <1>3

LEMMA FinishTableKeeps ==
    ASSUME PollInv, FinishTable
    PROVE  PollInv'
  <1> DEFINE others == {k \in DOMAIN known : TableOf[k] # Head(tables)}
             learnt == DOMAIN listing \cup others
  <1>1. PollTypes /\ ListingOK
    BY DEF PollInv
  <1>2. /\ kind = "linuxNetwork" /\ phase = "sending" /\ next = <<>> /\ todo = {}
        /\ known' = [k \in learnt |-> IF k \in DOMAIN listing THEN listing[k].state ELSE known[k]]
        /\ forgotten' = forgotten \cup
               {<<k, version[k]>> : k \in (DOMAIN known \cap DOMAIN world) \ DOMAIN known'}
        /\ NextTable
        /\ UNCHANGED <<kind, sent, world, version, next, baseline>>
    BY DEF FinishTable, Sent, worldVars
  <1>3. /\ DOMAIN known' = learnt
        /\ \A k \in DOMAIN listing : known'[k] = listing[k].state
        /\ \A k \in learnt : k \notin DOMAIN listing => known'[k] = known[k] /\ k \in DOMAIN known
    BY <1>2
  <1>4. /\ \A k \in DOMAIN listing : k \in Keys /\ listing[k].version \in Nat /\ listing[k].state \in States
        /\ \A k \in DOMAIN known : k \in Keys /\ known[k] \in States
        /\ \A k \in Keys : version[k] \in Nat
    BY <1>1 DEF PollTypes, Entry
  <1>5. DOMAIN known' \subseteq Keys /\ known' \in [DOMAIN known' -> States]
    <2>1. \A k \in learnt : k \in Keys /\ known'[k] \in States
      BY <1>3, <1>4
    <2>2. known' = [k \in learnt |-> known'[k]]
      BY <1>2
    <2> QED BY <1>3, <2>1, <2>2
  <1>6. ASSUME NEW x \in Past, Lasts(x)' PROVE Knows(x[1])'
    <2>1. Lasts(x) /\ x[2] = version[x[1]] /\ x[1] \in DOMAIN world
      BY <1>2, <1>6 DEF Lasts
    <2>2. x \in Keys \X Nat /\ x = <<x[1], x[2]>> /\ (Knows(x[1]) \/ GoneThrough(x[1]))
      BY <2>1, SeenIsKnown
    <2>3. CASE x[1] \in DOMAIN listing
      <3>1. x \in Seen
        BY DEF Seen
      <3>2. x[2] <= listing[x[1]].version /\ listing[x[1]].version <= version[x[1]]
        BY <1>1, <1>2, <2>3, <3>1 DEF PollInv, SeenOK, ListingOK, IsListing
      <3>3. listing[x[1]].version = version[x[1]]
        BY <1>4, <2>1, <2>2, <2>3, <3>2
      <3>4. listing[x[1]].state = world[x[1]]
        BY <1>1, <1>2, <2>1, <2>3, <3>3 DEF ListingOK, IsListing
      <3> QED BY <1>2, <1>3, <2>3, <3>4 DEF Knows
    <2>4. CASE x[1] \notin DOMAIN listing
      <3>1. Knows(x[1])
        BY <2>2, <2>4 DEF GoneThrough
      <3>2. x[1] \in DOMAIN known'
        BY <1>2, <1>6, <2>1, <2>2, <3>1 DEF Lasts, Knows
      <3> QED BY <1>2, <1>3, <2>4, <3>1, <3>2 DEF Knows
    <2> QED BY <2>3, <2>4
  <1>7. \/ phase' = "waiting" /\ todo' = {} /\ listing' = listing
        \/ /\ phase' = "sending" /\ tables' = Tail(Tables)
           /\ ReadTable(Head(tables'))
           /\ Head(tables') # Head(tables)
    BY <1>2, NextTableFacts
  <1>8. ASSUME Head(tables') # Head(tables), NEW k \in DOMAIN world,
               TableOf[k] = Head(tables'), k \in DOMAIN known'
        PROVE  k \in DOMAIN known
    <2>1. k \notin DOMAIN listing
      BY <1>1, <1>2, <1>8 DEF ListingOK
    <2> QED BY <1>3, <1>8, <2>1
  <1> QED BY <1>2, <1>5, <1>6, <1>7, <1>8, NextTableKeeps

(* The context ends the poll: what the Linux network sensor has told of the  *)
(* table is not learnt, and counts as forgotten.                             *)
LEMMA AbandonKeeps ==
    ASSUME PollInv, Abandon
    PROVE  PollInv'
  <1> DEFINE told == DOMAIN listing \ (todo \cup {Head(next).key} \cup DOMAIN known)
  <1>1. PollTypes /\ ListingOK
    BY DEF PollInv
  <1>2. /\ phase = "sending" /\ next # <<>> /\ next' = <<>>
        /\ UNCHANGED <<kind, sent, world, version, known, baseline>>
    BY DEF Abandon, worldVars
  <1>3. DOMAIN known \subseteq Keys /\ known \in [DOMAIN known -> States]
        /\ DOMAIN listing \subseteq Keys /\ listing \in [DOMAIN listing -> Entry]
    BY <1>1 DEF PollTypes
  <1>4. CASE kind # "linuxNetwork"
    <2>1. phase' = "waiting" /\ todo' = {} /\ UNCHANGED <<listing, forgotten>>
      BY <1>4 DEF Abandon
    <2>2. ASSUME NEW x \in Past, Lasts(x)' PROVE Knows(x[1])'
      <3>1. Lasts(x)
        BY <1>2, <2>1, <2>2 DEF Lasts
      <3>2. Knows(x[1])
        BY <1>4, <3>1, SeenIsKnown
      <3> QED BY <1>2, <3>2 DEF Knows
    <2>3. Past' = Past
      BY <1>2 DEF Past, ItemOf
    <2> QED BY <1>2, <1>3, <2>1, <2>2, <2>3, PollKeeps
  <1>5. CASE kind = "linuxNetwork"
    <2>1. NextTable /\ forgotten' = forgotten \cup {<<k, listing[k].version>> : k \in told}
      BY <1>5 DEF Abandon
    <2>2. PICK r \in Report : next = <<r>>
      BY <1>1, <1>2 DEF PollTypes
    <2>3. Head(next) = r /\ next[1] = r /\ 1 \in DOMAIN next
      BY <2>2
    <2>4. r.key \in DOMAIN listing /\ r.version = listing[r.key].version
          /\ (ItemOf(r) \in Past => ItemOf(r) \in forgotten)
      BY <2>3 DEF PollInv, NextOK
    <2>5. /\ \A k \in DOMAIN listing : k \in Keys /\ listing[k].version \in Nat
          /\ \A k \in Keys : version[k] \in Nat
      BY <1>1 DEF PollTypes, Entry
    <2>6. ASSUME NEW x \in Past, Lasts(x)' PROVE Knows(x[1])'
      <3>1. Lasts(x) /\ x \notin forgotten' /\ x[2] = version[x[1]]
        BY <1>2, <2>1, <2>6 DEF Lasts
      <3>2. x \in Keys \X Nat /\ x = <<x[1], x[2]>> /\ (Knows(x[1]) \/ GoneThrough(x[1]))
        BY <3>1, SeenIsKnown
      <3>3. CASE Knows(x[1])
        BY <1>2, <3>3 DEF Knows
      <3>4. CASE GoneThrough(x[1]) /\ ~ Knows(x[1])
        <4>1. x[1] \in DOMAIN listing \ todo
          BY <3>4 DEF GoneThrough
        <4>2. x \in Seen
          BY DEF Seen
        <4>3. x[2] <= listing[x[1]].version /\ listing[x[1]].version <= version[x[1]]
          BY <1>1, <1>2, <4>1, <4>2 DEF PollInv, SeenOK, ListingOK, IsListing
        <4>4. listing[x[1]].version = version[x[1]]
          BY <2>5, <3>1, <3>2, <4>1, <4>3
        <4>5. x = <<x[1], listing[x[1]].version>>
          BY <3>1, <3>2, <4>4
        <4>6. x[1] \notin told
          BY <2>1, <3>1, <4>5
        <4>7. CASE x[1] = r.key
          <5>1. ItemOf(r) = x
            BY <2>4, <4>5, <4>7 DEF ItemOf
          <5> QED BY <2>4, <3>1, <5>1 DEF Lasts
        <4>8. CASE x[1] \in DOMAIN known
          <5>1. known[x[1]] \in States /\ world[x[1]] \in States
            BY <1>1, <3>1, <4>8 DEF PollTypes, Lasts
          <5> QED BY <1>5, <3>4, <4>8, <5>1 DEF Knows, States, Services
        <4> QED BY <2>3, <4>1, <4>6, <4>7, <4>8
      <3> QED BY <3>2, <3>3, <3>4
    <2>7. \/ phase' = "waiting" /\ todo' = {} /\ listing' = listing
          \/ /\ phase' = "sending" /\ tables' = Tail(Tables)
             /\ ReadTable(Head(tables'))
      BY <1>2, <1>5, <2>1, NextTableFacts
    <2> QED BY <1>2, <1>3, <1>5, <2>1, <2>6, <2>7, NextTableKeeps
  <1> QED BY <1>4, <1>5

LEMMA PollStarts == PollInit => PollInv
  <1> SUFFICES ASSUME PollInit PROVE PollInv
    OBVIOUS
  <1>1. /\ kind \in PollKinds /\ phase = "starting" /\ sent = <<>> /\ next = <<>> /\ todo = {}
        /\ known = <<>> /\ listing = <<>> /\ baseline = {} /\ forgotten = {}
        /\ version = [k \in Keys |-> 0] /\ \E there \in SUBSET Keys : world \in [there -> States]
    BY DEF PollInit, FeedInit, Nothing
  <1>2. Past = {} /\ Seen = {}
    BY <1>1 DEF Past, Seen
  <1>3. DOMAIN <<>> = {} /\ <<>> \in [{} -> States] /\ <<>> \in [{} -> Entry] /\ <<>> \in Seq(Report)
    OBVIOUS
  <1>4. PollTypes
    BY <1>1, <1>3 DEF PollTypes
  <1> QED BY <1>1, <1>2, <1>3, <1>4
          DEF PollInv, ListingOK, SeenOK, TodoOK, NextOK, Learnt, ToldOnce, Reports

LEMMA PollNextKeeps == PollInv /\ [PollNext]_<<feedVars, pollVars>> => PollInv'
  <1> SUFFICES ASSUME PollInv, [PollNext]_<<feedVars, pollVars>> PROVE PollInv'
    OBVIOUS
  <1> USE DEF feedVars, pollVars, worldVars, ghosts
  <1>1. CASE UNCHANGED <<feedVars, pollVars>>
    BY <1>1, RestKeeps
  <1>2. CASE Begins
    BY <1>2, BeginsKeeps
  <1>3. CASE PollProcFS
    <2>1. kind = "linuxProcess" /\ Begin(Listed({}), New(Listed({}))) /\ UNCHANGED <<known, forgotten>>
      BY <1>3 DEF PollProcFS
    <2>2. New(Listed({})) \subseteq NewOrChanged(Listed({}))
      BY DEF NewOrChanged
    <2> QED BY <2>1, <2>2, ComparesKeeps
  <1>4. CASE PollLinuxServices \/ PollWindowsServices \/ PollMacProcesses
    <2>1. PICK missing : Begin(Listed(missing), NewOrChanged(Listed(missing)))
                         /\ UNCHANGED <<known, forgotten>>
      BY <1>4 DEF PollLinuxServices, PollWindowsServices, PollMacProcesses, QueryThenReport
    <2>2. kind \in {"linuxService", "windowsService", "macosProcess"}
      BY <1>4 DEF PollLinuxServices, PollWindowsServices, PollMacProcesses
    <2> QED BY <2>1, <2>2, ComparesKeeps
  <1>5. CASE PollToolhelp \/ PollIphlpapi
    <2>1. PICK missing : Replace(Listed(missing))
      BY <1>5 DEF PollToolhelp, PollIphlpapi
    <2>2. kind \in {"windowsProcess", "windowsNetwork"}
      BY <1>5 DEF PollToolhelp, PollIphlpapi
    <2> QED BY <2>1, <2>2, ReplaceKeeps
  <1>6. CASE PollProcNet \/ SkipTable
    BY <1>6, PollProcNetKeeps
  <1>7. CASE SkipPoll
    BY <1>7, RestKeeps DEF SkipPoll
  <1>8. ASSUME NEW k \in Keys, Offer(k) PROVE PollInv'
    BY <1>8, OfferKeeps
  <1>9. CASE SendReport
    BY <1>9, SendKeeps
  <1>10. CASE DropReport
    BY <1>10, DropKeeps
  <1>11. CASE Abandon
    BY <1>11, AbandonKeeps
  <1>12. CASE FinishProcFS
    BY <1>12, FinishProcFSKeeps
  <1>13. CASE FinishTable
    BY <1>13, FinishTableKeeps
  <1>14. CASE FinishOthers
    BY <1>14, FinishOthersKeeps
  <1>15. ASSUME NEW k \in Keys, Arrive(k) \/ Leave(k) PROVE PollInv'
    <2>1. PollTypes
      BY DEF PollInv
    <2>2. \A j \in Keys : version[j] \in Nat
      BY <2>1 DEF PollTypes
    <2>3. UNCHANGED <<kind, phase, sent, next, known, listing, todo, tables, baseline, forgotten>>
      BY <1>15 DEF Arrive, Leave, HostStep
    <2>4. CASE Arrive(k)
      <3>1. PICK s \in States : world' = With(world, k, s)
        BY <2>4 DEF Arrive
      <3>2. version' = [version EXCEPT ![k] = @ + 1]
        BY <2>4 DEF Arrive
      <3>3. /\ version' \in [Keys -> Nat] /\ version'[k] = version[k] + 1
            /\ \A j \in Keys : j # k => version'[j] = version[j]
        BY <2>1, <2>2, <3>2 DEF PollTypes
      <3>4. /\ DOMAIN world' = DOMAIN world \cup {k}
            /\ \A j \in DOMAIN world : j # k => world'[j] = world[j]
            /\ world'[k] = s
            /\ world' = [j \in DOMAIN world' |-> world'[j]]
        BY <3>1 DEF With
      <3>5. DOMAIN world' \subseteq Keys /\ world' \in [DOMAIN world' -> States]
        BY <2>1, <3>4 DEF PollTypes
      <3>6. ASSUME NEW j \in Keys
            PROVE  /\ version[j] <= version'[j]
                   /\ j \in DOMAIN world' /\ version'[j] = version[j]
                          => j \in DOMAIN world /\ world'[j] = world[j]
        <4>1. CASE j = k
          BY <2>2, <3>3, <4>1
        <4>2. CASE j # k
          BY <2>2, <3>3, <3>4, <4>2
        <4> QED BY <4>1, <4>2
      <3> QED BY <2>3, <3>3, <3>5, <3>6, HostKeeps
    <2>5. CASE Leave(k)
      <3>1. world' = [j \in DOMAIN world \ {k} |-> world[j]] /\ version' = version
        BY <2>5 DEF Leave, Restrict
      <3>2. DOMAIN world' \subseteq Keys /\ world' \in [DOMAIN world' -> States]
            /\ \A j \in DOMAIN world' : j \in DOMAIN world /\ world'[j] = world[j]
        BY <2>1, <3>1 DEF PollTypes
      <3>3. version' \in [Keys -> Nat] /\ \A j \in Keys : version[j] <= version'[j]
        BY <2>1, <2>2, <3>1 DEF PollTypes
      <3> QED BY <2>3, <3>2, <3>3, HostKeeps
    <2> QED BY <1>15, <2>4, <2>5
  <1>16. CASE (Take \/ Cancel \/ End) /\ UNCHANGED pollVars
    <2>1. UNCHANGED <<kind, sent>> /\ (phase' = phase \/ (phase = "waiting" /\ phase' = "ended"))
      BY <1>16 DEF Take, Cancel, End
    <2>2. phase = "waiting" => todo = {} /\ next = <<>>
      BY DEF PollInv, PollTypes
    <2> QED BY <1>16, <2>1, <2>2, RestKeeps
  <1> QED BY <1>1, <1>2, <1>3, <1>4, <1>5, <1>6, <1>7, <1>8, <1>9, <1>10, <1>11, <1>12, <1>13,
             <1>14, <1>15, <1>16 DEF PollNext, PollStep, Tick

(* No process, connection or service state is reported twice, nor reported   *)
(* although it was there at the start, unless the sensor forgot it while it  *)
(* lasted: however many there are, however their keys are reused during a    *)
(* poll, whichever tables fail and wherever the context ends a poll.         *)
THEOREM ReportedOnce == PollSpec => []ToldOnce
  <1>1. PollInv => ToldOnce
    BY DEF PollInv
  <1> QED BY <1>1, PollStarts, PollNextKeeps, PTL DEF PollSpec

-----------------------------------------------------------------------------
(* What a sensor knows, it has told, or had at its start, unless the context *)
(* has ended or the Linux network sensor has given up a report or a table.   *)
Clean == ~cancelled /\ Dropped = 0

ToldAs(k, s) ==
    \E i \in DOMAIN sent :
        /\ sent[i].key = k /\ sent[i].state = s
        /\ \A j \in DOMAIN sent : sent[j].key = k => j <= i

AtStart(k) == (\A i \in DOMAIN sent : sent[i].key # k) /\ (\E x \in baseline : x[1] = k)
Backed(k, s) == ToldAs(k, s) \/ AtStart(k)

KnownIsTold ==
    phase = "waiting" /\ Clean => \A k \in DOMAIN known : Backed(k, known[k])

(* Within a poll the report of what is known may be due: of the sensors that *)
(* learn first, an item they have still to look at; of any, the one that is  *)
(* about to go out.  What the Linux network sensor has gone through of a     *)
(* table is told, or about to be, before it is learnt.                       *)
LearnsFirst == {"windowsProcess", "windowsNetwork"}
Due(k) == kind \in LearnsFirst /\ k \in todo
AboutToTell(k, s) == \E i \in DOMAIN next : next[i].key = k /\ next[i].state = s

KnownBacked == \A k \in DOMAIN known : Backed(k, known[k]) \/ Due(k) \/ AboutToTell(k, known[k])
NextIsKnown == \A i \in DOMAIN next : next[i].key \in DOMAIN known => known[next[i].key] = next[i].state
ListedBacked ==
    \A k \in DOMAIN listing :
        GoneThrough(k) => k \in DOMAIN known \/ ToldAs(k, listing[k].state)
                              \/ AboutToTell(k, listing[k].state)

TellsInv == errors \in Nat /\ (Clean => KnownBacked /\ NextIsKnown /\ ListedBacked)

LEMMA OneState ==
    ASSUME kind \notin Services, NEW s \in States, NEW u \in States
    PROVE  s = u
  BY DEF States

(* What the conditions rest on stays or comes to nothing.                    *)
LEMMA RestTells ==
    ASSUME TellsInv, errors' \in Nat, Clean' => Clean,
           UNCHANGED <<kind, sent, next, known, baseline>>,
           kind \in LearnsFirst => todo' = todo,
           phase' = "sending" /\ kind = "linuxNetwork"
               => phase = "sending" /\ UNCHANGED <<listing, todo>>
    PROVE  TellsInv'
  <1> SUFFICES ASSUME Clean, KnownBacked, NextIsKnown, ListedBacked
               PROVE  KnownBacked' /\ NextIsKnown' /\ ListedBacked'
    BY DEF TellsInv
  <1>1. KnownBacked'
    BY DEF KnownBacked, Backed, ToldAs, AtStart, Due, AboutToTell
  <1>2. NextIsKnown'
    BY DEF NextIsKnown
  <1>3. ListedBacked'
    BY DEF ListedBacked, GoneThrough, ToldAs, AboutToTell
  <1> QED BY <1>1, <1>2, <1>3

LEMMA BeginsTells ==
    ASSUME PollInv, TellsInv, Begins
    PROVE  TellsInv'
  <1>1. PollTypes /\ phase = "starting" /\ todo = {} /\ next = <<>> /\ sent = <<>>
    BY DEF PollInv, PollTypes, Begins, Ready, StartLinuxProcess, StartLinuxNetwork,
           SnapshotLinuxServices, SnapshotWindowsServices, SnapshotMacProcesses,
           SnapshotWindowsProcesses, SnapshotWindowsConnections
  <1>2. /\ phase' = "waiting"
        /\ UNCHANGED <<kind, sent, errors, cancelled, listing, todo, next>>
    BY DEF Begins, Ready, StartLinuxProcess, StartLinuxNetwork,
           SnapshotLinuxServices, SnapshotWindowsServices, SnapshotMacProcesses,
           SnapshotWindowsProcesses, SnapshotWindowsConnections
  <1>3. errors' \in Nat /\ (Clean' => Clean)
    BY <1>2 DEF TellsInv, Clean, Dropped
  <1>4. CASE StartLinuxProcess \/ StartLinuxNetwork
    BY <1>2, <1>3, <1>4, RestTells DEF StartLinuxProcess, StartLinuxNetwork
  <1>5. CASE \E missing : Baseline(missing)
    <2>1. PICK missing : Baseline(missing)
      BY <1>5
    <2>2. known' = StatesOf(Listed(missing))
          /\ baseline' = {<<k, version[k]>> : k \in DOMAIN Listed(missing)}
      BY <2>1 DEF Baseline
    <2>3. DOMAIN known' = DOMAIN Listed(missing)
      BY <2>2 DEF StatesOf
    <2>4. \A k \in DOMAIN known' : \E x \in baseline' : x[1] = k
      <3> SUFFICES ASSUME NEW k \in DOMAIN known' PROVE \E x \in baseline' : x[1] = k
        OBVIOUS
      <3>1. <<k, version[k]>> \in baseline'
        BY <2>2, <2>3
      <3> QED BY <3>1
    <2>5. KnownBacked'
      BY <1>1, <1>2, <2>4 DEF KnownBacked, Backed, AtStart
    <2>6. NextIsKnown' /\ ListedBacked'
      BY <1>1, <1>2 DEF NextIsKnown, ListedBacked, GoneThrough
    <2> QED BY <1>3, <2>5, <2>6 DEF TellsInv
  <1> QED BY <1>4, <1>5
          DEF Begins, SnapshotLinuxServices, SnapshotWindowsServices, SnapshotMacProcesses,
              SnapshotWindowsProcesses, SnapshotWindowsConnections

(* A poll that learns first: what it has not still to tell, it knew.         *)
LEMMA ReplaceTells ==
    ASSUME PollInv, TellsInv, kind \in LearnsFirst, NEW missing, Replace(Listed(missing))
    PROVE  TellsInv'
  <1> DEFINE list == Listed(missing)
  <1>1. PollTypes /\ phase = "waiting" /\ next = <<>> /\ todo = {}
    BY DEF PollInv, PollTypes, Replace, Begin
  <1>2. StatesOf(list) \in [DOMAIN list -> States]
    BY <1>1, ListedFacts
  <1>3. /\ todo' = DOMAIN list \ DOMAIN known /\ known' = StatesOf(list)
        /\ UNCHANGED <<kind, sent, next, baseline, errors, cancelled>>
    BY DEF Replace, Begin, New
  <1> HIDE DEF list
  <1>4. errors' \in Nat /\ (Clean' => Clean)
    BY <1>3 DEF TellsInv, Clean, Dropped
  <1>5. DOMAIN known' = DOMAIN list /\ \A k \in DOMAIN list : known'[k] \in States
    BY <1>2, <1>3
  <1>6. kind \notin Services /\ \A k \in DOMAIN known : known[k] \in States
    BY <1>1 DEF LearnsFirst, Services, PollTypes
  <1>7. ASSUME KnownBacked PROVE KnownBacked'
    <2> SUFFICES ASSUME NEW k \in DOMAIN known'
                 PROVE  Backed(k, known[k])' \/ Due(k)'
      BY DEF KnownBacked
    <2>1. CASE k \in DOMAIN known
      <3>1. known'[k] = known[k]
        BY <1>5, <1>6, <2>1, OneState
      <3>2. Backed(k, known[k])
        BY <1>1, <1>7, <2>1 DEF KnownBacked, Due, AboutToTell
      <3> QED BY <1>3, <3>1, <3>2 DEF Backed, ToldAs, AtStart
    <2>2. CASE k \notin DOMAIN known
      BY <1>3, <1>5, <2>2 DEF Due
    <2> QED BY <2>1, <2>2
  <1>8. NextIsKnown' /\ ListedBacked'
    BY <1>1, <1>3 DEF NextIsKnown, ListedBacked, GoneThrough, LearnsFirst
  <1> QED BY <1>4, <1>7, <1>8 DEF TellsInv

(* Reading a table: what of it is not still to be looked at is known.        *)
LEMMA ReadTells ==
    ASSUME PollInv, TellsInv, PollProcNet
    PROVE  TellsInv'
  <1>1. PollTypes /\ next = <<>> /\ todo = {}
    BY DEF PollInv, PollTypes, PollProcNet
  <1>2. /\ kind = "linuxNetwork"
        /\ UNCHANGED <<kind, sent, next, known, baseline, errors, cancelled>>
    BY DEF PollProcNet, ghosts
  <1>3. todo' = DOMAIN listing' \ DOMAIN known
    BY <1>1, ReadTableFacts DEF PollProcNet
  <1>4. errors' \in Nat /\ (Clean' => Clean)
    BY <1>2 DEF TellsInv, Clean, Dropped
  <1>5. KnownBacked => KnownBacked'
    BY <1>2 DEF KnownBacked, Backed, ToldAs, AtStart, Due, AboutToTell, LearnsFirst
  <1>6. NextIsKnown' /\ ListedBacked'
    BY <1>1, <1>2, <1>3 DEF NextIsKnown, ListedBacked, GoneThrough
  <1> QED BY <1>4, <1>5, <1>6 DEF TellsInv

(* Taking up an item: if it is known now, or gone through, it is about to be *)
(* told as that.                                                             *)
LEMMA OfferTells ==
    ASSUME PollInv, TellsInv, NEW k \in Keys, Offer(k)
    PROVE  TellsInv'
  <1> DEFINE s == listing[k].state
  <1>1. /\ phase = "sending" /\ next = <<>> /\ k \in todo /\ todo' = todo \ {k}
        /\ next' = <<ReportOf(k)>>
        /\ UNCHANGED <<kind, phase, sent, listing, baseline, errors, cancelled>>
        /\ kind \in LearnsAsItReports => known' = With(known, k, s)
        /\ kind \notin LearnsAsItReports => known' = known
    BY DEF Offer, feedVars, ghosts
  <1>2. k \in DOMAIN listing /\ s \in States
    BY <1>1, ReportOfType DEF PollInv, PollTypes
  <1>3. next'[1] = ReportOf(k) /\ DOMAIN next' = {1}
        /\ ReportOf(k).key = k /\ ReportOf(k).state = s
    BY <1>1 DEF ReportOf
  <1>4. errors' \in Nat /\ (Clean' => Clean)
    BY <1>1 DEF TellsInv, Clean, Dropped
  <1>5. PollTypes /\ ListingOK
    BY DEF PollInv
  <1>6. kind \in LearnsAsItReports \/ kind \in LearnsFirst \/ kind = "linuxNetwork"
    BY <1>5, PollingAssumption DEF PollTypes, PollingKinds, LearnsAsItReports, LearnsFirst
  <1> HIDE DEF s
  <1>7. /\ k \in DOMAIN known' => known'[k] = s
        /\ \A j \in DOMAIN known' : j # k => j \in DOMAIN known /\ known'[j] = known[j]
        /\ DOMAIN known \subseteq DOMAIN known'
    <2>1. CASE kind \in LearnsAsItReports
      BY <1>1, <2>1 DEF With
    <2>2. CASE kind \in LearnsFirst
      <3>1. known' = known /\ known = StatesOf(listing)
        BY <1>1, <1>5, <2>2 DEF LearnsFirst, LearnsAsItReports, ListingOK
      <3> QED BY <1>2, <3>1 DEF StatesOf, s
    <2>3. CASE kind = "linuxNetwork"
      <3>1. known' = known /\ kind \notin Services
        BY <1>1, <2>3 DEF LearnsAsItReports, Services
      <3>2. \A j \in DOMAIN known : known[j] \in States
        BY <1>5 DEF PollTypes
      <3> QED BY <1>2, <3>1, <3>2, OneState
    <2> QED BY <1>6, <2>1, <2>2, <2>3
  <1>8. AboutToTell(k, s)'
    BY <1>1, <1>3 DEF AboutToTell, s
  <1>9. KnownBacked => KnownBacked'
    <2> SUFFICES ASSUME KnownBacked, NEW j \in DOMAIN known'
                 PROVE  Backed(j, known[j])' \/ Due(j)' \/ AboutToTell(j, known[j])'
      BY DEF KnownBacked
    <2>1. CASE j = k
      BY <1>3, <1>7, <2>1 DEF AboutToTell
    <2>2. CASE j # k
      <3>1. j \in DOMAIN known /\ known'[j] = known[j]
        BY <1>7, <2>2
      <3>2. Backed(j, known[j]) \/ Due(j)
        BY <1>1, <3>1 DEF KnownBacked, AboutToTell
      <3> QED BY <1>1, <2>2, <3>1, <3>2 DEF Backed, ToldAs, AtStart, Due
    <2> QED BY <2>1, <2>2
  <1>10. NextIsKnown'
    BY <1>3, <1>7 DEF NextIsKnown
  <1>11. ListedBacked => ListedBacked'
    <2> SUFFICES ASSUME ListedBacked, NEW j \in DOMAIN listing, GoneThrough(j)'
                 PROVE  j \in DOMAIN known' \/ ToldAs(j, listing[j].state)'
                            \/ AboutToTell(j, listing[j].state)'
      BY <1>1 DEF ListedBacked
    <2>1. CASE j = k
      BY <1>1, <1>8, <2>1 DEF s, AboutToTell
    <2>2. CASE j # k
      <3>1. GoneThrough(j)
        BY <1>1, <2>2 DEF GoneThrough
      <3>2. j \in DOMAIN known \/ ToldAs(j, listing[j].state)
        BY <1>1, <3>1 DEF ListedBacked, AboutToTell
      <3> QED BY <1>1, <1>7, <3>2 DEF ToldAs
    <2> QED BY <2>1, <2>2
  <1> QED BY <1>4, <1>9, <1>10, <1>11 DEF TellsInv

(* The report that was about to go out is the last of its key now.           *)
LEMMA SendTells ==
    ASSUME PollInv, TellsInv, SendReport
    PROVE  TellsInv'
  <1>1. /\ next # <<>> /\ next' = <<>> /\ sent' = Append(sent, Head(next))
        /\ UNCHANGED <<kind, phase, known, listing, todo, baseline, errors, cancelled>>
    BY DEF SendReport, Put, ghosts
  <1>2. PollTypes
    BY DEF PollInv
  <1>3. PICK r \in Report : next = <<r>>
    BY <1>1, <1>2 DEF PollTypes
  <1>4. Head(next) = r /\ next[1] = r /\ DOMAIN next = {1} /\ r.state \in States
    BY <1>3 DEF Report
  <1> DEFINE n == Len(sent)
  <1>5. /\ n \in Nat /\ DOMAIN sent = 1 .. n /\ DOMAIN sent' = 1 .. n + 1
        /\ sent'[n + 1] = r /\ \A i \in 1 .. n : sent'[i] = sent[i]
    BY <1>1, <1>2, <1>4 DEF PollTypes
  <1> HIDE DEF n
  <1>6. errors' \in Nat /\ (Clean' => Clean)
    BY <1>1 DEF TellsInv, Clean, Dropped
  <1>7. ToldAs(r.key, r.state)'
    <2>1. n + 1 \in DOMAIN sent' /\ \A j \in DOMAIN sent' : j <= n + 1
      BY <1>5
    <2> QED BY <1>5, <2>1 DEF ToldAs
  <1>8. \A i \in DOMAIN sent' : (i \in DOMAIN sent /\ sent'[i] = sent[i]) \/ sent'[i] = r
    BY <1>5
  <1>9. ASSUME NEW k, k # r.key PROVE /\ \A s : ToldAs(k, s) => ToldAs(k, s)'
                                      /\ AtStart(k) => AtStart(k)'
    <2>1. ASSUME NEW s, ToldAs(k, s) PROVE ToldAs(k, s)'
      <3>1. PICK i \in DOMAIN sent : /\ sent[i].key = k /\ sent[i].state = s
                                     /\ \A j \in DOMAIN sent : sent[j].key = k => j <= i
        BY <2>1 DEF ToldAs
      <3>2. i \in DOMAIN sent' /\ sent'[i] = sent[i]
        BY <1>5
      <3>3. \A j \in DOMAIN sent' : sent'[j].key = k => j <= i
        BY <1>8, <1>9, <3>1
      <3> QED BY <3>1, <3>2, <3>3 DEF ToldAs
    <2>2. AtStart(k) => AtStart(k)'
      BY <1>1, <1>8, <1>9 DEF AtStart
    <2> QED BY <2>1, <2>2
  <1>10. ASSUME NextIsKnown, KnownBacked PROVE KnownBacked'
    <2> SUFFICES ASSUME NEW k \in DOMAIN known PROVE Backed(k, known[k])' \/ Due(k)'
      BY <1>1 DEF KnownBacked
    <2>1. CASE k = r.key
      <3>1. known[k] = r.state
        BY <1>4, <1>10, <2>1 DEF NextIsKnown
      <3> QED BY <1>1, <1>7, <2>1, <3>1 DEF Backed, ToldAs
    <2>2. CASE k # r.key
      <3>1. Backed(k, known[k]) \/ Due(k)
        BY <1>4, <1>10, <2>2 DEF KnownBacked, AboutToTell
      <3>2. Backed(k, known[k]) => Backed(k, known[k])'
        <4>1. ToldAs(k, known[k]) => ToldAs(k, known[k])'
          <5>1. ToldAs(k, known[k]) => \E s : s = known[k] /\ ToldAs(k, s)
            OBVIOUS
          <5>2. \A s : ToldAs(k, s) => ToldAs(k, s)'
            BY <1>9, <2>2
          <5> QED BY <1>1, <5>2 DEF ToldAs
        <4>2. AtStart(k) => AtStart(k)'
          BY <1>9, <2>2
        <4> QED BY <4>1, <4>2 DEF Backed
      <3> QED BY <1>1, <3>1, <3>2 DEF Due
    <2> QED BY <2>1, <2>2
  <1>11. NextIsKnown'
    BY <1>1 DEF NextIsKnown
  <1>12. ASSUME ListedBacked PROVE ListedBacked'
    <2> SUFFICES ASSUME NEW k \in DOMAIN listing, GoneThrough(k), k \notin DOMAIN known
                 PROVE  ToldAs(k, listing[k].state)'
      BY <1>1 DEF ListedBacked, GoneThrough
    <2>1. ToldAs(k, listing[k].state) \/ AboutToTell(k, listing[k].state)
      BY <1>12 DEF ListedBacked
    <2>2. CASE k = r.key
      <3>1. kind \notin Services /\ listing[k].state \in States
        BY <1>2 DEF GoneThrough, Services, PollTypes, Entry
      <3>2. listing[k].state = r.state
        BY <1>4, <3>1, OneState
      <3> QED BY <1>1, <1>7, <2>2, <3>2 DEF ToldAs
    <2>3. CASE k # r.key
      <3>1. ToldAs(k, listing[k].state)
        BY <1>4, <2>1, <2>3 DEF AboutToTell
      <3>2. \A s : ToldAs(k, s) => ToldAs(k, s)'
        BY <1>9, <2>3
      <3> QED BY <1>1, <3>1, <3>2 DEF ToldAs
    <2> QED BY <2>2, <2>3
  <1> QED BY <1>6, <1>10, <1>11, <1>12 DEF TellsInv

LEMMA FinishProcFSTells ==
    ASSUME PollInv, TellsInv, FinishProcFS
    PROVE  TellsInv'
  <1> DEFINE left == DOMAIN known \cap DOMAIN listing
  <1>1. /\ next = <<>> /\ kind = "linuxProcess"
        /\ known' = [k \in left |-> known[k]]
        /\ UNCHANGED <<kind, sent, next, listing, todo, baseline, errors, cancelled>>
    BY DEF FinishProcFS, Sent, Restrict
  <1>2. DOMAIN known' \subseteq DOMAIN known /\ \A k \in DOMAIN known' : known'[k] = known[k]
    BY <1>1
  <1>3. errors' \in Nat /\ (Clean' => Clean)
    BY <1>1 DEF TellsInv, Clean, Dropped
  <1>4. KnownBacked => KnownBacked'
    BY <1>1, <1>2 DEF KnownBacked, Backed, ToldAs, AtStart, Due, AboutToTell
  <1>5. NextIsKnown' /\ ListedBacked'
    BY <1>1 DEF NextIsKnown, ListedBacked, GoneThrough
  <1> QED BY <1>3, <1>4, <1>5 DEF TellsInv

(* At the end of a table everything in it has been told or was known, and    *)
(* what is known of the other table stays known.                             *)
LEMMA FinishTableTells ==
    ASSUME PollInv, TellsInv, FinishTable
    PROVE  TellsInv'
  <1> DEFINE others == {k \in DOMAIN known : TableOf[k] # Head(tables)}
             learnt == DOMAIN listing \cup others
  <1>1. PollTypes /\ ListingOK
    BY DEF PollInv
  <1>2. /\ kind = "linuxNetwork" /\ phase = "sending" /\ next = <<>> /\ todo = {}
        /\ known' = [k \in learnt |-> IF k \in DOMAIN listing THEN listing[k].state ELSE known[k]]
        /\ NextTable
        /\ UNCHANGED <<kind, sent, next, baseline, cancelled>>
    BY DEF FinishTable, Sent
  <1>3. /\ DOMAIN known' = learnt
        /\ \A k \in DOMAIN listing : known'[k] = listing[k].state
        /\ \A k \in learnt : k \notin DOMAIN listing => known'[k] = known[k] /\ k \in DOMAIN known
    BY <1>2
  <1>4. errors' \in {errors, errors + 1}
    BY <1>2 DEF NextTable
  <1>5. errors' \in Nat /\ (Clean' => Clean)
    <2>1. errors \in Nat
      BY DEF TellsInv
    <2> QED BY <1>2, <1>4, <2>1 DEF Clean, Dropped
  <1>6. /\ kind \notin Services
        /\ \A k \in DOMAIN listing : listing[k].state \in States
        /\ \A k \in DOMAIN known : known[k] \in States
    BY <1>1, <1>2 DEF Services, PollTypes, Entry
  <1>7. ASSUME KnownBacked, ListedBacked PROVE KnownBacked'
    <2> SUFFICES ASSUME NEW k \in learnt PROVE Backed(k, known[k])'
      BY <1>3 DEF KnownBacked
    <2>1. Backed(k, known'[k])
      <3>1. CASE k \in DOMAIN known
        <4>1. Backed(k, known[k])
          BY <1>2, <1>7, <3>1 DEF KnownBacked, Due, AboutToTell
        <4>2. known'[k] = known[k]
          BY <1>3, <1>6, <3>1, OneState
        <4> QED BY <4>1, <4>2
      <3>2. CASE k \notin DOMAIN known
        <4>1. k \in DOMAIN listing
          BY <3>2
        <4>2. ToldAs(k, listing[k].state)
          BY <1>2, <1>7, <3>2, <4>1 DEF ListedBacked, GoneThrough, AboutToTell
        <4> QED BY <1>3, <4>1, <4>2 DEF Backed
      <3> QED BY <3>1, <3>2
    <2> QED BY <1>2, <2>1 DEF Backed, ToldAs, AtStart
  <1>8. NextIsKnown'
    BY <1>2 DEF NextIsKnown
  <1>9. ListedBacked'
    <2> SUFFICES ASSUME NEW k \in DOMAIN listing' \ todo', phase' = "sending"
                 PROVE  k \in DOMAIN known'
      BY DEF ListedBacked, GoneThrough
    <2>1. ReadTable(Head(tables')) /\ Head(tables') # Head(tables)
      BY <1>2, NextTableFacts
    <2>2. TableOf[k] = Head(tables') /\ k \in DOMAIN known
      BY <1>1, <2>1, ReadTableFacts
    <2> QED BY <1>3, <2>1, <2>2
  <1> QED BY <1>5, <1>7, <1>8, <1>9 DEF TellsInv

LEMMA TellsStarts == PollInit => TellsInv
  BY DEF PollInit, FeedInit, Nothing, TellsInv, KnownBacked, NextIsKnown, ListedBacked

LEMMA TellsKeeps == PollInv /\ TellsInv /\ [PollNext]_<<feedVars, pollVars>> => TellsInv'
  <1> SUFFICES ASSUME PollInv, TellsInv, [PollNext]_<<feedVars, pollVars>> PROVE TellsInv'
    OBVIOUS
  <1> USE DEF feedVars, pollVars, worldVars, ghosts
  <1>0. errors \in Nat
    BY DEF TellsInv
  <1>1. ASSUME UNCHANGED <<kind, errors, cancelled>>
        PROVE  errors' \in Nat /\ (Clean' => Clean)
    BY <1>0, <1>1 DEF Clean, Dropped
  <1>2. ASSUME kind' = kind, errors' = errors + 1, kind = "linuxNetwork" PROVE TellsInv'
    BY <1>0, <1>2 DEF TellsInv, Clean, Dropped
  <1>3. CASE UNCHANGED <<feedVars, pollVars>>
    BY <1>1, <1>3, RestTells
  <1>4. CASE Begins
    BY <1>4, BeginsTells
  <1>5. CASE PollProcFS \/ PollLinuxServices \/ PollWindowsServices \/ PollMacProcesses
    <2>1. kind \notin LearnsFirst /\ kind # "linuxNetwork"
          /\ UNCHANGED <<kind, sent, next, known, baseline, errors, cancelled>>
      BY <1>5 DEF PollProcFS, PollLinuxServices, PollWindowsServices, PollMacProcesses,
                  QueryThenReport, Begin, LearnsFirst
    <2> QED BY <1>1, <2>1, RestTells
  <1>6. CASE PollToolhelp \/ PollIphlpapi
    <2>1. PICK missing : Replace(Listed(missing))
      BY <1>6 DEF PollToolhelp, PollIphlpapi
    <2>2. kind \in LearnsFirst
      BY <1>6 DEF PollToolhelp, PollIphlpapi, LearnsFirst
    <2> QED BY <2>1, <2>2, ReplaceTells
  <1>7. CASE PollProcNet
    BY <1>7, ReadTells
  <1>8. CASE SkipTable
    BY <1>2, <1>8 DEF SkipTable
  <1>9. CASE SkipPoll
    <2>1. UNCHANGED <<kind, phase, sent, next, known, listing, todo, baseline, cancelled>>
          /\ errors' \in {errors, errors + 1} /\ kind # "linuxNetwork"
      BY <1>9 DEF SkipPoll
    <2>2. errors' \in Nat /\ (Clean' => Clean)
      BY <1>0, <2>1 DEF Clean, Dropped
    <2> QED BY <2>1, <2>2, RestTells
  <1>10. ASSUME NEW k \in Keys, Offer(k) PROVE TellsInv'
    BY <1>10, OfferTells
  <1>11. CASE SendReport
    BY <1>11, SendTells
  <1>12. CASE DropReport
    BY <1>2, <1>12 DEF DropReport
  <1>13. CASE Abandon
    <2>1. cancelled' /\ errors' \in {errors, errors + 1}
      BY <1>13 DEF Abandon, NextTable
    <2> QED BY <1>0, <2>1 DEF TellsInv, Clean
  <1>14. CASE FinishProcFS
    BY <1>14, FinishProcFSTells
  <1>15. CASE FinishTable
    BY <1>15, FinishTableTells
  <1>16. CASE FinishOthers
    <2>1. UNCHANGED <<kind, sent, next, known, listing, todo, baseline, errors, cancelled>>
          /\ phase' = "waiting"
      BY <1>16 DEF FinishOthers
    <2> QED BY <1>1, <2>1, RestTells
  <1>17. ASSUME NEW k \in Keys, Arrive(k) \/ Leave(k) PROVE TellsInv'
    <2>1. UNCHANGED <<kind, phase, sent, next, known, listing, todo, baseline, errors, cancelled>>
      BY <1>17 DEF Arrive, Leave, HostStep
    <2> QED BY <1>1, <2>1, RestTells
  <1>18. CASE (Take \/ Cancel \/ End) /\ UNCHANGED pollVars
    <2>1. /\ UNCHANGED <<kind, sent, errors>> /\ (cancelled => cancelled')
          /\ phase' = phase \/ phase' = "ended"
      BY <1>18 DEF Take, Cancel, End
    <2>2. errors' \in Nat /\ (Clean' => Clean)
      BY <1>0, <2>1 DEF Clean, Dropped
    <2> QED BY <1>18, <2>1, <2>2, RestTells
  <1> QED BY <1>3, <1>4, <1>5, <1>6, <1>7, <1>8, <1>9, <1>10, <1>11, <1>12, <1>13,
             <1>14, <1>15, <1>16, <1>17, <1>18 DEF PollNext, PollStep, Tick

(* A sensor learns nothing in silence: between two polls, whatever it knows  *)
(* it has told, with that state and after any other of the item, or has had  *)
(* since its start; unless its context has ended, or the Linux network       *)
(* sensor has given up a report or a table.  Whatever kind it is, however    *)
(* its channel fills and the host changes during a poll.                     *)
THEOREM NothingLearntSilently == PollSpec => []KnownIsTold
  <1>1. PollInv /\ TellsInv => KnownIsTold
    <2> SUFFICES ASSUME PollTypes, KnownBacked, phase = "waiting", NEW k \in DOMAIN known
                 PROVE  Backed(k, known[k])
      BY DEF PollInv, TellsInv, KnownIsTold
    <2>1. ~Due(k) /\ ~AboutToTell(k, known[k])
      BY DEF PollTypes, Due, AboutToTell
    <2> QED BY <2>1 DEF KnownBacked
  <1> QED BY <1>1, PollStarts, PollNextKeeps, TellsStarts, TellsKeeps, PTL DEF PollSpec

-----------------------------------------------------------------------------
(* Replaying events.                                                         *)
FileEvent == [type : {"create", "modify", "write", "read", "delete", "rename"}, path : Paths,
              from : Seq(Paths), value : BOOLEAN]

LEMMA ApplyStays ==
    ASSUME NEW there \in SUBSET Paths, NEW e \in FileEvent
    PROVE  Apply(there, e) \in SUBSET Paths
  BY DEF Apply, Moved, FileEvent

(* What Replay goes through.                                                 *)
Goes(g, there, events) ==
    /\ g \in [0 .. Len(events) -> SUBSET Paths]
    /\ g[0] = there
    /\ \A i \in 0 .. Len(events) - 1 : g[i + 1] = Apply(g[i], events[i + 1])

LEMMA ReplayGoes ==
    ASSUME NEW there \in SUBSET Paths, NEW events \in Seq(FileEvent)
    PROVE  \E g : Goes(g, there, events) /\ Replay(there, events) = g[Len(events)]
  <1> DEFINE N == Len(events)
             V == SUBSET Paths
             F == [i \in Nat |-> [x \in V |-> IF i < N THEN Apply(x, events[i + 1]) ELSE x]]
             Equation(g) ==
                 g = [n \in 0 .. N |-> IF n = 0 THEN there ELSE Apply(g[n - 1], events[n])]
             T == CHOOSE g : Equation(g)
  <1>1. N \in Nat /\ there \in V
    OBVIOUS
  <1>2. ASSUME NEW i \in Nat, i < N, NEW x \in V PROVE Apply(x, events[i + 1]) \in V
    <2>1. events[i + 1] \in FileEvent
      BY <1>2
    <2> QED BY <2>1, ApplyStays
  <1>3. Replay(there, events) = T[N]
    BY DEF Replay
  <1> HIDE DEF N
  <1> HIDE DEF V
  <1>4. Steps(V, F)
    BY <1>1, <1>2 DEF Steps
  <1>5. ASSUME NEW i \in 0 .. N - 1, NEW x \in V PROVE F[i][x] = Apply(x, events[i + 1])
    BY <1>1
  <1> HIDE DEF F
  <1>6. PICK g : Beginning(N, g, V, there, F)
    BY <1>1, <1>4, BeginningsExist, Zenon
  <1>7. ASSUME NEW n \in 0 .. N, n # 0 PROVE g[n] = Apply(g[n - 1], events[n])
    <2>1. n - 1 \in 0 .. N - 1 /\ (n - 1) + 1 = n /\ n - 1 \in 0 .. N
      BY <1>1, <1>7
    <2>2. g[(n - 1) + 1] = F[n - 1][g[n - 1]] /\ g[n - 1] \in V
      BY <1>6, <2>1 DEF Beginning
    <2>3. F[n - 1][g[n - 1]] = Apply(g[n - 1], events[(n - 1) + 1])
      BY <1>5, <2>1, <2>2
    <2> QED BY <2>1, <2>2, <2>3
  <1>8. Equation(g)
    BY <1>6, <1>7 DEF Beginning
  <1>9. Equation(T)
    <2> HIDE DEF Equation
    <2> QED BY <1>8
  <1> HIDE DEF T
  <1>10. T = [n \in 0 .. N |-> T[n]] /\ T[0] = there
    BY <1>1, <1>9
  <1>11. ASSUME NEW n \in 0 .. N - 1 PROVE T[n + 1] = Apply(T[n], events[n + 1])
    <2>1. n + 1 \in 0 .. N /\ n + 1 # 0 /\ (n + 1) - 1 = n
      BY <1>1
    <2> QED BY <1>9, <2>1
  <1>12. Beginning(N, T, V, there, F)
    <2>1. \A i \in 0 .. N - 1 : T[i] \in V => T[i + 1] = F[i][T[i]]
      BY <1>5, <1>11
    <2> QED BY <1>1, <1>4, <1>10, <2>1, BeginningUpTo
  <1>13. Goes(T, there, events)
    BY <1>11, <1>12 DEF Beginning, Goes, V, N
  <1> QED BY <1>3, <1>13 DEF N

LEMMA GoesAlike ==
    ASSUME NEW there, NEW events, NEW longer, NEW g, NEW h,
           Len(events) \in Nat, Len(longer) \in Nat, Len(events) <= Len(longer),
           \A i \in 1 .. Len(events) : longer[i] = events[i],
           Goes(g, there, events), Goes(h, there, longer)
    PROVE  h[Len(events)] = g[Len(events)]
  <1> DEFINE N == Len(events)
             S == {i \in Nat : i <= N => h[i] = g[i]}
  <1>1. 0 \in S
    BY DEF Goes
  <1>2. ASSUME NEW i \in Nat, i \in S PROVE i + 1 \in S
    <2> SUFFICES ASSUME i + 1 <= N PROVE h[i + 1] = g[i + 1]
      OBVIOUS
    <2>1. i \in 0 .. N - 1 /\ i \in 0 .. Len(longer) - 1 /\ i + 1 \in 1 .. N /\ h[i] = g[i]
      BY <1>2
    <2>2. g[i + 1] = Apply(g[i], events[i + 1]) /\ h[i + 1] = Apply(h[i], longer[i + 1])
      BY <2>1 DEF Goes
    <2> QED BY <2>1, <2>2
  <1>3. Nat \subseteq S
    <2> HIDE DEF S
    <2> QED BY <1>1, <1>2, Induction
  <1> QED BY <1>3

(* No event changes nothing, and one more event is applied last.             *)
LEMMA ReplayNone ==
    ASSUME NEW there \in SUBSET Paths
    PROVE  Replay(there, <<>>) = there
  <1>1. <<>> \in Seq(FileEvent) /\ Len(<<>>) = 0
    OBVIOUS
  <1>2. PICK g : Goes(g, there, <<>>) /\ Replay(there, <<>>) = g[Len(<<>>)]
    BY <1>1, ReplayGoes
  <1> QED BY <1>1, <1>2 DEF Goes

LEMMA ReplayAppend ==
    ASSUME NEW there \in SUBSET Paths, NEW events \in Seq(FileEvent), NEW e \in FileEvent
    PROVE  /\ Replay(there, events) \in SUBSET Paths
           /\ Replay(there, Append(events, e)) = Apply(Replay(there, events), e)
  <1> DEFINE longer == Append(events, e)
             N == Len(events)
  <1>1. /\ longer \in Seq(FileEvent) /\ Len(longer) = N + 1 /\ N \in Nat
        /\ longer[N + 1] = e /\ \A i \in 1 .. N : longer[i] = events[i]
    OBVIOUS
  <1>2. PICK g : Goes(g, there, events) /\ Replay(there, events) = g[N]
    BY ReplayGoes
  <1>3. PICK h : Goes(h, there, longer) /\ Replay(there, longer) = h[Len(longer)]
    BY <1>1, ReplayGoes
  <1> HIDE DEF longer
  <1>4. h[N] = g[N]
    BY <1>1, <1>2, <1>3, GoesAlike
  <1>5. h[N + 1] = Apply(h[N], longer[N + 1])
    BY <1>1, <1>3 DEF Goes
  <1>6. g[N] \in SUBSET Paths
    BY <1>1, <1>2 DEF Goes
  <1> QED BY <1>1, <1>2, <1>3, <1>4, <1>5, <1>6 DEF longer

-----------------------------------------------------------------------------
(* Replaying records: what a record says of the files, to each sensor.       *)
Actions(sensor) ==
    {"added", "removed", "modified"} \cup
    IF sensor = "windowsRegistry" THEN {"value removed", "queried", "opened"} ELSE {"old name", "new name"}

Change(sensor) == [action : Actions(sensor), path : Paths]

Meaning(sensor, there, n) ==
    CASE n.action = "added" \/ (n.action = "modified" /\ sensor = "windowsRegistry") ->
             there \cup {n.path}
      [] n.action = "removed" -> there \ {n.path}
      [] n.action = "old name" /\ sensor = "windowsFile" -> there \ {n.path}
      [] n.action = "new name" /\ sensor = "windowsFile" -> there \cup {n.path}
      [] n.action \in {"old name", "new name"} /\ sensor # "windowsFile" ->
             Moved(there, n.path)
      [] OTHER -> there

(* The records of q lead from the files there to those here.                 *)
Trail(st, sensor, q) ==
    /\ st \in [0 .. Len(q) -> SUBSET Paths]
    /\ \A i \in 1 .. Len(q) : st[i] = Meaning(sensor, st[i - 1], q[i])

Leads(sensor, there, q, here) ==
    \E st : Trail(st, sensor, q) /\ st[0] = there /\ st[Len(q)] = here

LEMMA MeaningStays ==
    ASSUME NEW sensor, NEW there \in SUBSET Paths, NEW n \in Change(sensor)
    PROVE  Meaning(sensor, there, n) \in SUBSET Paths
  BY DEF Meaning, Moved, Change, Actions

LEMMA LeadsNowhere ==
    ASSUME NEW sensor, NEW there \in SUBSET Paths, NEW here, NEW q, Len(q) = 0
    PROVE  Leads(sensor, there, q, here) <=> here = there
  <1>1. Trail([i \in 0 .. 0 |-> there], sensor, q)
    BY DEF Trail
  <1> QED BY <1>1 DEF Leads

LEMMA LeadsAppend ==
    ASSUME NEW sensor, NEW there, NEW q \in Seq(Change(sensor)), NEW here, NEW n \in Change(sensor),
           Leads(sensor, there, q, here)
    PROVE  Leads(sensor, there, Append(q, n), Meaning(sensor, here, n))
  <1> DEFINE N == Len(q)
             longer == Append(q, n)
  <1>1. /\ Len(longer) = N + 1 /\ N \in Nat
        /\ longer[N + 1] = n /\ \A i \in 1 .. N : longer[i] = q[i]
    OBVIOUS
  <1>2. PICK st : Trail(st, sensor, q) /\ st[0] = there /\ st[N] = here
    BY DEF Leads
  <1> DEFINE on == [i \in 0 .. N + 1 |-> IF i <= N THEN st[i] ELSE Meaning(sensor, here, n)]
  <1>3. here \in SUBSET Paths
    BY <1>1, <1>2 DEF Trail
  <1>4. on \in [0 .. N + 1 -> SUBSET Paths] /\ on[0] = there
        /\ on[N + 1] = Meaning(sensor, here, n) /\ \A i \in 0 .. N : on[i] = st[i]
    BY <1>1, <1>2, <1>3, MeaningStays DEF Trail
  <1> HIDE DEF on, longer
  <1>5. ASSUME NEW i \in 1 .. N + 1 PROVE on[i] = Meaning(sensor, on[i - 1], longer[i])
    <2>1. CASE i = N + 1
      BY <1>1, <1>2, <1>4, <2>1
    <2>2. CASE i # N + 1
      <3>1. i \in 1 .. N /\ i \in 0 .. N /\ i - 1 \in 0 .. N
        BY <1>1, <2>2
      <3> QED BY <1>1, <1>2, <1>4, <3>1 DEF Trail
    <2> QED BY <2>1, <2>2
  <1>6. Trail(on, sensor, longer)
    BY <1>1, <1>4, <1>5 DEF Trail
  <1> QED BY <1>1, <1>4, <1>6 DEF Leads, longer

(* Taking the first of the records.                                          *)
LEMMA LeadsFirst ==
    ASSUME NEW sensor, NEW there, NEW q \in Seq(Change(sensor)), NEW here,
           Leads(sensor, there, q, here),
           NEW rest, Len(rest) \in Nat, Len(q) = Len(rest) + 1,
           \A i \in 1 .. Len(rest) : rest[i] = q[i + 1]
    PROVE  Leads(sensor, Meaning(sensor, there, q[1]), rest, here)
  <1> DEFINE N == Len(rest)
  <1>1. PICK st : Trail(st, sensor, q) /\ st[0] = there /\ st[N + 1] = here
    BY DEF Leads
  <1> DEFINE on == [i \in 0 .. N |-> st[i + 1]]
  <1>2. on \in [0 .. N -> SUBSET Paths] /\ \A i \in 0 .. N : on[i] = st[i + 1]
    BY <1>1 DEF Trail
  <1> HIDE DEF on
  <1>3. on[0] = Meaning(sensor, there, q[1]) /\ on[N] = here
    BY <1>1, <1>2 DEF Trail
  <1>4. ASSUME NEW i \in 1 .. N PROVE on[i] = Meaning(sensor, on[i - 1], rest[i])
    <2>1. i \in 0 .. N /\ i - 1 \in 0 .. N /\ i + 1 \in 1 .. N + 1 /\ (i - 1) + 1 = i
          /\ (i + 1) - 1 = i
      OBVIOUS
    <2>2. on[i] = st[i + 1] /\ on[i - 1] = st[i]
      BY <1>2, <2>1
    <2>3. st[i + 1] = Meaning(sensor, st[i], q[i + 1])
      BY <1>1, <2>1 DEF Trail
    <2> QED BY <2>2, <2>3
  <1>5. Trail(on, sensor, rest)
    BY <1>2, <1>4 DEF Trail
  <1> QED BY <1>3, <1>5 DEF Leads

LEMMA LeadsPaths ==
    ASSUME NEW sensor, NEW there, NEW q, Len(q) \in Nat, NEW here,
           Leads(sensor, there, q, here)
    PROVE  there \in SUBSET Paths /\ here \in SUBSET Paths
  BY DEF Leads, Trail

-----------------------------------------------------------------------------
(* The invariant of the watching sensors: while nothing was lost, the        *)
(* records read and queued lead from what the events say to the files there  *)
(* are.                                                                      *)
WatchTypes ==
    /\ kind \in WatchKinds
    /\ files \in SUBSET Paths /\ first \in SUBSET Paths
    /\ errors \in Nat /\ overflowed \in BOOLEAN /\ replaced \in BOOLEAN
    /\ raw \in Seq(Change(kind) \cup {Overflow}) /\ batch \in Seq(Change(kind) \cup {Overflow})
    /\ batch # <<>> <=> phase = "sending"
    /\ phase = "starting" => sent = <<>> /\ raw = <<>> /\ ~overflowed

(* What Windows loses of a directory shows.                                  *)
LossShows ==
    kind = "windowsFile" /\ overflowed =>
        errors > 0 \/ (raw # <<>> /\ Head(raw) = Overflow)

QueueLeads ==
    phase \in {"waiting", "sending"} /\ ~cancelled /\ errors = 0 /\ ~overflowed /\ ~replaced =>
        /\ sent \in Seq(FileEvent)
        /\ raw \in Seq(Change(kind)) /\ batch \in Seq(Change(kind))
        /\ Leads(kind, Replay(first, sent), batch \o raw, files)

WatchInv == WatchTypes /\ LossShows /\ QueueLeads

LEMMA WatchInvShows == WatchInv => ReportsReplay
  <1> SUFFICES ASSUME WatchInv, Settled, errors = 0, overflowed => kind = "windowsFile", ~ replaced
               PROVE  Replay(first, sent) = files
    BY DEF ReportsReplay
  <1>1. ~ overflowed
    BY DEF WatchInv, WatchTypes, LossShows, Settled
  <1>2. Leads(kind, Replay(first, sent), batch \o raw, files)
    BY <1>1 DEF WatchInv, QueueLeads, Settled
  <1>3. batch \o raw = <<>> /\ Len(batch \o raw) = 0
    BY DEF Settled
  <1>4. Replay(first, sent) \in SUBSET Paths
    BY <1>2, <1>3, LeadsPaths
  <1> QED BY <1>2, <1>3, <1>4, LeadsNowhere

LEMMA WatchStarts == WatchInit => WatchInv
  <1> SUFFICES ASSUME WatchInit PROVE WatchInv
    OBVIOUS
  <1>1. WatchTypes
    <2>1. files \in SUBSET Paths /\ {} \in SUBSET Paths
      BY WatchingAssumption DEF WatchInit
    <2>2. /\ kind \in WatchKinds /\ phase = "starting" /\ sent = <<>> /\ errors = 0
          /\ raw = <<>> /\ batch = <<>> /\ overflowed = FALSE /\ replaced = FALSE /\ first = {}
      BY DEF WatchInit, FeedInit
    <2>3. <<>> \in Seq(Change(kind) \cup {Overflow})
      OBVIOUS
    <2>4. batch # <<>> <=> phase = "sending"
      BY <2>2
    <2> QED BY <2>1, <2>2, <2>3, <2>4 DEF WatchTypes
  <1>2. LossShows /\ QueueLeads
    BY DEF WatchInit, FeedInit, LossShows, QueueLeads
  <1> QED BY <1>1, <1>2 DEF WatchInv

(* A step at which nothing is read or told.                                  *)
LEMMA WatchRests ==
    ASSUME WatchInv, UNCHANGED <<kind, sent, errors, watchVars>>,
           phase' = phase \/ (phase # "sending" /\ phase' = "ended"),
           ~ cancelled' => ~ cancelled
    PROVE  WatchInv'
  <1>1. WatchTypes'
    BY DEF WatchInv, WatchTypes, watchVars, Change, Actions, FileEvent, Overflow, Record
  <1>2. LossShows'
    BY DEF WatchInv, LossShows, watchVars, IsRegistry, Overflow, Record
  <1>3. QueueLeads'
    BY DEF WatchInv, QueueLeads, watchVars, Change, Actions, FileEvent
  <1> QED BY <1>1, <1>2, <1>3 DEF WatchInv

(* A change of the files is recorded, or the loss of its records.            *)
LEMMA OperationKeeps ==
    ASSUME WatchInv, NEW records \in Seq(Change(kind)), NEW after \in SUBSET Paths,
           ~ (IsLinux /\ MovedOnto(records)) =>
               \A there : \A q \in Seq(Change(kind)) :
                   Leads(kind, there, q, files) => Leads(kind, there, q \o records, after),
           Operation(records, after)
    PROVE  WatchInv'
  <1> DEFINE Queue == Seq(Change(kind) \cup {Overflow})
  <1>1. UNCHANGED <<kind, phase, sent, taken, errors, cancelled, batch, first>>
        /\ files' = after /\ raw' = Queued(records)
        /\ overflowed' = (overflowed \/ (phase # "starting" /\ raw' # raw \o records))
        /\ replaced' = (replaced \/ (IsLinux /\ phase # "starting" /\ MovedOnto(records)))
    BY DEF Operation, feedVars
  <1>2. WatchTypes /\ raw \in Queue /\ records \in Queue /\ raw \o records \in Queue
    BY DEF WatchInv, WatchTypes
  <1>3. Append(raw, Overflow) \in Queue /\ <<Overflow>> \in Queue
    BY <1>2
  <1>4. Queued(records) \in Queue
    BY <1>2, <1>3 DEF Queued, Overflown
  <1>5. CASE phase = "starting"
    <2>1. raw' = raw /\ overflowed' = overflowed /\ replaced' = replaced
      <3>1. Queued(records) = raw
        BY <1>5 DEF Queued
      <3> QED BY <1>1, <1>2, <1>5, <3>1 DEF WatchTypes
    <2>2. WatchTypes'
      BY <1>1, <1>2, <2>1 DEF WatchTypes, FileEvent, Change, Actions, Overflow, Record
    <2>3. LossShows'
      BY <1>1, <1>2, <1>5, <2>1 DEF WatchTypes, LossShows
    <2>4. QueueLeads'
      BY <1>1, <1>5 DEF QueueLeads
    <2> QED BY <2>2, <2>3, <2>4 DEF WatchInv
  <1>6. CASE phase # "starting"
    <2>1. WatchTypes'
      BY <1>1, <1>2, <1>4, <1>6 DEF WatchTypes, FileEvent, Change, Actions, Overflow, Record
    <2>3. kind = "windowsFile" => raw' = raw \o records \/ raw' = <<Overflow>>
      BY <1>1, <1>6 DEF Queued, Overflown
    <2>4. LossShows'
      <3>2. ASSUME kind' = "windowsFile", overflowed', ~ (errors' > 0)
            PROVE  raw' # <<>> /\ Head(raw') = Overflow
        <4>1. CASE raw' = <<Overflow>>
          BY <4>1
        <4>2. CASE raw' = raw \o records
          <5>1. overflowed /\ kind = "windowsFile" /\ ~ (errors > 0)
            BY <1>1, <3>2, <4>2
          <5>2. raw # <<>> /\ Head(raw) = Overflow
            BY <5>1 DEF WatchInv, LossShows
          <5> QED BY <1>2, <4>2, <5>2
        <4> QED BY <1>1, <2>3, <3>2, <4>1, <4>2
      <3>3. Overflow' = Overflow
        BY DEF Overflow, Record
      <3> QED BY <3>2, <3>3 DEF LossShows
    <2>5. QueueLeads'
      <3> SUFFICES ASSUME phase' \in {"waiting", "sending"}, ~ cancelled', errors' = 0, ~ overflowed', ~ replaced'
                   PROVE  /\ sent' \in Seq(FileEvent)
                          /\ raw' \in Seq(Change(kind)) /\ batch' \in Seq(Change(kind))
                          /\ Leads(kind', Replay(first', sent'), batch' \o raw', files')
        BY <1>1 DEF QueueLeads
      <3>1. ~ overflowed /\ raw' = raw \o records /\ ~ replaced /\ ~ (IsLinux /\ MovedOnto(records))
        BY <1>1, <1>6
      <3>2. /\ sent \in Seq(FileEvent)
            /\ raw \in Seq(Change(kind)) /\ batch \in Seq(Change(kind))
            /\ Leads(kind, Replay(first, sent), batch \o raw, files)
        BY <1>1, <3>1 DEF WatchInv, QueueLeads
      <3>3. Leads(kind, Replay(first, sent), (batch \o raw) \o records, after)
        <4>1. batch \o raw \in Seq(Change(kind))
          BY <3>2
        <4> QED BY <3>1, <3>2, <4>1
      <3>4. (batch \o raw) \o records = batch \o (raw \o records)
        BY <3>2, ConcatAssociative
      <3> QED BY <1>1, <3>1, <3>2, <3>3, <3>4
    <2> QED BY <2>1, <2>4, <2>5 DEF WatchInv
  <1> QED BY <1>5, <1>6

LEMMA OneRecord ==
    ASSUME WatchInv, NEW n \in Change(kind), Operation(<<n>>, Meaning(kind, files, n))
    PROVE  WatchInv'
  <1>1. files \in SUBSET Paths
    BY DEF WatchInv, WatchTypes
  <1>2. ASSUME NEW there, NEW q \in Seq(Change(kind)), Leads(kind, there, q, files)
        PROVE  Leads(kind, there, q \o <<n>>, Meaning(kind, files, n))
    <2>1. q \o <<n>> = Append(q, n)
      BY AppendIsConcat
    <2> QED BY <1>2, <2>1, LeadsAppend
  <1> DEFINE after == Meaning(kind, files, n)
             records == <<n>>
  <1>3. records \in Seq(Change(kind))
    OBVIOUS
  <1>4. after \in SUBSET Paths
    BY <1>1, MeaningStays
  <1>5. Operation(records, after)
    OBVIOUS
  <1> HIDE DEF after, records
  <1>6. \A there : \A q \in Seq(Change(kind)) :
            Leads(kind, there, q, files) => Leads(kind, there, q \o records, after)
    BY <1>2 DEF after, records
  <1> QED BY <1>3, <1>4, <1>5, <1>6, OperationKeeps

(* Putting records together.                                                 *)
LEMMA Records ==
    ASSUME NEW S, NEW a \in S, NEW s \in Seq(S)
    PROVE  /\ Append(s, a) \in Seq(S) /\ <<a>> \o s \in Seq(S) /\ <<>> \o s = s
           /\ a \in Range(Append(s, a))
           /\ s \o <<a>> = Append(s, a)
  <1>1. Len(s) + 1 \in DOMAIN Append(s, a) /\ Append(s, a)[Len(s) + 1] = a
    OBVIOUS
  <1>2. a \in Range(Append(s, a))
    BY <1>1 DEF Range
  <1> QED BY <1>2

(* The records of `leaving` lead from the files other than q to those of     *)
(* `left` other than q.                                                      *)
LeadsBeside(leaving, q, left) ==
    \A there : \A old \in Seq(Change(kind)) :
        Leads(kind, there, old, files \ {q}) => Leads(kind, there, old \o leaving, left \ {q})

(* The change that leaves those files and a new one at q.                    *)
TakesName(leaving, q, left) ==
    Operation(Displaced(q) \o Append(leaving, Record("new name", q)), left \cup {q})

(* A file takes the name of one that may be there: Linux says nothing of     *)
(* that one, and then only `replaced` has to be right.                       *)
LEMMA NameTaken ==
    ASSUME WatchInv, NEW leaving \in Seq(Change(kind)), NEW q \in Paths, ~ IsRegistry,
           NEW left \in SUBSET Paths,
           LeadsBeside(leaving, q, left), TakesName(leaving, q, left)
    PROVE  WatchInv'
  <1> DEFINE new == Record("new name", q)
             out == Append(leaving, new)
             records == Displaced(q) \o out
             after == left \cup {q}
             gone == Record("removed", q)
  <1>1. new \in Change(kind) /\ new.action = "new name" /\ new.path = q
    BY DEF Record, Change, Actions, IsRegistry
  <1>2. gone \in Change(kind) /\ gone.action = "removed" /\ gone.path = q
    BY DEF Record, Change, Actions
  <1>3. after \in SUBSET Paths /\ files \in SUBSET Paths
    BY DEF WatchInv, WatchTypes
  <1> HIDE DEF new, gone
  <1>4. Displaced(q) = IF ~ IsLinux /\ q \in files THEN <<gone>> ELSE << >>
    BY DEF Displaced, gone
  <1> DEFINE C == Change(kind)
  <1>C. leaving \in Seq(C) /\ new \in C /\ gone \in C
    BY <1>1, <1>2
  <1> HIDE DEF C
  <1>5. out \in Seq(C) /\ records \in Seq(C)
    <2>1. out \in Seq(C)
      BY <1>C, Records
    <2> HIDE DEF out
    <2>2. <<gone>> \o out \in Seq(C) /\ <<>> \o out = out
      BY <1>C, <2>1, Records
    <2> QED BY <1>4, <2>1, <2>2
  <1>6. ASSUME ~ (IsLinux /\ MovedOnto(records)), NEW there, NEW old \in Seq(C),
               Leads(kind, there, old, files)
        PROVE  Leads(kind, there, old \o records, after)
    <2> DEFINE from == IF ~ IsLinux /\ q \in files THEN Append(old, gone) ELSE old
    <2>1. new \in Range(out)
      BY <1>C, Records
    <2>2. Append(old, gone) \in Seq(C)
      BY <1>C, Records
    <2>3. from = (IF ~ IsLinux /\ q \in files THEN Append(old, gone) ELSE old) /\ from \in Seq(C)
      BY <2>2
    <2> HIDE DEF from
    <2>4. Append(from \o leaving, new) = from \o out /\ from \o leaving \in Seq(C)
      <3>1. Append(from \o leaving, new) = from \o out
        <4> HIDE DEF records, after
        <4>1. from \in Seq(C) /\ leaving \in Seq(C) /\ new \in C
          BY <1>C, <2>3
        <4> QED BY <4>1, SMTT(60)
      <3>2. from \o leaving \in Seq(C)
        BY <1>C, <2>3
      <3> QED BY <3>1, <3>2
    <2> HIDE DEF out
    <2>5. <<>> \o out = out /\ Append(old, gone) \o out = old \o (<<gone>> \o out)
      <3>1. <<>> \o out = out
        BY <1>C, <1>5, Records
      <3>2. Append(old, gone) \o out = old \o (<<gone>> \o out)
        BY <1>C, <1>5
      <3> QED BY <3>1, <3>2
    <2>6. IsLinux => q \notin files
      <3> SUFFICES ASSUME IsLinux, q \in files PROVE FALSE
        OBVIOUS
      <3>1. records = out
        BY <1>4, <2>5
      <3> QED BY <1>1, <1>6, <2>1, <3>1 DEF MovedOnto
    <2>7. Leads(kind, there, from, files \ {q})
      <3>1. CASE ~ IsLinux /\ q \in files
        <4>1. Meaning(kind, files, gone) = files \ {q}
          BY <1>2 DEF Meaning
        <4>2. Leads(kind, there, Append(old, gone), Meaning(kind, files, gone))
          BY <1>2, <1>6, LeadsAppend DEF C
        <4> QED BY <2>3, <3>1, <4>1, <4>2
      <3>2. CASE ~ (~ IsLinux /\ q \in files)
        <4>1. files \ {q} = files
          BY <2>6, <3>2
        <4> QED BY <1>6, <2>3, <3>2, <4>1
      <3> QED BY <3>1, <3>2
    <2>8. from \o out = old \o records
      BY <1>4, <2>3, <2>5
    <2>9. Leads(kind, there, from \o leaving, left \ {q})
      BY <2>3, <2>7 DEF C, LeadsBeside
    <2>10. Meaning(kind, left \ {q}, new) = after
      BY <1>1 DEF Meaning, Moved
    <2>11. Leads(kind, there, Append(from \o leaving, new), Meaning(kind, left \ {q}, new))
      BY <1>1, <2>4, <2>9, LeadsAppend DEF C
    <2> QED BY <2>4, <2>8, <2>10, <2>11
  <1>7. Operation(records, after)
    BY DEF new, TakesName
  <1> HIDE DEF records, after
  <1> QED BY <1>3, <1>5, <1>6, <1>7, OperationKeeps DEF C

-----------------------------------------------------------------------------
(* The sensor's steps.                                                       *)
LEMMA WatchBegins ==
    ASSUME WatchInv, WatchFrom
    PROVE  WatchInv'
  <1>1. /\ phase = "starting" /\ phase' = "waiting" /\ first' = files
        /\ UNCHANGED <<kind, sent, errors, cancelled, files, raw, overflowed, replaced, batch>>
    BY DEF WatchFrom
  <1>2. /\ sent = <<>> /\ raw = <<>> /\ batch = <<>> /\ ~ overflowed /\ files \in SUBSET Paths
    BY <1>1 DEF WatchInv, WatchTypes
  <1>3. WatchTypes'
    BY <1>1, <1>2 DEF WatchInv, WatchTypes, Change, Actions, Overflow, Record
  <1>4. LossShows'
    BY <1>1, <1>2 DEF LossShows
  <1>5. QueueLeads'
    <2>1. batch' \o raw' = <<>> /\ Len(batch' \o raw') = 0
      BY <1>1, <1>2
    <2>2. Replay(first', sent') = files'
      BY <1>1, <1>2, ReplayNone
    <2>3. Leads(kind', Replay(first', sent'), batch' \o raw', files')
      BY <1>1, <1>2, <2>1, <2>2, LeadsNowhere
    <2>4. sent' \in Seq(FileEvent) /\ raw' \in Seq(Change(kind)) /\ batch' \in Seq(Change(kind))
      BY <1>1, <1>2
    <2> QED BY <1>1, <2>3, <2>4 DEF QueueLeads
  <1> QED BY <1>3, <1>4, <1>5 DEF WatchInv

LEMMA ReadKeeps ==
    ASSUME WatchInv, NEW n \in 1 .. Len(raw), ReadRecords(n),
           kind = "windowsFile" => Head(raw) # Overflow
    PROVE  WatchInv'
  <1>1. /\ phase = "waiting" /\ phase' = "sending"
        /\ batch' = SubSeq(raw, 1, n) /\ raw' = SubSeq(raw, n + 1, Len(raw))
        /\ UNCHANGED <<kind, sent, errors, cancelled, files, overflowed, replaced, first>>
    BY DEF ReadRecords
  <1>2. WatchTypes /\ raw \in Seq(Change(kind) \cup {Overflow}) /\ batch = <<>>
    BY <1>1 DEF WatchInv, WatchTypes
  <1>3. /\ batch' \in Seq(Change(kind) \cup {Overflow}) /\ raw' \in Seq(Change(kind) \cup {Overflow})
        /\ batch' # <<>> /\ batch' \o raw' = batch \o raw
    BY <1>1, <1>2
  <1>4. WatchTypes'
    BY <1>1, <1>2, <1>3 DEF WatchTypes, Change, Actions, Overflow, Record
  <1>5. LossShows'
    BY <1>1, <1>2 DEF WatchInv, LossShows, IsRegistry
  <1>6. QueueLeads'
    <2> SUFFICES ASSUME ~ cancelled', errors' = 0, ~ overflowed', ~ replaced'
                 PROVE  /\ sent' \in Seq(FileEvent)
                        /\ raw' \in Seq(Change(kind)) /\ batch' \in Seq(Change(kind))
                        /\ Leads(kind', Replay(first', sent'), batch' \o raw', files')
      BY <1>1 DEF QueueLeads
    <2>1. /\ sent \in Seq(FileEvent) /\ raw \in Seq(Change(kind))
          /\ Leads(kind, Replay(first, sent), batch \o raw, files)
      BY <1>1 DEF WatchInv, QueueLeads
    <2>2. batch' \in Seq(Change(kind)) /\ raw' \in Seq(Change(kind))
      BY <1>1, <2>1
    <2> QED BY <1>1, <1>3, <2>1, <2>2
  <1> QED BY <1>4, <1>5, <1>6 DEF WatchInv

LEMMA ReadOverflowKeeps ==
    ASSUME WatchInv, ReadOverflow
    PROVE  WatchInv'
  <1>1. /\ phase = "waiting" /\ raw # <<>> /\ raw' = Tail(raw) /\ errors' = errors + 1
        /\ UNCHANGED <<kind, phase, sent, cancelled, files, overflowed, replaced, batch, first>>
        /\ kind = "windowsFile"
    BY DEF ReadOverflow
  <1>2. WatchTypes /\ errors \in Nat /\ raw \in Seq(Change(kind) \cup {Overflow})
    BY DEF WatchInv, WatchTypes
  <1>3. raw' \in Seq(Change(kind) \cup {Overflow}) /\ errors' \in Nat /\ errors' > 0 /\ errors' # 0
    BY <1>1, <1>2
  <1>4. WatchTypes'
    BY <1>1, <1>2, <1>3 DEF WatchTypes, Change, Actions, Overflow, Record
  <1>5. LossShows' /\ QueueLeads'
    BY <1>1, <1>3 DEF LossShows, QueueLeads, IsRegistry
  <1> QED BY <1>4, <1>5 DEF WatchInv

(* The batch goes on after used of its records: if nothing was lost, what    *)
(* was told of them must be what they say.                                   *)
LEMMA RestOfBatchKeeps ==
    ASSUME WatchInv, phase = "sending", NEW used \in 1 .. Len(batch), Rest(used),
           errors' \in Nat, errors' >= errors,
           NEW rest, rest = SubSeq(batch, used + 1, Len(batch)),
           /\ ~ cancelled /\ errors' = 0 /\ ~ overflowed /\ ~ replaced /\ batch \in Seq(Change(kind))
           /\ raw \in Seq(Change(kind)) /\ sent \in Seq(FileEvent) /\ Replay(first, sent) \in SUBSET Paths
           /\ Leads(kind, Replay(first, sent), batch \o raw, files)
           => /\ sent' \in Seq(FileEvent)
              /\ Leads(kind, Replay(first, sent'), rest \o raw, files)
    PROVE  WatchInv'
  <1>1. /\ batch' = rest
        /\ phase' = IF batch' = <<>> THEN "waiting" ELSE "sending"
        /\ UNCHANGED <<kind, cancelled, files, raw, overflowed, replaced, first>>
    BY DEF Rest
  <1>2. WatchTypes /\ batch \in Seq(Change(kind) \cup {Overflow}) /\ errors \in Nat
    BY DEF WatchInv, WatchTypes
  <1>3. rest \in Seq(Change(kind) \cup {Overflow})
    BY <1>2
  <1>4. WatchTypes'
    BY <1>1, <1>2, <1>3 DEF WatchTypes, Change, Actions, Overflow, Record
  <1>5. LossShows'
    <2>1. errors > 0 => errors' > 0
      BY <1>2
    <2>2. Overflow' = Overflow
      BY DEF Overflow, Record
    <2> QED BY <1>1, <2>1, <2>2 DEF WatchInv, LossShows, IsRegistry
  <1>6. QueueLeads'
    <2> SUFFICES ASSUME ~ cancelled', errors' = 0, ~ overflowed', ~ replaced'
                 PROVE  /\ sent' \in Seq(FileEvent)
                        /\ raw' \in Seq(Change(kind)) /\ batch' \in Seq(Change(kind))
                        /\ Leads(kind', Replay(first', sent'), batch' \o raw', files')
      BY <1>1 DEF QueueLeads
    <2>1. errors = 0 /\ ~ cancelled /\ ~ overflowed /\ ~ replaced
      BY <1>1, <1>2
    <2>2. /\ sent \in Seq(FileEvent) /\ raw \in Seq(Change(kind)) /\ batch \in Seq(Change(kind))
          /\ Leads(kind, Replay(first, sent), batch \o raw, files)
      BY <2>1 DEF WatchInv, QueueLeads
    <2>3. rest \in Seq(Change(kind))
      BY <2>2
    <2>4. Replay(first, sent) \in SUBSET Paths
      <3>1. Len(batch \o raw) \in Nat
        BY <2>2
      <3> QED BY <2>2, <3>1, LeadsPaths
    <2> QED BY <1>1, <2>1, <2>2, <2>3, <2>4
  <1> QED BY <1>4, <1>5, <1>6 DEF WatchInv

(* One record, told by one event that says the same, or passed over when it  *)
(* changes nothing.                                                          *)
LEMMA TellsOne ==
    ASSUME WatchInv, phase = "sending", Rest(1), errors' \in Nat, errors' >= errors,
           batch[1] \in Change(kind) /\ errors' = 0
               => \/ /\ sent' = sent
                     /\ \A there \in SUBSET Paths : Meaning(kind, there, batch[1]) = there
                  \/ \E e \in FileEvent :
                        /\ sent' = Append(sent, e)
                        /\ \A there \in SUBSET Paths :
                              Meaning(kind, there, batch[1]) = Apply(there, e)
    PROVE  WatchInv'
  <1>1. batch # <<>> /\ batch \in Seq(Change(kind) \cup {Overflow}) /\ first \in SUBSET Paths
    BY DEF WatchInv, WatchTypes
  <1>2. 1 \in 1 .. Len(batch)
    BY <1>1
  <1> DEFINE rest == SubSeq(batch, 1 + 1, Len(batch))
  <1>3. ASSUME errors' = 0, batch \in Seq(Change(kind)), raw \in Seq(Change(kind)),
               sent \in Seq(FileEvent), Replay(first, sent) \in SUBSET Paths,
               Leads(kind, Replay(first, sent), batch \o raw, files)
        PROVE  sent' \in Seq(FileEvent) /\ Leads(kind, Replay(first, sent'), rest \o raw, files)
    <2> DEFINE q == batch \o raw
               left == rest \o raw
               there == Replay(first, sent)
    <2>1. batch[1] \in Change(kind)
      BY <1>1, <1>3
    <2>2. /\ q \in Seq(Change(kind)) /\ Len(left) \in Nat /\ Len(q) = Len(left) + 1
          /\ q[1] = batch[1]
          /\ \A i \in 1 .. Len(left) : left[i] = q[i + 1]
      BY <1>1, <1>3
    <2>3. Leads(kind, Meaning(kind, there, q[1]), left, files)
      <3> HIDE DEF q, left
      <3>1. Leads(kind, there, q, files)
        BY <1>3 DEF q
      <3> QED BY <2>2, <3>1, LeadsFirst
    <2>4. CASE sent' = sent /\ \A t \in SUBSET Paths : Meaning(kind, t, batch[1]) = t
      BY <1>3, <2>2, <2>3, <2>4
    <2>5. ASSUME NEW e \in FileEvent, sent' = Append(sent, e),
                 \A t \in SUBSET Paths : Meaning(kind, t, batch[1]) = Apply(t, e)
          PROVE  sent' \in Seq(FileEvent) /\ Leads(kind, Replay(first, sent'), left, files)
      <3>1. Replay(first, sent') = Apply(there, e)
        BY <1>1, <1>3, <2>5, ReplayAppend
      <3>2. Meaning(kind, there, q[1]) = Apply(there, e)
        BY <1>3, <2>2, <2>5
      <3>3. sent' \in Seq(FileEvent)
        BY <1>3, <2>5
      <3> QED BY <2>3, <3>1, <3>2, <3>3
    <2> QED BY <1>3, <2>1, <2>4, <2>5
  <1> QED BY <1>2, <1>3, RestOfBatchKeeps

LEMMA EventIs ==
    ASSUME NEW type \in {"create", "modify", "write", "read", "delete", "rename"}, NEW path \in Paths
    PROVE  Event(type, path) \in FileEvent
  BY DEF Event, FileEvent

(* Records and events that mean the same.                                    *)
LEMMA SameMeaning ==
    ASSUME NEW sensor, NEW there, NEW n
    PROVE  /\ n.action = "added" \/ (n.action = "new name" /\ sensor = "windowsFile") =>
                  Meaning(sensor, there, n) = Apply(there, Event("create", n.path))
           /\ n.action = "removed" \/ (n.action = "old name" /\ sensor = "windowsFile") =>
                  Meaning(sensor, there, n) = Apply(there, Event("delete", n.path))
           /\ n.action = "modified" /\ sensor # "windowsRegistry" =>
                  Meaning(sensor, there, n) = Apply(there, Event("modify", n.path))
           /\ n.action \in {"added", "modified"} /\ sensor = "windowsRegistry" =>
                  Meaning(sensor, there, n) = Apply(there, Event("write", n.path))
           /\ n.action \in {"old name", "new name"} /\ sensor # "windowsFile" =>
                  Meaning(sensor, there, n) = Apply(there, Event("rename", n.path))
  <1>1. CASE n.action = "added"
    BY <1>1 DEF Meaning, Apply, Event
  <1>2. CASE n.action = "removed"
    BY <1>2 DEF Meaning, Apply, Event
  <1>3. CASE n.action = "modified"
    BY <1>3 DEF Meaning, Apply, Event
  <1>4. CASE n.action = "old name"
    BY <1>4 DEF Meaning, Apply, Event
  <1>5. CASE n.action = "new name"
    BY <1>5 DEF Meaning, Apply, Event
  <1> QED BY <1>1, <1>2, <1>3, <1>4, <1>5

LEMMA OneWindowsEvent ==
    ASSUME kind = "windowsFile", ~ Paired, Head(batch) \in Change(kind), NEW there
    PROVE  /\ WindowsFileEvent \in FileEvent
           /\ Meaning(kind, there, Head(batch)) = Apply(there, WindowsFileEvent)
  <1> DEFINE n == Head(batch)
  <1>1. n.path \in Paths /\ n.action \in {"added", "removed", "modified", "old name", "new name"}
    BY DEF Change, Actions
  <1> HIDE DEF n
  <1>2. CASE n.action \in {"added", "new name"}
    <2>1. WindowsFileEvent = Event("create", n.path)
      BY <1>2 DEF WindowsFileEvent, n
    <2> QED BY <1>1, <1>2, <2>1, EventIs, SameMeaning DEF n
  <1>3. CASE n.action = "modified"
    <2>1. WindowsFileEvent = Event("modify", n.path)
      BY <1>3 DEF WindowsFileEvent, n
    <2> QED BY <1>1, <1>3, <2>1, EventIs, SameMeaning DEF n
  <1>4. CASE n.action \in {"removed", "old name"}
    <2>1. WindowsFileEvent = Event("delete", n.path)
      BY <1>4 DEF WindowsFileEvent, n
    <2> QED BY <1>1, <1>4, <2>1, EventIs, SameMeaning DEF n
  <1> QED BY <1>1, <1>2, <1>3, <1>4

LEMMA OneLinuxEvent ==
    ASSUME kind = "linuxFile", Head(batch) \in Change(kind), NEW there
    PROVE  /\ LinuxFileEvent \in FileEvent
           /\ Meaning(kind, there, Head(batch)) = Apply(there, LinuxFileEvent)
  <1> DEFINE n == Head(batch)
  <1>1. n.path \in Paths /\ n.action \in {"added", "removed", "modified", "old name", "new name"}
    BY DEF Change, Actions
  <1> HIDE DEF n
  <1>2. CASE n.action = "added"
    <2>1. LinuxFileEvent = Event("create", n.path)
      BY <1>2 DEF LinuxFileEvent, n
    <2> QED BY <1>1, <1>2, <2>1, EventIs, SameMeaning DEF n
  <1>3. CASE n.action = "modified"
    <2>1. LinuxFileEvent = Event("modify", n.path)
      BY <1>3 DEF LinuxFileEvent, n
    <2> QED BY <1>1, <1>3, <2>1, EventIs, SameMeaning DEF n
  <1>4. CASE n.action = "removed"
    <2>1. LinuxFileEvent = Event("delete", n.path)
      BY <1>4 DEF LinuxFileEvent, n
    <2> QED BY <1>1, <1>4, <2>1, EventIs, SameMeaning DEF n
  <1>5. CASE n.action \in {"old name", "new name"}
    <2>1. LinuxFileEvent = Event("rename", n.path)
      BY <1>5 DEF LinuxFileEvent, n
    <2>2. Meaning(kind, there, n) = Apply(there, Event("rename", n.path))
      <3>1. kind # "windowsFile"
        OBVIOUS
      <3> QED BY <1>5, <3>1, SameMeaning, Zenon
    <2> QED BY <1>1, <2>1, <2>2, EventIs DEF n
  <1> QED BY <1>1, <1>2, <1>3, <1>4, <1>5

LEMMA OneRegistryEvent ==
    ASSUME kind = "windowsRegistry", Head(batch) \in Change(kind), NEW there,
           Head(batch).action # "queried"
    PROVE  /\ RegistryEvent \in FileEvent
           /\ Meaning(kind, there, Head(batch)) = Apply(there, RegistryEvent)
  <1> DEFINE n == Head(batch)
  <1>1. n.path \in Paths /\ n.action \in {"added", "modified", "opened", "removed", "value removed"}
    BY DEF Change, Actions
  <1> HIDE DEF n
  <1>2. CASE n.action \in {"added", "modified"}
    <2>1. RegistryEvent = Event("write", n.path)
      BY <1>2 DEF RegistryEvent, n
    <2> QED BY <1>1, <1>2, <2>1, EventIs, SameMeaning DEF n
  <1>3. CASE n.action \in {"removed", "value removed"}
    <2> DEFINE gone == [Event("delete", n.path) EXCEPT !.value = n.action = "value removed"]
    <2>1. RegistryEvent = gone
      BY <1>3 DEF RegistryEvent, n
    <2>2. gone.type = "delete" /\ (gone.value <=> n.action = "value removed") /\ gone.path = n.path
      BY DEF Event
    <2>3. gone \in FileEvent
      <3>1. Event("delete", n.path) \in FileEvent /\ (n.action = "value removed") \in BOOLEAN
        BY <1>1, EventIs
      <3> QED BY <3>1 DEF FileEvent
    <2> HIDE DEF gone
    <2>4. Meaning(kind, there, n) = Apply(there, gone)
      BY <1>3, <2>2 DEF Meaning, Apply
    <2> QED BY <2>1, <2>3, <2>4 DEF n
  <1>4. CASE n.action = "opened"
    <2>1. RegistryEvent = Event("read", n.path)
      BY <1>4 DEF RegistryEvent, n
    <2>2. Meaning(kind, there, n) = Apply(there, Event("read", n.path))
      BY <1>4 DEF Meaning, Apply, Event
    <2> QED BY <1>1, <2>1, <2>2, EventIs DEF n
  <1> QED BY <1>1, <1>2, <1>3, <1>4

(* The two records of a rename are told by one event.                        *)
LEMMA RenameEvent ==
    ASSUME kind = "windowsFile", Paired, batch[1] \in Change(kind), batch[2] \in Change(kind),
           Head(batch) = batch[1], NEW there
    PROVE  /\ WindowsFileEvent \in FileEvent
           /\ Meaning(kind, Meaning(kind, there, batch[1]), batch[2])
                  = Apply(there, WindowsFileEvent)
  <1> DEFINE m == batch[1]
             n == batch[2]
             moved == [Event("rename", n.path) EXCEPT !.from = <<m.path>>]
  <1>1. m.path \in Paths /\ n.path \in Paths /\ m.action = "old name" /\ n.action = "new name"
    BY DEF Change, Paired
  <1>2. WindowsFileEvent = moved
    <2>1. Head(batch).action = "old name" /\ Head(batch) = m
      BY <1>1
    <2> QED BY <2>1 DEF WindowsFileEvent
  <1>3. moved.type = "rename" /\ moved.from = <<m.path>> /\ moved.path = n.path
    BY DEF Event
  <1>4. moved \in FileEvent
    <2>1. Event("rename", n.path) \in FileEvent
      BY <1>1, EventIs
    <2>2. <<m.path>> \in Seq(Paths)
      <3>1. \A p \in Paths : <<p>> \in Seq(Paths)
        OBVIOUS
      <3> HIDE DEF m
      <3> QED BY <1>1, <3>1
    <2> QED BY <2>1, <2>2 DEF FileEvent
  <1> HIDE DEF m, n, moved
  <1>5. Range(moved.from) = {m.path}
    BY <1>3 DEF Range
  <1>6. Apply(there, moved) = (there \ {m.path}) \cup {n.path}
    BY <1>3, <1>5 DEF Apply
  <1>7. Meaning(kind, there, m) = there \ {m.path}
    BY <1>1 DEF Meaning
  <1>8. Meaning(kind, there \ {m.path}, n) = (there \ {m.path}) \cup {n.path}
    BY <1>1 DEF Meaning
  <1>9. Meaning(kind, Meaning(kind, there, m), n) = Apply(there, moved)
    BY <1>6, <1>7, <1>8, Zenon
  <1> QED BY <1>2, <1>4, <1>9 DEF m, n

LEMMA EmitWindowsFileKeeps ==
    ASSUME WatchInv, EmitWindowsFile
    PROVE  WatchInv'
  <1>1. /\ phase = "sending" /\ kind = "windowsFile" /\ errors' = errors
        /\ sent' = Append(sent, WindowsFileEvent) /\ Rest(WindowsFileUsed)
    BY DEF EmitWindowsFile, Put
  <1>2. errors' \in Nat /\ errors' >= errors /\ batch \in Seq(Change(kind) \cup {Overflow})
        /\ batch # <<>> /\ first \in SUBSET Paths
    BY <1>1 DEF WatchInv, WatchTypes
  <1>3. CASE Paired
    <2> DEFINE rest == SubSeq(batch, 2 + 1, Len(batch))
    <2>1. 2 \in 1 .. Len(batch) /\ Rest(2)
      <3>1. Len(batch) \in Nat
        BY <1>2
      <3>2. Len(batch) > 1
        BY <1>3 DEF Paired
      <3>3. WindowsFileUsed = 2
        BY <1>3 DEF WindowsFileUsed
      <3> QED BY <1>1, <3>1, <3>2, <3>3
    <2>2. ASSUME batch \in Seq(Change(kind)), raw \in Seq(Change(kind)),
                 sent \in Seq(FileEvent), Replay(first, sent) \in SUBSET Paths,
                 Leads(kind, Replay(first, sent), batch \o raw, files)
          PROVE  sent' \in Seq(FileEvent) /\ Leads(kind, Replay(first, sent'), rest \o raw, files)
      <3> DEFINE q == batch \o raw
                 mid == SubSeq(q, 2, Len(q))
                 left == rest \o raw
                 there == Replay(first, sent)
                 between == Meaning(kind, there, batch[1])
      <3>1. batch[1] \in Change(kind) /\ batch[2] \in Change(kind)
        BY <2>1, <2>2
      <3>2. /\ q \in Seq(Change(kind)) /\ Len(q) \in Nat /\ Len(q) >= 2
            /\ q[1] = batch[1] /\ q[2] = batch[2]
        BY <2>1, <2>2
      <3>3. /\ mid \in Seq(Change(kind)) /\ Len(mid) \in Nat /\ Len(q) = Len(mid) + 1
            /\ \A i \in 1 .. Len(mid) : mid[i] = q[i + 1]
        <4> HIDE DEF q
        <4> QED BY <3>2
      <3>4. /\ Len(left) \in Nat /\ Len(q) = Len(left) + 2
            /\ \A i \in 1 .. Len(left) : left[i] = q[i + 2]
        BY <2>1, <2>2
      <3>5. Leads(kind, there, q, files)
        BY <2>2
      <3> HIDE DEF q, mid, left
      <3>6. mid[1] = batch[2] /\ Len(mid) = Len(left) + 1
            /\ \A i \in 1 .. Len(left) : left[i] = mid[i + 1]
        <4>1. Len(mid) \in Nat /\ Len(mid) = Len(left) + 1 /\ 1 \in 1 .. Len(mid)
          BY <3>2, <3>3, <3>4
        <4>2. mid[1] = batch[2]
          BY <3>2, <3>3, <4>1
        <4>3. ASSUME NEW i \in 1 .. Len(left) PROVE left[i] = mid[i + 1]
          <5>1. i + 1 \in 1 .. Len(mid) /\ (i + 1) + 1 = i + 2
            BY <3>4, <4>1
          <5> QED BY <3>3, <3>4, <5>1
        <4> QED BY <4>1, <4>2, <4>3
      <3>7. Leads(kind, between, mid, files)
        BY <3>2, <3>3, <3>5, LeadsFirst
      <3>8. Leads(kind, Meaning(kind, between, batch[2]), left, files)
        <4> HIDE DEF between
        <4> QED BY <3>3, <3>4, <3>6, <3>7, LeadsFirst
      <3>9. WindowsFileEvent \in FileEvent
            /\ Meaning(kind, between, batch[2]) = Apply(there, WindowsFileEvent)
        BY <1>1, <1>2, <1>3, <3>1, RenameEvent
      <3>10. Replay(first, sent') = Apply(there, WindowsFileEvent)
        BY <1>1, <1>2, <2>2, <3>9, ReplayAppend
      <3>11. sent' \in Seq(FileEvent)
        BY <1>1, <2>2, <3>9
      <3> QED BY <3>8, <3>9, <3>10, <3>11 DEF left
    <2> QED BY <1>1, <1>2, <2>1, <2>2, RestOfBatchKeeps
  <1>4. CASE ~ Paired
    <2>1. Rest(1)
      BY <1>1, <1>4 DEF WindowsFileUsed
    <2>2. batch[1] = Head(batch)
      BY <1>2
    <2>3. ASSUME batch[1] \in Change(kind)
          PROVE  \E e \in FileEvent :
                     /\ sent' = Append(sent, e)
                     /\ \A there \in SUBSET Paths : Meaning(kind, there, batch[1]) = Apply(there, e)
      BY <1>1, <1>4, <2>2, <2>3, OneWindowsEvent
    <2> QED BY <1>1, <1>2, <2>1, <2>3, TellsOne
  <1> QED BY <1>3, <1>4

LEMMA EmitLinuxFileKeeps ==
    ASSUME WatchInv, EmitLinuxFile
    PROVE  WatchInv'
  <1>1. /\ phase = "sending" /\ kind = "linuxFile" /\ Rest(1)
        /\ \/ Head(batch) = Overflow /\ errors' = errors
           \/ sent' = Append(sent, LinuxFileEvent) /\ errors' = errors
           \/ errors' = errors + 1
    BY DEF EmitLinuxFile, Put
  <1>2. errors \in Nat /\ batch \in Seq(Change(kind) \cup {Overflow}) /\ batch # <<>>
    BY <1>1 DEF WatchInv, WatchTypes
  <1>3. errors' \in Nat /\ errors' >= errors /\ errors + 1 # 0 /\ batch[1] = Head(batch)
    BY <1>1, <1>2
  <1>4. ASSUME batch[1] \in Change(kind), errors' = 0
        PROVE  \E e \in FileEvent :
                   /\ sent' = Append(sent, e)
                   /\ \A there \in SUBSET Paths : Meaning(kind, there, batch[1]) = Apply(there, e)
    <2>1. Head(batch) # Overflow
      <3>1. Overflow.action = "overflow"
        BY DEF Overflow, Record
      <3>2. Head(batch).action \in Actions(kind)
        BY <1>3, <1>4 DEF Change
      <3>3. "overflow" \notin Actions(kind)
        BY DEF Actions
      <3> QED BY <3>1, <3>2, <3>3
    <2>2. sent' = Append(sent, LinuxFileEvent)
      BY <1>1, <1>3, <1>4, <2>1
    <2> QED BY <1>1, <1>3, <1>4, <2>2, OneLinuxEvent
  <1> QED BY <1>1, <1>3, <1>4, TellsOne

LEMMA EmitRegistryKeeps ==
    ASSUME WatchInv, EmitRegistry
    PROVE  WatchInv'
  <1>1. /\ phase = "sending" /\ kind = "windowsRegistry" /\ Rest(1) /\ errors' = errors
        /\ IF Head(batch).action = "queried" THEN sent' = sent
           ELSE sent' = Append(sent, RegistryEvent)
    BY DEF EmitRegistry, Put
  <1>2. errors' \in Nat /\ errors' >= errors /\ batch[1] = Head(batch)
    BY <1>1 DEF WatchInv, WatchTypes
  <1>3. CASE Head(batch).action = "queried"
    <2>1. \A there \in SUBSET Paths : Meaning(kind, there, batch[1]) = there
      BY <1>2, <1>3 DEF Meaning
    <2> QED BY <1>1, <1>2, <1>3, <2>1, TellsOne
  <1>4. CASE Head(batch).action # "queried"
    <2>1. ASSUME batch[1] \in Change(kind)
          PROVE  \E e \in FileEvent :
                     /\ sent' = Append(sent, e)
                     /\ \A there \in SUBSET Paths : Meaning(kind, there, batch[1]) = Apply(there, e)
      BY <1>1, <1>2, <1>4, <2>1, OneRegistryEvent
    <2> QED BY <1>1, <1>2, <2>1, TellsOne
  <1> QED BY <1>3, <1>4

LEMMA GiveUpKeeps ==
    ASSUME WatchInv, GiveUp
    PROVE  WatchInv'
  <1>1. phase = "sending" /\ cancelled /\ Rest(Len(batch)) /\ errors' = errors
    BY DEF GiveUp
  <1>2. errors' \in Nat /\ errors' >= errors /\ Len(batch) \in 1 .. Len(batch)
    BY <1>1 DEF WatchInv, WatchTypes
  <1> QED BY <1>1, <1>2, RestOfBatchKeeps

(* Every step keeps the invariant.                                           *)
LEMMA WatchNextKeeps == WatchInv /\ [WatchNext]_<<feedVars, watchVars>> => WatchInv'
  <1> SUFFICES ASSUME WatchInv, [WatchNext]_<<feedVars, watchVars>> PROVE WatchInv'
    OBVIOUS
  <1>1. kind \in WatchingKinds /\ files \in SUBSET Paths /\ raw \in Seq(Change(kind) \cup {Overflow})
    BY WatchingAssumption DEF WatchInv, WatchTypes
  <1>2. CASE UNCHANGED <<feedVars, watchVars>>
    BY <1>2, WatchRests DEF feedVars, watchVars
  <1>3. CASE StartWindowsFile \/ StartLinuxFile \/ StartRegistry
    BY <1>3, WatchBegins DEF StartWindowsFile, StartLinuxFile, StartRegistry
  <1>4. CASE StartFails
    <2>1. phase = "starting" /\ phase' = "ended" /\ UNCHANGED <<kind, sent, errors, cancelled, watchVars>>
      BY <1>4 DEF StartFails
    <2> QED BY <2>1, WatchRests
  <1>5. CASE ReadChanges
    BY <1>5, ReadKeeps DEF ReadChanges
  <1>6. CASE ReadOverflow
    BY <1>6, ReadOverflowKeeps
  <1>7. CASE ReadInotify
    BY <1>7, ReadKeeps DEF ReadInotify
  <1>8. CASE RegistryCallback
    <2>1. 1 \in 1 .. Len(raw) /\ kind # "windowsFile" /\ ReadRecords(1)
      BY <1>1, <1>8 DEF RegistryCallback, ReadRecords
    <2> QED BY <2>1, ReadKeeps
  <1>9. CASE EmitWindowsFile
    BY <1>9, EmitWindowsFileKeeps
  <1>10. CASE EmitLinuxFile
    BY <1>10, EmitLinuxFileKeeps
  <1>11. CASE EmitRegistry
    BY <1>11, EmitRegistryKeeps
  <1>12. CASE GiveUp
    BY <1>12, GiveUpKeeps
  <1>13. ASSUME NEW p \in Paths,
                \/ Create(p) \/ Delete(p) \/ Modify(p) \/ MoveOut(p) \/ MoveIn(p)
                \/ RemoveValue(p) \/ QueryValue(p) \/ OpenKey(p)
         PROVE  WatchInv'
    <2> DEFINE r(action) == Record(action, p)
    <2>1. /\ \A a : r(a).action = a /\ r(a).path = p
          /\ \A a \in Actions(kind) : r(a) \in Change(kind)
      BY DEF Record, Change
    <2>2. {"added", "removed", "modified"} \subseteq Actions(kind)
          /\ (IsRegistry => {"value removed", "queried", "opened"} \subseteq Actions(kind))
          /\ (~ IsRegistry => {"old name", "new name"} \subseteq Actions(kind))
      BY DEF Actions, IsRegistry
    <2> HIDE DEF r
    <2>3. CASE Create(p)
      <3>1. Operation(<<r("added")>>, files \cup {p})
        BY <2>3 DEF Create, r
      <3>2. Meaning(kind, files, r("added")) = files \cup {p}
        BY DEF Meaning, r, Record
      <3> QED BY <2>1, <2>2, <3>1, <3>2, OneRecord
    <2>4. CASE Delete(p)
      <3>1. Operation(<<r("removed")>>, files \ {p})
        BY <2>4 DEF Delete, r
      <3>2. Meaning(kind, files, r("removed")) = files \ {p}
        BY DEF Meaning, r, Record
      <3> QED BY <2>1, <2>2, <3>1, <3>2, OneRecord
    <2>5. CASE Modify(p)
      <3>1. Operation(<<r("modified")>>, files) /\ p \in files
        BY <2>5 DEF Modify, r
      <3>2. Meaning(kind, files, r("modified")) = files
        BY <3>1 DEF Meaning, r, Record
      <3> QED BY <2>1, <2>2, <3>1, <3>2, OneRecord
    <2>6. CASE MoveOut(p)
      <3>1. Operation(<<r("old name")>>, files \ {p}) /\ p \in files /\ ~ IsRegistry
        BY <2>6 DEF MoveOut, r
      <3>2. Meaning(kind, files, r("old name")) = files \ {p}
        BY <3>1 DEF Meaning, Moved, IsRegistry, r, Record
      <3> QED BY <2>1, <2>2, <3>1, <3>2, OneRecord
    <2>7. CASE MoveIn(p)
      <3>1. /\ Operation(Displaced(p) \o <<Record("new name", p)>>, files \cup {p})
            /\ ~ IsRegistry
        BY <2>7 DEF MoveIn
      <3>2. Append(<<>>, Record("new name", p)) = <<Record("new name", p)>>
        OBVIOUS
      <3>3. TakesName(<<>>, p, files)
        BY <3>1, <3>2 DEF TakesName
      <3>4. LeadsBeside(<<>>, p, files)
        BY DEF LeadsBeside
      <3>5. <<>> \in Seq(Change(kind))
        OBVIOUS
      <3> QED BY <1>1, <3>1, <3>3, <3>4, <3>5, NameTaken
    <2>8. CASE RemoveValue(p)
      <3>1. Operation(<<r("value removed")>>, files) /\ IsRegistry
        BY <2>8 DEF RemoveValue, r
      <3>2. Meaning(kind, files, r("value removed")) = files
        BY DEF Meaning, r, Record
      <3> QED BY <2>1, <2>2, <3>1, <3>2, OneRecord
    <2>9. CASE QueryValue(p)
      <3>1. Operation(<<r("queried")>>, files) /\ IsRegistry
        BY <2>9 DEF QueryValue, r
      <3>2. Meaning(kind, files, r("queried")) = files
        BY DEF Meaning, r, Record
      <3> QED BY <2>1, <2>2, <3>1, <3>2, OneRecord
    <2>10. CASE OpenKey(p)
      <3>1. Operation(<<r("opened")>>, files) /\ IsRegistry
        BY <2>10 DEF OpenKey, r
      <3>2. Meaning(kind, files, r("opened")) = files
        BY DEF Meaning, r, Record
      <3> QED BY <2>1, <2>2, <3>1, <3>2, OneRecord
    <2> QED BY <1>13, <2>3, <2>4, <2>5, <2>6, <2>7, <2>8, <2>9, <2>10
  <1>14. ASSUME NEW p \in Paths, NEW q \in Paths, Rename(p, q)
         PROVE  WatchInv'
    <2> DEFINE old == Record("old name", p)
               new == Record("new name", q)
    <2>1. /\ Operation(Displaced(q) \o <<old, new>>, (files \ {p}) \cup {q})
          /\ ~ IsRegistry /\ p \in files /\ p # q
      BY <1>14 DEF Rename
    <2>2. /\ old.action = "old name" /\ old.path = p /\ old \in Change(kind)
      BY <2>1 DEF Record, Change, Actions, IsRegistry
    <2> HIDE DEF old, new
    <2>3. <<old>> \in Seq(Change(kind))
      <3>1. \A n \in Change(kind) : <<n>> \in Seq(Change(kind))
        OBVIOUS
      <3> QED BY <2>2, <3>1
    <2>8. <<old, new>> = Append(<<old>>, new)
      OBVIOUS
    <2>4. Meaning(kind, files \ {q}, old) = (files \ {p}) \ {q}
      BY <2>1, <2>2 DEF Meaning, Moved
    <2>9. ASSUME NEW there, NEW before \in Seq(Change(kind)),
                 Leads(kind, there, before, files \ {q})
          PROVE  Leads(kind, there, before \o <<old>>, (files \ {p}) \ {q})
      <3>1. before \o <<old>> = Append(before, old)
        BY <2>2, <2>9, Records
      <3>2. Leads(kind, there, Append(before, old), Meaning(kind, files \ {q}, old))
        BY <2>2, <2>9, LeadsAppend
      <3> QED BY <2>4, <3>1, <3>2
    <2>5. LeadsBeside(<<old>>, q, files \ {p})
      BY <2>9 DEF LeadsBeside
    <2>6. TakesName(<<old>>, q, files \ {p})
      BY <2>1, <2>8 DEF new, TakesName
    <2>7. files \ {p} \in SUBSET Paths
      BY <1>1
    <2> QED BY <2>1, <2>3, <2>5, <2>6, <2>7, NameTaken
  <1>15. CASE (Take \/ Cancel \/ End) /\ UNCHANGED watchVars
    <2>1. /\ UNCHANGED <<kind, sent, errors, watchVars>>
          /\ phase' = phase \/ (phase # "sending" /\ phase' = "ended")
          /\ ~ cancelled' => ~ cancelled
      BY <1>15 DEF Take, Cancel, End
    <2> QED BY <2>1, WatchRests
  <1> QED BY <1>2, <1>3, <1>4, <1>5, <1>6, <1>7, <1>8, <1>9, <1>10, <1>11, <1>12, <1>13, <1>14,
             <1>15 DEF WatchNext, WatchStep

(* Whoever replays the events of a watching sensor over the files there were *)
(* when the watch began has the files there are, whenever all that the       *)
(* system queued has been read and nothing was counted as lost: for any      *)
(* paths, any length of the system's queue and of the channel, however the   *)
(* records are split over reads and however renames meet other changes,     *)
(* moves onto existing files included on Windows.  Not on Linux, where such  *)
(* a move cannot be replayed, and not after inotify or ETW lost a record,    *)
(* which nothing counts.                                                     *)
THEOREM EventsReplay == WatchSpec => []ReportsReplay
  BY WatchStarts, WatchNextKeeps, WatchInvShows, PTL DEF WatchSpec
=============================================================================
