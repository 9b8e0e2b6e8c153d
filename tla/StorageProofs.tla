--------------------------- MODULE StorageProofs ---------------------------
(* The two stores side by side, and the retention manager on either: what an *)
(* ordered page of a table covers, then that nothing is pruned unarchived    *)
(* and that both stores give the same answers.                               *)
EXTENDS MCStorage, SequenceTheorems, FiniteSetTheorems, TLAPS

-----------------------------------------------------------------------------
(* The order of an index, for every set of entries with distinct keys.       *)

IsIndex(index) ==
    /\ IsFiniteSet(index)
    /\ \A e \in index : e.at \in Int /\ e.id \in DOMAIN RowId
    /\ \A e, f \in index : e.id = f.id => e = f

Place(index, e) == Cardinality(Sooner(index, e))

(* The entries are ordered. *)
LEMMA SoonerOrder ==
  ASSUME NEW index, IsIndex(index), NEW e \in index, NEW f \in index
  PROVE  /\ e \notin Sooner(index, e)
         /\ e # f => (e \in Sooner(index, f) \/ f \in Sooner(index, e))
         /\ e \in Sooner(index, f) => Sooner(index, e) \subseteq Sooner(index, f)
  <1>. RowId[e.id] \in Int /\ RowId[f.id] \in Int
    BY RowIdAssumption DEF IsIndex
  <1>1. e \notin Sooner(index, e)
    BY DEF IsIndex, Sooner
  <1>2. ASSUME e # f  PROVE e \in Sooner(index, f) \/ f \in Sooner(index, e)
    <2>1. RowId[e.id] # RowId[f.id]
      BY <1>2, RowIdAssumption DEF IsIndex
    <2>. QED  BY <2>1 DEF IsIndex, Sooner
  <1>3. ASSUME e \in Sooner(index, f), NEW g \in Sooner(index, e)  PROVE g \in Sooner(index, f)
    <2>1. g \in index /\ RowId[g.id] \in Int
      BY RowIdAssumption DEF IsIndex, Sooner
    <2>. QED  BY <1>3, <2>1 DEF IsIndex, Sooner
  <1>. QED  BY <1>1, <1>2, <1>3

(* The place of an entry lies within the index. *)
LEMMA PlaceWithin ==
  ASSUME NEW index, IsIndex(index), NEW e \in index
  PROVE  /\ IsFiniteSet(Sooner(index, e))
         /\ Place(index, e) \in 0 .. Cardinality(index) - 1
         /\ Cardinality(index) \in Nat
  <1>1. Sooner(index, e) \subseteq index \ {e}
    BY SoonerOrder DEF Sooner
  <1>2. /\ IsFiniteSet(index \ {e})
        /\ Cardinality(index \ {e}) = Cardinality(index) - 1
        /\ Cardinality(index) \in Nat
    BY FS_RemoveElement, FS_CardinalityType DEF IsIndex
  <1>3. IsFiniteSet(Sooner(index, e)) /\ Cardinality(Sooner(index, e)) <= Cardinality(index \ {e})
    BY <1>1, <1>2, FS_Subset
  <1>. QED  BY <1>2, <1>3, FS_CardinalityType DEF Place

(* What comes before has a lower place, *)
LEMMA SoonerIsLower ==
  ASSUME NEW index, IsIndex(index), NEW e \in index, NEW f \in Sooner(index, e)
  PROVE  Place(index, f) < Place(index, e)
  <1>1. f \in index
    BY DEF Sooner
  <1>2. Sooner(index, f) \subseteq Sooner(index, e) /\ f \notin Sooner(index, f)
    BY <1>1, SoonerOrder
  <1>3. IsFiniteSet(Sooner(index, e)) /\ Place(index, e) \in Nat /\ Place(index, f) \in Nat
    BY <1>1, PlaceWithin
  <1>4. Place(index, f) <= Place(index, e) /\ Place(index, f) # Place(index, e)
    BY <1>2, <1>3, FS_Subset DEF Place
  <1>. QED  BY <1>3, <1>4

(* so that no two entries share one, *)
LEMMA PlacesDiffer ==
  ASSUME NEW index, IsIndex(index), NEW e \in index, NEW f \in index,
         Place(index, e) = Place(index, f)
  PROVE  e = f
  <1>1. SUFFICES ASSUME e # f PROVE FALSE
    OBVIOUS
  <1>2. e \in Sooner(index, f) \/ f \in Sooner(index, e)
    BY <1>1, SoonerOrder
  <1>3. Place(index, e) \in Int /\ Place(index, f) \in Int
    BY PlaceWithin
  <1>. QED  BY <1>2, <1>3, SoonerIsLower

(* and every place is taken. *)
LEMMA PlacesTaken ==
  ASSUME NEW index, IsIndex(index), NEW k \in 1 .. Cardinality(index)
  PROVE  \E e \in index : Place(index, e) = k - 1
  <1>. DEFINE n == Cardinality(index)
              place == [e \in index |-> Place(index, e)]
  <1>1. IsFiniteSet(index) /\ n \in Nat
    BY FS_CardinalityType DEF IsIndex
  <1>2. IsFiniteSet(0 .. n - 1) /\ Cardinality(0 .. n - 1) = n
    <2>1. 0 \in Int /\ n - 1 \in Int
      BY <1>1
    <2>2. IsFiniteSet(0 .. n - 1) /\ Cardinality(0 .. n - 1) = IF 0 > n - 1 THEN 0 ELSE n - 1 - 0 + 1
      BY <2>1, FS_Interval
    <2>. QED  BY <1>1, <2>2
  <1>3. place \in [index -> 0 .. n - 1]
    BY PlaceWithin
  <1>4. \A e, f \in index : place[e] = place[f] => e = f
    BY PlacesDiffer
  <1>5. place \in Injection(index, 0 .. n - 1)
    BY <1>3, <1>4 DEF Injection, IsInjective
  <1>6. place \in Surjection(index, 0 .. n - 1)
    BY <1>2, <1>5, FS_Injection
  <1>7. k - 1 \in 0 .. n - 1
    BY <1>1
  <1>. QED  BY <1>6, <1>7 DEF Surjection

(* Hence the sequence lists every entry where its place is. *)
LEMMA NewestFirstLists ==
  ASSUME NEW index, IsIndex(index)
  PROVE  /\ NewestFirst(index) \in Seq({e.id : e \in index})
         /\ Len(NewestFirst(index)) = Cardinality(index)
         /\ \A e \in index : NewestFirst(index)[Place(index, e) + 1] = e.id
  <1>. DEFINE n == Cardinality(index)
              at(k) == CHOOSE e \in index : Place(index, e) = k - 1
  <1>1. n \in Nat
    BY FS_CardinalityType DEF IsIndex
  <1>2. NewestFirst(index) = [k \in 1 .. n |-> at(k).id]
    BY DEF NewestFirst, Place
  <1>3. \A k \in 1 .. n : at(k) \in index /\ Place(index, at(k)) = k - 1
    BY PlacesTaken
  <1>4. \A k \in 1 .. n : at(k).id \in {e.id : e \in index}
    BY <1>3
  <1>. HIDE DEF at, n
  <1>5. [k \in 1 .. n |-> at(k).id] \in Seq({e.id : e \in index}) /\ Len([k \in 1 .. n |-> at(k).id]) = n
    BY <1>1, <1>4
  <1>6. ASSUME NEW e \in index  PROVE NewestFirst(index)[Place(index, e) + 1] = e.id
    <2>1. Place(index, e) + 1 \in 1 .. n
      BY <1>1, PlaceWithin DEF n
    <2>2. at(Place(index, e) + 1) = e
      BY <1>3, <2>1, PlacesDiffer, PlaceWithin
    <2>. QED  BY <1>2, <2>1, <2>2
  <1>. QED  BY <1>2, <1>5, <1>6 DEF n

(* A page: as many rows as are asked for, or all there are from the first on. *)
LEMMA PageCovers ==
  ASSUME NEW index, IsIndex(index), NEW first \in Nat, NEW count \in Nat \ {0},
         first <= Cardinality(index)
  PROVE  LET page == Page(NewestFirst(index), first, count)
             n == Cardinality(index)
         IN  /\ page \in Seq({e.id : e \in index})
             /\ Len(page) = IF first + count < n THEN count ELSE n - first
             /\ \A e \in index : Place(index, e) \in first .. first + count - 1 => e.id \in ToSet(page)
  <1>. DEFINE n == Cardinality(index)
              rows == NewestFirst(index)
              last == IF first + count < n THEN first + count ELSE n
              page == Page(rows, first, count)
  <1>1. n \in Nat
    BY FS_CardinalityType DEF IsIndex
  <1>2. rows \in Seq({e.id : e \in index}) /\ Len(rows) = n
    BY NewestFirstLists
  <1>3. page = SubSeq(rows, first + 1, last)
    BY <1>2 DEF Page
  <1>4. /\ first + 1 \in Int /\ last \in Int
        /\ first + 1 <= last + 1
        /\ \A i \in first + 1 .. last : rows[i] \in {e.id : e \in index}
    BY <1>1, <1>2
  <1>. HIDE DEF rows, last
  <1>5. /\ page \in Seq({e.id : e \in index})
        /\ Len(page) = IF first + 1 <= last THEN last - (first + 1) + 1 ELSE 0
        /\ \A i \in 1 .. last - (first + 1) + 1 : page[i] = rows[(first + 1) + i - 1]
    BY <1>3, <1>4, SubSeqProperties
  <1>6. ASSUME NEW e \in index, Place(index, e) \in first .. first + count - 1
        PROVE  e.id \in ToSet(page)
    <2>. DEFINE i == Place(index, e) - first + 1
    <2>1. i \in 1 .. last - (first + 1) + 1
      BY <1>1, <1>6, PlaceWithin DEF last
    <2>2. (first + 1) + i - 1 = Place(index, e) + 1
      BY <1>6
    <2>3. rows[Place(index, e) + 1] = e.id
      BY NewestFirstLists DEF rows
    <2>4. page[i] = e.id /\ i \in DOMAIN page
      BY <1>4, <1>5, <2>1, <2>2, <2>3
    <2>. QED  BY <2>4 DEF ToSet
  <1>7. Len(page) = IF first + count < n THEN count ELSE n - first
    BY <1>1, <1>5 DEF last
  <1>. QED  BY <1>5, <1>6, <1>7 DEF rows

-----------------------------------------------------------------------------
(* Retention.  What a query of the cycle finds: the rows whose time, as the  *)
(* backend b reads it, is not behind the cutoff c, as the backend reads it.  *)

Reading(b, r) == IF b = "sqlite" THEN r.at + r.zone ELSE r.at
Horizon(b, c) == IF b = "sqlite" THEN c + HostZone ELSE c
AgedKeys(b, events, c) == {e \in DOMAIN events : Reading(b, events[e]) <= Horizon(b, c)}
AgedIndex(b, events, c) == {[id |-> e, at |-> Reading(b, events[e])] : e \in AgedKeys(b, events, c)}

Keys == {r.id : r \in RetainedRows}
Stored(events) == \A e \in DOMAIN events : events[e] \in RetainedRows /\ events[e].id = e

(* Entries for finitely many keys are an index, no larger than the keys. *)
LEMMA IndexOfKeys ==
  ASSUME NEW K, IsFiniteSet(K), K \subseteq DOMAIN RowId, NEW time \in [K -> Int]
  PROVE  LET index == {[id |-> e, at |-> time[e]] : e \in K}
         IN  IsIndex(index) /\ Cardinality(index) <= Cardinality(K)
  <1>. DEFINE index == {[id |-> e, at |-> time[e]] : e \in K}
              entry == [e \in K |-> [id |-> e, at |-> time[e]]]
  <1>1. entry \in Surjection(K, index)
    BY DEF Surjection
  <1>2. IsFiniteSet(index) /\ Cardinality(index) <= Cardinality(K)
    BY <1>1, FS_Surjection
  <1>3. \A e \in index : e.at \in Int /\ e.id \in DOMAIN RowId
    OBVIOUS
  <1>4. \A e, f \in index : e.id = f.id => e = f
    OBVIOUS
  <1>. QED  BY <1>2, <1>3, <1>4 DEF IsIndex

(* There are fewer keys than offsets. *)
LEMMA KeysBounded == IsFiniteSet(Keys) /\ Cardinality(Keys) \in Nat /\ Cardinality(Keys) < MaxOffset
  <1>1. [r \in RetainedRows |-> r.id] \in Surjection(RetainedRows, Keys)
    BY DEF Surjection, Keys
  <1>2. IsFiniteSet(Keys) /\ Cardinality(Keys) <= Cardinality(RetainedRows)
    BY <1>1, FS_Surjection, RetentionAssumption
  <1>3. Cardinality(RetainedRows) \in Nat /\ Cardinality(RetainedRows) < MaxOffset /\ MaxOffset \in Nat
    BY RetentionAssumption, FS_CardinalityType
  <1>4. Cardinality(Keys) \in Nat
    BY <1>2, FS_CardinalityType
  <1>. QED  BY <1>2, <1>3, <1>4

(* What the cycle pages through is an index of fewer rows than offsets. *)
LEMMA AgedIsIndex ==
  ASSUME NEW b, NEW events, NEW c, Stored(events)
  PROVE  /\ IsIndex(AgedIndex(b, events, c))
         /\ Cardinality(AgedIndex(b, events, c)) \in Nat
         /\ Cardinality(AgedIndex(b, events, c)) < MaxOffset
  <1>. DEFINE K == AgedKeys(b, events, c)
              time == [e \in K |-> Reading(b, events[e])]
  <1>1. K \subseteq Keys
    BY DEF Stored, Keys, AgedKeys
  <1>2. IsFiniteSet(K) /\ Cardinality(K) <= Cardinality(Keys) /\ Cardinality(K) \in Nat
    BY <1>1, KeysBounded, FS_Subset, FS_CardinalityType
  <1>3. K \subseteq DOMAIN RowId /\ time \in [K -> Int]
    BY RetentionAssumption DEF Stored, AgedKeys, Reading
  <1>4. AgedIndex(b, events, c) = {[id |-> e, at |-> time[e]] : e \in K}
    BY DEF AgedIndex
  <1>. HIDE DEF K, time
  <1>5. /\ IsIndex(AgedIndex(b, events, c))
        /\ Cardinality(AgedIndex(b, events, c)) <= Cardinality(K)
    BY <1>2, <1>3, <1>4, IndexOfKeys
  <1>6. Cardinality(AgedIndex(b, events, c)) \in Nat
    BY <1>5, FS_CardinalityType DEF IsIndex
  <1>. QED  BY <1>2, <1>5, <1>6, KeysBounded, RetentionAssumption

(* The stores share the operators of Tables. *)
LEMMA SQLiteNewestFirst ==
  ASSUME NEW index  PROVE SQLite!NewestFirst(index) = NewestFirst(index)
  BY DEF SQLite!NewestFirst, NewestFirst, SQLite!Sooner, Sooner, SQLite!Cardinality, Cardinality

LEMMA SQLitePage ==
  ASSUME NEW rows, NEW first, NEW limit
  PROVE  SQLite!Page(rows, first, SQLite!Limited(limit)) = Page(rows, first, Limited(limit))
  BY DEF SQLite!Page, Page, SQLite!Limited, Limited

LEMMA PostgresNewestFirst ==
  ASSUME NEW index  PROVE Postgres!NewestFirst(index) = NewestFirst(index)
  BY DEF Postgres!NewestFirst, NewestFirst, Postgres!Sooner, Sooner, Postgres!Cardinality, Cardinality

LEMMA PostgresPage ==
  ASSUME NEW rows, NEW first, NEW limit
  PROVE  Postgres!Page(rows, first, Postgres!Limited(limit)) = Page(rows, first, Limited(limit))
  BY DEF Postgres!Page, Page, Postgres!Limited, Limited

(* The query of a page, on either store. *)
LEMMA AgedIsPage ==
  ASSUME backend \in {"sqlite", "postgres"}, NEW c \in Int, c # Unset, NEW from \in Nat, NEW limit
  PROVE  Aged(limit, from, c) =
           Page(NewestFirst(AgedIndex(backend, tables.events, c)),
                IF backend = "sqlite" THEN from ELSE 0, Limited(limit))
  <1>. DEFINE q == [type |-> NoFilter, severity |-> NoFilter, host |-> NoFilter,
                    since |-> [at |-> Unset, zone |-> 0], until |-> [at |-> c, zone |-> HostZone],
                    limit |-> limit, offset |-> from]
              sqliteFound == {e \in SQLite!Selected(tables.events, q) :
                                /\ q.since.at # Unset => SQLite!Text(tables.events[e]) >= SQLite!Text(q.since)
                                /\ q.until.at # Unset => SQLite!Text(tables.events[e]) <= SQLite!Text(q.until)}
              postgresFound == {e \in Postgres!Selected(tables.events, q) :
                                /\ q.since.at # Unset => tables.events[e].at >= q.since.at
                                /\ q.until.at # Unset => tables.events[e].at <= q.until.at}
  <1>1. CASE backend = "sqlite"
    <2>1. sqliteFound = AgedKeys(backend, tables.events, c)
      BY <1>1 DEF SQLite!Selected, SQLite!Text, SQLite!NoFilter, NoFilter, AgedKeys, Reading, Horizon
    <2>2. {[id |-> e, at |-> SQLite!Text(tables.events[e])] : e \in sqliteFound}
            = AgedIndex(backend, tables.events, c)
      BY <1>1, <2>1 DEF AgedIndex, Reading, SQLite!Text
    <2>3. Aged(limit, from, c) =
            SQLite!Page(SQLite!NewestFirst({[id |-> e, at |-> SQLite!Text(tables.events[e])] : e \in sqliteFound}),
                        IF from > 0 THEN from ELSE 0, SQLite!Limited(limit))
      BY <1>1 DEF Aged, SQLite!QueryEvents, Unset, SQLite!Unset
    <2>4. (IF from > 0 THEN from ELSE 0) = from
      OBVIOUS
    <2>. HIDE DEF sqliteFound, q
    <2>. QED  BY <1>1, <2>2, <2>3, <2>4, SQLiteNewestFirst, SQLitePage
  <1>2. CASE backend = "postgres"
    <2>1. postgresFound = AgedKeys(backend, tables.events, c)
      BY <1>2 DEF Postgres!Selected, Postgres!NoFilter, NoFilter, AgedKeys, Reading, Horizon
    <2>2. {[id |-> e, at |-> tables.events[e].at] : e \in postgresFound}
            = AgedIndex(backend, tables.events, c)
      BY <1>2, <2>1 DEF AgedIndex, Reading
    <2>3. Aged(limit, from, c) =
            Postgres!Page(Postgres!NewestFirst({[id |-> e, at |-> tables.events[e].at] : e \in postgresFound}),
                          0, Postgres!Limited(limit))
      BY <1>2 DEF Aged, Postgres!QueryEvents, Unset, Postgres!Unset
    <2>. HIDE DEF postgresFound, q
    <2>. QED  BY <1>2, <2>2, <2>3, PostgresNewestFirst, PostgresPage
  <1>. QED  BY <1>1, <1>2

(* Entries that come in behind or before others only raise their places. *)
LEMMA GrowthRaises ==
  ASSUME NEW small, NEW large, IsIndex(small), IsIndex(large), small \subseteq large
  PROVE  /\ Cardinality(small) <= Cardinality(large)
         /\ \A e \in small : Place(small, e) <= Place(large, e)
  <1>1. Cardinality(small) <= Cardinality(large)
    BY FS_Subset DEF IsIndex
  <1>2. ASSUME NEW e \in small  PROVE Place(small, e) <= Place(large, e)
    <2>1. Sooner(small, e) \subseteq Sooner(large, e)
      BY DEF Sooner
    <2>2. IsFiniteSet(Sooner(large, e))
      BY PlaceWithin
    <2>. QED  BY <2>1, <2>2, FS_Subset DEF Place
  <1>. QED  BY <1>1, <1>2

(* An event that is stored is one more row. *)
LEMMA IngestAdds ==
  ASSUME NEW events, Stored(events), NEW r \in RetainedRows, r.id \notin DOMAIN events,
         NEW b, NEW c
  PROVE  LET after == PutAllNew(events, {r})
         IN  /\ Stored(after)
             /\ AgedKeys(b, after, c) \subseteq AgedKeys(b, events, c) \cup {r.id}
             /\ AgedIndex(b, events, c) \subseteq AgedIndex(b, after, c)
             /\ \A e \in AgedIndex(b, after, c) : e.id # r.id => e \in AgedIndex(b, events, c)
  <1>. DEFINE after == PutAllNew(events, {r})
  <1>1. /\ DOMAIN after = DOMAIN events \cup {r.id}
        /\ \A e \in DOMAIN events : after[e] = events[e]
        /\ after[r.id] = r
    BY DEF PutAllNew
  <1>. HIDE DEF after
  <1>2. Stored(after)
    BY <1>1 DEF Stored
  <1>3. AgedKeys(b, after, c) \subseteq AgedKeys(b, events, c) \cup {r.id}
    BY <1>1 DEF AgedKeys
  <1>4. AgedIndex(b, events, c) \subseteq AgedIndex(b, after, c)
    BY <1>1 DEF AgedIndex, AgedKeys
  <1>5. \A e \in AgedIndex(b, after, c) : e.id # r.id => e \in AgedIndex(b, events, c)
    BY <1>1 DEF AgedIndex, AgedKeys
  <1>. QED  BY <1>2, <1>3, <1>4, <1>5 DEF after

HasTables(t) ==
    t = [events |-> t.events, alerts |-> t.alerts, incidents |-> t.incidents,
         hosts |-> t.hosts, rules |-> t.rules, iocs |-> t.iocs]

(* Either store's effect on the events. *)
LEMMA IngestStores ==
  ASSUME HasTables(tables), NEW r \in RetainedRows, Ingest(r)
  PROVE  /\ HasTables(tables')
         /\ tables'.events = PutAllNew(tables.events, {r})
  BY DEF Ingest, HasTables, SQLite!SaveEvents, SQLite!Done, SQLite!PutAllNew,
         Postgres!SaveEvents, Postgres!Done, Postgres!PutAllNew, PutAllNew

(* Pruning takes rows whose time is before the cutoff, and leaves the others. *)
LEMMA PruneTakes ==
  ASSUME HasTables(tables), Stored(tables.events), backend \in {"sqlite", "postgres"}, cutoff \in Int, Prune
  PROVE  /\ HasTables(tables')
         /\ Stored(tables'.events)
         /\ \A e \in DOMAIN tables.events \ DOMAIN tables'.events :
              Reading(backend, tables.events[e]) < cutoff
  <1>1. PICK enforced \in BOOLEAN :
          tables' = IF backend = "sqlite" THEN SQLite!PruneEvents(tables, cutoff, enforced).db
                    ELSE Postgres!PruneEvents(tables, cutoff).db
    BY DEF Prune
  <1>2. CASE backend = "sqlite"
    <2>. DEFINE old == {e \in DOMAIN tables.events : Reading(backend, tables.events[e]) < cutoff}
    <2>1. \/ tables' = tables
          \/ tables' = [tables EXCEPT !.events = [e \in DOMAIN tables.events \cap (DOMAIN tables.events \ old)
                                                    |-> tables.events[e]]]
      BY <1>1, <1>2 DEF SQLite!PruneEvents, SQLite!Refused, SQLite!Done, SQLite!Only, SQLite!Text, Reading
    <2>2. CASE tables' = tables
      BY <2>2
    <2>3. CASE tables' = [tables EXCEPT !.events = [e \in DOMAIN tables.events \cap (DOMAIN tables.events \ old)
                                                      |-> tables.events[e]]]
      <3>1. HasTables(tables')
        BY <2>3 DEF HasTables
      <3>2. tables'.events = [e \in DOMAIN tables.events \cap (DOMAIN tables.events \ old) |-> tables.events[e]]
        BY <2>3 DEF HasTables
      <3>. QED  BY <3>1, <3>2 DEF Stored
    <2>. QED  BY <2>1, <2>2, <2>3
  <1>3. CASE backend = "postgres"
    <2>. DEFINE young == {e \in DOMAIN tables.events : tables.events[e].at >= cutoff}
    <2>1. tables' = [tables EXCEPT !.events = [e \in DOMAIN tables.events \cap young |-> tables.events[e]]]
      BY <1>1, <1>3 DEF Postgres!PruneEvents, Postgres!Done, Postgres!Only
    <2>2. HasTables(tables')
      BY <2>1 DEF HasTables
    <2>3. tables'.events = [e \in DOMAIN tables.events \cap young |-> tables.events[e]]
      BY <2>1 DEF HasTables
    <2>4. \A e \in DOMAIN tables.events : tables.events[e].at \in Int
      BY RetentionAssumption DEF Stored
    <2>. QED  BY <1>3, <2>2, <2>3, <2>4 DEF Stored, Reading
  <1>. QED  BY <1>2, <1>3

-----------------------------------------------------------------------------
(* The inductive invariant of the retention manager.                         *)

RetentionTypes ==
    /\ backend \in {"sqlite", "postgres"} \cap Backends
    /\ HasTables(tables) /\ Stored(tables.events)
    /\ clock \in Int /\ cutoff \in Int /\ Unset <= cutoff /\ cutoff <= clock - Keep
    /\ state \in {"waiting", "paging", "pruning", "reporting"}
    /\ offset \in Nat
    /\ statsChan \in Seq(Int) /\ Len(statsChan) <= StatsCap
    /\ written \subseteq Archived
    /\ state \in {"paging", "pruning"} => cutoff # Unset /\ cutoff \in DOMAIN archives

(* Insertions move rows away from the pages that are still to come, never    *)
(* towards those that were read: what the cycle found when it began is in    *)
(* the file, or not yet behind the offset.  PostgreSQL reads one page.       *)
PagesCover ==
    state = "paging" /\ backend = "sqlite" =>
      /\ offset <= Cardinality(AgedIndex(backend, tables.events, cutoff))
      /\ \A e \in AgedIndex(backend, tables.events, cutoff) :
           \/ e.id \in late \cup Archived
           \/ Place(AgedIndex(backend, tables.events, cutoff), e) >= offset

AllCovered ==
    state = "pruning" =>
      AgedKeys(backend, tables.events, cutoff) \subseteq late \cup missed \cup Archived

PagingInv == RetentionTypes /\ PagesCover /\ AllCovered

RetentionInv == PagingInv /\ ArchivedUnlessMissed

LEMMA RetentionBegins == RetentionInit => RetentionInv
  <1>. SUFFICES ASSUME RetentionInit  PROVE RetentionInv
    OBVIOUS
  <1>. USE DEF RetentionInit
  <1>1. HasTables(tables) /\ Stored(tables.events)
    BY DEF NoTables, HasTables, Stored
  <1>2. RetentionTypes
    BY <1>1, RetentionAssumption DEF RetentionTypes, Archived, Unset
  <1>. QED  BY <1>2 DEF RetentionInv, PagingInv, PagesCover, AllCovered, ArchivedUnlessMissed

(* The file of a page. *)
LEMMA ReadPageWrites ==
  ASSUME RetentionTypes, ReadPage
  PROVE  LET index == AgedIndex(backend, tables.events, cutoff)
             page == Page(NewestFirst(index), IF backend = "sqlite" THEN offset ELSE 0, ChunkSize)
         IN  /\ Archived' = Archived \cup ToSet(page)
             /\ written' = written \cup ToSet(page)
             /\ DOMAIN archives' = DOMAIN archives
             /\ offset' = IF Len(page) = ChunkSize THEN (offset + Len(page)) % MaxOffset ELSE offset
             /\ state' = IF Len(page) = ChunkSize THEN "paging" ELSE "pruning"
             /\ UNCHANGED <<backend, tables, clock, cutoff, statsChan, failures, lost, late, missed>>
  <1>. DEFINE index == AgedIndex(backend, tables.events, cutoff)
              page == Page(NewestFirst(index), IF backend = "sqlite" THEN offset ELSE 0, ChunkSize)
  <1>1. Limited(ChunkSize) = ChunkSize
    BY RetentionAssumption, LimitAssumption DEF Limited
  <1>2. cutoff # Unset /\ cutoff \in Int /\ cutoff \in DOMAIN archives /\ offset \in Nat
        /\ backend \in {"sqlite", "postgres"}
    BY DEF RetentionTypes, ReadPage
  <1>3. Aged(ChunkSize, offset, cutoff) = page
    BY <1>1, <1>2, AgedIsPage
  <1>. HIDE DEF page
  <1>4. archives' = [archives EXCEPT ![cutoff] = @ \cup ToSet(page)]
    BY <1>3 DEF ReadPage
  <1>5. DOMAIN archives' = DOMAIN archives
    BY <1>4
  <1>6. /\ archives'[cutoff] = archives[cutoff] \cup ToSet(page)
        /\ \A name \in DOMAIN archives \ {cutoff} : archives'[name] = archives[name]
    BY <1>2, <1>4
  <1>7. Archived' = Archived \cup ToSet(page)
    BY <1>2, <1>5, <1>6 DEF Archived
  <1>. QED  BY <1>3, <1>5, <1>7 DEF ReadPage, page

(* The file of a page that breaks off. *)
LEMMA ReadBrokenPageWrites ==
  ASSUME RetentionTypes, ReadBrokenPage
  PROVE  /\ written' \subseteq Archived'
         /\ DOMAIN archives' = DOMAIN archives
         /\ DOMAIN tables.events \subseteq missed' \cup Archived'
  <1>1. PICK rows :
          /\ archives' = [archives EXCEPT ![cutoff] = @ \cup rows]
          /\ written' = written \cup rows
          /\ missed' = missed \cup (DOMAIN tables.events \ (Archived \cup rows))
    BY DEF ReadBrokenPage
  <1>2. cutoff \in DOMAIN archives /\ written \subseteq Archived
    BY DEF RetentionTypes, ReadBrokenPage
  <1>3. DOMAIN archives' = DOMAIN archives
    BY <1>1
  <1>4. /\ archives'[cutoff] = archives[cutoff] \cup rows
        /\ \A name \in DOMAIN archives \ {cutoff} : archives'[name] = archives[name]
    BY <1>1, <1>2
  <1>5. Archived' = Archived \cup rows
    BY <1>2, <1>3, <1>4 DEF Archived
  <1>. QED  BY <1>1, <1>2, <1>3, <1>5

LEMMA RetentionTypesStep ==
  ASSUME RetentionTypes, [RetentionNext]_retentionVars
  PROVE  RetentionTypes'
  <1>. USE DEF worker
  <1>1. ASSUME NEW r \in RetainedRows, Ingest(r)  PROVE RetentionTypes'
    <2>1. HasTables(tables') /\ Stored(tables'.events)
      <3>1. HasTables(tables') /\ tables'.events = PutAllNew(tables.events, {r})
        BY <1>1, IngestStores DEF RetentionTypes
      <3>2. r.id \notin DOMAIN tables.events /\ Stored(tables.events)
        BY <1>1 DEF Ingest, RetentionTypes
      <3>3. Stored(PutAllNew(tables.events, {r}))
        BY <3>2, IngestAdds
      <3>. QED  BY <3>1, <3>3
    <2>. QED  BY <1>1, <2>1 DEF RetentionTypes, Ingest, Archived
  <1>2. ASSUME NEW id \in Evidence, RaiseAlert(id)  PROVE RetentionTypes'
    <2>1. HasTables(tables') /\ Stored(tables'.events)
      BY <1>2 DEF RetentionTypes, RaiseAlert, HasTables
    <2>. QED  BY <1>2, <2>1 DEF RetentionTypes, RaiseAlert, Archived
  <1>3. CASE Drain
    <2>1. statsChan' \in Seq(Int) /\ Len(statsChan') <= StatsCap
      <3>1. statsChan \in Seq(Int) /\ statsChan # <<>> /\ Len(statsChan) <= StatsCap /\ statsChan' = Tail(statsChan)
        BY <1>3 DEF Drain, RetentionTypes
      <3>2. StatsCap \in Nat
        BY RetentionAssumption
      <3>. QED  BY <3>1, <3>2
    <2>. QED  BY <1>3, <2>1 DEF RetentionTypes, Drain, Archived
  <1>4. CASE TimePasses
    BY <1>4, RetentionAssumption DEF RetentionTypes, TimePasses, Archived
  <1>5. CASE StartCycle
    BY <1>5, RetentionAssumption DEF RetentionTypes, StartCycle, Archived, Unset
  <1>6. CASE ReadPage
    <2>. DEFINE index == AgedIndex(backend, tables.events, cutoff)
                page == Page(NewestFirst(index), IF backend = "sqlite" THEN offset ELSE 0, ChunkSize)
    <2>1. IsIndex(index) /\ Cardinality(index) \in Nat
      BY AgedIsIndex DEF RetentionTypes
    <2>2. offset' \in Nat
      <3>1. (offset + ChunkSize) % MaxOffset \in Nat
        <4>1. MaxOffset \in Nat \ {0} /\ offset + ChunkSize \in Nat
          BY KeysBounded, RetentionAssumption, LimitAssumption DEF RetentionTypes
        <4>. QED  BY <4>1
      <3>. HIDE DEF page
      <3>. QED  BY <1>6, <3>1, ReadPageWrites DEF RetentionTypes, page
    <2>. HIDE DEF page
    <2>. QED  BY <1>6, <2>2, ReadPageWrites DEF RetentionTypes, ReadPage, page
  <1>7. CASE Prune
    <2>1. HasTables(tables') /\ Stored(tables'.events)
      BY <1>7, PruneTakes DEF RetentionTypes
    <2>. QED  BY <1>7, <2>1 DEF RetentionTypes, Prune, Archived
  <1>8. CASE CycleFails
    BY <1>8 DEF RetentionTypes, CycleFails, Archived
  <1>9. CASE Report
    BY <1>9, RetentionAssumption DEF RetentionTypes, Report, Archived
  <1>10. CASE UNCHANGED retentionVars
    BY <1>10 DEF RetentionTypes, retentionVars, Archived
  <1>11. CASE ReadBrokenPage
    BY <1>11, ReadBrokenPageWrites DEF RetentionTypes, ReadBrokenPage
  <1>. QED  BY <1>1, <1>2, <1>3, <1>4, <1>5, <1>6, <1>7, <1>8, <1>9, <1>10, <1>11 DEF RetentionNext

(* A full page moves the offset, in fact without ever reaching the bound,    *)
(* and a short one ends the paging with everything read.                     *)
LEMMA ReadPageCovers ==
  ASSUME PagingInv, ReadPage
  PROVE  PagesCover' /\ AllCovered'
  <1>. DEFINE index == AgedIndex(backend, tables.events, cutoff)
              n == Cardinality(index)
              first == IF backend = "sqlite" THEN offset ELSE 0
              page == Page(NewestFirst(index), first, ChunkSize)
  <1>1. IsIndex(index) /\ n \in Nat /\ n < MaxOffset
    BY AgedIsIndex DEF PagingInv, RetentionTypes
  <1>2. ChunkSize \in Nat \ {0} /\ offset \in Nat /\ MaxOffset \in Nat
    BY RetentionAssumption, LimitAssumption DEF PagingInv, RetentionTypes
  <1>3. first \in Nat /\ first <= n
    BY <1>1, <1>2 DEF PagingInv, PagesCover, ReadPage
  <1>4. backend = "sqlite" =>
          \A e \in index : e.id \in late \cup Archived \/ Place(index, e) >= offset
    BY DEF PagingInv, PagesCover, ReadPage
  <1>5. /\ page \in Seq({e.id : e \in index})
        /\ Len(page) = IF first + ChunkSize < n THEN ChunkSize ELSE n - first
        /\ \A e \in index : Place(index, e) \in first .. first + ChunkSize - 1 => e.id \in ToSet(page)
    BY <1>1, <1>2, <1>3, PageCovers
  <1>6. /\ Archived' = Archived \cup ToSet(page)
        /\ offset' = IF Len(page) = ChunkSize THEN (offset + Len(page)) % MaxOffset ELSE offset
        /\ state' = IF Len(page) = ChunkSize THEN "paging" ELSE "pruning"
        /\ UNCHANGED <<backend, tables, cutoff, late>>
    BY ReadPageWrites DEF PagingInv
  <1>7. index' = index
    BY <1>6
  <1>8. \A e \in index : Place(index, e) \in 0 .. n - 1
    BY <1>1, PlaceWithin
  <1>. HIDE DEF index, n, page
  <1>9. ASSUME state' = "paging", backend' = "sqlite"
        PROVE  /\ offset' <= n
               /\ \A e \in index : e.id \in late' \cup Archived' \/ Place(index, e) >= offset'
    <2>1. Len(page) = ChunkSize /\ first = offset /\ backend = "sqlite"
      BY <1>6, <1>9
    <2>2. offset + ChunkSize <= n
      BY <1>1, <1>2, <1>3, <1>5, <2>1
    <2>3. (offset + ChunkSize) % MaxOffset = offset + ChunkSize
      <3>1. offset + ChunkSize \in 0 .. MaxOffset - 1
        BY <1>1, <1>2, <2>2
      <3>. QED  BY <1>2, <3>1
    <2>4. offset' = offset + ChunkSize
      BY <1>6, <2>1, <2>3
    <2>5. ASSUME NEW e \in index  PROVE e.id \in late \cup Archived \cup ToSet(page) \/ Place(index, e) >= offset'
      BY <1>2, <1>4, <1>5, <1>8, <2>1, <2>4
    <2>. QED  BY <1>6, <2>2, <2>4, <2>5
  <1>10. ASSUME state' = "pruning"
         PROVE  AgedKeys(backend, tables.events, cutoff) \subseteq late' \cup Archived'
    <2>1. Len(page) # ChunkSize
      BY <1>6, <1>10
    <2>2. n <= first + ChunkSize
      BY <1>1, <1>2, <1>3, <1>5, <2>1
    <2>3. ASSUME NEW e \in index  PROVE e.id \in late \cup Archived \cup ToSet(page)
      <3>1. Place(index, e) >= first => Place(index, e) \in first .. first + ChunkSize - 1
        BY <1>1, <1>2, <1>3, <1>8, <2>2
      <3>2. e.id \in late \cup Archived \/ Place(index, e) >= first
        BY <1>4, <1>8
      <3>. QED  BY <1>5, <3>1, <3>2
    <2>4. ASSUME NEW k \in AgedKeys(backend, tables.events, cutoff)
          PROVE  [id |-> k, at |-> Reading(backend, tables.events[k])] \in index
      BY DEF AgedIndex, index
    <2>. QED  BY <1>6, <2>3, <2>4
  <1>11. PagesCover'
    BY <1>6, <1>7, <1>9 DEF PagesCover, index, n
  <1>12. AllCovered'
    BY <1>6, <1>10 DEF AllCovered
  <1>. QED  BY <1>11, <1>12

(* Insertions between two queries of a cycle. *)
LEMMA IngestCovers ==
  ASSUME PagingInv, NEW r \in RetainedRows, Ingest(r)
  PROVE  PagesCover' /\ AllCovered'
  <1>. DEFINE small == AgedIndex(backend, tables.events, cutoff)
              large == AgedIndex(backend, tables'.events, cutoff)
  <1>1. /\ UNCHANGED <<backend, state, cutoff, offset, archives, missed>>
        /\ state \in {"paging", "pruning"} => late' = late \cup {r.id}
        /\ r.id \notin DOMAIN tables.events
    BY DEF Ingest, worker
  <1>2. HasTables(tables') /\ tables'.events = PutAllNew(tables.events, {r})
    BY IngestStores DEF PagingInv, RetentionTypes
  <1>3. Stored(tables.events)
    BY DEF PagingInv, RetentionTypes
  <1>4. /\ Stored(tables'.events)
        /\ AgedKeys(backend, tables'.events, cutoff) \subseteq AgedKeys(backend, tables.events, cutoff) \cup {r.id}
        /\ small \subseteq large
        /\ \A e \in large : e.id # r.id => e \in small
    BY <1>1, <1>2, <1>3, IngestAdds
  <1>5. IsIndex(small) /\ IsIndex(large) /\ Cardinality(small) \in Nat /\ Cardinality(large) \in Nat
    BY <1>3, <1>4, AgedIsIndex
  <1>6. /\ Cardinality(small) <= Cardinality(large)
        /\ \A e \in small : Place(small, e) <= Place(large, e)
    BY <1>4, <1>5, GrowthRaises
  <1>7. Archived' = Archived
    BY <1>1 DEF Archived
  <1>8. offset \in Nat
    BY DEF PagingInv, RetentionTypes
  <1>9. (\A e \in small : Place(small, e) \in Int) /\ \A e \in large : Place(large, e) \in Int
    BY <1>5, PlaceWithin
  <1>10. large = AgedIndex(backend', tables'.events, cutoff')
    BY <1>1
  <1>. HIDE DEF small, large
  <1>11. ASSUME state = "paging", backend = "sqlite"
         PROVE  /\ offset <= Cardinality(large)
                /\ \A e \in large : e.id \in late' \cup Archived \/ Place(large, e) >= offset
    <2>1. /\ offset <= Cardinality(small)
          /\ \A e \in small : e.id \in late \cup Archived \/ Place(small, e) >= offset
      BY <1>11 DEF PagingInv, PagesCover, small
    <2>2. late' = late \cup {r.id}
      BY <1>1, <1>11
    <2>3. ASSUME NEW e \in large, e.id # r.id
          PROVE  e.id \in late \cup Archived \/ Place(large, e) >= offset
      <3>1. e \in small
        BY <1>4, <2>3
      <3>. QED  BY <1>6, <1>8, <1>9, <2>1, <3>1
    <2>. QED  BY <1>5, <1>6, <1>8, <2>1, <2>2, <2>3
  <1>12. PagesCover'
    BY <1>1, <1>7, <1>10, <1>11 DEF PagesCover
  <1>13. AllCovered'
    BY <1>1, <1>4, <1>7 DEF AllCovered, PagingInv
  <1>. QED  BY <1>12, <1>13

(* Every row that a pruning takes was found by the queries before it, unless *)
(* the host is west of UTC. *)
LEMMA PruneLoses ==
  ASSUME RetentionInv, Prune, backend = "sqlite" => HostZone >= 0
  PROVE  ArchivedUnlessMissed'
  <1>1. /\ HasTables(tables) /\ Stored(tables.events) /\ backend \in {"sqlite", "postgres"} /\ cutoff \in Int
        /\ lost \subseteq late \cup missed
        /\ AgedKeys(backend, tables.events, cutoff) \subseteq late \cup missed \cup Archived
    BY DEF RetentionInv, PagingInv, RetentionTypes, AllCovered, ArchivedUnlessMissed, Prune
  <1>2. \A e \in DOMAIN tables.events \ DOMAIN tables'.events : Reading(backend, tables.events[e]) < cutoff
    BY <1>1, PruneTakes
  <1>3. \A e \in DOMAIN tables.events : Reading(backend, tables.events[e]) \in Int
    BY <1>1, RetentionAssumption DEF Stored, Reading
  <1>4. cutoff <= Horizon(backend, cutoff) /\ Horizon(backend, cutoff) \in Int
    BY <1>1, RetentionAssumption DEF Horizon
  <1>5. DOMAIN tables.events \ DOMAIN tables'.events \subseteq late \cup missed \cup Archived
    BY <1>1, <1>2, <1>3, <1>4 DEF AgedKeys
  <1>6. /\ lost' = lost \cup ((DOMAIN tables.events \ DOMAIN tables'.events) \ Archived)
        /\ late' = late /\ missed' = missed
    BY DEF Prune
  <1>. QED  BY <1>1, <1>5, <1>6 DEF ArchivedUnlessMissed

(* How far the paging is, whatever the zone of the host. *)
LEMMA PagingStep ==
  ASSUME PagingInv, [RetentionNext]_retentionVars
  PROVE  PagingInv'
  <1>. USE DEF worker
  <1>1. RetentionTypes'
    BY RetentionTypesStep DEF PagingInv
  <1>2. ASSUME NEW r \in RetainedRows, Ingest(r)  PROVE PagingInv'
    BY <1>1, <1>2, IngestCovers DEF PagingInv
  <1>3. ASSUME NEW id \in Evidence, RaiseAlert(id)  PROVE PagingInv'
    <2>1. tables'.events = tables.events
      BY <1>3 DEF RaiseAlert, PagingInv, RetentionTypes, HasTables
    <2>. QED  BY <1>1, <1>3, <2>1 DEF PagingInv, RaiseAlert, PagesCover, AllCovered, Archived
  <1>4. CASE Drain
    BY <1>1, <1>4 DEF PagingInv, Drain, PagesCover, AllCovered, Archived
  <1>5. CASE TimePasses
    BY <1>1, <1>5 DEF PagingInv, TimePasses, PagesCover, AllCovered, Archived
  <1>6. CASE StartCycle
    <2>1. offset' = 0 /\ state' \in {"waiting", "paging"}
      BY <1>6 DEF StartCycle
    <2>. DEFINE index == AgedIndex(backend', tables'.events, cutoff')
    <2>2. IsIndex(index) /\ Cardinality(index) \in Nat
      BY <1>1, AgedIsIndex DEF RetentionTypes
    <2>3. \A e \in index : Place(index, e) \in Nat
      BY <2>2, PlaceWithin
    <2>4. PagesCover'
      BY <2>1, <2>2, <2>3 DEF PagesCover
    <2>5. AllCovered'
      BY <2>1 DEF AllCovered
    <2>. QED  BY <1>1, <2>4, <2>5 DEF PagingInv
  <1>7. CASE ReadPage
    BY <1>1, <1>7, ReadPageCovers DEF PagingInv
  <1>8. CASE Prune
    <2>1. state' \in {"waiting", "reporting"}
      BY <1>8 DEF Prune
    <2>. QED  BY <1>1, <2>1 DEF PagingInv, PagesCover, AllCovered
  <1>9. CASE CycleFails
    BY <1>1, <1>9 DEF PagingInv, CycleFails, PagesCover, AllCovered
  <1>10. CASE Report
    BY <1>1, <1>10 DEF PagingInv, Report, PagesCover, AllCovered
  <1>11. CASE UNCHANGED retentionVars
    BY <1>1, <1>11 DEF PagingInv, retentionVars, PagesCover, AllCovered, Archived
  <1>12. CASE ReadBrokenPage
    <2>1. DOMAIN tables.events \subseteq missed' \cup Archived' /\ state' = "pruning" /\ UNCHANGED <<backend, tables, cutoff>>
      BY <1>12, ReadBrokenPageWrites DEF PagingInv, ReadBrokenPage
    <2>2. PagesCover'
      BY <2>1 DEF PagesCover
    <2>3. AllCovered'
      BY <2>1 DEF AllCovered, AgedKeys
    <2>. QED  BY <1>1, <2>2, <2>3 DEF PagingInv
  <1>. QED  BY <1>2, <1>3, <1>4, <1>5, <1>6, <1>7, <1>8, <1>9, <1>10, <1>11, <1>12 DEF RetentionNext

LEMMA PagingCorrect == RetentionSpec => []PagingInv
  <1>1. RetentionInit => PagingInv
    BY RetentionBegins DEF RetentionInv
  <1>2. PagingInv /\ [RetentionNext]_retentionVars => PagingInv'
    BY PagingStep
  <1>. QED  BY <1>1, <1>2, PTL DEF RetentionSpec

LEMMA RetentionInvStep ==
  ASSUME RetentionInv, [RetentionNext]_retentionVars, "sqlite" \in Backends => HostZone >= 0
  PROVE  RetentionInv'
  <1>1. PagingInv'
    BY PagingStep DEF RetentionInv
  <1>2. CASE Prune
    <2>1. backend \in Backends
      BY DEF RetentionInv, PagingInv, RetentionTypes
    <2>. QED  BY <1>1, <1>2, <2>1, PruneLoses DEF RetentionInv
  <1>3. CASE ~Prune
    <2>1. /\ lost' = lost
          /\ \/ late \subseteq late' /\ missed \subseteq missed'
             \/ late' = late \cap lost /\ missed' = missed \cap lost
      BY <1>3 DEF RetentionNext, Ingest, RaiseAlert, Drain, TimePasses, StartCycle, ReadPage,
                  ReadBrokenPage, CycleFails, Report, retentionVars
    <2>. QED  BY <1>1, <2>1 DEF RetentionInv, ArchivedUnlessMissed
  <1>. QED  BY <1>2, <1>3

-----------------------------------------------------------------------------
(* RetentionTypeOK: a report fits into the channel, and what a cycle counted *)
(* as written is in its files, on both stores and in every zone.             *)
THEOREM RetentionTypeCorrect == RetentionSpec => []RetentionTypeOK
  <1>1. RetentionInit => RetentionTypes
    BY RetentionBegins DEF RetentionInv, PagingInv
  <1>2. RetentionTypes /\ [RetentionNext]_retentionVars => RetentionTypes'
    BY RetentionTypesStep
  <1>3. RetentionTypes => RetentionTypeOK
    BY DEF RetentionTypes, RetentionTypeOK, Stored
  <1>. QED  BY <1>1, <1>2, <1>3, PTL DEF RetentionSpec

(* ArchivedUnlessMissed: what was in the store when a cycle began to read is *)
(* in a file before it is deleted, for every number and order of events,     *)
(* size of the pages, and place of the cutoff, although clients store old    *)
(* events between two pages, unless PostgreSQL left it out of a page without *)
(* an error.  A host west of UTC loses events on SQLite.                     *)
THEOREM ArchivedFirst ==
  ASSUME "sqlite" \in Backends => HostZone >= 0
  PROVE  RetentionSpec => []ArchivedUnlessMissed
  <1>1. RetentionInit => RetentionInv
    BY RetentionBegins
  <1>2. RetentionInv /\ [RetentionNext]_retentionVars => RetentionInv'
    BY RetentionInvStep
  <1>3. RetentionInv => ArchivedUnlessMissed
    BY DEF RetentionInv
  <1>. QED  BY <1>1, <1>2, <1>3, PTL DEF RetentionSpec

-----------------------------------------------------------------------------
(* What a cycle deletes is older than the retention time, as the clock shows *)
(* it when the row goes: not only when the cutoff was taken.                 *)
NothingYoungPruned ==
    [][\A e \in DOMAIN tables.events \ DOMAIN tables'.events :
           tables.events[e].at + Keep < clock]_retentionVars

(* Only Prune takes a row, and what it takes is before the cutoff, which was *)
(* Keep behind the clock and is more now.  On SQLite the time is compared as *)
(* it is written, so that no row may be written in a zone west of UTC: such  *)
(* a row goes before its time.                                               *)
THEOREM YoungAreKept ==
  ASSUME "sqlite" \in Backends => \A r \in RetainedRows : r.zone >= 0
  PROVE  RetentionSpec => NothingYoungPruned
  <1>. DEFINE Old == \A e \in DOMAIN tables.events \ DOMAIN tables'.events :
                         tables.events[e].at + Keep < clock
  <1>1. RetentionInit => RetentionTypes
    BY RetentionBegins DEF RetentionInv, PagingInv
  <1>2. RetentionTypes /\ [RetentionNext]_retentionVars => RetentionTypes'
    BY RetentionTypesStep
  <1>3. RetentionTypes /\ [RetentionNext]_retentionVars => Old
    <2>. SUFFICES ASSUME RetentionTypes, [RetentionNext]_retentionVars  PROVE Old
      OBVIOUS
    <2>1. CASE Prune
      <3>1. /\ HasTables(tables) /\ Stored(tables.events) /\ cutoff \in Int
            /\ backend \in {"sqlite", "postgres"} \cap Backends
            /\ clock \in Int /\ cutoff <= clock - Keep
        BY DEF RetentionTypes
      <3>2. \A e \in DOMAIN tables.events \ DOMAIN tables'.events :
              Reading(backend, tables.events[e]) < cutoff
        BY <2>1, <3>1, PruneTakes
      <3>3. ASSUME NEW e \in DOMAIN tables.events \ DOMAIN tables'.events
            PROVE  tables.events[e].at + Keep < clock
        <4>. DEFINE r == tables.events[e]
        <4>1. r \in RetainedRows /\ r.at \in Int /\ r.zone \in Int /\ Keep \in Int
          BY <3>1, RetentionAssumption DEF Stored
        <4>2. backend = "sqlite" => r.zone >= 0
          BY <3>1, <4>1
        <4>3. Reading(backend, r) < cutoff
          BY <3>2
        <4>. HIDE DEF r
        <4>4. r.at < cutoff
          BY <3>1, <4>1, <4>2, <4>3 DEF Reading
        <4>5. r.at + Keep < clock
          BY <3>1, <4>1, <4>4
        <4>. QED  BY <4>5 DEF r
      <3>. QED  BY <3>3
    <2>2. ASSUME NEW r \in RetainedRows, Ingest(r)  PROVE Old
      <3>1. tables'.events = PutAllNew(tables.events, {r})
        BY <2>2, IngestStores DEF RetentionTypes
      <3>2. DOMAIN tables.events \subseteq DOMAIN tables'.events
        BY <3>1 DEF PutAllNew
      <3>. QED  BY <3>2
    <2>3. ASSUME NEW id \in Evidence, RaiseAlert(id)  PROVE Old
      <3>1. tables'.events = tables.events
        BY <2>3 DEF RaiseAlert, RetentionTypes, HasTables
      <3>. QED  BY <3>1
    <2>4. CASE tables' = tables
      BY <2>4
    <2>. QED  BY <2>1, <2>2, <2>3, <2>4 DEF RetentionNext, Drain, TimePasses, StartCycle, ReadPage,
              ReadBrokenPage, CycleFails, Report, retentionVars
  <1>4. RetentionTypes /\ [RetentionNext]_retentionVars => [Old]_retentionVars
    BY <1>3
  <1>. QED  BY <1>1, <1>2, <1>4, PTL DEF RetentionSpec, NothingYoungPruned

(* No archive file loses an event, although os.Create empties a file that is *)
(* there already.                                                            *)
ArchivesOnlyGrow ==
    [][\A name \in DOMAIN archives :
           name \in DOMAIN archives' /\ archives[name] \subseteq archives'[name]]_retentionVars

(* A file is named by its cutoff, and cutoffs only rise. *)
NamesInv == \A name \in DOMAIN archives : name \in Int /\ name <= cutoff

(* Together with ArchivedFirst: what a file has saved from a deletion stays  *)
(* saved, whatever cycles follow.                                            *)
THEOREM ArchivesKept == RetentionSpec => ArchivesOnlyGrow
  <1>. DEFINE Grow == \A name \in DOMAIN archives :
                         name \in DOMAIN archives' /\ archives[name] \subseteq archives'[name]
  <1>1. RetentionInit => RetentionTypes /\ NamesInv
    BY RetentionBegins DEF RetentionInv, PagingInv, RetentionInit, NamesInv
  <1>2. RetentionTypes /\ [RetentionNext]_retentionVars => RetentionTypes'
    BY RetentionTypesStep
  <1>3. RetentionTypes /\ NamesInv /\ [RetentionNext]_retentionVars => NamesInv' /\ Grow
    <2>. SUFFICES ASSUME RetentionTypes, NamesInv, [RetentionNext]_retentionVars
                  PROVE  NamesInv' /\ Grow
      OBVIOUS
    <2>1. CASE StartCycle
      <3>1. cutoff' = clock - Keep /\ cutoff # clock - Keep
        BY <2>1 DEF StartCycle
      <3>2. cutoff \in Int /\ cutoff' \in Int /\ cutoff < cutoff'
        BY <3>1, RetentionAssumption DEF RetentionTypes
      <3>3. \A name \in DOMAIN archives : name \in Int /\ name < cutoff'
        BY <3>2 DEF NamesInv
      <3>4. \/ archives' = archives
            \/ archives' = [name \in DOMAIN archives \cup {cutoff'} |->
                               IF name = cutoff' THEN {} ELSE archives[name]]
        BY <2>1 DEF StartCycle
      <3>. QED  BY <3>2, <3>3, <3>4 DEF NamesInv
    <2>2. CASE ReadPage
      <3>. DEFINE page == ToSet(Aged(ChunkSize, offset, cutoff))
      <3>1. archives' = [archives EXCEPT ![cutoff] = @ \cup page] /\ cutoff' = cutoff
        BY <2>2 DEF ReadPage
      <3>. HIDE DEF page
      <3>. QED  BY <3>1 DEF NamesInv
    <2>3. CASE UNCHANGED <<archives, cutoff>>
      BY <2>3 DEF NamesInv
    <2>4. CASE ReadBrokenPage
      <3>1. PICK rows : archives' = [archives EXCEPT ![cutoff] = @ \cup rows] /\ cutoff' = cutoff
        BY <2>4 DEF ReadBrokenPage
      <3>. QED  BY <3>1 DEF NamesInv
    <2>. QED  BY <2>1, <2>2, <2>3, <2>4 DEF RetentionNext, Ingest, RaiseAlert, Drain, TimePasses, Prune,
              CycleFails, Report, retentionVars, worker
  <1>4. RetentionTypes /\ NamesInv /\ [RetentionNext]_retentionVars => [Grow]_retentionVars
    BY <1>3
  <1>5. RetentionTypes /\ NamesInv /\ [RetentionNext]_retentionVars => NamesInv'
    BY <1>3
  <1>. QED  BY <1>1, <1>2, <1>4, <1>5, PTL DEF RetentionSpec, ArchivesOnlyGrow

(* There are no more rows to page through than may be stored. *)
LEMMA AgedWithin ==
  ASSUME NEW b, NEW events, NEW c, Stored(events)
  PROVE  Cardinality(AgedIndex(b, events, c)) <= Cardinality(RetainedRows)
  <1>. DEFINE index == AgedIndex(b, events, c)
              entry == [e \in index |-> events[e.id]]
  <1>1. entry \in Injection(index, RetainedRows)
    BY DEF AgedIndex, AgedKeys, Stored, Injection, IsInjective
  <1>. QED  BY <1>1, FS_Injection, RetentionAssumption

(* On SQLite no step of anybody moves the offset of a cycle back, a page     *)
(* moves it on by a whole page or ends the paging, and it stays within the   *)
(* rows there can be: a cycle reads at most one page more than there are     *)
(* whole pages of rows.                                                      *)
PagesAdvance ==
    [][state = "paging" /\ state' = "paging" /\ backend = "sqlite" =>
           /\ offset' \in {offset, offset + ChunkSize}
           /\ offset' <= Cardinality(RetainedRows)
           /\ ReadPage => offset' = offset + ChunkSize]_retentionVars

(* The safety half of CyclesEnd, for every zone of the host: the offset      *)
(* counts the pages that a cycle has still to read.  On PostgreSQL, which    *)
(* ignores the offset, it does not hold: RetentionPaging.                    *)
THEOREM CyclesAreShort == RetentionSpec => PagesAdvance
  <1>. DEFINE Advance == state = "paging" /\ state' = "paging" /\ backend = "sqlite" =>
                           /\ offset' \in {offset, offset + ChunkSize}
                           /\ offset' <= Cardinality(RetainedRows)
                           /\ ReadPage => offset' = offset + ChunkSize
  <1>1. PagingInv /\ PagingInv' /\ [RetentionNext]_retentionVars => Advance
    <2>. SUFFICES ASSUME PagingInv, PagingInv', [RetentionNext]_retentionVars,
                         state = "paging", state' = "paging", backend = "sqlite"
                  PROVE  /\ offset' \in {offset, offset + ChunkSize}
                         /\ offset' <= Cardinality(RetainedRows)
                         /\ ReadPage => offset' = offset + ChunkSize
      OBVIOUS
    <2>. DEFINE index == AgedIndex(backend, tables.events, cutoff)
                n == Cardinality(index)
    <2>1. CASE ReadPage
      <3>. DEFINE page == Page(NewestFirst(index), offset, ChunkSize)
      <3>1. Len(page) = ChunkSize /\ offset' = (offset + Len(page)) % MaxOffset
        BY <2>1, ReadPageWrites DEF PagingInv
      <3>2. IsIndex(index) /\ n \in Nat /\ n < MaxOffset
        BY AgedIsIndex DEF PagingInv, RetentionTypes
      <3>3. offset \in Nat /\ offset <= n
        BY DEF PagingInv, RetentionTypes, PagesCover
      <3>4. ChunkSize \in Nat \ {0} /\ MaxOffset \in Nat
        BY RetentionAssumption, LimitAssumption
      <3>5. Len(page) = IF offset + ChunkSize < n THEN ChunkSize ELSE n - offset
        BY <3>2, <3>3, <3>4, PageCovers
      <3>. HIDE DEF page, n
      <3>6. offset + ChunkSize <= n
        BY <3>1, <3>2, <3>3, <3>4, <3>5
      <3>7. offset + ChunkSize \in 0 .. MaxOffset - 1
        BY <3>2, <3>3, <3>4, <3>6
      <3>8. (offset + ChunkSize) % MaxOffset = offset + ChunkSize
        BY <3>4, <3>7
      <3>9. n <= Cardinality(RetainedRows)
        BY AgedWithin DEF n, PagingInv, RetentionTypes
      <3>10. Cardinality(RetainedRows) \in Nat
        BY FS_CardinalityType, RetentionAssumption
      <3>. QED  BY <3>1, <3>2, <3>3, <3>4, <3>6, <3>8, <3>9, <3>10
    <2>2. CASE ~ReadPage
      <3>1. offset' = offset
        BY <2>2 DEF RetentionNext, Ingest, RaiseAlert, Drain, TimePasses, StartCycle, Prune, CycleFails,
                    ReadBrokenPage, Report, retentionVars, worker
      <3>2. offset \in Nat /\ offset <= n
        BY DEF PagingInv, RetentionTypes, PagesCover
      <3>3. n <= Cardinality(RetainedRows) /\ n \in Nat
        BY AgedWithin, AgedIsIndex DEF PagingInv, RetentionTypes
      <3>4. Cardinality(RetainedRows) \in Nat
        BY FS_CardinalityType, RetentionAssumption
      <3>. HIDE DEF n
      <3>. QED  BY <2>2, <3>1, <3>2, <3>3, <3>4
    <2>. QED  BY <2>1, <2>2
  <1>2. PagingInv /\ PagingInv' /\ [RetentionNext]_retentionVars => [Advance]_retentionVars
    BY <1>1
  <1>. QED  BY <1>2, PagingCorrect, PTL DEF RetentionSpec, PagesAdvance

-----------------------------------------------------------------------------
(* The two stores.  What every table of either holds: rows of the shape that *)
(* the calls bring, under their own keys.                                    *)

GoodEvents(t) == \A i \in DOMAIN t : t[i] \in EventRows /\ t[i].id = i
GoodAlerts(t) ==
    \A i \in DOMAIN t :
      t[i] = [id |-> i, event |-> t[i].event, incident |-> t[i].incident,
              acknowledged |-> t[i].acknowledged]
GoodIncidents(t) ==
    /\ IsFiniteSet(DOMAIN t)
    /\ \A i \in DOMAIN t :
         /\ t[i] = [id |-> i, created |-> t[i].created, status |-> t[i].status]
         /\ t[i].created \in Int /\ i \in DOMAIN RowId
         /\ \A r \in IncidentRows : r.id = i => r.created = t[i].created
GoodHosts(t) == \A i \in DOMAIN t : t[i] = [id |-> i, name |-> t[i].name, created |-> t[i].created]
GoodRules(t) ==
    \A i \in DOMAIN t :
      t[i] = [id |-> i, name |-> t[i].name, enabled |-> t[i].enabled, created |-> t[i].created]
GoodIOCs(t) ==
    /\ \A i \in DOMAIN t : t[i] = [id |-> i, mark |-> t[i].mark, created |-> t[i].created]
    /\ \A i, j \in DOMAIN t : t[i].mark = t[j].mark => i = j

GoodTables(t) ==
    /\ HasTables(t)
    /\ GoodEvents(t.events) /\ GoodAlerts(t.alerts) /\ GoodIncidents(t.incidents)
    /\ GoodHosts(t.hosts) /\ GoodRules(t.rules) /\ GoodIOCs(t.iocs)

(* How the tables of the two stores agree: SQLite takes the creation time of *)
(* a row from the last call, PostgreSQL from the first, and an alert belongs *)
(* to the incident that the last call named.                                 *)
Undate(r) == [r EXCEPT !.created = Unset]
SameButDates(a, b) == DOMAIN a = DOMAIN b /\ \A i \in DOMAIN a : Undate(a[i]) = Undate(b[i])

SameTables(s, p) ==
    /\ s.incidents = p.incidents
    /\ DOMAIN s.alerts = DOMAIN p.alerts
    /\ \A i \in DOMAIN s.alerts : s.alerts[i].incident = p.alerts[i].incident
    /\ SameButDates(s.hosts, p.hosts) /\ SameButDates(s.rules, p.rules) /\ SameButDates(s.iocs, p.iocs)

(* The events agree only while none is written in another zone than UTC.     *)
InUTC(t) == \A i \in DOMAIN t.events : t.events[i].zone = 0

StoresInv ==
    /\ db = [sqlite |-> db.sqlite, postgres |-> db.postgres]
    /\ GoodTables(db.sqlite) /\ GoodTables(db.postgres)
    /\ agreed \in BOOLEAN /\ utc \in BOOLEAN /\ calls \in 0 .. MaxCalls
    /\ agreed => SameTables(db.sqlite, db.postgres)
    /\ utc => InUTC(db.sqlite)
    /\ agreed /\ utc => db.sqlite.events = db.postgres.events

(* What the answers a and b of a pair of calls have to be like: no effect    *)
(* without success, and the same effect where both succeed.                  *)
Answers(s, p, a, b) ==
    /\ a.ok \in BOOLEAN /\ b.ok \in BOOLEAN
    /\ ~a.ok => a.db = s
    /\ ~b.ok => b.db = p
    /\ GoodTables(a.db) /\ GoodTables(b.db)
    /\ SameTables(s, p) /\ a.ok /\ b.ok => SameTables(a.db, b.db)

(* And to the events, by a call that brings events in UTC or none.           *)
EventsAnswer(s, p, a, b, pure) ==
    /\ pure /\ InUTC(s) => InUTC(a.db)
    /\ pure /\ InUTC(s) /\ s.events = p.events /\ a.ok /\ b.ok => a.db.events = b.db.events

LEMMA CallAnswers ==
  ASSUME StoresInv, NEW a, NEW b, Answers(db.sqlite, db.postgres, a, b), Call(a, b),
         NEW pure \in BOOLEAN, EventsAnswer(db.sqlite, db.postgres, a, b, pure),
         utc' = (utc /\ pure)
  PROVE  StoresInv'
  <1>1. PICK busy \in BOOLEAN :
          Answered(IF busy THEN Refused(db.sqlite) ELSE a,
                   IF reachable THEN b ELSE Refused(db.postgres))
    BY DEF Call
  <1>. DEFINE x == IF busy THEN Refused(db.sqlite) ELSE a
              y == IF reachable THEN b ELSE Refused(db.postgres)
  <1>2. Answers(db.sqlite, db.postgres, x, y) /\ EventsAnswer(db.sqlite, db.postgres, x, y, pure)
    BY DEF Answers, EventsAnswer, Refused, StoresInv
  <1>3. db' = [sqlite |-> x.db, postgres |-> y.db] /\ agreed' = (agreed /\ (x.ok <=> y.ok))
    BY <1>1 DEF Answered
  <1>. HIDE DEF x, y
  <1>4. agreed' => SameTables(x.db, y.db)
    <2>1. SUFFICES ASSUME agreed, x.ok <=> y.ok  PROVE SameTables(x.db, y.db)
      BY <1>3
    <2>2. SameTables(db.sqlite, db.postgres)
      BY <2>1 DEF StoresInv
    <2>. QED  BY <1>2, <2>1, <2>2 DEF Answers
  <1>5. calls' \in 0 .. MaxCalls
    BY StoresAssumption DEF Call, StoresInv
  <1>6. db'.sqlite = x.db /\ db'.postgres = y.db
    BY <1>3
  <1>7. utc' => InUTC(x.db)
    BY <1>2 DEF StoresInv, EventsAnswer
  <1>8. agreed' /\ utc' => x.db.events = y.db.events
    <2>1. SUFFICES ASSUME agreed, x.ok <=> y.ok, utc, pure  PROVE x.db.events = y.db.events
      BY <1>3
    <2>2. CASE x.ok /\ y.ok
      BY <1>2, <2>1, <2>2 DEF StoresInv, EventsAnswer
    <2>3. CASE ~x.ok /\ ~y.ok
      BY <1>2, <2>1, <2>3 DEF StoresInv, Answers
    <2>. QED  BY <1>2, <2>1, <2>2, <2>3 DEF Answers
  <1>. QED  BY <1>2, <1>3, <1>4, <1>5, <1>6, <1>7, <1>8 DEF StoresInv, Answers

LEMMA StoresBegin == Init => StoresInv
  <1>. SUFFICES ASSUME Init  PROVE StoresInv
    OBVIOUS
  <1>1. db.sqlite = NoTables /\ db.postgres = NoTables /\ db = [sqlite |-> db.sqlite, postgres |-> db.postgres]
    BY DEF Init
  <1>2. IsFiniteSet(DOMAIN <<>>)
    <2>1. DOMAIN <<>> = {}
      OBVIOUS
    <2>. QED  BY <2>1, FS_EmptySet
  <1>3. GoodTables(NoTables)
    BY <1>2 DEF NoTables, GoodTables, HasTables, GoodEvents, GoodAlerts, GoodIncidents, GoodHosts, GoodRules, GoodIOCs
  <1>4. SameTables(NoTables, NoTables)
    BY DEF SameTables, SameButDates
  <1>5. InUTC(NoTables)
    BY DEF InUTC, NoTables
  <1>. QED  BY <1>1, <1>3, <1>4, <1>5, StoresAssumption DEF Init, StoresInv

-----------------------------------------------------------------------------
(* Each pair of calls.                                                       *)

LEMMA SaveEventsAlike ==
  ASSUME NEW s, NEW p, GoodTables(s), GoodTables(p), NEW batch \in SUBSET EventRows
  PROVE  /\ Answers(s, p, S!SaveEvents(s, batch), P!SaveEvents(p, batch))
         /\ EventsAnswer(s, p, S!SaveEvents(s, batch), P!SaveEvents(p, batch), \A r \in batch : r.zone = 0)
  <1>. DEFINE a == PutAllNew(s.events, batch)
              b == PutAllNew(p.events, batch)
  <1>1. /\ S!SaveEvents(s, batch) = [ok |-> TRUE, db |-> [s EXCEPT !.events = a]]
        /\ P!SaveEvents(p, batch) = [ok |-> TRUE, db |-> [p EXCEPT !.events = b]]
    BY DEF S!SaveEvents, S!Done, S!PutAllNew, P!SaveEvents, P!Done, P!PutAllNew, PutAllNew
  <1>2. ASSUME NEW t, GoodEvents(t)  PROVE GoodEvents(PutAllNew(t, batch))
    BY <1>2 DEF GoodEvents, PutAllNew
  <1>3. GoodEvents(a) /\ GoodEvents(b)
    BY <1>2 DEF GoodTables
  <1>4. s.events = p.events => a = b
    OBVIOUS
  <1>z. InUTC(s) /\ (\A r \in batch : r.zone = 0) => \A i \in DOMAIN a : a[i].zone = 0
    BY DEF InUTC, PutAllNew
  <1>. HIDE DEF a, b
  <1>5. GoodTables([s EXCEPT !.events = a]) /\ GoodTables([p EXCEPT !.events = b])
    BY <1>3 DEF GoodTables, HasTables
  <1>6. SameTables(s, p) => SameTables([s EXCEPT !.events = a], [p EXCEPT !.events = b])
    BY DEF SameTables, GoodTables, HasTables
  <1>7. [s EXCEPT !.events = a].events = a /\ [p EXCEPT !.events = b].events = b
    BY DEF GoodTables, HasTables
  <1>8. EventsAnswer(s, p, S!SaveEvents(s, batch), P!SaveEvents(p, batch), \A r \in batch : r.zone = 0)
    <2>. DEFINE ta == [s EXCEPT !.events = a]
                tb == [p EXCEPT !.events = b]
    <2>1. ta.events = a /\ tb.events = b
      BY <1>7
    <2>2. /\ S!SaveEvents(s, batch) = [ok |-> TRUE, db |-> ta]
          /\ P!SaveEvents(p, batch) = [ok |-> TRUE, db |-> tb]
      BY <1>1
    <2>. HIDE DEF ta, tb
    <2>3. S!SaveEvents(s, batch).db = ta /\ P!SaveEvents(p, batch).db = tb
      BY <2>2
    <2>. QED  BY <1>4, <1>z, <2>1, <2>3 DEF EventsAnswer, InUTC
  <1>9. Answers(s, p, S!SaveEvents(s, batch), P!SaveEvents(p, batch))
    BY <1>1, <1>5, <1>6 DEF Answers
  <1>. QED  BY <1>8, <1>9

(* The row of an alert after an update of two of its columns. *)
LEMMA AlertUpdated ==
  ASSUME NEW old,
         old = [id |-> old.id, event |-> old.event, incident |-> old.incident,
                acknowledged |-> old.acknowledged],
         NEW ack, NEW inc, NEW new, new = [old EXCEPT !.acknowledged = ack, !.incident = inc]
  PROVE  new = [id |-> old.id, event |-> old.event, incident |-> inc, acknowledged |-> ack]
  <1>. DEFINE mid == [old EXCEPT !.acknowledged = ack]
  <1>1. mid = [id |-> old.id, event |-> old.event, incident |-> old.incident, acknowledged |-> ack]
    OBVIOUS
  <1>2. new = [mid EXCEPT !.incident = inc]
    OBVIOUS
  <1>. HIDE DEF mid
  <1>. QED  BY <1>1, <1>2

LEMMA SaveAlertAlike ==
  ASSUME NEW s, NEW p, GoodTables(s), GoodTables(p), NEW r \in AlertRows, NEW enforced \in BOOLEAN
  PROVE  /\ Answers(s, p, S!SaveAlert(s, r, enforced), P!SaveAlert(p, r))
         /\ EventsAnswer(s, p, S!SaveAlert(s, r, enforced), P!SaveAlert(p, r), TRUE)
  <1>. DEFINE a == Put(s.alerts, r)
              b == IF r.id \in DOMAIN p.alerts
                   THEN [p.alerts EXCEPT ![r.id].acknowledged = r.acknowledged, ![r.id].incident = r.incident]
                   ELSE Put(p.alerts, r)
  <1>1. /\ \/ S!SaveAlert(s, r, enforced) = [ok |-> TRUE, db |-> [s EXCEPT !.alerts = a]]
           \/ S!SaveAlert(s, r, enforced) = [ok |-> FALSE, db |-> s]
        /\ P!SaveAlert(p, r) = [ok |-> TRUE, db |-> [p EXCEPT !.alerts = b]]
    BY DEF S!SaveAlert, S!Done, S!Refused, S!Put, P!SaveAlert, P!Done, P!Put, Put
  <1>2. r = [id |-> r.id, event |-> r.event, incident |-> r.incident, acknowledged |-> r.acknowledged]
    BY StoresAssumption
  <1>3. /\ GoodAlerts(a) /\ DOMAIN a = DOMAIN s.alerts \cup {r.id}
        /\ a[r.id].incident = r.incident
        /\ \A i \in DOMAIN s.alerts : i # r.id => a[i] = s.alerts[i]
    BY <1>2 DEF GoodTables, GoodAlerts, Put
  <1>4. /\ GoodAlerts(b) /\ DOMAIN b = DOMAIN p.alerts \cup {r.id}
        /\ b[r.id].incident = r.incident
        /\ \A i \in DOMAIN p.alerts : i # r.id => b[i] = p.alerts[i]
    <2>1. CASE r.id \in DOMAIN p.alerts
      <3>. DEFINE old == p.alerts[r.id]
      <3>1. b[r.id] = [old EXCEPT !.acknowledged = r.acknowledged, !.incident = r.incident]
        BY <2>1
      <3>2. old = [id |-> r.id, event |-> old.event, incident |-> old.incident,
                   acknowledged |-> old.acknowledged]
        BY <2>1 DEF GoodTables, GoodAlerts
      <3>4. DOMAIN b = DOMAIN p.alerts /\ \A i \in DOMAIN p.alerts : i # r.id => b[i] = p.alerts[i]
        BY <2>1
      <3>. HIDE DEF b, old
      <3>3. b[r.id] = [id |-> r.id, event |-> old.event, incident |-> r.incident,
                       acknowledged |-> r.acknowledged]
        <4>1. old.id = r.id
          BY <3>2
        <4>. QED  BY <3>1, <3>2, <4>1, AlertUpdated
      <3>. QED  BY <2>1, <3>3, <3>4 DEF GoodTables, GoodAlerts
    <2>2. CASE r.id \notin DOMAIN p.alerts
      BY <1>2, <2>2 DEF GoodTables, GoodAlerts, Put
    <2>. QED  BY <2>1, <2>2
  <1>. HIDE DEF a, b
  <1>5. GoodTables([s EXCEPT !.alerts = a]) /\ GoodTables([p EXCEPT !.alerts = b])
    BY <1>3, <1>4 DEF GoodTables, HasTables
  <1>6. SameTables(s, p) => SameTables([s EXCEPT !.alerts = a], [p EXCEPT !.alerts = b])
    BY <1>3, <1>4 DEF SameTables, GoodTables, HasTables
  <1>7. ASSUME S!SaveAlert(s, r, enforced) = [ok |-> TRUE, db |-> [s EXCEPT !.alerts = a]]
        PROVE  Answers(s, p, S!SaveAlert(s, r, enforced), P!SaveAlert(p, r))
    BY <1>1, <1>5, <1>6, <1>7 DEF Answers
  <1>8. ASSUME S!SaveAlert(s, r, enforced) = [ok |-> FALSE, db |-> s]
        PROVE  Answers(s, p, S!SaveAlert(s, r, enforced), P!SaveAlert(p, r))
    BY <1>1, <1>5, <1>8 DEF Answers
  <1>d. Answers(s, p, S!SaveAlert(s, r, enforced), P!SaveAlert(p, r))
    BY <1>1, <1>7, <1>8
  <1>e. EventsAnswer(s, p, S!SaveAlert(s, r, enforced), P!SaveAlert(p, r), TRUE)
    <2>. DEFINE ta == [s EXCEPT !.alerts = a]
                tb == [p EXCEPT !.alerts = b]
    <2>1. ta.events = s.events /\ tb.events = p.events
      BY DEF GoodTables, HasTables
    <2>2. /\ \E k \in BOOLEAN, t \in {ta, s} : S!SaveAlert(s, r, enforced) = [ok |-> k, db |-> t]
          /\ \E k \in BOOLEAN, t \in {tb, p} : P!SaveAlert(p, r) = [ok |-> k, db |-> t]
      BY <1>1
    <2>. HIDE DEF ta, tb
    <2>3. S!SaveAlert(s, r, enforced).db \in {ta, s} /\ P!SaveAlert(p, r).db \in {tb, p}
      BY <2>2
    <2>. QED  BY <2>1, <2>3 DEF EventsAnswer, InUTC
  <1>. QED  BY <1>d, <1>e

LEMMA SaveIncidentAlike ==
  ASSUME NEW s, NEW p, GoodTables(s), GoodTables(p), NEW r \in IncidentRows
  PROVE  /\ Answers(s, p, S!SaveIncident(s, r), P!SaveIncident(p, r))
         /\ EventsAnswer(s, p, S!SaveIncident(s, r), P!SaveIncident(p, r), TRUE)
  <1>. DEFINE a == Put(s.incidents, r)
              b == Put(p.incidents, r)
  <1>1. /\ r = [id |-> r.id, created |-> r.created, status |-> r.status]
        /\ r.created \in Int /\ r.id \in DOMAIN RowId
        /\ \A q \in IncidentRows : q.id = r.id => q.created = r.created
    BY StoresAssumption
  <1>2. S!SaveIncident(s, r) = [ok |-> TRUE, db |-> [s EXCEPT !.incidents = a]]
    BY DEF S!SaveIncident, S!Done, S!Put, Put
  <1>3. P!SaveIncident(p, r) = [ok |-> TRUE, db |-> [p EXCEPT !.incidents = b]]
    <2>1. r.id \in DOMAIN p.incidents => [r EXCEPT !.created = p.incidents[r.id].created] = r
      <3>1. r.id \in DOMAIN p.incidents => p.incidents[r.id].created = r.created
        BY DEF GoodTables, GoodIncidents
      <3>2. [r EXCEPT !.created = r.created] = r
        BY <1>1
      <3>. QED  BY <3>1, <3>2
    <2>2. P!Merge(p.incidents, r) = b
      BY <2>1 DEF P!Merge, P!Put, Put
    <2>. QED  BY <2>2 DEF P!SaveIncident, P!Done
  <1>4. ASSUME NEW t, GoodIncidents(t)  PROVE GoodIncidents(Put(t, r))
    <2>1. IsFiniteSet(DOMAIN t \cup {r.id})
      BY <1>4, FS_AddElement DEF GoodIncidents
    <2>. DEFINE u == Put(t, r)
    <2>2. /\ DOMAIN u = DOMAIN t \cup {r.id} /\ u[r.id] = r
          /\ \A i \in DOMAIN t : i # r.id => u[i] = t[i]
      BY DEF Put
    <2>. HIDE DEF a, b, u
    <2>3. ASSUME NEW i \in DOMAIN u
          PROVE  /\ u[i] = [id |-> i, created |-> u[i].created, status |-> u[i].status]
                 /\ u[i].created \in Int /\ i \in DOMAIN RowId
                 /\ \A q \in IncidentRows : q.id = i => q.created = u[i].created
      <3>1. CASE i = r.id
        BY <1>1, <2>2, <3>1
      <3>2. CASE i # r.id
        BY <1>4, <2>2, <3>2 DEF GoodIncidents
      <3>. QED  BY <3>1, <3>2
    <2>. QED  BY <2>1, <2>2, <2>3 DEF GoodIncidents, u
  <1>5. GoodIncidents(a) /\ GoodIncidents(b)
    BY <1>4 DEF GoodTables
  <1>6. s.incidents = p.incidents => a = b
    OBVIOUS
  <1>. HIDE DEF a, b
  <1>7. GoodTables([s EXCEPT !.incidents = a]) /\ GoodTables([p EXCEPT !.incidents = b])
    BY <1>5 DEF GoodTables, HasTables
  <1>8. SameTables(s, p) => SameTables([s EXCEPT !.incidents = a], [p EXCEPT !.incidents = b])
    BY <1>6 DEF SameTables, GoodTables, HasTables
  <1>d. Answers(s, p, S!SaveIncident(s, r), P!SaveIncident(p, r))
    BY <1>2, <1>3, <1>7, <1>8 DEF Answers
  <1>e. EventsAnswer(s, p, S!SaveIncident(s, r), P!SaveIncident(p, r), TRUE)
    <2>. DEFINE ta == [s EXCEPT !.incidents = a]
                tb == [p EXCEPT !.incidents = b]
    <2>1. ta.events = s.events /\ tb.events = p.events
      BY DEF GoodTables, HasTables
    <2>2. /\ \E k \in BOOLEAN, t \in {ta, s} : S!SaveIncident(s, r) = [ok |-> k, db |-> t]
          /\ \E k \in BOOLEAN, t \in {tb, p} : P!SaveIncident(p, r) = [ok |-> k, db |-> t]
      BY <1>2, <1>3
    <2>. HIDE DEF ta, tb
    <2>3. S!SaveIncident(s, r).db \in {ta, s} /\ P!SaveIncident(p, r).db \in {tb, p}
      BY <2>2
    <2>. QED  BY <2>1, <2>3 DEF EventsAnswer, InUTC
  <1>. QED  BY <1>d, <1>e

LEMMA UpdateIncidentStatusAlike ==
  ASSUME NEW s, NEW p, GoodTables(s), GoodTables(p), NEW id, NEW status
  PROVE  /\ Answers(s, p, S!UpdateIncidentStatus(s, id, status), P!UpdateIncidentStatus(p, id, status))
         /\ EventsAnswer(s, p, S!UpdateIncidentStatus(s, id, status), P!UpdateIncidentStatus(p, id, status), TRUE)
  <1>. DEFINE a == [s.incidents EXCEPT ![id] = [@ EXCEPT !.status = status]]
              b == [p.incidents EXCEPT ![id] = [@ EXCEPT !.status = status]]
  <1>1. ASSUME NEW t, HasTables(t)
        PROVE  [t EXCEPT !.incidents[id].status = status]
                 = [t EXCEPT !.incidents = [t.incidents EXCEPT ![id] = [@ EXCEPT !.status = status]]]
    BY <1>1 DEF HasTables
  <1>2. S!UpdateIncidentStatus(s, id, status) =
          IF id \in DOMAIN s.incidents THEN [ok |-> TRUE, db |-> [s EXCEPT !.incidents = a]]
          ELSE [ok |-> FALSE, db |-> s]
    BY <1>1 DEF GoodTables, S!UpdateIncidentStatus, S!Refused, S!Done
  <1>3. P!UpdateIncidentStatus(p, id, status) =
          [ok |-> TRUE, db |-> IF id \in DOMAIN p.incidents THEN [p EXCEPT !.incidents = b] ELSE p]
    BY <1>1 DEF GoodTables, P!UpdateIncidentStatus, P!Done
  <1>4. ASSUME NEW t, GoodIncidents(t), id \in DOMAIN t
        PROVE  GoodIncidents([t EXCEPT ![id] = [@ EXCEPT !.status = status]])
    <2>. DEFINE u == [t EXCEPT ![id] = [@ EXCEPT !.status = status]]
    <2>1. /\ DOMAIN u = DOMAIN t
          /\ u[id] = [t[id] EXCEPT !.status = status]
          /\ \A i \in DOMAIN t : i # id => u[i] = t[i]
      BY <1>4
    <2>2. t[id] = [id |-> id, created |-> t[id].created, status |-> t[id].status]
      BY <1>4 DEF GoodIncidents
    <2>3. u[id] = [id |-> id, created |-> t[id].created, status |-> status]
      BY <2>1, <2>2
    <2>. HIDE DEF u
    <2>. QED  BY <1>4, <2>1, <2>3 DEF GoodIncidents, u
  <1>5. /\ id \in DOMAIN s.incidents => GoodIncidents(a)
        /\ id \in DOMAIN p.incidents => GoodIncidents(b)
    BY <1>4 DEF GoodTables
  <1>6. s.incidents = p.incidents => a = b
    OBVIOUS
  <1>. HIDE DEF a, b
  <1>7. /\ id \in DOMAIN s.incidents => GoodTables([s EXCEPT !.incidents = a])
        /\ id \in DOMAIN p.incidents => GoodTables([p EXCEPT !.incidents = b])
    BY <1>5 DEF GoodTables, HasTables
  <1>8. SameTables(s, p) => SameTables([s EXCEPT !.incidents = a], [p EXCEPT !.incidents = b])
    BY <1>6 DEF SameTables, GoodTables, HasTables
  <1>9. SameTables(s, p) => DOMAIN s.incidents = DOMAIN p.incidents
    BY DEF SameTables
  <1>d. Answers(s, p, S!UpdateIncidentStatus(s, id, status), P!UpdateIncidentStatus(p, id, status))
    BY <1>2, <1>3, <1>7, <1>8, <1>9 DEF Answers
  <1>e. EventsAnswer(s, p, S!UpdateIncidentStatus(s, id, status), P!UpdateIncidentStatus(p, id, status), TRUE)
    <2>. DEFINE ta == [s EXCEPT !.incidents = a]
                tb == [p EXCEPT !.incidents = b]
    <2>1. ta.events = s.events /\ tb.events = p.events
      BY DEF GoodTables, HasTables
    <2>2. /\ \E k \in BOOLEAN, t \in {ta, s} : S!UpdateIncidentStatus(s, id, status) = [ok |-> k, db |-> t]
          /\ \E k \in BOOLEAN, t \in {tb, p} : P!UpdateIncidentStatus(p, id, status) = [ok |-> k, db |-> t]
      BY <1>2, <1>3
    <2>. HIDE DEF ta, tb
    <2>3. S!UpdateIncidentStatus(s, id, status).db \in {ta, s} /\ P!UpdateIncidentStatus(p, id, status).db \in {tb, p}
      BY <2>2
    <2>. QED  BY <2>1, <2>3 DEF EventsAnswer, InUTC
  <1>. QED  BY <1>d, <1>e

LEMMA PruneEventsAlike ==
  ASSUME NEW s, NEW p, GoodTables(s), GoodTables(p), NEW cut \in Cutoffs, NEW enforced \in BOOLEAN
  PROVE  /\ Answers(s, p, S!PruneEvents(s, cut, enforced), P!PruneEvents(p, cut))
         /\ EventsAnswer(s, p, S!PruneEvents(s, cut, enforced), P!PruneEvents(p, cut), TRUE)
  <1>. DEFINE kept == DOMAIN s.events \ {e \in DOMAIN s.events : S!Text(s.events[e]) < cut}
              young == {e \in DOMAIN p.events : p.events[e].at >= cut}
              a == [e \in DOMAIN s.events \cap kept |-> s.events[e]]
              b == [e \in DOMAIN p.events \cap young |-> p.events[e]]
  <1>1. \/ S!PruneEvents(s, cut, enforced) = [ok |-> FALSE, db |-> s]
        \/ S!PruneEvents(s, cut, enforced) = [ok |-> TRUE, db |-> [s EXCEPT !.events = a]]
    BY DEF S!PruneEvents, S!Refused, S!Done, S!Only
  <1>2. P!PruneEvents(p, cut) = [ok |-> TRUE, db |-> [p EXCEPT !.events = b]]
    BY DEF P!PruneEvents, P!Done, P!Only
  <1>3. GoodEvents(a) /\ GoodEvents(b)
    BY DEF GoodTables, GoodEvents
  <1>4. InUTC(s) => \A i \in DOMAIN a : a[i].zone = 0
    BY DEF InUTC
  <1>5. InUTC(s) /\ s.events = p.events => a = b
    <2>1. ASSUME InUTC(s), NEW e \in DOMAIN s.events
          PROVE  S!Text(s.events[e]) < cut <=> ~(s.events[e].at >= cut)
      <3>1. s.events[e].at \in Int /\ cut \in Int /\ s.events[e].zone = 0
        BY <2>1, StoresAssumption DEF GoodTables, GoodEvents, InUTC
      <3>. QED  BY <3>1 DEF S!Text
    <2>2. InUTC(s) /\ s.events = p.events => kept = young
      BY <2>1
    <2>. HIDE DEF kept, young
    <2>. QED  BY <2>2
  <1>. HIDE DEF a, b
  <1>6. GoodTables([s EXCEPT !.events = a]) /\ GoodTables([p EXCEPT !.events = b])
    BY <1>3 DEF GoodTables, HasTables
  <1>7. SameTables(s, p) => SameTables([s EXCEPT !.events = a], [p EXCEPT !.events = b])
    BY DEF SameTables, GoodTables, HasTables
  <1>8. [s EXCEPT !.events = a].events = a /\ [p EXCEPT !.events = b].events = b
    BY DEF GoodTables, HasTables
  <1>9. CASE S!PruneEvents(s, cut, enforced) = [ok |-> FALSE, db |-> s]
    BY <1>2, <1>6, <1>9 DEF Answers, EventsAnswer
  <1>10. CASE S!PruneEvents(s, cut, enforced) = [ok |-> TRUE, db |-> [s EXCEPT !.events = a]]
    <2>1. Answers(s, p, S!PruneEvents(s, cut, enforced), P!PruneEvents(p, cut))
      BY <1>2, <1>6, <1>7, <1>10 DEF Answers
    <2>2. EventsAnswer(s, p, S!PruneEvents(s, cut, enforced), P!PruneEvents(p, cut), TRUE)
      <3>. DEFINE ta == [s EXCEPT !.events = a]
                  tb == [p EXCEPT !.events = b]
      <3>1. ta.events = a /\ tb.events = b
        BY <1>8
      <3>2. /\ S!PruneEvents(s, cut, enforced) = [ok |-> TRUE, db |-> ta]
            /\ P!PruneEvents(p, cut) = [ok |-> TRUE, db |-> tb]
        BY <1>2, <1>10
      <3>. HIDE DEF ta, tb
      <3>3. S!PruneEvents(s, cut, enforced).db = ta /\ P!PruneEvents(p, cut).db = tb
        BY <3>2
      <3>. QED  BY <1>4, <1>5, <3>1, <3>3 DEF EventsAnswer, InUTC
    <2>. QED  BY <2>1, <2>2
  <1>. QED  BY <1>1, <1>9, <1>10

(* A row that is merged keeps its columns, but for the date. *)
LEMMA MergePuts ==
  ASSUME NEW t, NEW r, r = [r EXCEPT !.created = r.created], "id" \in DOMAIN r, NEW now
  PROVE  \E c : P!Merge(t, P!Dated(r, now)) = Put(t, [r EXCEPT !.created = c])
  <1>1. PICK c1 : P!Dated(r, now) = [r EXCEPT !.created = c1]
    BY DEF P!Dated
  <1>. DEFINE d == [r EXCEPT !.created = c1]
  <1>2. \A c : [d EXCEPT !.created = c] = [r EXCEPT !.created = c]
    OBVIOUS
  <1>. HIDE DEF d
  <1>3. \E c : P!Merge(t, d) = P!Put(t, [r EXCEPT !.created = c])
    <2>1. CASE d.id \in DOMAIN t
      BY <1>2, <2>1 DEF P!Merge
    <2>2. CASE d.id \notin DOMAIN t
      BY <2>2 DEF P!Merge, d
    <2>. QED  BY <2>1, <2>2
  <1>4. PICK c : P!Merge(t, d) = P!Put(t, [r EXCEPT !.created = c])
    BY <1>3
  <1>5. P!Put(t, [r EXCEPT !.created = c]) = Put(t, [r EXCEPT !.created = c])
    BY DEF P!Put, Put
  <1>. QED  BY <1>1, <1>4, <1>5 DEF d

(* Two rows that differ in their date at most leave tables that do. *)
LEMMA PutsAlike ==
  ASSUME NEW x, NEW y, NEW r, "id" \in DOMAIN r, NEW c, SameButDates(x, y)
  PROVE  SameButDates(Put(x, r), Put(y, [r EXCEPT !.created = c]))
  <1>. DEFINE q == [r EXCEPT !.created = c]
              a == Put(x, r)
              b == Put(y, q)
  <1>1. Undate(q) = Undate(r) /\ q.id = r.id
    BY DEF Undate
  <1>. HIDE DEF q
  <1>2. /\ DOMAIN a = DOMAIN x \cup {r.id} /\ a[r.id] = r
        /\ \A i \in DOMAIN x : i # r.id => a[i] = x[i]
    BY DEF Put
  <1>3. /\ DOMAIN b = DOMAIN y \cup {r.id} /\ b[r.id] = q
        /\ \A i \in DOMAIN y : i # r.id => b[i] = y[i]
    BY <1>1 DEF Put
  <1>. HIDE DEF a, b
  <1>. SameButDates(a, b)
    BY <1>1, <1>2, <1>3 DEF SameButDates
  <1>. QED  BY DEF a, b, q

LEMMA SaveHostAlike ==
  ASSUME NEW s, NEW p, GoodTables(s), GoodTables(p), NEW r \in HostRows, NEW now
  PROVE  /\ Answers(s, p, S!SaveHost(s, r), P!SaveHost(p, r, now))
         /\ EventsAnswer(s, p, S!SaveHost(s, r), P!SaveHost(p, r, now), TRUE)
  <1>. DEFINE a == Put(s.hosts, r)
  <1>1. r = [id |-> r.id, name |-> r.name, created |-> r.created]
    BY StoresAssumption
  <1>2. r = [r EXCEPT !.created = r.created] /\ "id" \in DOMAIN r
    BY <1>1
  <1>3. S!SaveHost(s, r) = [ok |-> TRUE, db |-> [s EXCEPT !.hosts = a]]
    BY DEF S!SaveHost, S!Done, S!Put, Put
  <1>4. PICK c : P!Merge(p.hosts, P!Dated(r, now)) = Put(p.hosts, [r EXCEPT !.created = c])
    BY <1>2, MergePuts
  <1>. DEFINE q == [r EXCEPT !.created = c]
              b == Put(p.hosts, q)
  <1>5. P!SaveHost(p, r, now) = [ok |-> TRUE, db |-> [p EXCEPT !.hosts = b]]
    BY <1>4 DEF P!SaveHost, P!Done
  <1>6. q = [id |-> r.id, name |-> r.name, created |-> c]
    BY <1>1
  <1>7. SameButDates(s.hosts, p.hosts) => SameButDates(a, b)
    BY <1>2, PutsAlike
  <1>. HIDE DEF q
  <1>8. ASSUME NEW t, GoodHosts(t), NEW u, u = [id |-> u.id, name |-> u.name, created |-> u.created]
        PROVE  GoodHosts(Put(t, u))
    BY <1>8 DEF GoodHosts, Put
  <1>9. GoodHosts(a) /\ GoodHosts(b)
    BY <1>1, <1>6, <1>8 DEF GoodTables
  <1>. HIDE DEF a, b
  <1>10. GoodTables([s EXCEPT !.hosts = a]) /\ GoodTables([p EXCEPT !.hosts = b])
    BY <1>9 DEF GoodTables, HasTables
  <1>11. SameTables(s, p) => SameTables([s EXCEPT !.hosts = a], [p EXCEPT !.hosts = b])
    BY <1>7 DEF SameTables, GoodTables, HasTables
  <1>d. Answers(s, p, S!SaveHost(s, r), P!SaveHost(p, r, now))
    BY <1>3, <1>5, <1>10, <1>11 DEF Answers
  <1>e. EventsAnswer(s, p, S!SaveHost(s, r), P!SaveHost(p, r, now), TRUE)
    <2>. DEFINE ta == [s EXCEPT !.hosts = a]
                tb == [p EXCEPT !.hosts = b]
    <2>1. ta.events = s.events /\ tb.events = p.events
      BY DEF GoodTables, HasTables
    <2>2. /\ \E k \in BOOLEAN, t \in {ta, s} : S!SaveHost(s, r) = [ok |-> k, db |-> t]
          /\ \E k \in BOOLEAN, t \in {tb, p} : P!SaveHost(p, r, now) = [ok |-> k, db |-> t]
      BY <1>3, <1>5
    <2>. HIDE DEF ta, tb
    <2>3. S!SaveHost(s, r).db \in {ta, s} /\ P!SaveHost(p, r, now).db \in {tb, p}
      BY <2>2
    <2>. QED  BY <2>1, <2>3 DEF EventsAnswer, InUTC
  <1>. QED  BY <1>d, <1>e

IsRule(r) == r = [id |-> r.id, name |-> r.name, enabled |-> r.enabled, created |-> r.created]

(* Rules are also saved under the key of a path. *)
LEMMA SaveRuleAlike ==
  ASSUME NEW s, NEW p, GoodTables(s), GoodTables(p), NEW now,
         NEW r, IsRule(r)
  PROVE  /\ Answers(s, p, S!SaveRule(s, r), P!SaveRule(p, r, now))
         /\ EventsAnswer(s, p, S!SaveRule(s, r), P!SaveRule(p, r, now), TRUE)
  <1>. DEFINE a == Put(s.rules, r)
  <1>2. r = [r EXCEPT !.created = r.created] /\ "id" \in DOMAIN r
    BY DEF IsRule
  <1>3. S!SaveRule(s, r) = [ok |-> TRUE, db |-> [s EXCEPT !.rules = a]]
    BY DEF S!SaveRule, S!Done, S!Put, Put
  <1>4. PICK c : P!Merge(p.rules, P!Dated(r, now)) = Put(p.rules, [r EXCEPT !.created = c])
    BY <1>2, MergePuts
  <1>. DEFINE q == [r EXCEPT !.created = c]
              b == Put(p.rules, q)
  <1>5. P!SaveRule(p, r, now) = [ok |-> TRUE, db |-> [p EXCEPT !.rules = b]]
    BY <1>4 DEF P!SaveRule, P!Done
  <1>6. q = [id |-> r.id, name |-> r.name, enabled |-> r.enabled, created |-> c]
    BY DEF IsRule
  <1>7. SameButDates(s.rules, p.rules) => SameButDates(a, b)
    BY <1>2, PutsAlike
  <1>. HIDE DEF q
  <1>8. ASSUME NEW t, GoodRules(t), NEW u,
               u = [id |-> u.id, name |-> u.name, enabled |-> u.enabled, created |-> u.created]
        PROVE  GoodRules(Put(t, u))
    BY <1>8 DEF GoodRules, Put
  <1>9. GoodRules(a) /\ GoodRules(b)
    BY <1>6, <1>8 DEF GoodTables, IsRule
  <1>. HIDE DEF a, b
  <1>10. GoodTables([s EXCEPT !.rules = a]) /\ GoodTables([p EXCEPT !.rules = b])
    BY <1>9 DEF GoodTables, HasTables
  <1>11. SameTables(s, p) => SameTables([s EXCEPT !.rules = a], [p EXCEPT !.rules = b])
    BY <1>7 DEF SameTables, GoodTables, HasTables
  <1>d. Answers(s, p, S!SaveRule(s, r), P!SaveRule(p, r, now))
    BY <1>3, <1>5, <1>10, <1>11 DEF Answers
  <1>e. EventsAnswer(s, p, S!SaveRule(s, r), P!SaveRule(p, r, now), TRUE)
    <2>. DEFINE ta == [s EXCEPT !.rules = a]
                tb == [p EXCEPT !.rules = b]
    <2>1. ta.events = s.events /\ tb.events = p.events
      BY DEF GoodTables, HasTables
    <2>2. /\ \E k \in BOOLEAN, t \in {ta, s} : S!SaveRule(s, r) = [ok |-> k, db |-> t]
          /\ \E k \in BOOLEAN, t \in {tb, p} : P!SaveRule(p, r, now) = [ok |-> k, db |-> t]
      BY <1>3, <1>5
    <2>. HIDE DEF ta, tb
    <2>3. S!SaveRule(s, r).db \in {ta, s} /\ P!SaveRule(p, r, now).db \in {tb, p}
      BY <2>2
    <2>. QED  BY <2>1, <2>3 DEF EventsAnswer, InUTC
  <1>. QED  BY <1>d, <1>e

(* Deleting a rule that is not there is an error of PostgreSQL only. *)
LEMMA DeleteRuleAlike ==
  ASSUME NEW s, NEW p, GoodTables(s), GoodTables(p), NEW id
  PROVE  /\ Answers(s, p, S!DeleteRule(s, id), P!DeleteRule(p, id))
         /\ EventsAnswer(s, p, S!DeleteRule(s, id), P!DeleteRule(p, id), TRUE)
  <1>. DEFINE rest(t) == [i \in DOMAIN t \cap (DOMAIN t \ {id}) |-> t[i]]
              a == rest(s.rules)
              b == rest(p.rules)
  <1>1. S!DeleteRule(s, id) = [ok |-> TRUE, db |-> [s EXCEPT !.rules = a]]
    BY DEF S!DeleteRule, S!Done, S!Only
  <1>2. P!DeleteRule(p, id) = IF id \notin DOMAIN p.rules THEN [ok |-> FALSE, db |-> p]
                              ELSE [ok |-> TRUE, db |-> [p EXCEPT !.rules = b]]
    BY DEF P!DeleteRule, P!Refused, P!Done, P!Only
  <1>3. GoodRules(a) /\ GoodRules(b)
    BY DEF GoodTables, GoodRules
  <1>4. SameButDates(s.rules, p.rules) => SameButDates(a, b)
    BY DEF SameButDates
  <1>. HIDE DEF a, b
  <1>5. GoodTables([s EXCEPT !.rules = a]) /\ GoodTables([p EXCEPT !.rules = b])
    BY <1>3 DEF GoodTables, HasTables
  <1>6. SameTables(s, p) => SameTables([s EXCEPT !.rules = a], [p EXCEPT !.rules = b])
    BY <1>4 DEF SameTables, GoodTables, HasTables
  <1>d. Answers(s, p, S!DeleteRule(s, id), P!DeleteRule(p, id))
    BY <1>1, <1>2, <1>5, <1>6 DEF Answers
  <1>e. EventsAnswer(s, p, S!DeleteRule(s, id), P!DeleteRule(p, id), TRUE)
    <2>. DEFINE ta == [s EXCEPT !.rules = a]
                tb == [p EXCEPT !.rules = b]
    <2>1. ta.events = s.events /\ tb.events = p.events
      BY DEF GoodTables, HasTables
    <2>2. /\ \E k \in BOOLEAN, t \in {ta, s} : S!DeleteRule(s, id) = [ok |-> k, db |-> t]
          /\ \E k \in BOOLEAN, t \in {tb, p} : P!DeleteRule(p, id) = [ok |-> k, db |-> t]
      BY <1>1, <1>2
    <2>. HIDE DEF ta, tb
    <2>3. S!DeleteRule(s, id).db \in {ta, s} /\ P!DeleteRule(p, id).db \in {tb, p}
      BY <2>2
    <2>. QED  BY <2>1, <2>3 DEF EventsAnswer, InUTC
  <1>. QED  BY <1>d, <1>e

(* What SQLite replaces, PostgreSQL refuses: the same type and value under   *)
(* another key. *)
LEMMA SaveIOCAlike ==
  ASSUME NEW s, NEW p, GoodTables(s), GoodTables(p), NEW r \in IOCRows, NEW now
  PROVE  /\ Answers(s, p, S!SaveIOC(s, r), P!SaveIOC(p, r, now))
         /\ EventsAnswer(s, p, S!SaveIOC(s, r), P!SaveIOC(p, r, now), TRUE)
  <1>. DEFINE others == {i \in DOMAIN s.iocs : s.iocs[i].mark # r.mark}
              kept == [i \in DOMAIN s.iocs \cap others |-> s.iocs[i]]
              a == Put(kept, r)
              taken == \E i \in DOMAIN p.iocs \ {r.id} : p.iocs[i].mark = r.mark
  <1>1. r = [id |-> r.id, mark |-> r.mark, created |-> r.created]
    BY StoresAssumption
  <1>2. r = [r EXCEPT !.created = r.created] /\ "id" \in DOMAIN r
    BY <1>1
  <1>3. S!SaveIOC(s, r) = [ok |-> TRUE, db |-> [s EXCEPT !.iocs = a]]
    BY DEF S!SaveIOC, S!Done, S!Only, S!Put, Put
  <1>4. PICK c : P!Merge(p.iocs, P!Dated(r, now)) = Put(p.iocs, [r EXCEPT !.created = c])
    BY <1>2, MergePuts
  <1>. DEFINE q == [r EXCEPT !.created = c]
              b == Put(p.iocs, q)
  <1>5. P!SaveIOC(p, r, now) = IF taken THEN [ok |-> FALSE, db |-> p]
                               ELSE [ok |-> TRUE, db |-> [p EXCEPT !.iocs = b]]
    BY <1>4 DEF P!SaveIOC, P!Done, P!Refused
  <1>6. q = [id |-> r.id, mark |-> r.mark, created |-> c]
    BY <1>1
  <1>7. /\ DOMAIN a = others \cup {r.id} /\ a[r.id] = r
        /\ \A i \in others : i # r.id => a[i] = s.iocs[i]
    BY DEF Put
  <1>8. /\ DOMAIN b = DOMAIN p.iocs \cup {r.id} /\ b[r.id] = q
        /\ \A i \in DOMAIN p.iocs : i # r.id => b[i] = p.iocs[i]
    BY <1>6 DEF Put
  <1>9. Undate(q) = Undate(r)
    BY <1>2 DEF Undate
  <1>10. \A i \in DOMAIN s.iocs \cap DOMAIN p.iocs :
           Undate(s.iocs[i]) = Undate(p.iocs[i]) => s.iocs[i].mark = p.iocs[i].mark
    <2>. SUFFICES ASSUME NEW i \in DOMAIN s.iocs \cap DOMAIN p.iocs, Undate(s.iocs[i]) = Undate(p.iocs[i])
                  PROVE  s.iocs[i].mark = p.iocs[i].mark
      OBVIOUS
    <2>1. /\ s.iocs[i] = [id |-> i, mark |-> s.iocs[i].mark, created |-> s.iocs[i].created]
          /\ p.iocs[i] = [id |-> i, mark |-> p.iocs[i].mark, created |-> p.iocs[i].created]
      BY DEF GoodTables, GoodIOCs
    <2>2. /\ Undate(s.iocs[i]).mark = s.iocs[i].mark
          /\ Undate(p.iocs[i]).mark = p.iocs[i].mark
      BY <2>1 DEF Undate
    <2>. QED  BY <2>2
  <1>. HIDE DEF q, a, b
  <1>11. GoodIOCs(a)
    BY <1>1, <1>7 DEF GoodTables, GoodIOCs
  <1>12. ~taken => GoodIOCs(b)
    BY <1>6, <1>8 DEF GoodTables, GoodIOCs
  <1>13. SameButDates(s.iocs, p.iocs) /\ ~taken => SameButDates(a, b)
    <2>. SUFFICES ASSUME SameButDates(s.iocs, p.iocs), ~taken  PROVE SameButDates(a, b)
      OBVIOUS
    <2>1. others \cup {r.id} = DOMAIN s.iocs \cup {r.id}
      BY <1>10 DEF SameButDates
    <2>. QED  BY <1>7, <1>8, <1>9, <2>1 DEF SameButDates
  <1>14. GoodTables([s EXCEPT !.iocs = a]) /\ (~taken => GoodTables([p EXCEPT !.iocs = b]))
    BY <1>11, <1>12 DEF GoodTables, HasTables
  <1>15. SameTables(s, p) /\ ~taken => SameTables([s EXCEPT !.iocs = a], [p EXCEPT !.iocs = b])
    BY <1>13 DEF SameTables, GoodTables, HasTables
  <1>. HIDE DEF taken
  <1>d. Answers(s, p, S!SaveIOC(s, r), P!SaveIOC(p, r, now))
    BY <1>3, <1>5, <1>14, <1>15 DEF Answers
  <1>e. EventsAnswer(s, p, S!SaveIOC(s, r), P!SaveIOC(p, r, now), TRUE)
    <2>. DEFINE ta == [s EXCEPT !.iocs = a]
                tb == [p EXCEPT !.iocs = b]
    <2>1. ta.events = s.events /\ tb.events = p.events
      BY DEF GoodTables, HasTables
    <2>2. /\ \E k \in BOOLEAN, t \in {ta, s} : S!SaveIOC(s, r) = [ok |-> k, db |-> t]
          /\ \E k \in BOOLEAN, t \in {tb, p} : P!SaveIOC(p, r, now) = [ok |-> k, db |-> t]
      BY <1>3, <1>5
    <2>. HIDE DEF ta, tb
    <2>3. S!SaveIOC(s, r).db \in {ta, s} /\ P!SaveIOC(p, r, now).db \in {tb, p}
      BY <2>2
    <2>. QED  BY <2>1, <2>3 DEF EventsAnswer, InUTC
  <1>. QED  BY <1>d, <1>e

-----------------------------------------------------------------------------
(* The stream of calls.                                                      *)

LEMMA StoresStep ==
  ASSUME StoresInv, [Next]_vars
  PROVE  StoresInv'
  <1>. GoodTables(db.sqlite) /\ GoodTables(db.postgres)
    BY DEF StoresInv
  <1>1. ASSUME NEW batch \in SUBSET EventRows, BatchIngestEvents(batch)  PROVE StoresInv'
    <2>. DEFINE pure == \A r \in batch : r.zone = 0
    <2>1. pure \in BOOLEAN /\ utc' = (utc /\ pure)
      BY <1>1 DEF BatchIngestEvents
    <2>2. EventsAnswer(db.sqlite, db.postgres, S!SaveEvents(db.sqlite, batch), P!SaveEvents(db.postgres, batch), pure)
      BY SaveEventsAlike
    <2>. HIDE DEF pure
    <2>. QED  BY <1>1, <2>1, <2>2, SaveEventsAlike, CallAnswers DEF BatchIngestEvents
  <1>u. ASSUME UNCHANGED utc  PROVE utc' = (utc /\ TRUE)
    BY <1>u DEF StoresInv
  <1>2. ASSUME NEW r \in AlertRows, SaveAlert(r), UNCHANGED utc  PROVE StoresInv'
    <2>1. PICK enforced \in BOOLEAN :
            Call(S!SaveAlert(db.sqlite, r, enforced), P!SaveAlert(db.postgres, r))
      BY <1>2 DEF SaveAlert
    <2>. QED  BY <1>2, <1>u, <2>1, SaveAlertAlike, CallAnswers
  <1>3. ASSUME NEW r \in IncidentRows, SaveIncident(r), UNCHANGED utc  PROVE StoresInv'
    BY <1>3, <1>u, SaveIncidentAlike, CallAnswers DEF SaveIncident
  <1>4. ASSUME NEW r \in IncidentRows, NEW status \in Statuses, UpdateIncidentStatus(r.id, status), UNCHANGED utc
        PROVE  StoresInv'
    BY <1>4, <1>u, UpdateIncidentStatusAlike, CallAnswers DEF UpdateIncidentStatus
  <1>5. ASSUME NEW cut \in Cutoffs, PruneEvents(cut), UNCHANGED utc  PROVE StoresInv'
    <2>1. PICK enforced \in BOOLEAN :
            Call(S!PruneEvents(db.sqlite, cut, enforced), P!PruneEvents(db.postgres, cut))
      BY <1>5 DEF PruneEvents
    <2>. QED  BY <1>5, <1>u, <2>1, PruneEventsAlike, CallAnswers
  <1>6. ASSUME NEW r \in HostRows, RegisterHost(r), UNCHANGED utc  PROVE StoresInv'
    BY <1>6, <1>u, SaveHostAlike, CallAnswers DEF RegisterHost
  <1>7. ASSUME NEW r \in RuleRows, CreateRule(r), UNCHANGED utc  PROVE StoresInv'
    <2>1. IsRule(r)
      BY StoresAssumption DEF IsRule
    <2>. QED  BY <1>7, <1>u, <2>1, SaveRuleAlike, CallAnswers DEF CreateRule
  <1>8. ASSUME NEW r \in RuleRows, NEW other \in RuleRows, UpdateRule(other.id, r), UNCHANGED utc  PROVE StoresInv'
    <2>. DEFINE rule == [r EXCEPT !.id = other.id]
    <2>1. IsRule(r)
      BY StoresAssumption DEF IsRule
    <2>2. IsRule(rule)
      BY <2>1 DEF IsRule
    <2>3. Call(S!SaveRule(db.sqlite, rule), P!SaveRule(db.postgres, rule, Clock))
      BY <1>8 DEF UpdateRule
    <2>. HIDE DEF rule
    <2>. QED  BY <1>8, <1>u, <2>2, <2>3, SaveRuleAlike, CallAnswers
  <1>9. ASSUME NEW r \in RuleRows, DeleteRule(r.id), UNCHANGED utc  PROVE StoresInv'
    BY <1>9, <1>u, DeleteRuleAlike, CallAnswers DEF DeleteRule
  <1>10. ASSUME NEW r \in IOCRows, AddIOC(r), UNCHANGED utc  PROVE StoresInv'
    BY <1>10, <1>u, SaveIOCAlike, CallAnswers DEF AddIOC
  <1>11. CASE UNCHANGED vars
    BY <1>11 DEF StoresInv, vars
  <1>. QED  BY <1>1, <1>2, <1>3, <1>4, <1>5, <1>6, <1>7, <1>8, <1>9, <1>10, <1>11 DEF Next, OtherCall

(* Equal tables give equal pages, *)
LEMMA SamePages ==
  ASSUME NEW s, NEW p, GoodEvents(s.events), InUTC(s), s.events = p.events, NEW q, q.offset \in Int, q.offset <= 0,
         q.since.zone = 0 /\ q.until.zone = 0 /\ q.since.at \in Int /\ q.until.at \in Int
  PROVE  S!QueryEvents(s, q) = P!QueryEvents(p, q)
  <1>. DEFINE sFound == {e \in S!Selected(s.events, q) :
                           /\ q.since.at # S!Unset => S!Text(s.events[e]) >= S!Text(q.since)
                           /\ q.until.at # S!Unset => S!Text(s.events[e]) <= S!Text(q.until)}
              pFound == {e \in P!Selected(p.events, q) :
                           /\ q.since.at # P!Unset => p.events[e].at >= q.since.at
                           /\ q.until.at # P!Unset => p.events[e].at <= q.until.at}
              sIndex == {[id |-> e, at |-> S!Text(s.events[e])] : e \in sFound}
              pIndex == {[id |-> e, at |-> p.events[e].at] : e \in pFound}
  <1>1. ASSUME NEW e \in DOMAIN s.events  PROVE S!Text(s.events[e]) = s.events[e].at
    <2>1. s.events[e].at \in Int /\ s.events[e].zone = 0
      BY StoresAssumption DEF GoodEvents, InUTC
    <2>. QED  BY <2>1 DEF S!Text
  <1>2. S!Text(q.since) = q.since.at /\ S!Text(q.until) = q.until.at
    BY DEF S!Text
  <1>3. S!Selected(s.events, q) = P!Selected(p.events, q) /\ S!Selected(s.events, q) \subseteq DOMAIN s.events
    BY DEF S!Selected, P!Selected, S!NoFilter, P!NoFilter
  <1>4. sFound = pFound
    BY <1>1, <1>2, <1>3 DEF S!Unset, P!Unset
  <1>5. sIndex = pIndex
    BY <1>1, <1>3, <1>4
  <1>6. S!QueryEvents(s, q) = S!Page(S!NewestFirst(sIndex), 0, S!Limited(q.limit))
    BY DEF S!QueryEvents
  <1>7. P!QueryEvents(p, q) = P!Page(P!NewestFirst(pIndex), 0, P!Limited(q.limit))
    BY DEF P!QueryEvents
  <1>. HIDE DEF sIndex, pIndex
  <1>8. S!NewestFirst(sIndex) = NewestFirst(sIndex) /\ P!NewestFirst(pIndex) = NewestFirst(pIndex)
    BY DEF S!NewestFirst, P!NewestFirst, NewestFirst, S!Sooner, P!Sooner, Sooner,
           S!Cardinality, P!Cardinality, Cardinality
  <1>9. ASSUME NEW rows, NEW limit
        PROVE  S!Page(rows, 0, S!Limited(limit)) = P!Page(rows, 0, P!Limited(limit))
    BY DEF S!Page, P!Page, S!Limited, P!Limited
  <1>. QED  BY <1>5, <1>6, <1>7, <1>8, <1>9

Listed(list) == {list[k].row : k \in DOMAIN list}

(* and the same incidents, in the one order or the other. *)
LEMMA SameLists ==
  ASSUME NEW s, NEW p, GoodIncidents(s.incidents), s.incidents = p.incidents, NEW status
  PROVE  Listed(S!QueryIncidents(s, {status})) = Listed(P!QueryIncidents(p, {status}))
  <1>. DEFINE found == {i \in DOMAIN s.incidents : s.incidents[i].status \in {status}}
              index == {[id |-> i, at |-> s.incidents[i].created] : i \in found}
              rows == NewestFirst(index)
              n == Len(rows)
  <1>1. IsIndex(index)
    <2>1. IsFiniteSet(found)
      BY FS_Subset DEF GoodIncidents
    <2>2. found \subseteq DOMAIN RowId /\ [i \in found |-> s.incidents[i].created] \in [found -> Int]
      BY DEF GoodIncidents
    <2>3. index = {[id |-> e, at |-> [i \in found |-> s.incidents[i].created][e]] : e \in found}
      OBVIOUS
    <2>. HIDE DEF found, index
    <2>. QED  BY <2>1, <2>2, <2>3, IndexOfKeys
  <1>2. n \in Nat
    BY <1>1, NewestFirstLists
  <1>3. S!NewestFirst(index) = rows /\ P!NewestFirst(index) = rows
    BY DEF S!NewestFirst, P!NewestFirst, NewestFirst, S!Sooner, P!Sooner, Sooner,
           S!Cardinality, P!Cardinality, Cardinality
  <1>. DEFINE back == S!Reverse(rows)
  <1>4. /\ DOMAIN rows = 1 .. n /\ DOMAIN back = 1 .. n
        /\ \A k \in 1 .. n : back[k] = rows[n - k + 1]
    <2>1. DOMAIN rows = 1 .. n
      BY <1>1, NewestFirstLists
    <2>. HIDE DEF rows
    <2>. QED  BY <1>2, <2>1 DEF S!Reverse
  <1>5. S!QueryIncidents(s, {status}) =
          [k \in DOMAIN back |-> [row |-> s.incidents[back[k]], alerts |-> S!AlertsOf(s, back[k])]]
    BY <1>3 DEF S!QueryIncidents
  <1>6. P!QueryIncidents(p, {status}) = [k \in DOMAIN rows |-> [row |-> p.incidents[rows[k]], alerts |-> {}]]
    <2>1. {i \in DOMAIN p.incidents : {status} # {} => p.incidents[i].status \in {status}} = found
      OBVIOUS
    <2>2. {[id |-> i, at |-> p.incidents[i].created] :
             i \in {i \in DOMAIN p.incidents : {status} # {} => p.incidents[i].status \in {status}}} = index
      BY <2>1
    <2>. HIDE DEF index
    <2>. QED  BY <1>3, <2>2 DEF P!QueryIncidents
  <1>. HIDE DEF rows, back, n
  <1>7. Listed(S!QueryIncidents(s, {status})) = {s.incidents[back[k]] : k \in 1 .. n}
    BY <1>4, <1>5 DEF Listed
  <1>8. Listed(P!QueryIncidents(p, {status})) = {s.incidents[rows[k]] : k \in 1 .. n}
    BY <1>4, <1>6 DEF Listed
  <1>9. ASSUME NEW k \in 1 .. n  PROVE n - k + 1 \in 1 .. n /\ n - (n - k + 1) + 1 = k
    BY <1>2
  <1>10. {s.incidents[back[k]] : k \in 1 .. n} = {s.incidents[rows[k]] : k \in 1 .. n}
    BY <1>4, <1>9
  <1>. QED  BY <1>7, <1>8, <1>10

(* Rows of the same keys are alike but for their dates. *)
LEMMA UndatedRows ==
  ASSUME NEW x, NEW y, SameButDates(x, y), NEW K \in SUBSET DOMAIN x
  PROVE  Undated({x[i] : i \in K}) = Undated({y[i] : i \in K})
  <1>1. ASSUME NEW z  PROVE Undated({z[i] : i \in K}) = {Undate(z[i]) : i \in K}
    BY DEF Undated, Undate
  <1>2. \A i \in K : Undate(x[i]) = Undate(y[i])
    BY DEF SameButDates
  <1>3. {Undate(x[i]) : i \in K} = {Undate(y[i]) : i \in K}
    BY <1>2
  <1>. QED  BY <1>1, <1>3

LEMMA SameTablesAnswer ==
  ASSUME StoresInv
  PROVE  SameAnswers
  <1>. SUFFICES ASSUME agreed  PROVE SameAnswers
    BY DEF SameAnswers
  <1>. DEFINE s == db.sqlite
              p == db.postgres
  <1>1. /\ GoodTables(s) /\ GoodTables(p) /\ SameTables(s, p)
        /\ utc => InUTC(s) /\ s.events = p.events
    BY DEF StoresInv
  <1>. HIDE DEF s, p
  <1>2. ASSUME utc, NEW q \in Queries, Comparable(q)  PROVE Alike(EventsPage(q))
    <2>. DEFINE given == [q EXCEPT !.limit = IF @ = 0 THEN MaxLimit ELSE @]
    <2>1. /\ given.offset = q.offset /\ given.since = q.since /\ given.until = q.until
          /\ q.offset \in Int /\ q.offset <= 0 /\ q.since.zone = 0 /\ q.until.zone = 0
          /\ q.since.at \in Int /\ q.until.at \in Int
      BY <1>2, StoresAssumption DEF Comparable
    <2>. HIDE DEF given
    <2>2. S!QueryEvents(s, given) = P!QueryEvents(p, given)
      BY <1>1, <1>2, <2>1, SamePages DEF GoodTables, SameTables
    <2>. QED  BY <2>2 DEF Alike, EventsPage, given, s, p
  <1>3. utc => \A id \in IdsOf(EventRows) : Alike(OneEvent(id))
    BY <1>1 DEF Alike, OneEvent, S!GetEvent, P!GetEvent, s, p
  <1>4. ASSUME NEW x, NEW y, SameButDates(x, y), NEW id
        PROVE  Undated(IF id \in DOMAIN x THEN {x[id]} ELSE {})
                 = Undated(IF id \in DOMAIN y THEN {y[id]} ELSE {})
    <2>. DEFINE K == {id} \cap DOMAIN x
    <2>1. /\ (IF id \in DOMAIN x THEN {x[id]} ELSE {}) = {x[i] : i \in K}
          /\ (IF id \in DOMAIN y THEN {y[id]} ELSE {}) = {y[i] : i \in K}
      BY <1>4 DEF SameButDates
    <2>. HIDE DEF K
    <2>2. K \in SUBSET DOMAIN x
      BY DEF K
    <2>. QED  BY <1>4, <2>1, <2>2, UndatedRows
  <1>5. \A id \in IdsOf(HostRows) : AlikeButDates(OneHost(id))
    <2>1. SameButDates(s.hosts, p.hosts)
      BY <1>1 DEF SameTables
    <2>2. ASSUME NEW id
          PROVE  Undated(S!GetHost(s, id)) = Undated(P!GetHost(p, id))
      BY <1>4, <2>1 DEF S!GetHost, P!GetHost
    <2>. QED  BY <2>2 DEF AlikeButDates, OneHost, s, p
  <1>6. \A id \in IdsOf(RuleRows) : AlikeButDates(OneRule(id))
    <2>1. SameButDates(s.rules, p.rules)
      BY <1>1 DEF SameTables
    <2>2. ASSUME NEW id
          PROVE  Undated(S!GetRule(s, id)) = Undated(P!GetRule(p, id))
      BY <1>4, <2>1 DEF S!GetRule, P!GetRule
    <2>. QED  BY <2>2 DEF AlikeButDates, OneRule, s, p
  <1>7. AlikeButDates(HostList)
    <2>1. SameButDates(s.hosts, p.hosts) /\ DOMAIN s.hosts = DOMAIN p.hosts
      BY <1>1 DEF SameTables, SameButDates
    <2>2. Undated({s.hosts[i] : i \in DOMAIN s.hosts}) = Undated({p.hosts[i] : i \in DOMAIN s.hosts})
      BY <2>1, UndatedRows
    <2>. QED  BY <2>1, <2>2 DEF AlikeButDates, HostList, S!ListHosts, P!ListHosts, S!Rows, P!Rows, s, p
  <1>8. ASSUME NEW enabledOnly \in BOOLEAN  PROVE AlikeButDates(RuleList(enabledOnly))
    <2>. DEFINE x == s.rules
                y == p.rules
    <2>1. SameButDates(x, y) /\ GoodRules(x) /\ GoodRules(y)
      BY <1>1 DEF SameTables, GoodTables
    <2>. HIDE DEF x, y
    <2>2. ASSUME NEW i \in DOMAIN x
          PROVE  x[i].enabled = y[i].enabled
      <3>1. i \in DOMAIN y /\ Undate(x[i]) = Undate(y[i])
        BY <2>1 DEF SameButDates
      <3>2. /\ x[i] = [id |-> i, name |-> x[i].name, enabled |-> x[i].enabled, created |-> x[i].created]
            /\ y[i] = [id |-> i, name |-> y[i].name, enabled |-> y[i].enabled, created |-> y[i].created]
        BY <2>1, <3>1 DEF GoodRules
      <3>3. Undate(x[i]).enabled = x[i].enabled /\ Undate(y[i]).enabled = y[i].enabled
        BY <3>2 DEF Undate
      <3>. QED  BY <3>1, <3>3
    <2>. DEFINE K == {i \in DOMAIN x : enabledOnly => x[i].enabled}
                xs == {r \in {x[i] : i \in DOMAIN x} : enabledOnly => r.enabled}
                ys == {r \in {y[i] : i \in DOMAIN y} : enabledOnly => r.enabled}
    <2>3. xs = {x[i] : i \in K} /\ ys = {y[i] : i \in K}
      BY <2>1, <2>2 DEF SameButDates
    <2>4. K \in SUBSET DOMAIN x
      OBVIOUS
    <2>. HIDE DEF K, xs, ys
    <2>5. Undated({x[i] : i \in K}) = Undated({y[i] : i \in K})
      BY <2>1, <2>4, UndatedRows
    <2>6. Undated(xs) = Undated(ys)
      BY <2>3, <2>5
    <2>. QED  BY <2>6 DEF xs, ys, AlikeButDates, RuleList, S!ListRules, P!ListRules, S!Rows, P!Rows, s, p, x, y
  <1>9. ASSUME NEW mark \in Marks  PROVE AlikeButDates(IOCList(mark))
    <2>. DEFINE x == s.iocs
                y == p.iocs
    <2>1. SameButDates(x, y) /\ GoodIOCs(x) /\ GoodIOCs(y)
      BY <1>1 DEF SameTables, GoodTables
    <2>. HIDE DEF x, y
    <2>2. ASSUME NEW i \in DOMAIN x
          PROVE  x[i].mark = y[i].mark
      <3>1. i \in DOMAIN y /\ Undate(x[i]) = Undate(y[i])
        BY <2>1 DEF SameButDates
      <3>2. /\ x[i] = [id |-> i, mark |-> x[i].mark, created |-> x[i].created]
            /\ y[i] = [id |-> i, mark |-> y[i].mark, created |-> y[i].created]
        BY <2>1, <3>1 DEF GoodIOCs
      <3>3. Undate(x[i]).mark = x[i].mark /\ Undate(y[i]).mark = y[i].mark
        BY <3>2 DEF Undate
      <3>. QED  BY <3>1, <3>3
    <2>. DEFINE K == {i \in DOMAIN x : mark \in {NoFilter, x[i].mark}}
                xs == {r \in {x[i] : i \in DOMAIN x} : mark \in {NoFilter, r.mark}}
                ys == {r \in {y[i] : i \in DOMAIN y} : mark \in {NoFilter, r.mark}}
    <2>3. xs = {x[i] : i \in K} /\ ys = {y[i] : i \in K}
      BY <2>1, <2>2 DEF SameButDates
    <2>4. K \in SUBSET DOMAIN x
      OBVIOUS
    <2>. HIDE DEF K, xs, ys
    <2>5. Undated({x[i] : i \in K}) = Undated({y[i] : i \in K})
      BY <2>1, <2>4, UndatedRows
    <2>6. Undated(xs) = Undated(ys)
      BY <2>3, <2>5
    <2>. QED  BY <2>6 DEF xs, ys, AlikeButDates, IOCList, S!QueryIOCs, P!QueryIOCs, S!Rows, P!Rows,
                          S!NoFilter, P!NoFilter, NoFilter, s, p, x, y
  <1>10. ASSUME NEW status \in Statuses  PROVE SameIncidents(IncidentList({status}))
    <2>1. Listed(S!QueryIncidents(s, {status})) = Listed(P!QueryIncidents(p, {status}))
      BY <1>1, SameLists DEF GoodTables, SameTables
    <2>. QED  BY <2>1 DEF SameIncidents, IncidentList, Listed, s, p
  <1>11. \A id \in IdsOf(IncidentRows) : S!AlertsOf(db.sqlite, id) = S!AlertsOf(db.postgres, id)
    BY <1>1 DEF S!AlertsOf, SameTables, s, p
  <1>. QED  BY <1>2, <1>3, <1>5, <1>6, <1>7, <1>8, <1>9, <1>10, <1>11 DEF SameAnswers

LEMMA StoresTyped ==
  ASSUME StoresInv
  PROVE  TypeOK
  <1>1. DOMAIN db = {"sqlite", "postgres"}
    BY DEF StoresInv
  <1>2. ASSUME NEW t, GoodTables(t), NEW name \in DOMAIN NoTables, NEW i \in DOMAIN t[name]
        PROVE  t[name][i].id = i
    <2>1. name \in {"events", "alerts", "incidents", "hosts", "rules", "iocs"}
      BY <1>2 DEF NoTables
    <2>. DEFINE Keyed(u) == \A k \in DOMAIN u : u[k].id = k
    <2>2. Keyed(t.events)
      BY <1>2 DEF GoodTables, GoodEvents
    <2>3. ASSUME NEW u, GoodAlerts(u) \/ GoodIncidents(u) \/ GoodHosts(u) \/ GoodRules(u) \/ GoodIOCs(u)
          PROVE  Keyed(u)
      BY <2>3 DEF GoodAlerts, GoodIncidents, GoodHosts, GoodRules, GoodIOCs
    <2>. HIDE DEF Keyed
    <2>4. Keyed(t.alerts) /\ Keyed(t.incidents) /\ Keyed(t.hosts) /\ Keyed(t.rules) /\ Keyed(t.iocs)
      BY <1>2, <2>3 DEF GoodTables
    <2>5. Keyed(t[name])
      BY <2>1, <2>2, <2>4
    <2>. QED  BY <1>2, <2>5 DEF Keyed
  <1>3. \A d \in DOMAIN db : GoodTables(db[d])
    BY <1>1 DEF StoresInv
  <1>. QED  BY <1>2, <1>3 DEF StoresInv, TypeOK, GoodTables, GoodIOCs

(* SameAnswers: for every set of rows, queries and number of calls, as long  *)
(* as both stores have answered every call alike, their hosts, rules,        *)
(* indicators, incidents and alerts are alike, and while every event came in *)
(* UTC so are the events and, where their times differ, the pages of them.   *)
THEOREM StoresAgree == Spec => []SameAnswers
  <1>1. Init => StoresInv
    BY StoresBegin
  <1>2. StoresInv /\ [Next]_vars => StoresInv'
    BY StoresStep
  <1>3. StoresInv => SameAnswers
    BY SameTablesAnswer
  <1>. QED  BY <1>1, <1>2, <1>3, PTL DEF Spec

(* StorageTypeOK: the types of both parts, each of which moves alone. *)
THEOREM StorageTypeCorrect == StorageSpec => []StorageTypeOK
  <1>1. StorageInit => StoresInv /\ RetentionTypes
    <2>1. StorageInit => Init /\ RetentionInit
      BY DEF StorageInit, NoCalls, NoCycles, Init
    <2>. QED  BY <2>1, StoresBegin, RetentionBegins DEF RetentionInv, PagingInv
  <1>2. StoresInv /\ RetentionTypes /\ [StorageNext]_storageVars => StoresInv' /\ RetentionTypes'
    <2>1. [StorageNext]_storageVars => [Next]_vars /\ [RetentionNext]_retentionVars
      BY DEF StorageNext, storageVars
    <2>. QED  BY <2>1, StoresStep, RetentionTypesStep
  <1>3. StoresInv /\ RetentionTypes => StorageTypeOK
    BY StoresTyped DEF StorageTypeOK, RetentionTypes, RetentionTypeOK, Stored
  <1>. QED  BY <1>1, <1>2, <1>3, PTL DEF StorageSpec

=============================================================================
