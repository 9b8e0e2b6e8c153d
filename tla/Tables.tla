------------------------------- MODULE Tables -------------------------------
(***************************************************************************)
(* The tables both stores keep, and what their statements have in common.  *)
(* A table is a function from the primary keys in use to the rows; every   *)
(* row carries its key in the field id.  A call on a store has an outcome: *)
(* whether it returned without an error, and the tables it leaves.         *)
(***************************************************************************)
EXTENDS Naturals, Integers, FiniteSets, Sequences, SequencesExt

CONSTANTS DefaultLimit, MaxLimit,   \* rows of a page when no limit is given, and at most
          RowId                     \* key -> place of its row in the table

ASSUME LimitAssumption == DefaultLimit \in Nat \ {0} /\ MaxLimit \in Nat \ {0}
ASSUME RowIdAssumption ==
    /\ RowId \in [DOMAIN RowId -> Int]
    /\ \A a, b \in DOMAIN RowId : RowId[a] = RowId[b] => a = b

Unset == 0              \* the zero time
NoFilter == "any"            \* a filter that is not given: the empty string

NoTables == [events |-> <<>>, alerts |-> <<>>, incidents |-> <<>>,
             hosts |-> <<>>, rules |-> <<>>, iocs |-> <<>>]

Done(db) == [ok |-> TRUE, db |-> db]
Refused(db) == [ok |-> FALSE, db |-> db]

Put(table, row) == [i \in DOMAIN table \cup {row.id} |-> IF i = row.id THEN row ELSE table[i]]
Only(table, ids) == [i \in DOMAIN table \cap ids |-> table[i]]
\* the rows of a batch, which have distinct keys, unless there is one with that key
PutAllNew(table, batch) ==
    [i \in DOMAIN table \cup {row.id : row \in batch} |->
        IF i \in DOMAIN table THEN table[i] ELSE CHOOSE row \in batch : row.id = i]
\* INSERT ... ON CONFLICT (id) DO UPDATE of every column but created_at
Merge(table, row) ==
    Put(table, IF row.id \in DOMAIN table THEN [row EXCEPT !.created = table[row.id].created] ELSE row)

Rows(table) == {table[i] : i \in DOMAIN table}

\* ORDER BY a time DESC, backwards over its index: the keys of the entries, the latest
\* first, and at one time by RowId.  An entry stands behind those that come before it.
Sooner(index, e) == {f \in index : f.at > e.at \/ (f.at = e.at /\ RowId[f.id] > RowId[e.id])}
NewestFirst(index) ==
    [k \in 1 .. Cardinality(index) |->
        (CHOOSE e \in index : Cardinality(Sooner(index, e)) = k - 1).id]

\* LIMIT count OFFSET first
Page(rows, first, count) ==
    SubSeq(rows, first + 1, IF first + count < Len(rows) THEN first + count ELSE Len(rows))

Limited(limit) == IF limit <= 0 THEN DefaultLimit ELSE IF limit > MaxLimit THEN MaxLimit ELSE limit

Selected(events, q) ==
    {e \in DOMAIN events : /\ q.type \in {NoFilter, events[e].type}
                           /\ q.severity \in {NoFilter, events[e].severity}
                           /\ q.host \in {NoFilter, events[e].host}}

=============================================================================
