----------------------------- MODULE MCStorage -----------------------------
(* The storage layer, one part at a time: both stores under one stream of    *)
(* calls, or the retention manager on one store.  The variables of the other *)
(* part stay where they began.                                               *)
(*                                                                           *)
(* The calls bring two events that share a key, two more that share another, *)
(* one of them in a zone of its own and at a time of one of the first, and   *)
(* two rows of everything that a later call can bring in conflict with an    *)
(* earlier one.                                                              *)
EXTENDS Stores, MCRetention

VARIABLE part

storageVars == <<part, vars, retentionVars>>


told(id, at, type) == [id |-> id, at |-> at, zone |-> 0, type |-> type, severity |-> "high", host |-> "h1"]

mcEventRows == {told("e1", 1, "file"), told("e1", 2, "file"), told("e2", 3, "proc"),
                [told("e2", 2, "proc") EXCEPT !.zone = 2]}
mcAlertRows == {[id |-> "a1", event |-> "e1", incident |-> i, acknowledged |-> FALSE] : i \in {"i1", "i2"}}
mcIncidentRows == {[id |-> "i1", created |-> 1, status |-> "open"], [id |-> "i2", created |-> 2, status |-> "open"]}
mcStatuses == {"open", "closed"}
mcHostRows == {[id |-> "h1", name |-> n, created |-> c] : n \in {"alpha", Nameless}, c \in {0, 1}}
mcRuleRows == {[id |-> "r1", name |-> "one", enabled |-> TRUE, created |-> 1],
               [id |-> "r2", name |-> Nameless, enabled |-> FALSE, created |-> Unset]}
mcIOCRows == {[id |-> "k1", mark |-> "m1", created |-> 1], [id |-> "k2", mark |-> "m1", created |-> Unset],
              [id |-> "k1", mark |-> "m2", created |-> 2]}
mcCutoffs == {2, 3}
mcPlaces == [e1 |-> 2, e2 |-> 3, e3 |-> 1, i1 |-> 5, i2 |-> 4]

never == [at |-> Unset, zone |-> 0]
mcQueries == {[type |-> t, severity |-> NoFilter, host |-> NoFilter, since |-> since, until |-> never,
               limit |-> limit, offset |-> skip] :
                t \in {NoFilter, "file"}, since \in {never, [at |-> 2, zone |-> 0]},
                limit \in {0, 1}, skip \in {0, 1}}

-----------------------------------------------------------------------------
NoCalls ==
    /\ db = [d \in {"sqlite", "postgres"} |-> NoTables]
    /\ reachable = FALSE /\ agreed = TRUE /\ utc = TRUE /\ calls = 0

NoCycles == RetentionInit /\ backend = "sqlite"

StorageInit ==
    \/ part = "stores" /\ Init /\ NoCycles
    \/ part = "retention" /\ RetentionInit /\ NoCalls

StorageNext ==
    \/ part = "stores" /\ Next /\ UNCHANGED <<part, retentionVars>>
    \/ part = "retention" /\ RetentionNext /\ UNCHANGED <<part, vars>>

(* The retention manager is a goroutine that is never blocked while it pages *)
(* and prunes.                                                               *)
StorageSpec ==
    /\ StorageInit /\ [][StorageNext]_storageVars
    /\ WF_storageVars(part = "retention" /\ (ReadPage \/ Prune) /\ UNCHANGED <<part, vars>>)

StorageTypeOK == TypeOK /\ RetentionTypeOK
=============================================================================
