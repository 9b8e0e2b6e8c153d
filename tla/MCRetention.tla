---------------------------- MODULE MCRetention ----------------------------
(* Three events, two of them at one instant, and pages of one row: a cycle  *)
(* takes up to four pages.                                                  *)
EXTENDS Retention

aged(id, at) == [id |-> id, at |-> at, zone |-> 0, type |-> "t", severity |-> "s", host |-> "h"]
mcRetainedRows == {aged("e1", 1), aged("e2", 2), aged("e3", 2)}
mcEvidence == {"e2"}
mcRowId == [e1 |-> 2, e2 |-> 3, e3 |-> 1]
west == -2

=============================================================================
