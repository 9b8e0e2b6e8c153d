---------------------------- MODULE MCIncidents ----------------------------
(* One host with an ID, one with a hostname only and one without a name. *)
EXTENDS Incidents

CONSTANTS host1, name1, path1, path2

MCHostInfos ==
    {[id |-> host1, hostname |-> name1], [id |-> Empty, hostname |-> Empty]}

Kind(severity, confidence, path) ==
    [severity |-> severity, score |-> RiskScore(severity, confidence), path |-> path,
     rule |-> Empty, data |-> << >>]

(* A high alert after a low one of little confidence leaves the incident   *)
(* with a score below its own.                                             *)
MCKinds ==
    {Kind("low", 10, path1), Kind("high", 100, path2), Kind("high", 100, Empty)}

=============================================================================
