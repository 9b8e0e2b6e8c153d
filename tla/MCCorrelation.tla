--------------------------- MODULE MCCorrelation ---------------------------
(* Three rules over one field: a burst rule, a rule whose timeframe does   *)
(* not parse and whose operator is ne, and a rule without a threshold.     *)
EXTENDS Correlation, TLC

CONSTANTS burst, broken, single, name, cmd, svc

MCRules == {burst, broken, single}

MCConditions ==
    (burst  :> {[field |-> name, accepts |-> {cmd}]}) @@
    (broken :> {[field |-> name, accepts |-> {svc}]}) @@
    (single :> {[field |-> name, accepts |-> {cmd, svc}]})

MCThreshold == (burst :> 2) @@ (broken :> 3) @@ (single :> 0)

MCTimeframe ==
    (burst :> 2) @@ (broken :> BadTimeframe) @@ (single :> NoTimeframe)

=============================================================================
