----------------------------- MODULE SensorFeed -----------------------------
(* What every platform sensor of internal/detection/sensor shares: the       *)
(* context that ends it and the bounded event channel it writes to, with the *)
(* pipeline as its reader.  A sensor either blocks on a full channel or      *)
(* drops the event and counts an error.                                      *)
EXTENDS Naturals, Sequences

CONSTANTS
    OutCap      \* places in the channel

ASSUME OutCapAssumption == OutCap \in Nat \ {0}

VARIABLES
    kind,       \* which sensor runs
    phase,      \* "starting", "waiting", "sending" or "ended"
    sent,       \* the reports the channel accepted, in order
    taken,      \* how many of them the reader has received
    errors,     \* errorCount: the reports and tables the sensor gave up
    cancelled   \* the context is done

feedVars == <<kind, phase, sent, taken, errors, cancelled>>

Room == Len(sent) - taken < OutCap

FeedInit ==
    /\ phase = "starting"
    /\ sent = <<>>
    /\ taken = 0
    /\ errors = 0
    /\ cancelled = FALSE

(* The event channel accepts a report.                                       *)
Put(report) == Room /\ sent' = Append(sent, report)

(* The pipeline's loop receives from eventCh; it may stop once the context   *)
(* is done.                                                                  *)
Take ==
    /\ taken < Len(sent)
    /\ taken' = taken + 1
    /\ UNCHANGED <<kind, phase, sent, errors, cancelled>>

Cancel ==
    /\ ~cancelled
    /\ cancelled' = TRUE
    /\ UNCHANGED <<kind, phase, sent, taken, errors>>

(* <-ctx.Done() in the sensor's own loop.                                    *)
End ==
    /\ phase = "waiting"
    /\ cancelled
    /\ phase' = "ended"
    /\ UNCHANGED <<kind, sent, taken, errors, cancelled>>
=============================================================================
