------------------------------ MODULE Pipeline ------------------------------
(***************************************************************************)
(* The event pipeline of internal/detection/pipeline/pipeline.go: sensor   *)
(* goroutines feed one shared channel, the main loop of Start hands each   *)
(* event to the YARA pool, the ring buffer, the callbacks and the storage  *)
(* channel, and batchWriter groups events into transactions.  Cancelling   *)
(* the context starts the shutdown sequence.                               *)
(*                                                                         *)
(* An event is the number of its acceptance by eventCh (1, 2, ...), which  *)
(* is all the properties tell apart.  A YARA job is the event it was made  *)
(* from.  What a callback does with an event is the subject of the module  *)
(* Incidents; here it is an entry of `seen`.                               *)
(***************************************************************************)
EXTENDS Naturals, Sequences, FiniteSets, Functions

CONSTANTS
    Sensors,      \* cfg.Sensors
    Detached,     \* sensors whose Start returns at once and leaves a monitor
                  \* goroutine behind (linux FileSensor and NetworkSensor)
    EventCap,     \* capacity of eventCh (1000 in the code)
    BatchSize,    \* cfg.BatchSize; batchCh holds 2 * BatchSize
    RingSize,     \* cfg.RingBufferSize
    YaraCap,      \* capacity of yaraJobCh (256 in the code)
    Workers,      \* YARA worker goroutines; none when no scanner is configured
    HasStore,     \* cfg.Store # nil
    MaxEvents     \* bound: events the sensors produce in one behaviour

ASSUME PipelineAssumption ==
    /\ IsFiniteSet(Sensors) /\ IsFiniteSet(Workers)
    /\ Detached \subseteq Sensors
    /\ EventCap \in Nat \ {0}
    /\ BatchSize \in Nat \ {0}
    /\ RingSize \in Nat \ {0}
    /\ YaraCap \in Nat \ {0}
    /\ HasStore \in BOOLEAN
    /\ MaxEvents \in Nat

VARIABLES
    cancelled,    \* ctx.Err() # nil
    source,       \* the goroutine of each sensor that produces its events
    started,      \* sensors whose Start has not returned: what wg counts
    eventCh,      \* the channel shared by all sensors
    main,         \* program counter of Start
    hold,         \* the event Start received and has not yet disposed of
    ring,         \* p.ring, oldest first
    yaraCh, yaraClosed,
    worker,       \* what each YARA worker is doing
    batchCh, batchClosed,
    writer,       \* program counter of batchWriter
    batch,        \* its local slice
    \* history
    accepted,     \* number of events eventCh accepted
    seen,         \* the events the callbacks were called with
    stored,       \* the events committed to the store, in commit order
    dropped,      \* events refused by a full batchCh
    lost          \* events whose batch write failed

sourceVars == <<source, started>>
eventVars  == <<eventCh, accepted>>
handVars   == <<hold, ring, seen, dropped>>
mainVars   == <<main, handVars>>
yaraVars   == <<yaraCh, yaraClosed, worker>>
batchVars  == <<batchCh, batchClosed>>
writerVars == <<writer, batch, stored, lost>>
vars == <<cancelled, source, started, eventCh, main, hold, ring, yaraCh,
          yaraClosed, worker, batchCh, batchClosed, writer, batch, accepted,
          seen, stored, dropped, lost>>

BatchCap == 2 * BatchSize

(* A batch being written: in a regular flush, or in the flush that follows *)
(* the closing of batchCh.                                                 *)
Saving == {"saving", "closing"}

(* RingBuffer.Push: a full buffer forgets its oldest element. *)
Pushed(r, e) ==
    IF Len(r) < RingSize THEN Append(r, e) ELSE Append(Tail(r), e)

(* The bound on events, counting those about to be sent. *)
WithinBound ==
    accepted + Cardinality({s \in Sensors : source[s] = "sending"}) < MaxEvents

Init ==
    /\ cancelled = FALSE
    /\ source = [s \in Sensors |-> "polling"]
    /\ started = Sensors
    /\ eventCh = << >>
    /\ main = "select"
    /\ hold = << >>
    /\ ring = << >>
    /\ yaraCh = << >>
    /\ yaraClosed = FALSE
    /\ worker = [w \in Workers |-> "idle"]
    /\ batchCh = << >>
    /\ batchClosed = FALSE
    /\ writer = IF HasStore THEN "idle" ELSE "done"
    /\ batch = << >>
    /\ accepted = 0
    /\ seen = << >>
    /\ stored = << >>
    /\ dropped = {}
    /\ lost = {}

-----------------------------------------------------------------------------
(* Sensors. *)

(* The user's signal handler cancels the context. *)
Cancel ==
    /\ ~cancelled
    /\ cancelled' = TRUE
    /\ UNCHANGED <<sourceVars, eventVars, mainVars, yaraVars, batchVars,
                   writerVars>>

(* Start of a detached sensor spawns its monitor goroutine and returns. *)
StartReturns(s) ==
    /\ s \in Detached \cap started
    /\ started' = started \ {s}
    /\ UNCHANGED <<cancelled, source, eventVars, mainVars, yaraVars, batchVars,
                   writerVars>>

(* A sensor of the other kind observes something and enters its select *)
(* { ch <- evt, ctx.Done }.                                            *)
Observe(s) ==
    /\ s \notin Detached
    /\ source[s] = "polling"
    /\ WithinBound
    /\ source' = [source EXCEPT ![s] = "sending"]
    /\ UNCHANGED <<cancelled, started, eventVars, mainVars, yaraVars,
                   batchVars, writerVars>>

(* The send of that select: possible only while the channel has room. *)
Send(s) ==
    /\ source[s] = "sending"
    /\ Len(eventCh) < EventCap
    /\ accepted' = accepted + 1
    /\ eventCh' = Append(eventCh, accepted + 1)
    /\ source' = [source EXCEPT ![s] = "polling"]
    /\ UNCHANGED <<cancelled, started, mainVars, yaraVars, batchVars,
                   writerVars>>

(* A detached monitor sends without blocking; when the channel is full it  *)
(* counts an error and forgets the event, which changes nothing here.      *)
Offer(s) ==
    /\ s \in Detached
    /\ source[s] = "polling"
    /\ WithinBound
    /\ Len(eventCh) < EventCap
    /\ accepted' = accepted + 1
    /\ eventCh' = Append(eventCh, accepted + 1)
    /\ UNCHANGED <<cancelled, sourceVars, mainVars, yaraVars, batchVars,
                   writerVars>>

(* The producing goroutine ends: it saw ctx.Done, between two polls or in  *)
(* its select, or it met an unrecoverable error between two polls.         *)
SensorEnds(s) ==
    /\ \/ cancelled /\ source[s] \in {"polling", "sending"}
       \/ source[s] = "polling"
    /\ source' = [source EXCEPT ![s] = "ended"]
    /\ started' = IF s \in Detached THEN started ELSE started \ {s}
    /\ UNCHANGED <<cancelled, eventVars, mainVars, yaraVars, batchVars,
                   writerVars>>

-----------------------------------------------------------------------------
(* The main loop. *)

(* case evt := <-eventCh, with normalisation and enrichment. *)
Receive ==
    /\ main = "select"
    /\ eventCh # << >>
    /\ hold' = <<Head(eventCh)>>
    /\ eventCh' = Tail(eventCh)
    /\ main' = "process"
    /\ UNCHANGED <<cancelled, sourceVars, accepted, ring, seen, dropped,
                   yaraVars, batchVars, writerVars>>

(* A YARA job is offered without blocking: an event without a scan path,   *)
(* and any event when the channel is full, is not scanned.                 *)
OfferScan(e) ==
    \/ UNCHANGED yaraCh
    \/ /\ Workers # {}
       /\ Len(yaraCh) < YaraCap
       /\ yaraCh' = Append(yaraCh, e)

(* Scan offer, ring.Push and the callbacks, in this order. *)
Process ==
    /\ main = "process"
    /\ OfferScan(hold[1])
    /\ ring' = Pushed(ring, hold[1])
    /\ seen' = Append(seen, hold[1])
    /\ main' = "forward"
    /\ UNCHANGED <<cancelled, sourceVars, eventVars, hold, dropped, yaraClosed,
                   worker, batchVars, writerVars>>

(* The non-blocking send to batchCh; without a store there is none. *)
Forward ==
    /\ main = "forward"
    /\ IF HasStore /\ Len(batchCh) < BatchCap
       THEN batchCh' = Append(batchCh, hold[1]) /\ UNCHANGED dropped
       ELSE /\ dropped' = IF HasStore THEN dropped \cup {hold[1]} ELSE dropped
            /\ UNCHANGED batchCh
    /\ hold' = << >>
    /\ main' = "select"
    /\ UNCHANGED <<cancelled, sourceVars, eventVars, ring, seen, yaraVars,
                   batchClosed, writerVars>>

(* Mutant of BeginShutdown: the loop also stops when every sensor has. *)
BeginShutdownWithSensors ==
    /\ main = "select"
    /\ cancelled \/ started = {}
    /\ main' = "waitSensors"
    /\ UNCHANGED <<cancelled, sourceVars, eventVars, handVars, yaraVars,
                   batchVars, writerVars>>

(* case <-ctx.Done(): Go picks at random when eventCh is ready too. *)
BeginShutdown ==
    /\ main = "select"
    /\ cancelled
    /\ main' = "waitSensors"
    /\ UNCHANGED <<cancelled, sourceVars, eventVars, handVars, yaraVars,
                   batchVars, writerVars>>

(* wg.Wait() returned: close(batchCh). *)
SensorsDone ==
    /\ main = "waitSensors"
    /\ started = {}
    /\ batchClosed' = TRUE
    /\ main' = "waitStorage"
    /\ UNCHANGED <<cancelled, sourceVars, eventVars, handVars, yaraVars,
                   batchCh, writerVars>>

(* Mutant of StorageDone: storageWg is not waited for. *)
StorageNotWaitedFor ==
    /\ main = "waitStorage"
    /\ yaraClosed' = (Workers # {})
    /\ main' = "waitYara"
    /\ UNCHANGED <<cancelled, sourceVars, eventVars, handVars, yaraCh, worker,
                   batchVars, writerVars>>

(* storageWg.Wait() returned: close(yaraJobCh) when a scanner exists. *)
StorageDone ==
    /\ main = "waitStorage"
    /\ writer = "done"
    /\ yaraClosed' = (Workers # {})
    /\ main' = "waitYara"
    /\ UNCHANGED <<cancelled, sourceVars, eventVars, handVars, yaraCh, worker,
                   batchVars, writerVars>>

(* yaraWg.Wait() returned: Start returns nil. *)
Stop ==
    /\ main = "waitYara"
    /\ \A w \in Workers : worker[w] = "done"
    /\ main' = "stopped"
    /\ UNCHANGED <<cancelled, sourceVars, eventVars, handVars, yaraVars,
                   batchVars, writerVars>>

-----------------------------------------------------------------------------
(* YARA workers: for job := range yaraJobCh. *)

TakeJob(w) ==
    /\ worker[w] = "idle"
    /\ yaraCh # << >>
    /\ yaraCh' = Tail(yaraCh)
    /\ worker' = [worker EXCEPT ![w] = "scanning"]
    /\ UNCHANGED <<cancelled, sourceVars, eventVars, mainVars, yaraClosed,
                   batchVars, writerVars>>

(* ScanFile returns, with matches or an error: both are only logged. *)
ScanReturns(w) ==
    /\ worker[w] = "scanning"
    /\ worker' = [worker EXCEPT ![w] = "idle"]
    /\ UNCHANGED <<cancelled, sourceVars, eventVars, mainVars, yaraCh,
                   yaraClosed, batchVars, writerVars>>

(* The range loop ends once the channel is closed and empty. *)
WorkerEnds(w) ==
    /\ worker[w] = "idle"
    /\ yaraClosed
    /\ yaraCh = << >>
    /\ worker' = [worker EXCEPT ![w] = "done"]
    /\ UNCHANGED <<cancelled, sourceVars, eventVars, mainVars, yaraCh,
                   yaraClosed, batchVars, writerVars>>

-----------------------------------------------------------------------------
(* batchWriter. *)

(* Mutant of Collect: the size is tested before the event is appended. *)
CollectTestsFirst ==
    /\ writer = "idle"
    /\ batchCh # << >>
    /\ batchCh' = Tail(batchCh)
    /\ IF Len(batch) + 1 >= BatchSize
       THEN writer' = "saving" /\ UNCHANGED batch
       ELSE batch' = Append(batch, Head(batchCh)) /\ UNCHANGED writer
    /\ UNCHANGED <<cancelled, sourceVars, eventVars, mainVars, yaraVars,
                   batchClosed, stored, lost>>

(* case evt, ok := <-ch with ok: a full batch is flushed at once. *)
Collect ==
    /\ writer = "idle"
    /\ batchCh # << >>
    /\ batchCh' = Tail(batchCh)
    /\ batch' = Append(batch, Head(batchCh))
    /\ writer' = IF Len(batch') >= BatchSize THEN "saving" ELSE "idle"
    /\ UNCHANGED <<cancelled, sourceVars, eventVars, mainVars, yaraVars,
                   batchClosed, stored, lost>>

(* case <-ticker.C: an empty batch is not flushed. *)
Tick ==
    /\ writer = "idle"
    /\ batch # << >>
    /\ writer' = "saving"
    /\ UNCHANGED <<cancelled, sourceVars, eventVars, mainVars, yaraVars,
                   batchVars, batch, stored, lost>>

(* Mutant of ChannelClosed: with nothing to flush the loop does not return. *)
ChannelClosedIgnored ==
    /\ writer = "idle"
    /\ batchClosed
    /\ batchCh = << >>
    /\ writer' = IF batch = << >> THEN "idle" ELSE "closing"
    /\ UNCHANGED <<cancelled, sourceVars, eventVars, mainVars, yaraVars,
                   batchVars, batch, stored, lost>>

(* case evt, ok := <-ch with !ok: the last flush. *)
ChannelClosed ==
    /\ writer = "idle"
    /\ batchClosed
    /\ batchCh = << >>
    /\ writer' = IF batch = << >> THEN "done" ELSE "closing"
    /\ UNCHANGED <<cancelled, sourceVars, eventVars, mainVars, yaraVars,
                   batchVars, batch, stored, lost>>

AfterSave == IF writer = "closing" THEN "done" ELSE "idle"

(* Mutant of SaveOK: flush does not empty the batch. *)
SaveOKKeepsBatch ==
    /\ writer \in Saving
    /\ ~cancelled
    /\ stored' = stored \o batch
    /\ writer' = AfterSave
    /\ UNCHANGED <<cancelled, sourceVars, eventVars, mainVars, yaraVars,
                   batchVars, batch, lost>>

(* SaveEvents commits.  It runs under the pipeline's context, so it cannot *)
(* commit any more once the context is cancelled.                          *)
SaveOK ==
    /\ writer \in Saving
    /\ ~cancelled
    /\ stored' = stored \o batch
    /\ batch' = << >>
    /\ writer' = AfterSave
    /\ UNCHANGED <<cancelled, sourceVars, eventVars, mainVars, yaraVars,
                   batchVars, lost>>

(* Mutant of SaveFails: batchWriter returns when a write fails. *)
SaveFailureIsFatal ==
    /\ writer \in Saving
    /\ lost' = lost \cup Range(batch)
    /\ batch' = << >>
    /\ writer' = "done"
    /\ UNCHANGED <<cancelled, sourceVars, eventVars, mainVars, yaraVars,
                   batchVars, stored>>

(* SaveEvents fails and rolls back; the batch is emptied all the same. *)
SaveFails ==
    /\ writer \in Saving
    /\ lost' = lost \cup Range(batch)
    /\ batch' = << >>
    /\ writer' = AfterSave
    /\ UNCHANGED <<cancelled, sourceVars, eventVars, mainVars, yaraVars,
                   batchVars, stored>>

-----------------------------------------------------------------------------
SensorStep(s) ==
    StartReturns(s) \/ Observe(s) \/ Send(s) \/ Offer(s) \/ SensorEnds(s)
WorkerStep(w) == TakeJob(w) \/ ScanReturns(w) \/ WorkerEnds(w)
WriterStep == Collect \/ Tick \/ ChannelClosed \/ SaveOK \/ SaveFails
MainStep ==
    Receive \/ Process \/ Forward \/ BeginShutdown \/ SensorsDone
            \/ StorageDone \/ Stop

(* Start has returned and no goroutine is left: not a deadlock. *)
Finished ==
    /\ main = "stopped"
    /\ \A s \in Sensors : source[s] = "ended"
    /\ UNCHANGED vars

Next ==
    \/ Cancel
    \/ \E s \in Sensors : SensorStep(s)
    \/ MainStep
    \/ \E w \in Workers : WorkerStep(w)
    \/ WriterStep
    \/ Finished

(* The goroutines keep running.  Go's select chooses at random among the   *)
(* ready cases, so a case that is ready again and again is taken: strong   *)
(* fairness for ctx.Done in the main loop and in the sensors.  SaveEvents  *)
(* and ScanFile return.  Nothing makes a sensor observe an event, a save   *)
(* succeed or the user cancel.                                             *)
Fairness ==
    /\ WF_vars(Receive \/ Process \/ Forward)
    /\ SF_vars(BeginShutdown)
    /\ WF_vars(SensorsDone \/ StorageDone \/ Stop)
    /\ \A s \in Sensors : WF_vars(StartReturns(s)) /\ WF_vars(Send(s))
    /\ \A s \in Sensors : SF_vars(cancelled /\ SensorEnds(s))
    /\ \A w \in Workers : WF_vars(WorkerStep(w))
    /\ WF_vars(Collect \/ ChannelClosed)
    /\ WF_vars(SaveOK \/ SaveFails)
    /\ SF_vars(Tick)

-----------------------------------------------------------------------------
SafeSpec == Init /\ [][Next]_vars
Spec == SafeSpec /\ Fairness

-----------------------------------------------------------------------------
(* Properties. *)

Events == 1 .. accepted

(* The program counters and flags of the goroutines. *)
ControlOK ==
    /\ cancelled \in BOOLEAN
    /\ source \in [Sensors -> {"polling", "sending", "ended"}]
    /\ started \in SUBSET Sensors
    /\ main \in {"select", "process", "forward", "waitSensors",
                 "waitStorage", "waitYara", "stopped"}
    /\ yaraClosed \in BOOLEAN
    /\ worker \in [Workers -> {"idle", "scanning", "done"}]
    /\ batchClosed \in BOOLEAN
    /\ writer \in {"idle", "done"} \cup Saving

(* The channels and buffers, none over its capacity. *)
DataOK ==
    /\ accepted \in Nat
    /\ eventCh \in Seq(Events) /\ Len(eventCh) <= EventCap
    /\ hold \in Seq(Events)
    /\ Len(hold) = IF main \in {"process", "forward"} THEN 1 ELSE 0
    /\ ring \in Seq(Events) /\ Len(ring) <= RingSize
    /\ yaraCh \in Seq(Events) /\ Len(yaraCh) <= YaraCap
    /\ batchCh \in Seq(Events) /\ Len(batchCh) <= BatchCap
    /\ batch \in Seq(Events)
    /\ Len(batch) <= BatchSize /\ (writer = "idle" => Len(batch) < BatchSize)
    /\ seen \in Seq(Events)
    /\ stored \in Seq(Events)
    /\ dropped \in SUBSET Events
    /\ lost \in SUBSET Events

(* Each variable holds what its Go counterpart can hold, and no channel or *)
(* batch exceeds its capacity.                                             *)
TypeOK == ControlOK /\ DataOK

(* Every stage an event passes on its way to the store, oldest first. *)
Flow == stored \o batch \o batchCh \o hold \o eventCh

Increasing(s) == \A i, j \in 1 .. Len(s) : i < j => s[i] < s[j]

(* Concurrent sensors, the non-blocking sends, tick and size flushes and   *)
(* failed writes never duplicate an event, bring two events out of order   *)
(* or leave an event in two stages at once.                                *)
InOrder == Increasing(Flow)

(* The events Start has received: what eventCh accepted and holds no more. *)
Received == 1 .. (accepted - Len(eventCh))

(* With a store, an event that Start received is in exactly one place: on  *)
(* its way, committed, refused by the full batchCh, or in a batch whose    *)
(* write failed; when Start has returned, the first is no longer possible. *)
(* So none disappears without one of the two warnings Start and            *)
(* batchWriter log.  Nothing of this holds for an event that still waits   *)
(* in eventCh when the loop leaves its select: Start does not drain the    *)
(* channel, and these events are discarded without a warning.              *)
Accounted ==
    HasStore =>
        LET onTheWay == Range(batch \o batchCh \o hold)
            ended == Range(stored) \cup dropped \cup lost
        IN  /\ onTheWay \cup ended = Received
            /\ onTheWay \cap ended = {}
            /\ Range(stored) \cap (dropped \cup lost) = {}
            /\ dropped \cap lost = {}
            /\ main = "stopped" => ended = Received

(* The callbacks, and so the correlation engine behind them, see every     *)
(* event that left eventCh exactly once and in the order of acceptance,    *)
(* whatever the YARA pool and the store do with it.                        *)
ShownInOrder ==
    LET shown == accepted - Len(eventCh) - IF main = "process" THEN 1 ELSE 0
    IN  seen = [i \in 1 .. shown |-> i]

(* When Start returns, everything it started and waits for has ended and   *)
(* nothing it accepted for the store is still pending: runMonitor closes   *)
(* the store right after.                                                  *)
QuietWhenStopped ==
    main = "stopped" =>
        /\ started = {}
        /\ writer = "done" /\ batchCh = << >> /\ batch = << >>
        /\ \A w \in Workers : worker[w] = "done"
        /\ yaraCh = << >>

(* Once the context is cancelled, Start returns: a sensor blocked on the   *)
(* full eventCh that nobody reads any more does not hold it up, nor do the *)
(* writer and the YARA workers.                                            *)
ShutdownCompletes == cancelled ~> main = "stopped"

(* An accepted event is shown to the callbacks unless a shutdown starts. *)
EventsAreShown ==
    \A n \in 1 .. MaxEvents :
        accepted >= n ~> (Len(seen) >= n \/ cancelled)

(* What reaches batchCh is written or its loss is reported: no event waits *)
(* forever for a batch to fill.                                            *)
BatchesSettle ==
    \A n \in 1 .. MaxEvents :
        n \in Range(batchCh) ~> n \in Range(stored) \cup lost

(* The pipeline implements the delivery promise of the module Delivery. *)
Promise == INSTANCE Delivery WITH shown <- Len(seen), kept <- stored
DeliveryPromise == Promise!DSpec

=============================================================================
