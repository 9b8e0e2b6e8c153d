--------------------------- MODULE PipelineProofs ---------------------------
(* The safety properties of Pipeline, for every value of its constants. *)
EXTENDS Pipeline, SequenceTheorems, FiniteSetTheorems, TLAPS

-----------------------------------------------------------------------------
(* Lemmas about the sequence operators the model is built from. *)

LEMMA WidenSeq ==
    ASSUME NEW n \in Nat, NEW s \in Seq(1 .. n)
    PROVE  s \in Seq(1 .. (n + 1))
BY SeqMonotonic, 1 .. n \subseteq 1 .. (n + 1)

LEMMA AppendFacts ==
    ASSUME NEW S, NEW s \in Seq(S), NEW e \in S
    PROVE  /\ Append(s, e) \in Seq(S)
           /\ Len(Append(s, e)) = Len(s) + 1
           /\ \A i \in 1 .. Len(s) : Append(s, e)[i] = s[i]
           /\ Append(s, e)[Len(s) + 1] = e
BY AppendProperties

LEMMA TailFacts ==
    ASSUME NEW S, NEW s \in Seq(S), s # << >>
    PROVE  /\ Len(s) > 0
           /\ Head(s) = s[1]
           /\ Head(s) \in S
           /\ Tail(s) \in Seq(S)
           /\ Len(Tail(s)) = Len(s) - 1
           /\ \A i \in 1 .. Len(Tail(s)) : Tail(s)[i] = s[i + 1]
BY HeadTailProperties, LenProperties, EmptySeq

LEMMA RangeSeq ==
    ASSUME NEW S, NEW s \in Seq(S)
    PROVE  Range(s) = {s[i] : i \in 1 .. Len(s)}
BY LenProperties DEF Range

LEMMA FirstOfSeq ==
    ASSUME NEW S, NEW s \in Seq(S), Len(s) = 1
    PROVE  s[1] \in S
BY ElementOfSeq, 1 \in 1 .. Len(s)

LEMMA RangeInSet ==
    ASSUME NEW S, NEW s \in Seq(S)
    PROVE  Range(s) \subseteq S
BY RangeSeq, \A i \in 1 .. Len(s) : s[i] \in S, ElementOfSeq

LEMMA RangeAppend ==
    ASSUME NEW S, NEW s \in Seq(S), NEW e \in S
    PROVE  Range(Append(s, e)) = Range(s) \cup {e}
<1> DEFINE t == Append(s, e)
<1>1. /\ t \in Seq(S) /\ Len(t) = Len(s) + 1 /\ Len(s) \in Nat
      /\ \A i \in 1 .. Len(s) : t[i] = s[i]
      /\ t[Len(s) + 1] = e
  BY AppendFacts, LenProperties
<1>2. Range(t) = {t[i] : i \in 1 .. Len(t)}
  BY <1>1, RangeSeq
<1>3. Range(s) = {s[i] : i \in 1 .. Len(s)}
  BY RangeSeq
<1> HIDE DEF t
<1>4. Range(t) \subseteq Range(s) \cup {e}
  BY <1>1, <1>2, <1>3
<1>5. Range(s) \cup {e} \subseteq Range(t)
  BY <1>1, <1>2, <1>3
<1> QED
  BY <1>4, <1>5 DEF t

LEMMA RangeTail ==
    ASSUME NEW S, NEW s \in Seq(S), s # << >>
    PROVE  Range(s) = {Head(s)} \cup Range(Tail(s))
<1> DEFINE t == Tail(s)
<1>1. /\ t \in Seq(S) /\ Len(t) = Len(s) - 1 /\ Len(s) \in Nat /\ Len(s) > 0
      /\ Head(s) = s[1]
      /\ \A i \in 1 .. Len(t) : t[i] = s[i + 1]
  BY TailFacts, LenProperties
<1>2. Range(t) = {t[i] : i \in 1 .. Len(t)}
  BY <1>1, RangeSeq
<1>3. Range(s) = {s[i] : i \in 1 .. Len(s)}
  BY RangeSeq
<1> HIDE DEF t
<1>4. ASSUME NEW i \in 1 .. Len(s) PROVE s[i] \in {Head(s)} \cup Range(t)
  <2>1. CASE i = 1
    BY <2>1, <1>1
  <2>2. CASE i # 1
    <3>1. i - 1 \in 1 .. Len(t) /\ t[i - 1] = s[i]
      BY <2>2, <1>1
    <3> QED
      BY <3>1, <1>2
  <2> QED
    BY <2>1, <2>2
<1>5. ASSUME NEW i \in 1 .. Len(t) PROVE t[i] \in Range(s)
  BY <1>1, <1>3
<1>6. Head(s) \in Range(s)
  BY <1>1, <1>3
<1> QED
  BY <1>2, <1>3, <1>4, <1>5, <1>6 DEF t

LEMMA RangeConcat ==
    ASSUME NEW S, NEW s \in Seq(S), NEW t \in Seq(S)
    PROVE  Range(s \o t) = Range(s) \cup Range(t)
<1> DEFINE u == s \o t
<1>1. /\ u \in Seq(S) /\ Len(u) = Len(s) + Len(t)
      /\ Len(s) \in Nat /\ Len(t) \in Nat
      /\ \A i \in 1 .. Len(u) :
             u[i] = IF i <= Len(s) THEN s[i] ELSE t[i - Len(s)]
  BY ConcatProperties, LenProperties
<1>2. /\ Range(u) = {u[i] : i \in 1 .. Len(u)}
      /\ Range(s) = {s[i] : i \in 1 .. Len(s)}
      /\ Range(t) = {t[i] : i \in 1 .. Len(t)}
  BY <1>1, RangeSeq
<1> HIDE DEF u
<1>3. ASSUME NEW i \in 1 .. Len(u) PROVE u[i] \in Range(s) \cup Range(t)
  <2>1. CASE i <= Len(s)
    BY <2>1, <1>1, <1>2
  <2>2. CASE ~(i <= Len(s))
    <3>1. i - Len(s) \in 1 .. Len(t) /\ u[i] = t[i - Len(s)]
      BY <2>2, <1>1
    <3> QED
      BY <3>1, <1>2
  <2> QED
    BY <2>1, <2>2
<1>4. ASSUME NEW i \in 1 .. Len(s) PROVE s[i] \in Range(u)
  <2>1. i \in 1 .. Len(u) /\ u[i] = s[i]
    BY <1>1
  <2> QED
    BY <2>1, <1>2
<1>5. ASSUME NEW i \in 1 .. Len(t) PROVE t[i] \in Range(u)
  <2>1. i + Len(s) \in 1 .. Len(u) /\ u[i + Len(s)] = t[i]
    BY <1>1
  <2> QED
    BY <2>1, <1>2
<1> QED
  BY <1>2, <1>3, <1>4, <1>5 DEF u

-----------------------------------------------------------------------------
(* Type correctness. *)

(* The program counters stay in their ranges. *)
LEMMA ControlStep ==
    ASSUME ControlOK, [Next]_vars
    PROVE  ControlOK'
<1> USE DEF ControlOK, Saving, sourceVars, eventVars, handVars, mainVars,
            yaraVars, batchVars, writerVars
<1>1. CASE Cancel
  BY <1>1 DEF Cancel
<1>2. CASE Receive
  BY <1>2 DEF Receive
<1>3. CASE Process
  BY <1>3 DEF Process, OfferScan
<1>4. CASE Forward
  BY <1>4 DEF Forward
<1>5. CASE BeginShutdown
  BY <1>5 DEF BeginShutdown
<1>6. CASE SensorsDone
  BY <1>6 DEF SensorsDone
<1>7. CASE StorageDone
  BY <1>7 DEF StorageDone
<1>8. CASE Stop
  BY <1>8 DEF Stop
<1>9. CASE Collect
  BY <1>9 DEF Collect
<1>10. CASE Tick
  BY <1>10 DEF Tick
<1>11. CASE ChannelClosed
  BY <1>11 DEF ChannelClosed
<1>12. CASE SaveOK
  BY <1>12 DEF SaveOK, AfterSave
<1>13. CASE SaveFails
  BY <1>13 DEF SaveFails, AfterSave
<1>14. CASE Finished
  BY <1>14 DEF Finished, vars
<1>15. CASE UNCHANGED vars
  BY <1>15 DEF vars
<1>16. ASSUME NEW s \in Sensors, StartReturns(s) PROVE ControlOK'
  BY <1>16 DEF StartReturns
<1>17. ASSUME NEW s \in Sensors, Observe(s) PROVE ControlOK'
  BY <1>17 DEF Observe
<1>18. ASSUME NEW s \in Sensors, Send(s) PROVE ControlOK'
  BY <1>18 DEF Send
<1>19. ASSUME NEW s \in Sensors, Offer(s) PROVE ControlOK'
  BY <1>19 DEF Offer
<1>20. ASSUME NEW s \in Sensors, SensorEnds(s) PROVE ControlOK'
  BY <1>20 DEF SensorEnds
<1>21. ASSUME NEW w \in Workers, TakeJob(w) PROVE ControlOK'
  BY <1>21 DEF TakeJob
<1>22. ASSUME NEW w \in Workers, ScanReturns(w) PROVE ControlOK'
  BY <1>22 DEF ScanReturns
<1>23. ASSUME NEW w \in Workers, WorkerEnds(w) PROVE ControlOK'
  BY <1>23 DEF WorkerEnds
<1> QED
  BY <1>1, <1>2, <1>3, <1>4, <1>5, <1>6, <1>7, <1>8, <1>9, <1>10, <1>11,
     <1>12, <1>13, <1>14, <1>15, <1>16, <1>17, <1>18, <1>19, <1>20, <1>21,
     <1>22, <1>23
     DEF Next, SensorStep, WorkerStep, WriterStep, MainStep

(* The channels and buffers stay within their bounds. *)
LEMMA DataStep ==
    ASSUME TypeOK, [Next]_vars
    PROVE  DataOK'
<1> USE PipelineAssumption DEF DataOK, Events, sourceVars, eventVars, handVars,
            mainVars, yaraVars, batchVars, writerVars
<1>a. DataOK
  BY DEF TypeOK
<1>b. << >> \in Seq(Events) /\ Len(<< >>) = 0
  BY EmptySeq
<1>c. \A s \in Seq(Events) : Len(s) \in Nat
  BY LenProperties
<1>1. CASE Cancel
  BY <1>1, <1>a DEF Cancel
<1>2. CASE Receive
  <2>1. /\ Head(eventCh) \in Events
        /\ Tail(eventCh) \in Seq(Events)
        /\ Len(Tail(eventCh)) = Len(eventCh) - 1
    BY <1>2, <1>a, TailFacts DEF Receive
  <2>2. <<Head(eventCh)>> \in Seq(Events) /\ Len(<<Head(eventCh)>>) = 1
    BY <2>1
  <2>3. /\ UNCHANGED <<accepted, ring, yaraCh, batchCh, batch, seen, stored,
                       dropped, lost, writer>>
        /\ eventCh' = Tail(eventCh) /\ hold' = <<Head(eventCh)>>
        /\ main' = "process"
    BY <1>2 DEF Receive
  <2>4. eventCh' \in Seq(Events) /\ Len(eventCh') <= EventCap
    BY <1>a, <1>c, <2>1, <2>3
  <2> QED
    BY <1>a, <2>2, <2>3, <2>4
<1>3. CASE Process
  <2>1. hold[1] \in Events
    <3>1. hold \in Seq(Events) /\ Len(hold) = 1
      BY <1>3, <1>a DEF Process
    <3> QED
      BY <3>1, FirstOfSeq
  <2>2. Append(seen, hold[1]) \in Seq(Events)
    BY <1>a, <2>1, AppendFacts
  <2>3. yaraCh' \in Seq(Events) /\ Len(yaraCh') <= YaraCap
    <3>1. CASE yaraCh' = yaraCh
      BY <3>1, <1>a
    <3>2. CASE Len(yaraCh) < YaraCap /\ yaraCh' = Append(yaraCh, hold[1])
      BY <3>2, <1>a, <1>c, <2>1, AppendFacts
    <3> QED
      BY <1>3, <3>1, <3>2 DEF Process, OfferScan
  <2>4. Pushed(ring, hold[1]) \in Seq(Events) /\ Len(Pushed(ring, hold[1])) <= RingSize
    <3>1. CASE Len(ring) < RingSize
      BY <3>1, <1>a, <1>c, <2>1, AppendFacts DEF Pushed
    <3>2. CASE ~(Len(ring) < RingSize)
      <4>1. ring # << >>
        BY <3>2, <1>a, <1>b
      <4>2. Tail(ring) \in Seq(Events) /\ Len(Tail(ring)) = Len(ring) - 1
        BY <4>1, <1>a, TailFacts
      <4>3. /\ Append(Tail(ring), hold[1]) \in Seq(Events)
            /\ Len(Append(Tail(ring), hold[1])) = Len(ring)
        BY <4>2, <2>1, <1>a, <1>c, AppendFacts
      <4> QED
        BY <3>2, <4>3, <1>a DEF Pushed
    <3> QED
      BY <3>1, <3>2
  <2> QED
    BY <1>3, <1>a, <2>2, <2>3, <2>4 DEF Process
<1>4. CASE Forward
  <2>1. hold[1] \in Events
    <3>1. hold \in Seq(Events) /\ Len(hold) = 1
      BY <1>4, <1>a DEF Forward
    <3> QED
      BY <3>1, FirstOfSeq
  <2>2. batchCh' \in Seq(Events) /\ Len(batchCh') <= BatchCap
    <3>1. CASE batchCh' = batchCh
      BY <3>1, <1>a DEF BatchCap
    <3>2. CASE Len(batchCh) < BatchCap /\ batchCh' = Append(batchCh, hold[1])
      BY <3>2, <1>a, <1>c, <2>1, AppendFacts DEF BatchCap
    <3> QED
      BY <1>4, <3>1, <3>2 DEF Forward
  <2>3. dropped' \in SUBSET Events
    BY <1>4, <1>a, <2>1 DEF Forward
  <2>4. /\ UNCHANGED <<accepted, eventCh, ring, seen, yaraCh, stored, batch,
                       lost, writer>>
        /\ hold' = << >> /\ main' = "select"
    BY <1>4 DEF Forward
  <2>5. hold' \in Seq(Events) /\ Len(hold') = 0
    BY <2>4, <1>b
  <2> QED
    BY <1>a, <2>2, <2>3, <2>4, <2>5
<1>5. CASE BeginShutdown
  BY <1>5, <1>a DEF BeginShutdown
<1>6. CASE SensorsDone
  BY <1>6, <1>a DEF SensorsDone
<1>7. CASE StorageDone
  BY <1>7, <1>a DEF StorageDone
<1>8. CASE Stop
  BY <1>8, <1>a DEF Stop
<1>9. CASE Collect
  <2>1. /\ Head(batchCh) \in Events
        /\ Tail(batchCh) \in Seq(Events)
        /\ Len(Tail(batchCh)) = Len(batchCh) - 1
    BY <1>9, <1>a, TailFacts DEF Collect
  <2>2. /\ batch' \in Seq(Events)
        /\ Len(batch') = Len(batch) + 1
    BY <1>9, <1>a, <2>1, AppendFacts DEF Collect
  <2>3. Len(batch) < BatchSize
    BY <1>9, <1>a DEF Collect
  <2>4. batchCh' \in Seq(Events) /\ Len(batchCh') <= BatchCap
    BY <1>9, <1>a, <1>c, <2>1 DEF Collect, BatchCap
  <2>5. Len(batch') <= BatchSize /\ (writer' = "idle" => Len(batch') < BatchSize)
    <3>1. Len(batch') \in Nat /\ Len(batch') <= BatchSize
      BY <1>a, <1>c, <2>2, <2>3
    <3>2. writer' = "idle" => ~(Len(batch') >= BatchSize)
      BY <1>9 DEF Collect
    <3> QED
      BY <3>1, <3>2
  <2> QED
    BY <1>9, <1>a, <2>2, <2>4, <2>5 DEF Collect
<1>10. CASE Tick
  BY <1>10, <1>a DEF Tick
<1>11. CASE ChannelClosed
  BY <1>11, <1>a DEF ChannelClosed
<1>12. CASE SaveOK
  <2>1. stored' \in Seq(Events)
    BY <1>12, <1>a, ConcatProperties DEF SaveOK
  <2> QED
    BY <1>12, <1>a, <1>b, <2>1 DEF SaveOK
<1>13. CASE SaveFails
  <2>1. Range(batch) \subseteq Events
    <3>1. batch \in Seq(Events)
      BY <1>a
    <3> QED
      BY <3>1, RangeInSet
  <2> QED
    <3>1. lost' \in SUBSET Events
      BY <1>13, <1>a, <2>1 DEF SaveFails
    <3> QED
      BY <1>13, <1>a, <1>b, <3>1 DEF SaveFails
<1>14. CASE Finished
  BY <1>14, <1>a DEF Finished, vars
<1>15. CASE UNCHANGED vars
  BY <1>15, <1>a DEF vars
<1>16. ASSUME NEW s \in Sensors, StartReturns(s) PROVE DataOK'
  BY <1>16, <1>a DEF StartReturns
<1>17. ASSUME NEW s \in Sensors, Observe(s) PROVE DataOK'
  BY <1>17, <1>a DEF Observe
<1>18. ASSUME NEW s \in Sensors, Send(s) \/ Offer(s) PROVE DataOK'
  <2>1. /\ accepted' = accepted + 1
        /\ eventCh' = Append(eventCh, accepted + 1)
        /\ Len(eventCh) < EventCap
        /\ UNCHANGED <<mainVars, yaraVars, batchVars, writerVars>>
    BY <1>18 DEF Send, Offer
  <2>2. \A q \in Seq(1 .. accepted) : q \in Seq(1 .. (accepted + 1))
    BY <1>a, WidenSeq
  <2>3. eventCh' \in Seq(Events') /\ Len(eventCh') <= EventCap
    <3>1. eventCh \in Seq(1 .. (accepted + 1)) /\ accepted + 1 \in 1 .. (accepted + 1)
      BY <1>a, <2>2
    <3> QED
      BY <3>1, <2>1, <1>a, <1>c, AppendFacts
  <2>4. /\ hold' \in Seq(Events') /\ ring' \in Seq(Events')
        /\ yaraCh' \in Seq(Events') /\ batchCh' \in Seq(Events')
        /\ batch' \in Seq(Events') /\ seen' \in Seq(Events')
        /\ stored' \in Seq(Events')
    BY <1>a, <2>1, <2>2
  <2>5. dropped' \in SUBSET Events' /\ lost' \in SUBSET Events'
    <3>1. Events \subseteq Events'
      BY <1>a, <2>1
    <3>2. dropped' \subseteq Events /\ lost' \subseteq Events
      BY <1>a, <2>1
    <3> QED
      BY <3>1, <3>2
  <2>6. /\ accepted' \in Nat
        /\ Len(hold') = IF main' \in {"process", "forward"} THEN 1 ELSE 0
        /\ Len(ring') <= RingSize /\ Len(yaraCh') <= YaraCap
        /\ Len(batchCh') <= BatchCap /\ Len(batch') <= BatchSize
        /\ writer' = "idle" => Len(batch') < BatchSize
    BY <1>a, <2>1
  <2> QED
    BY <2>3, <2>4, <2>5, <2>6
<1>19. ASSUME NEW s \in Sensors, SensorEnds(s) PROVE DataOK'
  BY <1>19, <1>a DEF SensorEnds
<1>20. ASSUME NEW w \in Workers, TakeJob(w) PROVE DataOK'
  <2>1. /\ Tail(yaraCh) \in Seq(Events)
        /\ Len(Tail(yaraCh)) = Len(yaraCh) - 1
    BY <1>20, <1>a, TailFacts DEF TakeJob
  <2>2. yaraCh' \in Seq(Events) /\ Len(yaraCh') <= YaraCap
    BY <1>20, <1>a, <1>c, <2>1 DEF TakeJob
  <2>3. UNCHANGED <<accepted, eventCh, hold, main, ring, batchCh, batch, seen,
                    stored, dropped, lost, writer>>
    BY <1>20 DEF TakeJob
  <2> QED
    BY <1>a, <2>2, <2>3
<1>21. ASSUME NEW w \in Workers, ScanReturns(w) PROVE DataOK'
  BY <1>21, <1>a DEF ScanReturns
<1>22. ASSUME NEW w \in Workers, WorkerEnds(w) PROVE DataOK'
  BY <1>22, <1>a DEF WorkerEnds
<1> QED
  BY <1>1, <1>2, <1>3, <1>4, <1>5, <1>6, <1>7, <1>8, <1>9, <1>10, <1>11, <1>12,
     <1>13, <1>14, <1>15, <1>16, <1>17, <1>18, <1>19, <1>20, <1>21, <1>22
     DEF Next, SensorStep, WorkerStep, WriterStep, MainStep

LEMMA TypeInit ==
    ASSUME Init
    PROVE  TypeOK
<1>1. << >> \in Seq(Events) /\ Len(<< >>) = 0
  BY EmptySeq
<1>2. ControlOK
  BY PipelineAssumption DEF Init, ControlOK, Saving
<1>3. DataOK
  BY <1>1, PipelineAssumption DEF Init, DataOK, BatchCap
<1> QED
  BY <1>2, <1>3 DEF TypeOK

LEMMA TypeStep ==
    ASSUME TypeOK, [Next]_vars
    PROVE  TypeOK'
BY ControlStep, DataStep DEF TypeOK

(* Every variable of the pipeline keeps its type, and no channel ever      *)
(* holds more than its capacity, for all capacities and batch sizes.       *)
THEOREM TypeCorrect == SafeSpec => []TypeOK
<1>1. Init => TypeOK
  BY TypeInit
<1>2. TypeOK /\ [Next]_vars => TypeOK'
  BY TypeStep
<1> QED
  BY <1>1, <1>2, PTL DEF SafeSpec

-----------------------------------------------------------------------------
(* Order. *)

(* Every element of s is smaller than every element of t. *)
Below(s, t) == \A a \in Range(s), b \in Range(t) : a < b

LEMMA IncreasingAppend ==
    ASSUME NEW S, S \subseteq Nat, NEW s \in Seq(S), NEW e \in S,
           Increasing(s), \A a \in Range(s) : a < e
    PROVE  Increasing(Append(s, e))
<1> DEFINE t == Append(s, e)
<1>1. /\ Len(t) = Len(s) + 1 /\ Len(s) \in Nat
      /\ \A i \in 1 .. Len(s) : t[i] = s[i]
      /\ t[Len(s) + 1] = e
  BY AppendFacts, LenProperties
<1>2. \A i \in 1 .. Len(s) : s[i] < e
  BY RangeSeq
<1> HIDE DEF t
<1>3. ASSUME NEW i \in 1 .. Len(t), NEW j \in 1 .. Len(t), i < j
      PROVE  t[i] < t[j]
  <2>1. CASE j = Len(s) + 1
    BY <1>1, <1>2, <1>3, <2>1
  <2>2. CASE j # Len(s) + 1
    <3>1. i \in 1 .. Len(s) /\ j \in 1 .. Len(s)
      BY <1>1, <1>3, <2>2
    <3> QED
      BY <3>1, <1>1, <1>3 DEF Increasing
  <2> QED
    BY <2>1, <2>2
<1> QED
  BY <1>3 DEF Increasing, t

LEMMA IncreasingTail ==
    ASSUME NEW S, S \subseteq Nat, NEW s \in Seq(S), s # << >>, Increasing(s)
    PROVE  Increasing(Tail(s)) /\ \A a \in Range(Tail(s)) : Head(s) < a
<1> DEFINE t == Tail(s)
<1>1. /\ t \in Seq(S) /\ Len(t) = Len(s) - 1 /\ Len(s) \in Nat /\ Len(s) > 0
      /\ Head(s) = s[1]
      /\ \A i \in 1 .. Len(t) : t[i] = s[i + 1]
  BY TailFacts, LenProperties
<1>2. Range(t) = {t[i] : i \in 1 .. Len(t)}
  BY <1>1, RangeSeq
<1> HIDE DEF t
<1>3. Increasing(t)
  BY <1>1 DEF Increasing
<1>4. \A a \in Range(t) : Head(s) < a
  BY <1>1, <1>2 DEF Increasing
<1> QED
  BY <1>3, <1>4 DEF t

LEMMA IncreasingConcat ==
    ASSUME NEW S, S \subseteq Nat, NEW s \in Seq(S), NEW t \in Seq(S),
           Increasing(s), Increasing(t), Below(s, t)
    PROVE  Increasing(s \o t)
<1> DEFINE u == s \o t
<1>1. /\ Len(u) = Len(s) + Len(t) /\ Len(s) \in Nat /\ Len(t) \in Nat
      /\ \A i \in 1 .. Len(u) :
             u[i] = IF i <= Len(s) THEN s[i] ELSE t[i - Len(s)]
  BY ConcatProperties, LenProperties
<1>2. \A i \in 1 .. Len(s), j \in 1 .. Len(t) : s[i] < t[j]
  BY RangeSeq DEF Below
<1> HIDE DEF u
<1>3. ASSUME NEW i \in 1 .. Len(u), NEW j \in 1 .. Len(u), i < j
      PROVE  u[i] < u[j]
  <2>1. CASE j <= Len(s)
    <3>1. i \in 1 .. Len(s) /\ j \in 1 .. Len(s)
      BY <1>1, <1>3, <2>1
    <3> QED
      BY <3>1, <1>1, <1>3 DEF Increasing
  <2>2. CASE i <= Len(s) /\ ~(j <= Len(s))
    <3>1. i \in 1 .. Len(s) /\ j - Len(s) \in 1 .. Len(t)
      BY <1>1, <2>2
    <3>2. u[i] = s[i] /\ u[j] = t[j - Len(s)]
      BY <1>1, <2>2
    <3> QED
      BY <3>1, <3>2, <1>2
  <2>3. CASE ~(i <= Len(s))
    <3>1. i - Len(s) \in 1 .. Len(t) /\ j - Len(s) \in 1 .. Len(t)
      BY <1>1, <1>3, <2>3
    <3>2. u[i] = t[i - Len(s)] /\ u[j] = t[j - Len(s)]
      BY <1>1, <1>3, <2>3
    <3>3. i - Len(s) < j - Len(s)
      BY <1>1, <1>3
    <3>4. t[i - Len(s)] < t[j - Len(s)]
      BY <3>1, <3>3 DEF Increasing
    <3> QED
      BY <3>2, <3>4
  <2> QED
    BY <2>1, <2>2, <2>3, <1>1
<1> QED
  BY <1>3 DEF Increasing, u

LEMMA EmptyFacts ==
    /\ Len(<< >>) = 0
    /\ Range(<< >>) = {}
    /\ Increasing(<< >>)
<1>1. Len(<< >>) = 0 /\ << >> \in Seq({})
  BY EmptySeq
<1>2. Range(<< >>) = {}
  BY <1>1 DEF Range
<1>3. Increasing(<< >>)
  BY <1>1 DEF Increasing
<1> QED
  BY <1>1, <1>2, <1>3

(* The number of events that have passed Forward. *)
Passed == accepted - Len(eventCh) - Len(hold)

(* The channel holds the newest accepted events, in order, and the main    *)
(* loop the one received last.                                             *)
Upstream ==
    /\ Passed \in Nat
    /\ \A i \in 1 .. Len(eventCh) :
           eventCh[i] = accepted - Len(eventCh) + i
    /\ Len(hold) = 1 => hold[1] = accepted - Len(eventCh)

(* Behind Forward everything is older than the event in hand and in order. *)
Downstream ==
    /\ Increasing(stored) /\ Increasing(batch) /\ Increasing(batchCh)
    /\ Below(stored, batch) /\ Below(stored, batchCh) /\ Below(batch, batchCh)
    /\ \A a \in Range(stored) \cup Range(batch) \cup Range(batchCh) : a <= Passed

(* The inductive invariant behind InOrder and ShownInOrder. *)
OrderInv == TypeOK /\ Upstream /\ Downstream /\ ShownInOrder

LEMMA CountUp ==
    ASSUME NEW n \in Nat
    PROVE  /\ [i \in 1 .. n |-> i] \in Seq(1 .. n)
           /\ Len([i \in 1 .. n |-> i]) = n
           /\ Append([i \in 1 .. n |-> i], n + 1) = [i \in 1 .. (n + 1) |-> i]
<1> DEFINE s == [i \in 1 .. n |-> i]
           t == [i \in 1 .. (n + 1) |-> i]
<1>1. s \in Seq(1 .. n) /\ s \in Seq(Nat) /\ Len(s) = n
  BY SeqDef
<1>2. t \in Seq(Nat) /\ Len(t) = n + 1
  BY SeqDef
<1>3. /\ Append(s, n + 1) \in Seq(Nat)
      /\ Len(Append(s, n + 1)) = n + 1
      /\ \A i \in 1 .. (n + 1) : Append(s, n + 1)[i] = t[i]
  BY <1>1, AppendFacts
<1>4. Append(s, n + 1) = t
  BY <1>2, <1>3, SeqEqual
<1> QED
  BY <1>1, <1>4

LEMMA UpstreamStep ==
    ASSUME TypeOK, Upstream, ShownInOrder, [Next]_vars
    PROVE  Upstream' /\ ShownInOrder'
<1> USE DEF sourceVars, eventVars, handVars, mainVars, yaraVars, batchVars,
            writerVars
<1>a. /\ accepted \in Nat /\ eventCh \in Seq(Events) /\ Len(eventCh) \in Nat
      /\ hold \in Seq(Events) /\ Len(hold) \in Nat
      /\ Len(hold) = IF main \in {"process", "forward"} THEN 1 ELSE 0
  BY LenProperties DEF TypeOK, DataOK
<1>b. \A s \in Sensors : StartReturns(s) \/ Observe(s) \/ SensorEnds(s) =>
          UNCHANGED <<eventVars, mainVars>>
  BY DEF StartReturns, Observe, SensorEnds
<1>c. \A w \in Workers : WorkerStep(w) => UNCHANGED <<eventVars, mainVars>>
  BY DEF WorkerStep, TakeJob, ScanReturns, WorkerEnds
<1>d. Cancel \/ WriterStep \/ Finished \/ UNCHANGED vars =>
          UNCHANGED <<eventVars, mainVars>>
  BY DEF Cancel, WriterStep, Collect, Tick, ChannelClosed, SaveOK, SaveFails,
         Finished, vars
<1>1. CASE UNCHANGED <<eventVars, mainVars>>
  BY <1>1 DEF Upstream, ShownInOrder, Passed
<1>2. CASE BeginShutdown \/ SensorsDone \/ StorageDone \/ Stop
  BY <1>2, <1>a DEF BeginShutdown, SensorsDone, StorageDone, Stop, Upstream,
                    ShownInOrder, Passed
<1>3. ASSUME NEW s \in Sensors, Send(s) \/ Offer(s)
      PROVE  Upstream' /\ ShownInOrder'
  <2>1. /\ accepted' = accepted + 1
        /\ eventCh' = Append(eventCh, accepted + 1)
        /\ UNCHANGED mainVars
    BY <1>3 DEF Send, Offer
  <2>2. eventCh \in Seq(Nat) /\ accepted + 1 \in Nat
    BY <1>a, SeqMonotonic, Events \subseteq Nat DEF Events
  <2>3. /\ Len(eventCh') = Len(eventCh) + 1
        /\ \A i \in 1 .. Len(eventCh) : eventCh'[i] = eventCh[i]
        /\ eventCh'[Len(eventCh) + 1] = accepted + 1
    BY <2>1, <2>2, AppendFacts
  <2>4. ASSUME NEW i \in 1 .. Len(eventCh')
        PROVE  eventCh'[i] = accepted' - Len(eventCh') + i
    <3>1. CASE i = Len(eventCh) + 1
      BY <3>1, <2>1, <2>3, <1>a
    <3>2. CASE i # Len(eventCh) + 1
      BY <3>2, <2>1, <2>3, <1>a DEF Upstream
    <3> QED
      BY <3>1, <3>2
  <2>5. accepted' - Len(eventCh') = accepted - Len(eventCh)
    BY <2>1, <2>3, <1>a
  <2>6. Upstream'
    BY <2>1, <2>4, <2>5 DEF Upstream, Passed
  <2>7. ShownInOrder'
    BY <2>1, <2>5 DEF ShownInOrder
  <2> QED
    BY <2>6, <2>7
<1>4. CASE Receive
  <2>1. /\ Len(eventCh) > 0
        /\ Head(eventCh) = eventCh[1]
        /\ Len(Tail(eventCh)) = Len(eventCh) - 1
        /\ \A i \in 1 .. Len(Tail(eventCh)) : Tail(eventCh)[i] = eventCh[i + 1]
    BY <1>4, <1>a, TailFacts DEF Receive
  <2>2. eventCh' = Tail(eventCh) /\ accepted' = accepted /\ seen' = seen
        /\ hold' = <<Head(eventCh)>> /\ main = "select" /\ main' = "process"
    BY <1>4 DEF Receive
  <2>3. Len(hold') = 1 /\ hold'[1] = eventCh[1]
    BY <2>1, <2>2
  <2>4. eventCh[1] = accepted - Len(eventCh) + 1
    BY <2>1, <1>a DEF Upstream
  <2>5. Len(hold) = 0
    BY <2>2, <1>a
  <2>e. Len(eventCh') = Len(eventCh) - 1
    BY <2>1, <2>2
  <2>6. ASSUME NEW i \in 1 .. Len(eventCh')
        PROVE  eventCh'[i] = accepted' - Len(eventCh') + i
    <3>1. i + 1 \in 1 .. Len(eventCh)
      BY <2>e, <1>a
    <3>2. eventCh[i + 1] = accepted - Len(eventCh) + (i + 1)
      BY <3>1 DEF Upstream
    <3>3. eventCh'[i] = eventCh[i + 1]
      BY <2>1, <2>2
    <3>4. i \in Int /\ accepted \in Int /\ Len(eventCh) \in Int
      BY <1>a, <2>e
    <3>5. accepted' - Len(eventCh') + i = accepted - (Len(eventCh) - 1) + i
      BY <2>2, <2>e
    <3>6. accepted - (Len(eventCh) - 1) + i = accepted - Len(eventCh) + (i + 1)
      BY <3>4
    <3> QED
      BY <3>2, <3>3, <3>5, <3>6
  <2>7. Passed' = Passed
    <3>1. Passed = accepted - Len(eventCh)
      BY <2>5, <1>a DEF Passed
    <3>2. Passed' = accepted - (Len(eventCh) - 1) - 1
      BY <2>2, <2>3, <2>e DEF Passed
    <3> QED
      BY <3>1, <3>2, <1>a
  <2>8. hold'[1] = accepted' - Len(eventCh')
    BY <2>1, <2>2, <2>3, <2>4, <1>a
  <2>9. Upstream'
    BY <2>6, <2>7, <2>8 DEF Upstream
  <2>10. ShownInOrder'
    BY <2>1, <2>2, <1>a DEF ShownInOrder
  <2> QED
    BY <2>9, <2>10
<1>5. CASE Process
  <2>1. /\ main = "process" /\ main' = "forward"
        /\ seen' = Append(seen, hold[1])
        /\ UNCHANGED <<eventVars, hold>>
    BY <1>5 DEF Process
  <2>2. Upstream'
    BY <2>1 DEF Upstream, Passed
  <2> DEFINE n == accepted - Len(eventCh) - 1
  <2>3. n \in Nat /\ hold[1] = n + 1
    BY <2>1, <1>a DEF Upstream, Passed
  <2>4. seen = [i \in 1 .. n |-> i]
    BY <2>1 DEF ShownInOrder
  <2> HIDE DEF n
  <2>5. Append(seen, hold[1]) = [i \in 1 .. (n + 1) |-> i]
    BY <2>3, <2>4, CountUp
  <2>6. accepted' - Len(eventCh') - 0 = n + 1
    BY <2>1, <2>3, <1>a DEF n
  <2>7. ShownInOrder'
    BY <2>1, <2>5, <2>6 DEF ShownInOrder
  <2> QED
    BY <2>2, <2>7
<1>6. CASE Forward
  <2>1. /\ main = "forward" /\ main' = "select" /\ hold' = << >>
        /\ UNCHANGED <<eventVars, seen>>
    BY <1>6 DEF Forward
  <2>2. Len(hold') = 0 /\ Len(hold) = 1
    BY <2>1, <1>a, EmptyFacts
  <2>3. Upstream'
    BY <2>1, <2>2, <1>a DEF Upstream, Passed
  <2>4. ShownInOrder'
    BY <2>1 DEF ShownInOrder
  <2> QED
    BY <2>3, <2>4
<1> QED
  BY <1>b, <1>c, <1>d, <1>1, <1>2, <1>3, <1>4, <1>5, <1>6
     DEF Next, SensorStep, MainStep

LEMMA DownstreamStep ==
    ASSUME TypeOK, Upstream, Downstream, [Next]_vars
    PROVE  Downstream'
<1> USE DEF sourceVars, eventVars, handVars, mainVars, yaraVars, batchVars,
            writerVars
<1>a. /\ accepted \in Nat /\ eventCh \in Seq(Events) /\ Len(eventCh) \in Nat
      /\ hold \in Seq(Events) /\ Len(hold) \in Nat
      /\ Len(hold) = IF main \in {"process", "forward"} THEN 1 ELSE 0
      /\ Passed \in Nat
      /\ stored \in Seq(Events) /\ batch \in Seq(Events)
      /\ batchCh \in Seq(Events)
      /\ Events \subseteq Nat
  BY LenProperties DEF TypeOK, DataOK, Upstream, Events
<1>b. Range(stored) \cup Range(batch) \cup Range(batchCh) \subseteq Nat
  BY <1>a, RangeInSet
<1>1. CASE UNCHANGED <<stored, batch, batchCh>> /\ Passed' \in Nat /\ Passed <= Passed'
  BY <1>1, <1>a, <1>b DEF Downstream, Below
<1>2. ASSUME UNCHANGED <<eventVars, hold>> PROVE Passed' = Passed
  BY <1>2 DEF Passed
<1>3. Cancel \/ Process \/ BeginShutdown \/ SensorsDone \/ StorageDone \/ Stop
        \/ Tick \/ ChannelClosed \/ Finished \/ UNCHANGED vars
      => Downstream'
  <2>1. Cancel \/ Process \/ BeginShutdown \/ SensorsDone \/ StorageDone \/ Stop
          \/ Tick \/ ChannelClosed \/ Finished \/ UNCHANGED vars
        => UNCHANGED <<eventVars, hold, stored, batch, batchCh>>
    BY DEF Cancel, Process, BeginShutdown, SensorsDone, StorageDone, Stop, Tick,
           ChannelClosed, Finished, vars
  <2> QED
    BY <2>1, <1>1, <1>2, <1>a
<1>4. ASSUME NEW s \in Sensors, SensorStep(s) PROVE Downstream'
  <2>1. CASE StartReturns(s) \/ Observe(s) \/ SensorEnds(s)
    <3>1. UNCHANGED <<eventVars, hold, stored, batch, batchCh>>
      BY <2>1 DEF StartReturns, Observe, SensorEnds
    <3> QED
      BY <3>1, <1>1, <1>2, <1>a
  <2>2. CASE Send(s) \/ Offer(s)
    <3>1. /\ accepted' = accepted + 1
          /\ eventCh' = Append(eventCh, accepted + 1)
          /\ UNCHANGED <<hold, stored, batch, batchCh>>
      BY <2>2 DEF Send, Offer
    <3>2. Len(eventCh') = Len(eventCh) + 1
      <4>1. eventCh \in Seq(Nat) /\ accepted + 1 \in Nat
        BY <1>a, SeqMonotonic, Events \subseteq Nat DEF Events
      <4> QED
        BY <4>1, <3>1, AppendFacts
    <3>3. Passed' = Passed
      BY <3>1, <3>2, <1>a DEF Passed
    <3> QED
      BY <3>1, <3>3, <1>1, <1>a
  <2> QED
    BY <1>4, <2>1, <2>2 DEF SensorStep
<1>5. ASSUME NEW w \in Workers, WorkerStep(w) PROVE Downstream'
  <2>1. UNCHANGED <<eventVars, hold, stored, batch, batchCh>>
    BY <1>5 DEF WorkerStep, TakeJob, ScanReturns, WorkerEnds
  <2> QED
    BY <2>1, <1>1, <1>2, <1>a
<1>6. CASE Receive
  <2>1. /\ UNCHANGED <<accepted, stored, batch, batchCh>>
        /\ eventCh # << >> /\ eventCh' = Tail(eventCh)
        /\ hold' = <<Head(eventCh)>> /\ main = "select"
    BY <1>6 DEF Receive
  <2>2. Len(eventCh') = Len(eventCh) - 1 /\ Len(hold') = 1 /\ Len(hold) = 0
    BY <2>1, <1>a, TailFacts
  <2>3. Passed' = Passed
    BY <2>1, <2>2, <1>a DEF Passed
  <2> QED
    BY <2>1, <2>3, <1>1, <1>a
<1>7. CASE Forward
  <2>1. /\ UNCHANGED <<accepted, eventCh, stored, batch>>
        /\ hold' = << >> /\ main = "forward"
    BY <1>7 DEF Forward
  <2>2. Len(hold) = 1 /\ Len(hold') = 0 /\ hold[1] \in Events
    BY <2>1, <1>a, FirstOfSeq, EmptyFacts
  <2>3. Passed' = Passed + 1 /\ hold[1] = Passed + 1
    BY <2>1, <2>2, <1>a DEF Passed, Upstream
  <2>4. CASE UNCHANGED batchCh
    BY <2>1, <2>3, <2>4, <1>1, <1>a
  <2>5. CASE batchCh' = Append(batchCh, hold[1])
    <3>1. Range(batchCh') = Range(batchCh) \cup {hold[1]}
      BY <2>5, <2>2, <1>a, RangeAppend
    <3>2. \A a \in Range(stored) \cup Range(batch) \cup Range(batchCh) : a < hold[1]
      BY <2>3, <1>a, <1>b DEF Downstream
    <3>3. Increasing(batchCh')
      BY <2>5, <2>2, <3>2, <1>a, IncreasingAppend DEF Downstream
    <3>4. Below(stored, batchCh') /\ Below(batch, batchCh')
      BY <3>1, <3>2 DEF Downstream, Below
    <3>5. \A a \in Range(stored) \cup Range(batch) \cup Range(batchCh') : a <= Passed'
      BY <3>1, <2>3, <1>a, <1>b DEF Downstream
    <3> QED
      BY <2>1, <3>3, <3>4, <3>5 DEF Downstream, Below
  <2> QED
    BY <1>7, <2>4, <2>5 DEF Forward
<1>8. CASE Collect
  <2>1. /\ UNCHANGED <<eventVars, hold, stored>>
        /\ batchCh # << >> /\ batchCh' = Tail(batchCh)
        /\ batch' = Append(batch, Head(batchCh))
    BY <1>8 DEF Collect
  <2>2. /\ Head(batchCh) \in Events
        /\ Range(batchCh) = {Head(batchCh)} \cup Range(batchCh')
        /\ Range(batch') = Range(batch) \cup {Head(batchCh)}
    BY <2>1, <1>a, TailFacts, RangeTail, RangeAppend
  <2>3. Increasing(batchCh') /\ \A a \in Range(batchCh') : Head(batchCh) < a
    BY <2>1, <1>a, IncreasingTail DEF Downstream
  <2>4. Increasing(batch')
    <3>1. \A a \in Range(batch) : a < Head(batchCh)
      BY <2>2 DEF Downstream, Below
    <3> QED
      BY <3>1, <2>1, <2>2, <1>a, IncreasingAppend DEF Downstream
  <2>5. Below(stored, batch') /\ Below(stored, batchCh') /\ Below(batch', batchCh')
    BY <2>2, <2>3 DEF Downstream, Below
  <2>6. Passed' = Passed
    BY <2>1 DEF Passed
  <2> QED
    BY <2>1, <2>2, <2>3, <2>4, <2>5, <2>6 DEF Downstream, Below
<1>9. CASE SaveOK
  <2>1. /\ UNCHANGED <<eventVars, hold, batchCh>>
        /\ stored' = stored \o batch /\ batch' = << >>
    BY <1>9 DEF SaveOK
  <2>2. /\ Range(stored') = Range(stored) \cup Range(batch)
        /\ Range(batch') = {} /\ Increasing(batch')
    BY <2>1, <1>a, RangeConcat, EmptyFacts
  <2>3. Increasing(stored')
    BY <2>1, <1>a, IncreasingConcat DEF Downstream
  <2>4. Passed' = Passed
    BY <2>1 DEF Passed
  <2> QED
    BY <2>1, <2>2, <2>3, <2>4 DEF Downstream, Below
<1>10. CASE SaveFails
  <2>1. UNCHANGED <<eventVars, hold, batchCh, stored>> /\ batch' = << >>
    BY <1>10 DEF SaveFails
  <2>2. Range(batch') = {} /\ Increasing(batch') /\ Passed' = Passed
    BY <2>1, EmptyFacts DEF Passed
  <2> QED
    BY <2>1, <2>2 DEF Downstream, Below
<1> QED
  BY <1>3, <1>4, <1>5, <1>6, <1>7, <1>8, <1>9, <1>10 DEF Next, MainStep, WriterStep

(* The order invariant holds in every reachable state. *)
LEMMA OrderCorrect == SafeSpec => []OrderInv
<1>1. Init => OrderInv
  <2> SUFFICES ASSUME Init PROVE OrderInv
    OBVIOUS
  <2>1. TypeOK
    BY TypeInit
  <2>2. Upstream
    BY EmptyFacts DEF Init, Upstream, Passed
  <2>3. Downstream
    BY EmptyFacts DEF Init, Downstream, Below
  <2>4. ShownInOrder
    <3>1. accepted - Len(eventCh) - (IF main = "process" THEN 1 ELSE 0) = 0
      <4>1. accepted = 0 /\ main = "select"
        BY DEF Init
      <4>2. Len(eventCh) = 0
        BY EmptyFacts DEF Init
      <4> QED
        BY <4>1, <4>2
    <3>2. [i \in 1 .. 0 |-> i] = << >>
      BY CountUp, EmptySeq, SeqEqual
    <3> QED
      BY <3>1, <3>2 DEF Init, ShownInOrder
  <2> QED
    BY <2>1, <2>2, <2>3, <2>4 DEF OrderInv
<1>2. OrderInv /\ [Next]_vars => OrderInv'
  BY TypeStep, UpstreamStep, DownstreamStep DEF OrderInv
<1> QED
  BY <1>1, <1>2, PTL DEF SafeSpec

(* Events reach the store in the order eventCh accepted them, no event is  *)
(* stored twice, and none is in two stages at once, however the sensors,   *)
(* the main loop and the writer interleave and whichever writes fail.      *)
THEOREM OrderPreserved == SafeSpec => []InOrder
<1>1. OrderInv => InOrder
  <2> SUFFICES ASSUME OrderInv PROVE InOrder
    OBVIOUS
  <2>1. /\ stored \in Seq(Events) /\ batch \in Seq(Events)
        /\ batchCh \in Seq(Events) /\ hold \in Seq(Events)
        /\ eventCh \in Seq(Events)
        /\ Len(hold) \in {0, 1} /\ Len(eventCh) \in Nat /\ accepted \in Nat
        /\ Events \subseteq Nat
    BY LenProperties DEF OrderInv, TypeOK, DataOK, Events
  <2> DEFINE sb == stored \o batch
             sbc == sb \o batchCh
             sbch == sbc \o hold
  <2>2. sb \in Seq(Events) /\ sbc \in Seq(Events) /\ sbch \in Seq(Events)
    BY <2>1, ConcatProperties
  <2>3. /\ Range(sb) = Range(stored) \cup Range(batch)
        /\ Range(sbc) = Range(sb) \cup Range(batchCh)
        /\ Range(sbch) = Range(sbc) \cup Range(hold)
    <3>1. Range(sb) = Range(stored) \cup Range(batch)
      BY <2>1, RangeConcat
    <3>2. Range(sbc) = Range(sb) \cup Range(batchCh)
      <4> HIDE DEF sb
      <4> QED
        BY <2>1, <2>2, RangeConcat
    <3>3. Range(sbch) = Range(sbc) \cup Range(hold)
      <4> HIDE DEF sbc
      <4> QED
        BY <2>1, <2>2, RangeConcat
    <3> QED
      BY <3>1, <3>2, <3>3
  <2>4. Increasing(sb)
    BY <2>1, IncreasingConcat DEF OrderInv, Downstream
  <2>5. Increasing(sbc)
    <3>1. Below(sb, batchCh)
      BY <2>3 DEF OrderInv, Downstream, Below
    <3> QED
      BY <3>1, <2>1, <2>2, <2>4, IncreasingConcat DEF OrderInv, Downstream
  <2>6. \A a \in Range(sbc) : a \in Nat /\ a <= Passed
    BY <2>1, <2>2, <2>3, RangeInSet DEF OrderInv, Downstream
  <2>7. Range(hold) = {hold[i] : i \in 1 .. Len(hold)}
    BY <2>1, RangeSeq
  <2>8. \A b \in Range(hold) : b \in Nat /\ b = Passed + 1 /\ Passed + 1 = accepted - Len(eventCh)
    <3>1. Range(hold) \subseteq Nat
      BY <2>1, RangeInSet
    <3>2. Passed \in Nat
      BY DEF OrderInv, Upstream
    <3>3. ASSUME NEW b \in Range(hold)
          PROVE  b = Passed + 1 /\ Passed + 1 = accepted - Len(eventCh)
      <4>1. Len(hold) = 1 /\ b = hold[1]
        BY <2>1, <2>7
      <4>2. b = accepted - Len(eventCh)
        BY <4>1 DEF OrderInv, Upstream
      <4>3. Passed = accepted - Len(eventCh) - 1
        BY <4>1 DEF Passed
      <4> QED
        BY <4>2, <4>3, <2>1
    <3> QED
      BY <3>1, <3>3
  <2>9. Increasing(hold)
    BY <2>1 DEF Increasing
  <2>10. Increasing(sbch)
    <3>1. Below(sbc, hold)
      BY <2>6, <2>8 DEF Below, OrderInv, Upstream
    <3> QED
      BY <3>1, <2>1, <2>2, <2>5, <2>9, IncreasingConcat
  <2>11. Increasing(eventCh)
    BY <2>1 DEF OrderInv, Upstream, Increasing
  <2>12. Below(sbch, eventCh)
    <3>1. \A a \in Range(sbch) : a \in Nat /\ a <= accepted - Len(eventCh)
      BY <2>1, <2>3, <2>6, <2>8 DEF OrderInv, Upstream, Passed
    <3>2. \A b \in Range(eventCh) : b > accepted - Len(eventCh)
      BY <2>1, RangeSeq DEF OrderInv, Upstream
    <3>3. \A b \in Range(eventCh) : b \in Nat
      BY <2>1, RangeInSet
    <3> QED
      BY <3>1, <3>2, <3>3, <2>1 DEF Below
  <2>13. Increasing(sbch \o eventCh)
    BY <2>1, <2>2, <2>10, <2>11, <2>12, IncreasingConcat
  <2> QED
    BY <2>13 DEF InOrder, Flow
<1> QED
  BY <1>1, OrderCorrect, PTL

(* The callbacks see every event once and in the order of acceptance. *)
THEOREM ShownCorrect == SafeSpec => []ShownInOrder
<1>1. OrderInv => ShownInOrder
  BY DEF OrderInv
<1> QED
  BY <1>1, OrderCorrect, PTL

-----------------------------------------------------------------------------
(* Accounting. *)

(* The events that are in some stage. *)
InFlight == Range(stored) \cup Range(batch) \cup Range(batchCh) \cup Range(hold)
                \cup Range(eventCh)

(* No event is in two stages at once. *)
LEMMA StagesApart ==
    ASSUME OrderInv
    PROVE  /\ Range(batch) \cap (Range(stored) \cup Range(batchCh)) = {}
           /\ Range(batch) \cap (Range(hold) \cup Range(eventCh)) = {}
           /\ Range(hold) \cap (Range(stored) \cup Range(batch) \cup Range(batchCh)) = {}
           /\ Range(hold) \cap Range(eventCh) = {}
           /\ Range(stored) \cap Range(batchCh) = {}
           /\ (Range(stored) \cup Range(batchCh)) \cap Range(eventCh) = {}
<1>1. /\ stored \in Seq(Events) /\ batch \in Seq(Events)
      /\ batchCh \in Seq(Events) /\ hold \in Seq(Events)
      /\ eventCh \in Seq(Events)
      /\ Len(hold) \in {0, 1} /\ Len(eventCh) \in Nat /\ accepted \in Nat
      /\ Events \subseteq Nat
  BY LenProperties DEF OrderInv, TypeOK, DataOK, Events
<1> DEFINE left == accepted - Len(eventCh)
<1>2. /\ Range(stored) \subseteq Nat /\ Range(batch) \subseteq Nat
      /\ Range(batchCh) \subseteq Nat
  BY <1>1, RangeInSet
<1>3. \A b \in Range(eventCh) : b > left
  BY <1>1, RangeSeq DEF OrderInv, Upstream
<1>4. \A b \in Range(hold) : Len(hold) = 1 /\ b = left
  <2>1. Range(hold) = {hold[i] : i \in 1 .. Len(hold)}
    BY <1>1, RangeSeq
  <2> QED
    BY <2>1, <1>1 DEF OrderInv, Upstream
<1>5. \A a \in Range(stored) \cup Range(batch) \cup Range(batchCh) :
          a <= left /\ (Len(hold) = 1 => a < left)
  <2>1. \A a \in Range(stored) \cup Range(batch) \cup Range(batchCh) : a <= Passed
    BY DEF OrderInv, Downstream
  <2>2. Passed = left - Len(hold)
    BY DEF Passed
  <2>3. \A a \in Range(stored) \cup Range(batch) \cup Range(batchCh) : a \in Nat
    BY <1>2
  <2> HIDE DEF left
  <2>4. left \in Int
    BY <1>1 DEF left
  <2>5. ASSUME NEW a \in Range(stored) \cup Range(batch) \cup Range(batchCh)
        PROVE  a <= left /\ (Len(hold) = 1 => a < left)
    <3>1. a \in Nat /\ a <= left - Len(hold)
      BY <2>1, <2>2, <2>3
    <3>2. Len(hold) \in {0, 1}
      BY <1>1
    <3> QED
      BY <3>1, <3>2, <2>4
  <2> QED
    BY <2>5
<1>6. left \in Int
  BY <1>1
<1> HIDE DEF left
<1>7. Range(batch) \cap (Range(stored) \cup Range(batchCh)) = {}
  BY <1>2 DEF OrderInv, Downstream, Below
<1>8. Range(batch) \cap (Range(hold) \cup Range(eventCh)) = {}
  BY <1>2, <1>3, <1>4, <1>5, <1>6
<1>9. Range(hold) \cap (Range(stored) \cup Range(batch) \cup Range(batchCh)) = {}
  BY <1>2, <1>4, <1>5, <1>6
<1>10. Range(hold) \cap Range(eventCh) = {}
  BY <1>3, <1>4, <1>6
<1>11. Range(stored) \cap Range(batchCh) = {}
  BY <1>2 DEF OrderInv, Downstream, Below
<1>12. (Range(stored) \cup Range(batchCh)) \cap Range(eventCh) = {}
  BY <1>2, <1>3, <1>5, <1>6
<1> QED
  BY <1>7, <1>8, <1>9, <1>10, <1>11, <1>12

(* Each accepted event is in flight, dropped or lost, and in one only. *)
AccountInv ==
    /\ InFlight \cup dropped \cup lost = Events
    /\ InFlight \cap (dropped \cup lost) = {}
    /\ dropped \cap lost = {}

LEMMA AccountStep ==
    ASSUME OrderInv, HasStore, AccountInv, [Next]_vars
    PROVE  AccountInv'
<1> USE DEF sourceVars, eventVars, handVars, mainVars, yaraVars, batchVars,
            writerVars
<1>a. /\ accepted \in Nat /\ eventCh \in Seq(Events)
      /\ hold \in Seq(Events)
      /\ Len(hold) = IF main \in {"process", "forward"} THEN 1 ELSE 0
      /\ stored \in Seq(Events) /\ batch \in Seq(Events)
      /\ batchCh \in Seq(Events)
  BY DEF OrderInv, TypeOK, DataOK
<1>1. CASE UNCHANGED <<eventVars, hold, dropped, lost, stored, batch, batchCh>>
  BY <1>1 DEF AccountInv, InFlight, Events
<1>2. Cancel \/ Process \/ BeginShutdown \/ SensorsDone \/ StorageDone \/ Stop
        \/ Tick \/ ChannelClosed \/ Finished \/ UNCHANGED vars
      => UNCHANGED <<eventVars, hold, dropped, lost, stored, batch, batchCh>>
  BY DEF Cancel, Process, BeginShutdown, SensorsDone, StorageDone, Stop, Tick,
         ChannelClosed, Finished, vars
<1>3. ASSUME NEW s \in Sensors, SensorStep(s) PROVE AccountInv'
  <2>1. CASE StartReturns(s) \/ Observe(s) \/ SensorEnds(s)
    <3>1. UNCHANGED <<eventVars, hold, dropped, lost, stored, batch, batchCh>>
      BY <2>1 DEF StartReturns, Observe, SensorEnds
    <3> QED
      BY <3>1, <1>1
  <2>2. CASE Send(s) \/ Offer(s)
    <3>1. /\ accepted' = accepted + 1
          /\ eventCh' = Append(eventCh, accepted + 1)
          /\ UNCHANGED <<hold, dropped, lost, stored, batch, batchCh>>
      BY <2>2 DEF Send, Offer
    <3>2. eventCh \in Seq(Nat) /\ accepted + 1 \in Nat
      BY <1>a, SeqMonotonic, Events \subseteq Nat DEF Events
    <3>3. Range(eventCh') = Range(eventCh) \cup {accepted + 1}
      BY <3>1, <3>2, RangeAppend
    <3>4. Events' = Events \cup {accepted + 1} /\ accepted + 1 \notin Events
      BY <3>1, <1>a DEF Events
    <3>5. InFlight' = InFlight \cup {accepted + 1}
      BY <3>1, <3>3 DEF InFlight
    <3> QED
      BY <3>1, <3>4, <3>5 DEF AccountInv
  <2> QED
    BY <1>3, <2>1, <2>2 DEF SensorStep
<1>4. ASSUME NEW w \in Workers, WorkerStep(w) PROVE AccountInv'
  <2>1. UNCHANGED <<eventVars, hold, dropped, lost, stored, batch, batchCh>>
    BY <1>4 DEF WorkerStep, TakeJob, ScanReturns, WorkerEnds
  <2> QED
    BY <2>1, <1>1
<1>5. CASE Receive
  <2>1. /\ UNCHANGED <<accepted, dropped, lost, stored, batch, batchCh>>
        /\ eventCh # << >> /\ eventCh' = Tail(eventCh)
        /\ hold' = <<Head(eventCh)>> /\ main = "select"
    BY <1>5 DEF Receive
  <2>2. Range(eventCh) = {Head(eventCh)} \cup Range(eventCh')
    BY <2>1, <1>a, RangeTail
  <2>3. Range(hold) = {}
    <3>1. Len(hold) = 0
      BY <2>1, <1>a
    <3>2. Range(hold) = {hold[i] : i \in 1 .. Len(hold)}
      BY <1>a, RangeSeq
    <3>3. 1 .. Len(hold) = {}
      BY <3>1
    <3> QED
      BY <3>2, <3>3
  <2>4. Range(hold') = {Head(eventCh)}
    BY <2>1 DEF Range
  <2>5. InFlight' = InFlight
    BY <2>1, <2>2, <2>3, <2>4 DEF InFlight
  <2> QED
    BY <2>1, <2>5 DEF AccountInv, Events
<1>6. CASE Forward
  <2>1. /\ UNCHANGED <<eventVars, lost, stored, batch>>
        /\ hold' = << >> /\ main = "forward"
    BY <1>6 DEF Forward
  <2>2. Range(hold') = {}
    BY <2>1, EmptyFacts
  <2>3. hold[1] \in Events /\ Range(hold) = {hold[1]}
    <3>1. Len(hold) = 1
      BY <2>1, <1>a
    <3> QED
      BY <3>1, <1>a, FirstOfSeq, RangeSeq
  <2>4. CASE UNCHANGED dropped /\ batchCh' = Append(batchCh, hold[1])
    <3>1. Range(batchCh') = Range(batchCh) \cup {hold[1]}
      BY <2>4, <2>3, <1>a, RangeAppend
    <3>2. InFlight' = InFlight
      BY <3>1, <2>1, <2>2, <2>3 DEF InFlight
    <3> QED
      BY <3>2, <2>1, <2>4 DEF AccountInv, Events
  <2>5. CASE UNCHANGED batchCh /\ dropped' = dropped \cup {hold[1]}
    <3>1. InFlight = InFlight' \cup {hold[1]} /\ hold[1] \notin InFlight'
      BY <2>1, <2>2, <2>3, <2>5, StagesApart DEF InFlight
    <3> QED
      BY <3>1, <2>1, <2>5 DEF AccountInv, Events
  <2> QED
    BY <1>6, <2>4, <2>5 DEF Forward
<1>7. CASE Collect
  <2>1. /\ UNCHANGED <<eventVars, hold, dropped, lost, stored>>
        /\ batchCh # << >> /\ batchCh' = Tail(batchCh)
        /\ batch' = Append(batch, Head(batchCh))
    BY <1>7 DEF Collect
  <2>2. /\ Range(batchCh) = {Head(batchCh)} \cup Range(batchCh')
        /\ Range(batch') = Range(batch) \cup {Head(batchCh)}
    BY <2>1, <1>a, TailFacts, RangeTail, RangeAppend
  <2>3. InFlight' = InFlight
    BY <2>1, <2>2 DEF InFlight
  <2> QED
    BY <2>1, <2>3 DEF AccountInv, Events
<1>8. CASE SaveOK
  <2>1. /\ UNCHANGED <<eventVars, hold, dropped, lost, batchCh>>
        /\ stored' = stored \o batch /\ batch' = << >>
    BY <1>8 DEF SaveOK
  <2>2. Range(stored') = Range(stored) \cup Range(batch) /\ Range(batch') = {}
    BY <2>1, <1>a, RangeConcat, EmptyFacts
  <2>3. InFlight' = InFlight
    BY <2>1, <2>2 DEF InFlight
  <2> QED
    BY <2>1, <2>3 DEF AccountInv, Events
<1>9. CASE SaveFails
  <2>1. /\ UNCHANGED <<eventVars, hold, dropped, batchCh, stored>>
        /\ lost' = lost \cup Range(batch) /\ batch' = << >>
    BY <1>9 DEF SaveFails
  <2>2. Range(batch') = {}
    BY <2>1, EmptyFacts
  <2>3. InFlight = InFlight' \cup Range(batch) /\ InFlight' \cap Range(batch) = {}
    BY <2>1, <2>2, StagesApart DEF InFlight
  <2> QED
    BY <2>1, <2>3 DEF AccountInv, Events
<1> QED
  BY <1>1, <1>2, <1>3, <1>4, <1>5, <1>6, <1>7, <1>8, <1>9
     DEF Next, MainStep, WriterStep

-----------------------------------------------------------------------------
(* Shutdown. *)

(* What each stage of the shutdown sequence has waited for. *)
ShutdownInv ==
    /\ main \in {"waitStorage", "waitYara", "stopped"} => started = {}
    /\ batchClosed => main \in {"waitStorage", "waitYara", "stopped"}
    /\ main \in {"waitYara", "stopped"} => writer = "done"
    /\ writer = "closing" => batchClosed /\ batchCh = << >>
    /\ writer = "done" => batch = << >> /\ batchCh = << >>
    /\ writer = "done" => batchClosed \/ ~HasStore
    /\ yaraClosed => main \in {"waitYara", "stopped"}
    /\ Workers = {} => yaraCh = << >>
    /\ \A w \in Workers : worker[w] = "done" => yaraClosed /\ yaraCh = << >>
    /\ main = "stopped" => \A w \in Workers : worker[w] = "done"

LEMMA ShutdownStep ==
    ASSUME TypeOK, ShutdownInv, [Next]_vars
    PROVE  ShutdownInv'
<1> USE DEF ShutdownInv, Saving, sourceVars, eventVars, handVars, mainVars,
            yaraVars, batchVars, writerVars
<1>a. HasStore \in BOOLEAN
  BY PipelineAssumption
<1>b. ControlOK
  BY DEF TypeOK
<1>1. CASE Cancel
  BY <1>1, <1>a, <1>b DEF Cancel, ControlOK
<1>2. CASE Receive
  BY <1>2, <1>a, <1>b DEF Receive, ControlOK
<1>3. CASE BeginShutdown
  BY <1>3, <1>a, <1>b DEF BeginShutdown, ControlOK
<1>4. CASE SensorsDone
  BY <1>4, <1>a, <1>b DEF SensorsDone, ControlOK
<1>5. CASE StorageDone
  BY <1>5, <1>a, <1>b DEF StorageDone, ControlOK
<1>6. CASE Stop
  BY <1>6, <1>a, <1>b DEF Stop, ControlOK
<1>7. CASE Tick
  BY <1>7, <1>a, <1>b DEF Tick, ControlOK
<1>8. CASE ChannelClosed
  BY <1>8, <1>a, <1>b DEF ChannelClosed, ControlOK
<1>9. CASE SaveOK
  BY <1>9, <1>a, <1>b DEF SaveOK, AfterSave, ControlOK
<1>10. CASE SaveFails
  BY <1>10, <1>a, <1>b DEF SaveFails, AfterSave, ControlOK
<1>11. CASE Finished
  BY <1>11, <1>a, <1>b DEF Finished, vars, ControlOK
<1>12. CASE UNCHANGED vars
  BY <1>12, <1>a, <1>b DEF vars, ControlOK
<1>p. CASE Process
  <2>1. yaraClosed = FALSE /\ \A w \in Workers : worker[w] # "done"
    BY <1>p, <1>b DEF Process, ControlOK
  <2>2. Workers = {} => yaraCh' = yaraCh
    BY <1>p DEF Process, OfferScan
  <2> QED
    BY <1>p, <2>1, <2>2 DEF Process
<1>f. CASE Forward
  <2>1. ~HasStore => UNCHANGED batchCh
    BY <1>f, <1>a DEF Forward
  <2>2. writer = "done" => ~HasStore
    BY <1>f, <1>b DEF Forward, ControlOK
  <2>3. writer # "closing"
    BY <1>f, <1>b DEF Forward, ControlOK
  <2> QED
    BY <1>f, <2>1, <2>2, <2>3 DEF Forward
<1>c. CASE Collect
  BY <1>c, <1>b DEF Collect
<1>s. ASSUME NEW s \in Sensors, SensorStep(s) PROVE ShutdownInv'
  <2>1. /\ started' \subseteq started
        /\ UNCHANGED <<main, yaraVars, batchVars, writerVars>>
    BY <1>s, <1>b DEF SensorStep, StartReturns, Observe, Send, Offer, SensorEnds,
                      ControlOK
  <2> QED
    BY <2>1
<1>w. ASSUME NEW w \in Workers, WorkerStep(w) PROVE ShutdownInv'
  <2>1. CASE TakeJob(w)
    BY <2>1, <1>b DEF TakeJob, ControlOK
  <2>2. CASE ScanReturns(w)
    BY <2>2, <1>b DEF ScanReturns, ControlOK
  <2>3. CASE WorkerEnds(w)
    BY <2>3, <1>b DEF WorkerEnds, ControlOK
  <2> QED
    BY <1>w, <2>1, <2>2, <2>3 DEF WorkerStep
<1> QED
  BY <1>1, <1>2, <1>3, <1>4, <1>5, <1>6, <1>7, <1>8, <1>9, <1>10, <1>11, <1>12,
     <1>p, <1>f, <1>c, <1>s, <1>w DEF Next, MainStep, WriterStep

(* When Start returns, the sensors it waits for, the writer and the scan   *)
(* workers have ended and no accepted work is left behind for the store.   *)
THEOREM StopIsQuiet == SafeSpec => []QuietWhenStopped
<1>1. Init => ShutdownInv
  BY PipelineAssumption DEF Init, ShutdownInv
<1>2. TypeOK /\ ShutdownInv /\ [Next]_vars => ShutdownInv'
  BY ShutdownStep
<1>3. ShutdownInv => QuietWhenStopped
  BY DEF ShutdownInv, QuietWhenStopped
<1> QED
  BY <1>1, <1>2, <1>3, TypeCorrect, PTL DEF SafeSpec

LEMMA AccountCorrect == SafeSpec => [](HasStore => AccountInv)
<1>1. Init => (HasStore => AccountInv)
  BY EmptyFacts DEF Init, AccountInv, InFlight, Events
<1>2. OrderInv /\ (HasStore => AccountInv) /\ [Next]_vars => (HasStore => AccountInv)'
  BY AccountStep
<1> QED
  BY <1>1, <1>2, OrderCorrect, PTL DEF SafeSpec

(* What waits in eventCh is what Start has not received: the rest of the   *)
(* events is somewhere behind.                                             *)
LEMMA ReceivedIsBehind ==
    ASSUME OrderInv, AccountInv
    PROVE  Received = Range(stored) \cup Range(batch) \cup Range(batchCh)
                        \cup Range(hold) \cup dropped \cup lost
<1> DEFINE behind == Range(stored) \cup Range(batch) \cup Range(batchCh)
                        \cup Range(hold) \cup dropped \cup lost
           left == accepted - Len(eventCh)
<1>1. /\ eventCh \in Seq(Events) /\ accepted \in Nat /\ Len(eventCh) \in Nat
      /\ Len(eventCh) <= accepted
      /\ \A i \in 1 .. Len(eventCh) : eventCh[i] = left + i
  <2>1. eventCh \in Seq(Events) /\ accepted \in Nat /\ Len(hold) \in {0, 1}
    BY DEF OrderInv, TypeOK, DataOK
  <2>2. Len(eventCh) \in Nat
    BY <2>1, LenProperties
  <2>3. accepted - Len(eventCh) - Len(hold) \in Nat
    BY DEF OrderInv, Upstream, Passed
  <2>4. Len(eventCh) <= accepted
    BY <2>1, <2>2, <2>3
  <2>5. \A i \in 1 .. Len(eventCh) : eventCh[i] = left + i
    BY DEF OrderInv, Upstream
  <2> QED
    BY <2>1, <2>2, <2>4, <2>5
<1>2. Range(eventCh) = {eventCh[i] : i \in 1 .. Len(eventCh)}
  BY <1>1, RangeSeq
<1>3. left \in Nat
  BY <1>1
<1>4. Range(eventCh) = (left + 1) .. accepted
  <2>1. ASSUME NEW e \in (left + 1) .. accepted PROVE e \in Range(eventCh)
    <3>0. e - left \in 1 .. Len(eventCh) /\ left + (e - left) = e
      BY <1>1, <1>3
    <3>1. e - left \in 1 .. Len(eventCh) /\ eventCh[e - left] = e
      <4> HIDE DEF left
      <4> QED
        BY <1>1, <3>0
    <3> QED
      BY <3>1, <1>2
  <2>2. ASSUME NEW e \in Range(eventCh) PROVE e \in (left + 1) .. accepted
    BY <1>1, <1>2, <1>3
  <2> QED
    BY <2>1, <2>2
<1>5. behind \cap Range(eventCh) = {}
  BY StagesApart DEF AccountInv, InFlight
<1>6. behind \cup Range(eventCh) = 1 .. accepted
  BY DEF AccountInv, InFlight, Events
<1>7. left <= accepted
  BY <1>1
<1>8. behind = 1 .. left
  <2> HIDE DEF left, behind
  <2>1. 1 .. accepted = (1 .. left) \cup Range(eventCh)
    BY <1>1, <1>3, <1>4, <1>7
  <2>2. (1 .. left) \cap Range(eventCh) = {}
    BY <1>1, <1>3, <1>4
  <2> QED
    BY <1>5, <1>6, <2>1, <2>2
<1> QED
  BY <1>8 DEF Received, left, behind

(* With a store, no event that Start received disappears: it is on its     *)
(* way, committed, refused by the full channel, or in a batch whose write  *)
(* failed, and when Start has returned it is no longer on its way.         *)
THEOREM NothingVanishes == SafeSpec => []Accounted
<1>1. OrderInv /\ (HasStore => AccountInv) /\ QuietWhenStopped => Accounted
  <2> SUFFICES ASSUME OrderInv, AccountInv, QuietWhenStopped, HasStore
               PROVE  Accounted
    BY DEF Accounted
  <2> DEFINE onTheWay == Range(batch \o batchCh \o hold)
             ended == Range(stored) \cup dropped \cup lost
  <2>1. batch \in Seq(Events) /\ batchCh \in Seq(Events) /\ hold \in Seq(Events)
    BY DEF OrderInv, TypeOK, DataOK
  <2>2. batch \o batchCh \in Seq(Events)
    BY <2>1, ConcatProperties
  <2>3. onTheWay = Range(batch) \cup Range(batchCh) \cup Range(hold)
    <3>1. Range(batch \o batchCh) = Range(batch) \cup Range(batchCh)
      BY <2>1, RangeConcat
    <3>2. Range((batch \o batchCh) \o hold) = Range(batch \o batchCh) \cup Range(hold)
      BY <2>1, <2>2, RangeConcat
    <3> QED
      BY <3>1, <3>2
  <2>4. onTheWay \cup ended = Received
    BY <2>3, ReceivedIsBehind
  <2>5. onTheWay \cap ended = {}
    BY <2>3, StagesApart DEF AccountInv, InFlight
  <2>6. Range(stored) \cap (dropped \cup lost) = {} /\ dropped \cap lost = {}
    BY DEF AccountInv, InFlight
  <2>7. ASSUME main = "stopped" PROVE ended = Received
    <3>1. Len(hold) = 0
      BY <2>7 DEF OrderInv, TypeOK, DataOK
    <3>2. batch = << >> /\ batchCh = << >> /\ hold = << >>
      BY <2>1, <2>7, <3>1, EmptySeq DEF QuietWhenStopped
    <3>3. Range(batch) = {} /\ Range(batchCh) = {} /\ Range(hold) = {}
      BY <3>2, EmptyFacts
    <3> QED
      BY <3>3, ReceivedIsBehind
  <2> HIDE DEF onTheWay, ended
  <2> QED
    BY <2>4, <2>5, <2>6, <2>7 DEF Accounted, onTheWay, ended
<1> QED
  BY <1>1, OrderCorrect, AccountCorrect, StopIsQuiet, PTL

-----------------------------------------------------------------------------
(* Refinement. *)

LEMMA PromiseInit ==
    ASSUME Init
    PROVE  Promise!DInit
BY EmptyFacts DEF Init, Promise!DInit

LEMMA PromiseStep ==
    ASSUME OrderInv, OrderInv', [Next]_vars
    PROVE  Promise!DNext \/ UNCHANGED Promise!dvars
<1> USE DEF sourceVars, eventVars, handVars, mainVars, yaraVars, batchVars,
            writerVars
<1>1. CASE UNCHANGED <<accepted, seen, stored>>
  BY <1>1 DEF Promise!dvars
<1>2. Cancel \/ Receive \/ Forward \/ BeginShutdown \/ SensorsDone
        \/ StorageDone \/ Stop \/ Collect \/ Tick \/ ChannelClosed \/ SaveFails
        \/ Finished \/ UNCHANGED vars
      => UNCHANGED <<accepted, seen, stored>>
  BY DEF Cancel, Receive, Forward, BeginShutdown, SensorsDone, StorageDone,
         Stop, Collect, Tick, ChannelClosed, SaveFails, Finished, vars
<1>3. ASSUME NEW s \in Sensors, SensorStep(s)
      PROVE  Promise!DNext \/ UNCHANGED Promise!dvars
  <2>1. CASE StartReturns(s) \/ Observe(s) \/ SensorEnds(s)
    <3>1. UNCHANGED <<accepted, seen, stored>>
      BY <2>1 DEF StartReturns, Observe, SensorEnds
    <3> QED
      BY <3>1, <1>1
  <2>2. CASE Send(s) \/ Offer(s)
    <3>1. accepted' = accepted + 1 /\ UNCHANGED <<seen, stored>>
      BY <2>2 DEF Send, Offer
    <3> QED
      BY <3>1 DEF Promise!DNext, Promise!Accept
  <2> QED
    BY <1>3, <2>1, <2>2 DEF SensorStep
<1>4. ASSUME NEW w \in Workers, WorkerStep(w)
      PROVE  UNCHANGED <<accepted, seen, stored>>
  BY <1>4 DEF WorkerStep, TakeJob, ScanReturns, WorkerEnds
<1>5. CASE Process
  <2>1. /\ UNCHANGED <<accepted, stored, eventCh, hold>>
        /\ seen' = Append(seen, hold[1])
        /\ main = "process" /\ main' = "forward"
    BY <1>5 DEF Process
  <2>2. /\ hold \in Seq(Events) /\ seen \in Seq(Events) /\ Len(hold) = 1
        /\ accepted \in Nat /\ eventCh \in Seq(Events)
    BY <2>1 DEF OrderInv, TypeOK, DataOK
  <2>3. hold[1] \in Events
    BY <2>2, FirstOfSeq
  <2>4. Len(seen') = Len(seen) + 1
    BY <2>1, <2>2, <2>3, AppendFacts
  <2>5. Len(seen) = accepted - Len(eventCh) - 1
    <3>1. accepted - Len(eventCh) - 1 \in Nat
      BY <2>2 DEF OrderInv, Upstream, Passed
    <3> QED
      BY <3>1, <2>1, CountUp DEF OrderInv, ShownInOrder
  <2>6. Len(eventCh) \in Nat
    BY <2>2, LenProperties
  <2>7. Len(seen) < accepted
    BY <2>5, <2>6, <2>2
  <2> QED
    BY <2>1, <2>4, <2>7 DEF Promise!DNext, Promise!Show
<1>6. CASE SaveOK
  <2>1. /\ UNCHANGED <<accepted, seen, eventCh, hold, main>>
        /\ stored' = stored \o batch
    BY <1>6 DEF SaveOK
  <2>2. /\ stored \in Seq(Events) /\ batch \in Seq(Events)
        /\ stored' \in Seq(Events')
        /\ accepted \in Nat /\ eventCh \in Seq(Events)
    BY DEF OrderInv, TypeOK, DataOK
  <2>3. CASE batch = << >>
    <3>1. stored' = stored
      BY <2>1, <2>2, <2>3, ConcatEmptySeq
    <3> QED
      BY <3>1, <2>1, <1>1
  <2>4. CASE batch # << >>
    <3>1. /\ Len(stored') = Len(stored) + Len(batch)
          /\ \A i \in 1 .. Len(stored) : stored'[i] = stored[i]
          /\ Len(stored) \in Nat /\ Len(batch) \in Nat
      BY <2>1, <2>2, ConcatProperties, LenProperties
    <3>2. Len(batch) > 0
      BY <2>2, <2>4, <3>1, EmptySeq
    <3>3. SubSeq(stored', 1, Len(stored)) = stored
      <4> DEFINE p == SubSeq(stored', 1, Len(stored))
      <4>1. /\ p \in Seq(Events') /\ Len(p) = Len(stored)
            /\ \A i \in 1 .. Len(stored) : p[i] = stored[i]
        BY <2>2, <3>1, <3>2, SubSeqProperties
      <4>2. stored \in Seq(Events')
        BY <2>1, <2>2 DEF Events
      <4> HIDE DEF p
      <4>3. p = stored
        BY <4>1, <4>2, SeqEqual
      <4> QED
        BY <4>3 DEF p
    <3>4. Increasing(stored')
      BY DEF OrderInv, Downstream
    <3>5. Promise!Increasing(stored')
      BY <3>4 DEF Promise!Increasing, Increasing
    <3>6. \A i \in 1 .. Len(stored') : stored'[i] \in 1 .. Len(seen)
      <4>1. \A a \in Range(stored') : a \in Nat \ {0} /\ a <= Passed'
        <5>1. Range(stored') \subseteq Events'
          BY <2>2, RangeInSet
        <5>2. Events' \subseteq Nat \ {0}
          BY <2>1, <2>2 DEF Events
        <5> QED
          BY <5>1, <5>2 DEF OrderInv, Downstream
      <4>2. Passed' <= Len(seen) /\ Passed' \in Int /\ Len(seen) \in Nat
        <5>1. Passed' = Passed /\ Passed \in Nat
          BY <2>1 DEF Passed, OrderInv, Upstream
        <5>2. /\ Len(hold) = IF main \in {"process", "forward"} THEN 1 ELSE 0
              /\ Len(eventCh) \in Nat
          BY <2>2, LenProperties DEF OrderInv, TypeOK, DataOK
        <5>3. Passed <= accepted - Len(eventCh) - (IF main = "process" THEN 1 ELSE 0)
          BY <5>2, <2>2 DEF Passed
        <5>4. accepted - Len(eventCh) - (IF main = "process" THEN 1 ELSE 0) \in Nat
          BY <5>1, <5>2, <5>3, <2>2
        <5>5. Len(seen) = accepted - Len(eventCh) - (IF main = "process" THEN 1 ELSE 0)
          BY <5>4, CountUp DEF OrderInv, ShownInOrder
        <5> QED
          BY <5>1, <5>3, <5>4, <5>5
      <4>3. \A i \in 1 .. Len(stored') : stored'[i] \in Range(stored')
        BY <2>2, RangeSeq
      <4> QED
        BY <4>1, <4>2, <4>3
    <3>7. Len(seen)' = Len(seen)
      BY <2>1
    <3>8. Len(stored') > Len(stored)
      BY <3>1, <3>2
    <3> QED
      BY <2>1, <3>3, <3>5, <3>6, <3>7, <3>8 DEF Promise!DNext, Promise!Keep
  <2> QED
    BY <2>3, <2>4
<1> QED
  BY <1>1, <1>2, <1>3, <1>4, <1>5, <1>6 DEF Next, MainStep, WriterStep

(* The pipeline implements the promise of Delivery: the callbacks are shown *)
(* each event once and in order, and every transaction of batchWriter       *)
(* appends to the store newer events that the callbacks have already seen.  *)
THEOREM PromiseKept == SafeSpec => DeliveryPromise
<1>1. Init => Promise!DInit
  BY PromiseInit
<1>2. OrderInv /\ OrderInv' /\ [Next]_vars => [Promise!DNext]_(Promise!dvars)
  BY PromiseStep
<1> QED
  BY <1>1, <1>2, OrderCorrect, PTL DEF SafeSpec, DeliveryPromise, Promise!DSpec

-----------------------------------------------------------------------------
(* The safety half of ShutdownCompletes. *)

(* Some goroutine that runs on its own can take its next step: the main    *)
(* loop or what it waits for.  Nothing here needs an event to be observed  *)
(* or a save to succeed.                                                   *)
MainRunnable ==
    \/ main = "select" /\ (cancelled \/ eventCh # << >>)
    \/ main \in {"process", "forward"}
    \/ main = "waitSensors" /\ started = {}
    \/ main = "waitStorage" /\ writer = "done"
    \/ main = "waitYara" /\ \A w \in Workers : worker[w] = "done"

SensorRunnable(s) ==
    s \in started /\ (s \in Detached \/ (cancelled /\ source[s] # "ended"))

WriterRunnable ==
    \/ writer = "idle" /\ (batchCh # << >> \/ batch # << >> \/ batchClosed)
    \/ writer \in Saving

WorkerRunnable(w) ==
    \/ worker[w] = "idle" /\ (yaraCh # << >> \/ yaraClosed)
    \/ worker[w] = "scanning"

Runnable ==
    \/ MainRunnable
    \/ WriterRunnable
    \/ \E s \in Sensors : SensorRunnable(s)
    \/ \E w \in Workers : WorkerRunnable(w)

(* What the shutdown waits for can always go on: no wait of Start is for a *)
(* goroutine that waits for ever itself.                                   *)
NeverStuck == cancelled /\ main # "stopped" => Runnable

ShuttingDown == main \in {"waitSensors", "waitStorage", "waitYara", "stopped"}

Polling == {s \in Sensors : source[s] = "polling"}
Running == {s \in Sensors : source[s] # "ended"}
Scanning == {w \in Workers : worker[w] = "scanning"}
Working == {w \in Workers : worker[w] # "done"}

(* How many steps each part can still take once main reads eventCh no      *)
(* more: a sensor fills what room the channel has, and ends; the writer    *)
(* collects, flushes and closes; a worker takes a job, scans and ends.     *)
SensorsLeft ==
    2 * (EventCap - Len(eventCh))
        + Cardinality(started) + Cardinality(Polling) + Cardinality(Running)

WriterLeft ==
    3 * Len(batchCh)
        + IF writer = "idle" THEN (IF batch = << >> THEN 2 ELSE 4)
          ELSE IF writer = "saving" THEN 3
          ELSE IF writer = "closing" THEN 1 ELSE 0

WorkersLeft == 2 * Len(yaraCh) + Cardinality(Scanning) + Cardinality(Working)

MainLeft ==
    IF main = "waitSensors" THEN 3
    ELSE IF main = "waitStorage" THEN 2
    ELSE IF main = "waitYara" THEN 1 ELSE 0

StepsLeft == SensorsLeft + WriterLeft + WorkersLeft + MainLeft

(* In terms of the configuration: the channels' capacities, and the        *)
(* numbers of sensors and scan workers.                                    *)
ShutdownBound ==
    2 * EventCap + 3 * Cardinality(Sensors) + 3 * BatchCap + 2 * YaraCap
        + 2 * Cardinality(Workers) + 7

(* What else the waits rest on: a sensor that wg counts has not ended, and *)
(* the channel whose reader is waited for has been closed.                 *)
WaitInv ==
    /\ \A s \in started \ Detached : source[s] # "ended"
    /\ ShuttingDown => cancelled
    /\ main \in {"waitStorage", "waitYara", "stopped"} => batchClosed
    /\ main \in {"waitYara", "stopped"} /\ Workers # {} => yaraClosed

LEMMA WaitStep ==
    ASSUME TypeOK, WaitInv, [Next]_vars
    PROVE  WaitInv'
<1> USE DEF WaitInv, ShuttingDown, sourceVars, eventVars, handVars, mainVars,
            yaraVars, batchVars, writerVars
<1>a. ControlOK
  BY DEF TypeOK
<1>1. CASE Cancel
  BY <1>1 DEF Cancel
<1>2. CASE MainStep
  BY <1>2, <1>a DEF MainStep, Receive, Process, Forward, BeginShutdown,
                    SensorsDone, StorageDone, Stop, ControlOK
<1>3. CASE WriterStep
  BY <1>3 DEF WriterStep, Collect, Tick, ChannelClosed, SaveOK, SaveFails
<1>4. ASSUME NEW w \in Workers, WorkerStep(w) PROVE WaitInv'
  BY <1>4 DEF WorkerStep, TakeJob, ScanReturns, WorkerEnds
<1>5. ASSUME NEW s \in Sensors, SensorStep(s) PROVE WaitInv'
  <2>1. UNCHANGED <<cancelled, main, batchClosed, yaraClosed>>
    BY <1>5 DEF SensorStep, StartReturns, Observe, Send, Offer, SensorEnds
  <2>2. \A r \in started' \ Detached : source'[r] # "ended"
    <3>1. CASE StartReturns(s) \/ Offer(s)
      BY <3>1 DEF StartReturns, Offer
    <3>2. CASE Observe(s) \/ Send(s)
      BY <3>2, <1>a DEF Observe, Send, ControlOK
    <3>3. CASE SensorEnds(s)
      BY <3>3, <1>a DEF SensorEnds, ControlOK
    <3> QED
      BY <1>5, <3>1, <3>2, <3>3 DEF SensorStep
  <2> QED
    BY <2>1, <2>2
<1>6. CASE Finished \/ UNCHANGED vars
  BY <1>6 DEF Finished, vars
<1> QED
  BY <1>1, <1>2, <1>3, <1>4, <1>5, <1>6 DEF Next

LEMMA WaitCorrect == SafeSpec => []WaitInv
<1>1. Init => WaitInv
  BY DEF Init, WaitInv, ShuttingDown
<1>2. TypeOK /\ WaitInv /\ [Next]_vars => WaitInv'
  BY WaitStep
<1> QED
  BY <1>1, <1>2, TypeCorrect, PTL DEF SafeSpec

(* After the context is cancelled and until Start returns, some goroutine  *)
(* that runs on its own can take a step: the shutdown sequence never waits *)
(* for a sensor, a writer or a scan worker that waits for ever itself.     *)
THEOREM ShutdownNeverStuck == SafeSpec => []NeverStuck
<1>1. ASSUME TypeOK, WaitInv, cancelled, main # "stopped"
      PROVE  Runnable
  <2>a. ControlOK
    BY <1>1 DEF TypeOK
  <2>1. CASE main \in {"select", "process", "forward"}
    BY <2>1, <1>1 DEF Runnable, MainRunnable
  <2>2. CASE main = "waitSensors"
    <3>1. CASE started = {}
      BY <2>2, <3>1 DEF Runnable, MainRunnable
    <3>2. CASE started # {}
      <4>1. PICK s \in started : TRUE
        BY <3>2
      <4>2. s \in Sensors /\ SensorRunnable(s)
        BY <4>1, <1>1, <2>a DEF WaitInv, SensorRunnable, ControlOK
      <4> QED
        BY <4>2 DEF Runnable
    <3> QED
      BY <3>1, <3>2
  <2>3. CASE main = "waitStorage"
    BY <2>3, <1>1, <2>a
       DEF Runnable, MainRunnable, WriterRunnable, WaitInv, ControlOK
  <2>4. CASE main = "waitYara"
    <3>1. CASE \A w \in Workers : worker[w] = "done"
      BY <2>4, <3>1 DEF Runnable, MainRunnable
    <3>2. CASE ~(\A w \in Workers : worker[w] = "done")
      <4>1. PICK w \in Workers : worker[w] # "done"
        BY <3>2
      <4>2. yaraClosed /\ worker[w] \in {"idle", "scanning", "done"}
        BY <2>4, <4>1, <1>1, <2>a DEF WaitInv, ControlOK
      <4>3. WorkerRunnable(w)
        BY <4>1, <4>2 DEF WorkerRunnable
      <4> QED
        BY <4>3 DEF Runnable
    <3> QED
      BY <3>1, <3>2
  <2> QED
    BY <2>1, <2>2, <2>3, <2>4, <1>1, <2>a DEF ControlOK
<1>2. TypeOK /\ WaitInv => NeverStuck
  BY <1>1 DEF NeverStuck
<1> QED
  BY <1>2, TypeCorrect, WaitCorrect, PTL

-----------------------------------------------------------------------------
(* How long the shutdown can last. *)

LEMMA Fewer ==
    ASSUME NEW A, IsFiniteSet(A), NEW x \in A
    PROVE  /\ Cardinality(A \ {x}) = Cardinality(A) - 1
           /\ Cardinality(A) \in Nat
           /\ Cardinality(A \ {x}) \in Nat
BY FS_RemoveElement, FS_CardinalityType

LEMMA More ==
    ASSUME NEW A, IsFiniteSet(A), NEW x, x \notin A
    PROVE  /\ Cardinality(A \cup {x}) = Cardinality(A) + 1
           /\ Cardinality(A) \in Nat
           /\ Cardinality(A \cup {x}) \in Nat
BY FS_AddElement, FS_CardinalityType

LEMMA PartOf ==
    ASSUME NEW S, IsFiniteSet(S), NEW A \in SUBSET S
    PROVE  /\ IsFiniteSet(A)
           /\ Cardinality(A) \in Nat /\ Cardinality(S) \in Nat
           /\ Cardinality(A) <= Cardinality(S)
BY FS_Subset, FS_CardinalityType

LEMMA FiniteParts ==
    ASSUME TypeOK
    PROVE  /\ IsFiniteSet(started) /\ IsFiniteSet(Polling) /\ IsFiniteSet(Running)
           /\ IsFiniteSet(Scanning) /\ IsFiniteSet(Working)
<1>1. IsFiniteSet(Sensors) /\ IsFiniteSet(Workers)
  BY PipelineAssumption
<1>2. /\ started \in SUBSET Sensors /\ Polling \in SUBSET Sensors
      /\ Running \in SUBSET Sensors
      /\ Scanning \in SUBSET Workers /\ Working \in SUBSET Workers
  BY DEF TypeOK, ControlOK, Polling, Running, Scanning, Working
<1> QED
  BY <1>1, <1>2, FS_Subset

LEMMA Parts ==
    ASSUME TypeOK
    PROVE  /\ Cardinality(started) \in Nat /\ Cardinality(started) <= Cardinality(Sensors)
           /\ Cardinality(Polling) \in Nat /\ Cardinality(Polling) <= Cardinality(Sensors)
           /\ Cardinality(Running) \in Nat /\ Cardinality(Running) <= Cardinality(Sensors)
           /\ Cardinality(Scanning) \in Nat /\ Cardinality(Scanning) <= Cardinality(Workers)
           /\ Cardinality(Working) \in Nat /\ Cardinality(Working) <= Cardinality(Workers)
           /\ Cardinality(Sensors) \in Nat /\ Cardinality(Workers) \in Nat
           /\ Len(eventCh) \in Nat /\ Len(eventCh) <= EventCap
           /\ Len(batchCh) \in Nat /\ Len(batchCh) <= BatchCap
           /\ Len(yaraCh) \in Nat /\ Len(yaraCh) <= YaraCap
           /\ EventCap \in Nat /\ BatchCap \in Nat /\ YaraCap \in Nat
<1>1. IsFiniteSet(Sensors) /\ IsFiniteSet(Workers)
      /\ EventCap \in Nat /\ BatchCap \in Nat /\ YaraCap \in Nat
  BY PipelineAssumption DEF BatchCap
<1>2. /\ started \in SUBSET Sensors /\ Polling \in SUBSET Sensors
      /\ Running \in SUBSET Sensors
      /\ Scanning \in SUBSET Workers /\ Working \in SUBSET Workers
  BY DEF TypeOK, ControlOK, Polling, Running, Scanning, Working
<1>3. /\ Len(eventCh) \in Nat /\ Len(eventCh) <= EventCap
      /\ Len(batchCh) \in Nat /\ Len(batchCh) <= BatchCap
      /\ Len(yaraCh) \in Nat /\ Len(yaraCh) <= YaraCap
  BY LenProperties DEF TypeOK, DataOK
<1>4. Cardinality(started) \in Nat /\ Cardinality(started) <= Cardinality(Sensors)
      /\ Cardinality(Sensors) \in Nat
  BY <1>1, <1>2, PartOf
<1>5. Cardinality(Polling) \in Nat /\ Cardinality(Polling) <= Cardinality(Sensors)
  BY <1>1, <1>2, PartOf
<1>6. Cardinality(Running) \in Nat /\ Cardinality(Running) <= Cardinality(Sensors)
  BY <1>1, <1>2, PartOf
<1>7. Cardinality(Scanning) \in Nat /\ Cardinality(Scanning) <= Cardinality(Workers)
      /\ Cardinality(Workers) \in Nat
  BY <1>1, <1>2, PartOf
<1>8. Cardinality(Working) \in Nat /\ Cardinality(Working) <= Cardinality(Workers)
  BY <1>1, <1>2, PartOf
<1> QED
  BY <1>1, <1>3, <1>4, <1>5, <1>6, <1>7, <1>8

LEMMA SumOfSensors ==
    ASSUME NEW c \in Nat, NEW e \in Nat, e <= c, NEW n \in Nat,
           NEW i \in Nat, NEW j \in Nat, NEW k \in Nat, i <= n, j <= n, k <= n
    PROVE  /\ 2 * (c - e) + i + j + k \in Nat
           /\ 2 * (c - e) + i + j + k <= 2 * c + 3 * n
OBVIOUS

LEMMA SumOfWorkers ==
    ASSUME NEW c \in Nat, NEW e \in Nat, e <= c, NEW n \in Nat,
           NEW i \in Nat, NEW j \in Nat, i <= n, j <= n
    PROVE  2 * e + i + j \in Nat /\ 2 * e + i + j <= 2 * c + 2 * n
OBVIOUS

LEMMA SumOfParts ==
    ASSUME NEW c \in Nat, NEW d \in Nat, NEW e \in Nat, NEW n \in Nat, NEW p \in Nat,
           NEW i \in Nat, NEW j \in Nat, NEW k \in Nat, NEW l \in Nat,
           i <= 2 * c + 3 * n, j <= 3 * d + 4, k <= 2 * e + 2 * p, l <= 3
    PROVE  i + j + k + l \in 0 .. (2 * c + 3 * n + 3 * d + 2 * e + 2 * p + 7)
OBVIOUS

LeftOK ==
    /\ SensorsLeft \in Nat /\ WriterLeft \in Nat /\ WorkersLeft \in Nat
    /\ MainLeft \in Nat

LEMMA LeftBounds ==
    ASSUME TypeOK
    PROVE  LeftOK /\ StepsLeft \in 0 .. ShutdownBound
<1>a. TypeOK
  OBVIOUS
<1>1. /\ SensorsLeft \in Nat
      /\ SensorsLeft <= 2 * EventCap + 3 * Cardinality(Sensors)
  BY <1>a, Parts, SumOfSensors, Zenon DEF SensorsLeft
<1>2. WriterLeft \in Nat /\ WriterLeft <= 3 * BatchCap + 4
  BY <1>a, Parts DEF WriterLeft
<1>3. /\ WorkersLeft \in Nat
      /\ WorkersLeft <= 2 * YaraCap + 2 * Cardinality(Workers)
  BY <1>a, Parts, SumOfWorkers, Zenon DEF WorkersLeft
<1>4. MainLeft \in Nat /\ MainLeft <= 3
  BY DEF MainLeft
<1>5. StepsLeft \in 0 .. ShutdownBound
  BY <1>1, <1>2, <1>3, <1>4, Parts, SumOfParts, Zenon DEF StepsLeft, ShutdownBound
<1> QED
  BY <1>1, <1>2, <1>3, <1>4, <1>5 DEF LeftOK

LEMMA SensorLowers ==
    ASSUME TypeOK, NEW s \in Sensors, SensorStep(s)
    PROVE  SensorsLeft' < SensorsLeft
<1> USE DEF sourceVars, eventVars, handVars, mainVars, yaraVars, batchVars,
            writerVars
<1>a. /\ source \in [Sensors -> {"polling", "sending", "ended"}]
      /\ eventCh \in Seq(Events) /\ accepted \in Nat
  BY DEF TypeOK, ControlOK, DataOK
<1>p. /\ Cardinality(started) \in Nat /\ Cardinality(Polling) \in Nat
      /\ Cardinality(Running) \in Nat
      /\ Len(eventCh) \in Nat /\ EventCap \in Nat
  BY Parts, Zenon
<1>1. CASE StartReturns(s)
  <2>1. /\ s \in started /\ started' = started \ {s}
        /\ Polling' = Polling /\ Running' = Running /\ eventCh' = eventCh
    BY <1>1 DEF StartReturns, Polling, Running
  <2>2. Cardinality(started') = Cardinality(started) - 1
    BY <2>1, FiniteParts, Fewer
  <2> QED
    BY <2>1, <2>2, <1>p DEF SensorsLeft
<1>2. CASE Observe(s)
  <2>1. /\ s \in Polling /\ Polling' = Polling \ {s}
        /\ Running' = Running /\ UNCHANGED <<started, eventCh>>
    BY <1>2, <1>a DEF Observe, Polling, Running
  <2>2. Cardinality(Polling') = Cardinality(Polling) - 1
    BY <2>1, FiniteParts, Fewer
  <2> QED
    BY <2>1, <2>2, <1>p DEF SensorsLeft
<1>3. CASE Send(s)
  <2>1. /\ s \notin Polling /\ Polling' = Polling \cup {s}
        /\ Running' = Running /\ started' = started
        /\ Len(eventCh) < EventCap /\ eventCh' = Append(eventCh, accepted + 1)
    BY <1>3, <1>a DEF Send, Polling, Running
  <2>2. Cardinality(Polling') = Cardinality(Polling) + 1
    BY <2>1, FiniteParts, More
  <2>3. Len(eventCh') = Len(eventCh) + 1
    BY <2>1, <1>a
  <2> QED
    BY <2>1, <2>2, <2>3, <1>p DEF SensorsLeft
<1>4. CASE Offer(s)
  <2>1. /\ Polling' = Polling /\ Running' = Running /\ started' = started
        /\ Len(eventCh) < EventCap /\ eventCh' = Append(eventCh, accepted + 1)
    BY <1>4 DEF Offer, Polling, Running
  <2>2. Len(eventCh') = Len(eventCh) + 1
    BY <2>1, <1>a
  <2> QED
    BY <2>1, <2>2, <1>p DEF SensorsLeft
<1>5. CASE SensorEnds(s)
  <2>1. /\ s \in Running /\ Running' = Running \ {s}
        /\ Polling' = Polling \ {s} /\ eventCh' = eventCh
        /\ started' = started \/ started' = started \ {s}
    BY <1>5, <1>a DEF SensorEnds, Polling, Running
  <2>2. Cardinality(Running') = Cardinality(Running) - 1
    BY <2>1, FiniteParts, Fewer
  <2>3. Cardinality(Polling') <= Cardinality(Polling)
    <3>1. Polling' \in SUBSET Polling
      BY <2>1
    <3> QED
      BY <3>1, FiniteParts, PartOf
  <2>4. Cardinality(started') <= Cardinality(started)
    <3>1. started' \in SUBSET started
      BY <2>1
    <3> QED
      BY <3>1, FiniteParts, PartOf
  <2>5. Cardinality(Polling') \in Nat /\ Cardinality(started') \in Nat
    <3>1. Polling' \in SUBSET Polling /\ started' \in SUBSET started
      BY <2>1
    <3> QED
      BY <3>1, FiniteParts, PartOf
  <2> QED
    BY <2>1, <2>2, <2>3, <2>4, <2>5, <1>p DEF SensorsLeft
<1> QED
  BY <1>1, <1>2, <1>3, <1>4, <1>5 DEF SensorStep

LEMMA WriterLowers ==
    ASSUME TypeOK, WriterStep
    PROVE  WriterLeft' < WriterLeft
<1> USE DEF sourceVars, eventVars, handVars, mainVars, yaraVars, batchVars,
            writerVars, Saving
<1>a. /\ batchCh \in Seq(Events) /\ batch \in Seq(Events)
      /\ Len(batchCh) \in Nat
      /\ writer \in {"idle", "done", "saving", "closing"}
  BY LenProperties DEF TypeOK, ControlOK, DataOK
<1>1. CASE Collect
  <2>1. Len(batchCh') = Len(batchCh) - 1
    BY <1>1, <1>a, TailFacts DEF Collect
  <2>2. batch' # << >>
    <3>1. batch' = Append(batch, Head(batchCh)) /\ Head(batchCh) \in Events
      BY <1>1, <1>a, TailFacts DEF Collect
    <3>2. Len(batch') = Len(batch) + 1 /\ Len(batch) \in Nat
      BY <3>1, <1>a, AppendFacts, LenProperties
    <3> QED
      BY <3>2, EmptySeq
  <2>3. writer = "idle" /\ writer' \in {"idle", "saving"}
    BY <1>1 DEF Collect
  <2> QED
    BY <2>1, <2>2, <2>3, <1>a DEF WriterLeft
<1>2. CASE Tick
  BY <1>2, <1>a DEF Tick, WriterLeft
<1>3. CASE ChannelClosed
  BY <1>3, <1>a DEF ChannelClosed, WriterLeft
<1>4. CASE SaveOK
  BY <1>4, <1>a DEF SaveOK, AfterSave, WriterLeft
<1>5. CASE SaveFails
  BY <1>5, <1>a DEF SaveFails, AfterSave, WriterLeft
<1> QED
  BY <1>1, <1>2, <1>3, <1>4, <1>5 DEF WriterStep

LEMMA WorkerLowers ==
    ASSUME TypeOK, NEW w \in Workers, WorkerStep(w)
    PROVE  WorkersLeft' < WorkersLeft
<1> USE DEF sourceVars, eventVars, handVars, mainVars, yaraVars, batchVars,
            writerVars
<1>a. /\ worker \in [Workers -> {"idle", "scanning", "done"}]
      /\ yaraCh \in Seq(Events)
  BY DEF TypeOK, ControlOK, DataOK
<1>p. /\ Cardinality(Scanning) \in Nat /\ Cardinality(Working) \in Nat
      /\ Len(yaraCh) \in Nat
  BY Parts, Zenon
<1>1. CASE TakeJob(w)
  <2>1. /\ w \notin Scanning /\ Scanning' = Scanning \cup {w}
        /\ Working' = Working
    BY <1>1, <1>a DEF TakeJob, Scanning, Working
  <2>2. Cardinality(Scanning') = Cardinality(Scanning) + 1
    BY <2>1, FiniteParts, More
  <2>3. Len(yaraCh') = Len(yaraCh) - 1
    BY <1>1, <1>a, TailFacts DEF TakeJob
  <2> QED
    BY <2>1, <2>2, <2>3, <1>p DEF WorkersLeft
<1>2. CASE ScanReturns(w)
  <2>1. /\ w \in Scanning /\ Scanning' = Scanning \ {w}
        /\ Working' = Working /\ yaraCh' = yaraCh
    BY <1>2, <1>a DEF ScanReturns, Scanning, Working
  <2>2. Cardinality(Scanning') = Cardinality(Scanning) - 1
    BY <2>1, FiniteParts, Fewer
  <2> QED
    BY <2>1, <2>2, <1>p DEF WorkersLeft
<1>3. CASE WorkerEnds(w)
  <2>1. /\ w \in Working /\ Working' = Working \ {w}
        /\ Scanning' = Scanning /\ yaraCh' = yaraCh
    BY <1>3, <1>a DEF WorkerEnds, Scanning, Working
  <2>2. Cardinality(Working') = Cardinality(Working) - 1
    BY <2>1, FiniteParts, Fewer
  <2> QED
    BY <2>1, <2>2, <1>p DEF WorkersLeft
<1> QED
  BY <1>1, <1>2, <1>3 DEF WorkerStep

(* Once Start has left its loop, no step leads back, and every step of any *)
(* goroutine lowers StepsLeft, whatever the scheduler does.                *)
ShutdownCounts ==
    [][ShuttingDown => ShuttingDown' /\ StepsLeft' < StepsLeft]_vars

LEMMA ShutdownLowers ==
    ASSUME TypeOK, LeftOK, LeftOK', WaitInv, [Next]_vars, ShuttingDown, vars' # vars
    PROVE  ShuttingDown' /\ StepsLeft' < StepsLeft
<1> USE DEF sourceVars, eventVars, handVars, mainVars, yaraVars, batchVars,
            writerVars
<1>a. /\ SensorsLeft \in Nat /\ WriterLeft \in Nat /\ WorkersLeft \in Nat
      /\ MainLeft \in Nat
  BY DEF LeftOK
<1>b. /\ SensorsLeft' \in Nat /\ WriterLeft' \in Nat /\ WorkersLeft' \in Nat
      /\ MainLeft' \in Nat
  BY DEF LeftOK
<1>c. \A i, j, k, l, m \in Nat :
          m < i => /\ m + j + k + l < i + j + k + l
                   /\ j + m + k + l < j + i + k + l
                   /\ j + k + m + l < j + k + i + l
                   /\ j + k + l + m < j + k + l + i
  OBVIOUS
<1>1. CASE \E s \in Sensors : SensorStep(s)
  <2>1. PICK s \in Sensors : SensorStep(s)
    BY <1>1
  <2>2. UNCHANGED <<main, batchCh, writer, batch, yaraCh, worker>>
    BY <2>1 DEF SensorStep, StartReturns, Observe, Send, Offer, SensorEnds
  <2>3. /\ ShuttingDown' /\ WriterLeft' = WriterLeft /\ WorkersLeft' = WorkersLeft
        /\ MainLeft' = MainLeft
    BY <2>2 DEF ShuttingDown, WriterLeft, WorkersLeft, MainLeft, Scanning, Working
  <2>4. SensorsLeft' < SensorsLeft
    BY <2>1, SensorLowers
  <2> QED
    BY <2>3, <2>4, <1>a, <1>b, <1>c, Zenon DEF StepsLeft
<1>2. CASE WriterStep
  <2>1. UNCHANGED <<main, eventCh, source, started, yaraCh, worker>>
    BY <1>2 DEF WriterStep, Collect, Tick, ChannelClosed, SaveOK, SaveFails
  <2>2. /\ ShuttingDown' /\ SensorsLeft' = SensorsLeft /\ WorkersLeft' = WorkersLeft
        /\ MainLeft' = MainLeft
    BY <2>1 DEF ShuttingDown, SensorsLeft, WorkersLeft, MainLeft, Scanning, Working,
                Polling, Running
  <2>3. WriterLeft' < WriterLeft
    BY <1>2, WriterLowers
  <2> QED
    BY <2>2, <2>3, <1>a, <1>b, <1>c, Zenon DEF StepsLeft
<1>3. CASE \E w \in Workers : WorkerStep(w)
  <2>1. PICK w \in Workers : WorkerStep(w)
    BY <1>3
  <2>2. UNCHANGED <<main, eventCh, source, started, batchCh, writer, batch>>
    BY <2>1 DEF WorkerStep, TakeJob, ScanReturns, WorkerEnds
  <2>3. /\ ShuttingDown' /\ SensorsLeft' = SensorsLeft /\ WriterLeft' = WriterLeft
        /\ MainLeft' = MainLeft
    BY <2>2 DEF ShuttingDown, SensorsLeft, WriterLeft, MainLeft, Polling, Running
  <2>4. WorkersLeft' < WorkersLeft
    BY <2>1, WorkerLowers
  <2> QED
    BY <2>3, <2>4, <1>a, <1>b, <1>c, Zenon DEF StepsLeft
<1>4. CASE MainStep
  <2>1. SensorsDone \/ StorageDone \/ Stop
    BY <1>4 DEF MainStep, ShuttingDown, Receive, Process, Forward, BeginShutdown
  <2>2. UNCHANGED <<eventCh, source, started, batchCh, writer, batch, yaraCh, worker>>
    BY <2>1 DEF SensorsDone, StorageDone, Stop
  <2>3. /\ SensorsLeft' = SensorsLeft /\ WriterLeft' = WriterLeft
        /\ WorkersLeft' = WorkersLeft
    BY <2>2 DEF SensorsLeft, WriterLeft, WorkersLeft, Polling, Running, Scanning, Working
  <2>4. ShuttingDown' /\ MainLeft' < MainLeft
    BY <2>1 DEF SensorsDone, StorageDone, Stop, ShuttingDown, MainLeft
  <2> QED
    BY <2>3, <2>4, <1>a, <1>b, <1>c, Zenon DEF StepsLeft
<1>5. ~Cancel
  BY DEF Cancel, WaitInv
<1>6. ~Finished
  BY DEF Finished
<1> QED
  BY <1>1, <1>2, <1>3, <1>4, <1>5, <1>6 DEF Next

(* The shutdown ends after at most ShutdownBound steps of all goroutines   *)
(* together, counted from when Start leaves its loop: a sensor cannot hold *)
(* it up by filling eventCh, nor a slow save or scan by more work coming   *)
(* in.  With ShutdownNeverStuck it ends in "stopped".                      *)
THEOREM ShutdownIsBounded ==
    SafeSpec => ShutdownCounts /\ [](StepsLeft \in 0 .. ShutdownBound)
<1>1. TypeOK => LeftOK /\ StepsLeft \in 0 .. ShutdownBound
  BY LeftBounds
<1>2. TypeOK /\ LeftOK /\ LeftOK' /\ WaitInv /\ [Next]_vars
      => [ShuttingDown => ShuttingDown' /\ StepsLeft' < StepsLeft]_vars
  BY ShutdownLowers
<1> QED
  BY <1>1, <1>2, TypeCorrect, WaitCorrect, PTL DEF SafeSpec, ShutdownCounts

=============================================================================
